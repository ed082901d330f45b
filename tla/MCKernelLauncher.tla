-------------------------- MODULE MCKernelLauncher --------------------------
(* Objects with any of ten keys, each with up to two inputs, outputs and   *)
(* workspaces, for TLC.                                                    *)
EXTENDS KernelLauncher

\* Five more keys are known: they only fill in a number or a path.  Unknown
\* keys are left out: the comparison of the sort is no order with them.
cJsonOrder ==
    <<"ffts", "input_path", "input_size", "kernel_name", "old_mode", "output_name",
      "output_size", "tiling_data_path", "tiling_key", "workspace_size">>

CONSTANT Absent   \* an object does not have the key

Values ==
    [ffts : {TRUE, Absent}, input_path : {<<"a">>, <<Null, "a">>, Absent},
     input_size : {<<1>>, <<1, 2>>, Absent}, kernel_name : {None, Bad, Absent},
     old_mode : {TRUE, FALSE, Absent}, output_name : {<<"o">>, <<"o", "p">>, Absent},
     output_size : {<<3>>, <<3, 4>>, <<Bad>>, Absent},
     tiling_data_path : {<<"t", 5>>, <<"t">>, Absent}, tiling_key : {TRUE, Absent},
     workspace_size : {<<6, 7>>, Absent}]
cJson == {[key \in {k \in DOMAIN c : c[k] # Absent} |-> c[key]] : c \in Values}

cMayFail == {"GenJson", "rtSetDevice", "rtStreamCreate", "ReadBinary", "rtRegisterAllKernel",
             "rtDevBinaryRegister", "rtFunctionRegister", "aclrtBinaryLoadFromFile",
             "aclrtBinaryGetFunction", "aclrtKernelArgsInit", "rtGetC2cCtrlAddr", "rtMallocHost",
             "rtMalloc", "ReadFile", "rtMemcpy", "rtFree", "launch", "synchronize", "WriteBinary"}
=============================================================================
