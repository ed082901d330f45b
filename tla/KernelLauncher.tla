--------------------------- MODULE KernelLauncher ---------------------------
(***************************************************************************)
(* The kernel-launcher tool runs one kernel from a file: main parses a     *)
(* JSON object of strings into the kernel's parameters, then KernelRunner  *)
(* (runtime calls) or Launcher (acl calls) fills a buffer for each, starts *)
(* the kernel, saves its outputs, and gives back in its destructor what it *)
(* noted down.                                                             *)
(*                                                                         *)
(* A run is the list of the calls it makes, each with what it gets, notes  *)
(* down, frees and copies; the first that fails ends it.  None is a size   *)
(* nothing was assigned to: it may have any value.                         *)
(***************************************************************************)
EXTENDS Naturals, Sequences, FiniteSets, SequencesExt, FiniteSetsExt

CONSTANTS Json,      \* the objects: functions on some of the keys
          JsonOrder, \* the keys as the library lists them: alphabetically
          Present,   \* the kernel's own JSON file may be there already
          MayFail,   \* calls that may fail
          Null,      \* the input path "n": no buffer
          Bad,       \* a size that is no number
          None

-----------------------------------------------------------------------------
(* KernelConfigParser.                                                     *)

ArgsOrder_outputsFirst ==
    [ffts |-> 3, input_path |-> 11, input_size |-> 12, kernel_name |-> 6, output_name |-> 9,
     output_size |-> 10, workspace_size |-> 13, tiling_data_path |-> 14, tiling_key |-> 15,
     old_mode |-> 16]
ArgsOrder ==
    [ffts |-> 3, input_path |-> 4, input_size |-> 5, kernel_name |-> 6, output_name |-> 9,
     output_size |-> 10, workspace_size |-> 11, tiling_data_path |-> 12, tiling_key |-> 13,
     old_mode |-> 14]
Known == DOMAIN ArgsOrder

Cmp(a, b) == a \notin Known \/ b \notin Known \/ ArgsOrder[a] < ArgsOrder[b]

\* std::sort on at most sixteen items is an insertion sort.
Inserted(sorted, x) ==
    IF sorted = <<>> \/ Cmp(x, sorted[1]) THEN <<x>> \o sorted
    ELSE InsertAt(sorted, 1 + Max({i \in DOMAIN sorted : ~Cmp(x, sorted[i])}), x)

Sorted(json) ==
    FoldLeft(Inserted, <<>>, SelectSeq(JsonOrder, LAMBDA key : key \in DOMAIN json))

Start == [params |-> <<>>, inputCount |-> 0, outputCount |-> 0, hasTilingKey |-> FALSE,
          isOldVersion |-> TRUE, ok |-> TRUE]
Fail(config) == [config EXCEPT !.ok = FALSE]
Params(type, names, sizes) ==
    [i \in DOMAIN names |-> [type |-> type, name |-> names[i], dataSize |-> sizes[i]]]
Unsized(names) == [i \in DOMAIN names |-> None]
Added(config, params) == [config EXCEPT !.params = @ \o params]

Resized(config, type, sizes) ==
    LET number(i) == Cardinality({j \in 1..i : config.params[j].type = type})
    IN  [config EXCEPT !.params =
            [i \in DOMAIN @ |-> IF @[i].type = type
                                THEN [@[i] EXCEPT !.dataSize = sizes[number(i)]] ELSE @[i]]]

SetInputPath(config, paths) ==
    IF paths = <<>> THEN Fail(config)
    ELSE [Added(config, Params("input", paths, Unsized(paths))) EXCEPT !.inputCount = Len(paths)]

SetInputSize(config, sizes) ==
    IF config.inputCount = 0 \/ Len(sizes) # config.inputCount \/ Bad \in ToSet(sizes)
    THEN Fail(config) ELSE Resized(config, "input", sizes)

SetOutputName(config, names) ==
    [Added(config, Params("output", names, Unsized(names))) EXCEPT !.outputCount = Len(names)]

SetOutputSize(config, sizes) ==
    IF config.outputCount = 0 THEN config
    ELSE IF Len(sizes) # config.outputCount \/ Bad \in ToSet(sizes) THEN Fail(config)
    ELSE Resized(config, "output", sizes)

SetWorkspaceSize(config, sizes) ==
    IF Bad \in ToSet(sizes) THEN Fail(config)
    ELSE Added(config, Params("workspace", Unsized(sizes), sizes))

\* A path and a size, or nothing.
SetTilingDataPath(config, tiling) ==
    IF tiling = <<>> THEN config
    ELSE IF Len(tiling) < 2 \/ tiling[2] = Bad THEN Fail(config)
    ELSE Added(config, Params("tiling", <<tiling[1]>>, <<tiling[2]>>))

SetTilingKey(config, arg) == [config EXCEPT !.hasTilingKey = @ \/ arg]

SetArg(config, key, arg) ==
    CASE key = "ffts" -> IF arg THEN Added(config, Params("fftsAddr", <<None>>, <<64>>)) ELSE config
      [] key = "input_path" -> SetInputPath(config, arg)
      [] key = "input_size" -> SetInputSize(config, arg)
      [] key = "output_name" -> SetOutputName(config, arg)
      [] key = "output_size" -> SetOutputSize(config, arg)
      [] key = "workspace_size" -> SetWorkspaceSize(config, arg)
      [] key = "tiling_data_path" -> SetTilingDataPath(config, arg)
      [] key = "tiling_key" -> SetTilingKey(config, arg)
      [] key = "old_mode" -> [config EXCEPT !.isOldVersion = arg]
      [] key = "kernel_name" -> IF arg = Bad THEN Fail(config) ELSE config
      [] OTHER -> config

GetKernelConfig(json) ==
    FoldLeft(LAMBDA config, key : IF config.ok THEN SetArg(config, key, json[key]) ELSE config,
             Start, Sorted(json))

-----------------------------------------------------------------------------
(* The calls of a run.                                                     *)

Do(name) == [name |-> name, gets |-> {}, notes |-> {}, puts |-> {}, copies |-> <<>>,
             arg |-> <<>>, tiling |-> FALSE, writes |-> <<>>]
Get(name, what) == [Do(name) EXCEPT !.gets = {what}, !.notes = {what}]
Copy(name, to, from) == [Do(name) EXCEPT !.copies = <<to, from>>]
Push(call, arg) == [call EXCEPT !.arg = <<arg>>]
Host(i) == <<"host", i>>
Dev(i) == <<"dev", i>>
File(path) == <<"file", path>>
NoBuffer == <<"null", 0>>
C2cCtrlAddr == <<"ffts", 0>>
Device == <<"device", 0>>
Stream == <<"stream", 0>>
Binary == <<"binary", 0>>
JsonFile == <<"json", 0>>

InitInput(i, param) ==
    IF param.name = Null THEN <<Push(Do("none"), NoBuffer)>>
    ELSE <<Get("rtMallocHost", Host(i)), Copy("ReadFile", Host(i), File(param.name)),
           Get("rtMalloc", Dev(i)), Push(Copy("rtMemcpy", Dev(i), Host(i)), Dev(i))>>

InitTiling(i, param) ==
    <<Get("rtMallocHost", Host(i)), Copy("ReadFile", Host(i), File(param.name)),
      Get("rtMalloc", Dev(i)),
      [Push(Copy("rtMemcpy", Dev(i), Host(i)), Dev(i)) EXCEPT !.tiling = TRUE]>>

InitOutput(i) == <<Get("rtMallocHost", Host(i)), Push(Get("rtMalloc", Dev(i)), Dev(i))>>
InitWorkspace(i) == <<Push(Get("rtMalloc", Dev(i)), Dev(i))>>

\* KernelRunner alone passes the address: by value with a tiling key, else in a
\* buffer it does not note down.
InitFftsAddr(i, config) ==
    IF ~config.isOldVersion THEN <<>>
    ELSE IF config.hasTilingKey THEN <<Push(Do("rtGetC2cCtrlAddr"), C2cCtrlAddr)>>
    ELSE <<Do("rtGetC2cCtrlAddr"), [Do("rtMallocHost") EXCEPT !.gets = {Host(i)}],
           [Do("rtMalloc") EXCEPT !.gets = {Dev(i)}], Push(Copy("rtMemcpy", Dev(i), C2cCtrlAddr), Dev(i)),
           [Do("rtFree") EXCEPT !.puts = {Host(i)}]>>

InitData(config, i) ==
    LET param == config.params[i]
    IN  CASE param.type = "input" -> InitInput(i, param)
          [] param.type = "output" -> InitOutput(i)
          [] param.type = "tiling" -> InitTiling(i, param)
          [] param.type = "workspace" -> InitWorkspace(i)
          [] param.type = "fftsAddr" -> InitFftsAddr(i, config)

InitDatas(config) == FlattenSeq([i \in DOMAIN config.params |-> InitData(config, i)])

BinaryLoad == <<Get("aclrtBinaryLoadFromFile", Binary), Do("aclrtBinaryGetFunction"),
                Do("aclrtKernelArgsInit")>>

RegisterKernel(config) ==
    IF ~config.isOldVersion THEN BinaryLoad
    ELSE IF config.hasTilingKey THEN <<Get("rtRegisterAllKernel", Binary)>>
    ELSE <<[Do("rtDevBinaryRegister") EXCEPT !.gets = {Binary}],
           [Do("rtFunctionRegister") EXCEPT !.notes = {Binary}]>>

LaunchKernel_noSync(config) == <<Do("launch")>>
LaunchKernel(config) == <<Do("launch"), Do("synchronize")>>

Outputs(config) == SelectSeq([i \in DOMAIN config.params |-> i],
                             LAMBDA i : config.params[i].type = "output")

SaveOutputs(config) ==
    FlattenSeq([n \in DOMAIN Outputs(config) |->
        LET i == Outputs(config)[n]
        IN  <<Copy("rtMemcpy", Host(i), Dev(i)),
              [Do("WriteBinary") EXCEPT !.writes = <<config.params[i].name, Host(i)>>]>>])

\* The name of a parameter is asked where the parser sets the type.
IntercoreSync(config) == <<"intercoreSync", \E p \in ToSet(config.params) : p.name = "fftsAddr">>

GenJson(config, there) ==
    IF config.isOldVersion \/ there THEN <<>>
    ELSE <<[Get("GenJson", JsonFile) EXCEPT !.copies = <<JsonFile, IntercoreSync(config)>>]>>

Script(config, there) ==
    GenJson(config, there) \o <<Get("rtSetDevice", Device), Get("rtStreamCreate", Stream)>>
        \o (IF config.isOldVersion THEN <<Do("ReadBinary")>> ELSE <<>>)
        \o RegisterKernel(config) \o InitDatas(config) \o LaunchKernel(config) \o SaveOutputs(config)

-----------------------------------------------------------------------------
VARIABLES json, there, config,
          todo,     \* the calls to make
          held,     \* what the calls got and nobody gave back
          noted,    \* the flags and vectors of the object
          kernelArgs, tilingAddrOffset,
          content,  \* of buffers
          saved,    \* the files written
          kernel    \* "no", "running", "ended"

vars == <<json, there, config, todo, held, noted, kernelArgs, tilingAddrOffset, content, saved, kernel>>

Init ==
    /\ json \in Json /\ there \in Present
    /\ config = GetKernelConfig(json)
    /\ todo = IF config.ok THEN Script(config, there) ELSE <<>>
    /\ held = {} /\ noted = {}
    /\ kernelArgs = <<>> /\ tilingAddrOffset = 0
    /\ content = <<>> /\ saved = <<>> /\ kernel = "no"

\* A file of the user holds what its path stands for.
Value(x) == IF x \in DOMAIN content THEN content[x] ELSE x
With(f, x, value) == [y \in {x} \cup DOMAIN f |-> IF y = x THEN value ELSE f[y]]

Succeeds ==
    LET call == Head(todo)
    IN  /\ todo # <<>>
        /\ call.name = "synchronize" => kernel = "ended"
        /\ todo' = Tail(todo)
        /\ held' = (held \cup call.gets) \ call.puts
        /\ noted' = noted \cup call.notes
        /\ tilingAddrOffset' = IF call.tiling THEN Len(kernelArgs) ELSE tilingAddrOffset
        /\ kernelArgs' = kernelArgs \o call.arg
        /\ content' = IF call.copies = <<>> THEN content
                      ELSE With(content, call.copies[1], Value(call.copies[2]))
        /\ saved' = IF call.writes = <<>> THEN saved
                    ELSE With(saved, call.writes[1], Value(call.writes[2]))
        /\ kernel' = IF call.name = "launch" THEN "running" ELSE kernel
        /\ UNCHANGED <<json, there, config>>

\* A JSON file that cannot be written is only warned of.
Fails ==
    /\ todo # <<>> /\ Head(todo).name \in MayFail
    /\ todo' = IF Head(todo).name = "GenJson" THEN Tail(todo) ELSE <<>>
    /\ kernel' = IF Head(todo).name = "synchronize" THEN "ended" ELSE kernel
    /\ UNCHANGED <<json, there, config, held, noted, kernelArgs, tilingAddrOffset, content, saved>>

\* The kernel reads its arguments and writes its outputs.
KernelEnds ==
    /\ kernel = "running"
    /\ content' = [x \in {Dev(i) : i \in ToSet(Outputs(config))} \cup DOMAIN content |->
                      IF x \in DOMAIN content THEN content[x]
                      ELSE <<"result", config.params[x[2]].name>>]
    /\ kernel' = "ended"
    /\ UNCHANGED <<json, there, config, todo, held, noted, kernelArgs, tilingAddrOffset, saved>>

\* rtKernelLaunchWithHandleV2 is always told there is tiling data, and which
\* argument is its address; the other calls are not.
TilingAddr ==
    IF config.isOldVersion /\ config.hasTilingKey THEN {tilingAddrOffset} ELSE {}

IsOutput(x) == x[2] \in ToSet(Outputs(config))
DevInputs == {x \in noted : \E i \in DOMAIN config.params : x = Dev(i) /\ ~IsOutput(x)}
HostInputs == {x \in noted : \E i \in DOMAIN config.params : x = Host(i) /\ ~IsOutput(x)}
DevOutputs == {x \in noted : \E i \in DOMAIN config.params : x = Dev(i) /\ IsOutput(x)}
HostOutputs == {x \in noted : \E i \in DOMAIN config.params : x = Host(i) /\ IsOutput(x)}

\* The destructor, in its order.
Destroyed == <<{Binary}, {Stream}, DevInputs, HostInputs, DevOutputs, HostOutputs,
               {Device}, {JsonFile}>>

Release ==
    /\ todo = <<>> /\ noted # {}
    /\ LET next == CHOOSE n \in DOMAIN Destroyed :
               /\ Destroyed[n] \cap noted # {}
               /\ \A m \in 1..n - 1 : Destroyed[m] \cap noted = {}
       IN  /\ held' = held \ Destroyed[next]
           /\ noted' = noted \ Destroyed[next]
    /\ UNCHANGED <<json, there, config, todo, kernelArgs, tilingAddrOffset, content, saved, kernel>>

Next == Succeeds \/ Fails \/ KernelEnds \/ Release

Spec == Init /\ [][Next]_vars

-----------------------------------------------------------------------------
(* What must hold.                                                         *)

Arg(key) == IF key \in DOMAIN json THEN json[key] ELSE <<>>
Told(key) == key \in DOMAIN json /\ json[key]
Sizes(key, names) == IF key \in DOMAIN json THEN json[key] ELSE Unsized(names)

\* What the kernel is compiled to find: the control address, its inputs, its
\* outputs, its workspaces and its tiling data, each with the size given for
\* it if one is.
Expected ==
    (IF Told("ffts") THEN Params("fftsAddr", <<None>>, <<64>>) ELSE <<>>)
        \o Params("input", Arg("input_path"), Sizes("input_size", Arg("input_path")))
        \o Params("output", Arg("output_name"), Sizes("output_size", Arg("output_name")))
        \o Params("workspace", Unsized(Arg("workspace_size")), Arg("workspace_size"))
        \o (IF Arg("tiling_data_path") = <<>> THEN <<>>
            ELSE Params("tiling", <<Arg("tiling_data_path")[1]>>, <<Arg("tiling_data_path")[2]>>))

IsArg(arg, param) ==
    CASE param.type = "fftsAddr" -> Value(arg) = C2cCtrlAddr
      [] param.name = Null -> arg = NoBuffer
      [] param.type \in {"input", "tiling"} -> Value(arg) = File(param.name)
      [] OTHER -> arg \in held /\ config.params[arg[2]] = param

\* While the kernel runs its arguments are its parameters, each in its place
\* with its size and its data, in buffers that are still held, whichever of
\* the keys the object has; if there is tiling data, it is where the launch
\* says.  (Without any, a launch with a tiling key names the first argument.)
\* KernelConfigParser.cpp:51-366, KernelRunner.cpp:69-240, Launcher.cpp:75-199.
ArgsAreTheParams ==
    kernel = "running" =>
        LET passed == SelectSeq(Expected, LAMBDA p : config.isOldVersion \/ p.type # "fftsAddr")
        IN  /\ config.params = Expected
            /\ Len(kernelArgs) = Len(passed)
            /\ \A i \in DOMAIN passed : IsArg(kernelArgs[i], passed[i])
            /\ \A x \in ToSet(kernelArgs) \ {NoBuffer, C2cCtrlAddr} : x \in held
            /\ {Device, Stream, Binary} \subseteq held
            /\ Arg("tiling_data_path") # <<>> =>
                  \A i \in TilingAddr : passed[i + 1].type = "tiling"

\* What is written for an output is what the kernel left in that output's
\* buffer (KernelRunner.cpp:242-264, Launcher.cpp:201-219).
SavedIsTheResult ==
    \A name \in DOMAIN saved : saved[name] = <<"result", name>>

=============================================================================
