---------------------------- MODULE MCAclKernels ----------------------------
(* A loading thread and a second one on another device, for TLC.           *)
EXTENDS AclKernels, TLC

CONSTANTS t1, t2, d1, d2

cLoader == {t1}
cDeviceOf == t1 :> d1 @@ t2 :> d2
cSymmetry == Permutations(Code) \cup Permutations(Name) \cup Permutations(BinHandle)
                 \cup Permutations(FuncHandle)
=============================================================================
