--------------------------- MODULE MCMemoryHooks ---------------------------
(* Two threads that share one driver, for TLC.                             *)
EXTENDS MemoryHooks, TLC

cMayFail == {"rtMalloc", "aclrtMallocImpl", "aclrtMapMemImpl", "rtIpcOpenMemory",
             "aclrtIpcMemGetExportKeyImpl"}

cSymmetry == Permutations(Thread) \cup Permutations(Device) \cup Permutations(Window) \cup Permutations(Key)
=============================================================================
