---------------------------- MODULE MCKernelArgs ----------------------------
(* A kernel of each interface and two addresses, for TLC: every task in    *)
(* three launches, in two once a parameter was too large to be cached.     *)
EXTENDS KernelArgs, TLC

CONSTANTS kHandle, kHost, kDevice

cInterface == kHandle :> "handle" @@ kHost :> "host" @@ kDevice :> "device"
\* Two pointers, the overflow slot and three units of data; three units.
cLayout == kHandle :> [size |-> 0, holders |-> <<>>]
           @@ kHost :> [size |-> 9, holders |-> <<[addr |-> 2, data |-> 6], [addr |-> 0, data |-> 8]>>]
           @@ kDevice :> [size |-> 3, holders |-> <<>>]
\* Every task on every interface.
cStubs == {"handle", "host", "device"} \X {"CUSTOMIZE", "BB_COUNT", "SANITIZER"}
cSymmetry == Permutations(Address) \cup Permutations(Value \ Oversized)

Large == \E a \in Address : given[a] # None /\ given[a].large
MCNext == Next /\ (Large' => nr'.launches < Launches)
MCSpec == Init /\ [][MCNext]_vars
=============================================================================
