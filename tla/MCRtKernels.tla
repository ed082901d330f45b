---------------------------- MODULE MCRtKernels ----------------------------
(* A loading thread and a second one on another device, for TLC.           *)
EXTENDS RtKernels, TLC

CONSTANTS t1, t2, d1, d2

cLoader == {t1}
cDeviceOf == t1 :> d1 @@ t2 :> d2
\* A block count and then a memory chart.
cTodo == {<<>>, <<"BB_COUNT", "CUSTOMIZE">>}
cLaunches == t1 :> 2 @@ t2 :> 1
cSymmetry == Permutations(Code) \cup Permutations(Kernel) \cup Permutations(Handle)
             \cup Permutations(Buffer)

\* The launches are all put through tasks, or all in the stream of a model.
VARIABLE sinks
MCInit == Init /\ sinks \in BOOLEAN
MCNext ==
    /\ Next /\ UNCHANGED sinks
    /\ IF sinks THEN \A t \in Thread : call'[t].todo = <<>> ELSE UNCHANGED callbacks
MCSpec == MCInit /\ [][MCNext]_<<vars, sinks>>
=============================================================================
