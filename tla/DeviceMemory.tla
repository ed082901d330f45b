---------------------------- MODULE DeviceMemory ----------------------------
(***************************************************************************)
(* What an application may rely on while its kernels are profiled: the     *)
(* profiler runs a kernel as often as it likes inside a launch, but the    *)
(* memory the application sees afterwards is that of one execution.        *)
(*                                                                         *)
(* The content of a section is the number of kernels it has been through:  *)
(* every kernel is taken to read and write all of it.                      *)
(***************************************************************************)
EXTENDS Naturals

CONSTANTS Section,  \* the addresses of device memory
          Shared,   \* those allocated with a P2P policy
          MaxRuns   \* bound on the executions of one launch

VARIABLES content,  \* what the application finds in each section
          alive,    \* the sections that are allocated
          busy,     \* "no", or what the application has called
          exact,    \* whether the call promises exactly one execution
          owed,     \* launches of a captured range that have not run yet
          lost,     \* the sections that could not be put back in a launch
          result    \* how the last call ended

vars == <<content, alive, busy, exact, owed, lost, result>>

Init ==
    /\ content = [s \in Section |-> 0] /\ alive = {}
    /\ busy = "no" /\ exact \in BOOLEAN
    /\ owed = 0 /\ lost = {} /\ result = "ok"

\* aclrtMalloc and aclrtFree.
Alloc(s) ==
    /\ busy = "no" /\ s \notin alive
    /\ alive' = alive \cup {s} /\ content' = [content EXCEPT ![s] = 0] /\ lost' = lost \ {s}
    /\ UNCHANGED <<busy, exact, owed, result>>

Free(s) ==
    /\ busy = "no" /\ s \in alive
    /\ alive' = alive \ {s} /\ content' = [content EXCEPT ![s] = 0] /\ lost' = lost \ {s}
    /\ UNCHANGED <<busy, exact, owed, result>>

\* A launch, or the end of a captured range, begins.
Enter(what) ==
    /\ busy = "no" /\ busy' = what
    /\ exact' \in BOOLEAN /\ result' = "none"
    /\ UNCHANGED <<content, alive, owed, lost>>

\* The profiler cannot restore some sections: nothing is promised of them until
\* they are freed, and of the others what is always promised.
Lose ==
    /\ busy = "launch" /\ lost' \in {lost \cup S : S \in SUBSET (alive \ Shared)}
    /\ UNCHANGED <<content, alive, busy, exact, owed, result>>

\* How often a kernel may have gone through section s when its launch is over.
Times(s) ==
    CASE exact /\ s \notin Shared -> IF result' = "ok" THEN {1} ELSE {0}
      [] result' = "ok"           -> 1..MaxRuns
      [] OTHER                    -> 0..MaxRuns

Leave ==
    /\ busy # "no" /\ busy' = "no"
    /\ result' \in {"ok", "error"}
    /\ UNCHANGED <<alive, exact, lost>>
    /\ \/ \* the kernel has run
          /\ busy = "launch"
          /\ \A s \in alive \ lost : content'[s] \in {content[s] + n : n \in Times(s)}
          /\ UNCHANGED owed
       \/ \* the kernel is part of a range and runs at its end
          /\ busy = "launch" /\ owed' = owed + 1
          /\ UNCHANGED content
       \/ \* the range has run
          /\ busy = "range" /\ owed' = 0
          /\ \A s \in alive \ lost : content'[s] >= content[s]
          /\ exact => \A s \in alive \ (Shared \cup lost) : content'[s] = content[s] + owed

Next == \/ \E s \in Section : Alloc(s) \/ Free(s)
        \/ Enter("launch") \/ Enter("range")
        \/ Lose \/ Leave

Spec == Init /\ [][Next]_vars
=============================================================================
