---------------------------- MODULE MCProfLaunch ----------------------------
(* Configurations of the profiler on small memories for TLC.               *)
EXTENDS ProfLaunch

cAclHooks == {AclrtLaunchKernel, AclrtLaunchKernelV2, AclrtLaunchKernelWithConfig,
              AclrtLaunchKernelWithHostArgs}

cBase == [mode |-> "kernel", flags |-> {}, warm |-> 1, chip |-> "910B", l2 |-> TRUE, pmus |-> 1, first |-> 0,
          kinds |-> {"plain"}, all |-> TRUE, faults |-> FALSE,
          sections |-> {1, 3}, hooks |-> {AclrtLaunchKernelWithConfig}]
cFlags(c, F) == {[c EXCEPT !.flags = f] : f \in F}

\* Every failure of a call, for kernels that compute only: the backup, the
\* restores of the rounds and the last one, the channels and the launches.
cKernel == cFlags([cBase EXCEPT !.faults = TRUE, !.pmus = 2, !.all = FALSE, !.sections = {1, 2},
                                !.kinds = {"plain", "unknown"},
                                !.hooks = {AclrtLaunchKernelV2, KernelLaunch}],
                  {{}, {"bbcount"}})
\* Every failure of a launch with stubs, in every hook of the two kinds.
cStubs == cFlags([cBase EXCEPT !.faults = TRUE, !.chip = "950", !.l2 = FALSE, !.pmus = 2, !.sections = {1},
                               !.hooks = cAclHooks \cup {KernelLaunch}],
                 {{"pc", "timeline"}, {"timeline", "bbcount", "memchart", "record"}})
\* Kernels that communicate; the application or a range repeated.
cFused == {[cBase EXCEPT !.kinds = {k}] : k \in {"mc2", "lccl"}}
          \cup {[cBase EXCEPT !.kinds = {k}, !.chip = "950", !.l2 = FALSE,
                               !.flags = {"pc", "bbcount"}] : k \in {"mc2", "lccl"}}
cApp == cFlags([cBase EXCEPT !.mode = "app", !.all = FALSE, !.hooks = {KernelLaunch}],
               {{}, {"bbcount"}, {"memchart"}, {"record"}})
        \cup {[cBase EXCEPT !.mode = "app", !.l2 = FALSE, !.first = 1, !.pmus = 2],
               [cBase EXCEPT !.mode = "app", !.l2 = FALSE, !.chip = "950", !.flags = {"timeline"}]}
cRange == {[cBase EXCEPT !.mode = "range", !.l2 = FALSE, !.sections = {1, 2, 3}],
           [cBase EXCEPT !.mode = "range", !.chip = "310P", !.all = FALSE]}

cConfigs == cKernel \cup cStubs \cup cFused \cup cApp \cup cRange

cSection == 1..3
cShared == {3}

\* With stubs the application makes one launch less.
MCNext == Next /\ (cfg \in cStubs => launched' < Launches)
MCSpec == Init /\ [][MCNext]_vars
=============================================================================
