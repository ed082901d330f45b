----------------------------- MODULE ProfLaunch -----------------------------
(***************************************************************************)
(* A launch under the profiler: the profiling branches of the seven launch *)
(* hooks (src/csrc/acl_rt_impl/HijackedFuncOfAclrtLaunchKernel*.cpp and    *)
(* src/csrc/runtime/HijackedFuncOfKernelLaunch*.cpp) around ProfReplay, the *)
(* allocation hooks and the ends of mstx ranges.                           *)
(*                                                                         *)
(* A hook keeps the function and the arguments of its next launch in       *)
(* members; a stub is a function with a buffer, which its arguments name.  *)
(***************************************************************************)
EXTENDS ProfReplay

CONSTANTS Launches,  \* bound on the launches of the application
          MaxRuns    \* bound on the executions of one launch

VARIABLES func,      \* funcHandle_, stubFunc_ or hdl_
          args,      \* argsData_, argsHandle_, hostArgs_, args_ or newArgsInfo_
          ran,       \* function and arguments of the last launch
          result,    \* what the hook returned
          launched   \* the launches so far

vars == <<memoryVars, cfg, launch, phase, replayVars, before,
          func, args, ran, result, launched>>

Plain == [func |-> "plain", args |-> "plain"]

-----------------------------------------------------------------------------
(* The hooks.  unset: the arguments after refreshParamFunc_;               *)
(* stubArgs: those a sampling stub is launched with; early: the arguments  *)
(* already name the buffer when the instrumentation fails; clean: the      *)
(* members are refreshed before the block-count stub; posts: a failed      *)
(* launch is post-processed too.                                           *)

AclrtLaunchKernel ==
    [unset |-> "null", stubArgs |-> "own", early |-> FALSE, clean |-> TRUE, posts |-> FALSE]
AclrtLaunchKernelV2 == [AclrtLaunchKernel EXCEPT !.clean = FALSE]
AclrtLaunchKernelWithConfig == [AclrtLaunchKernel EXCEPT !.unset = "plain", !.early = TRUE]
AclrtLaunchKernelWithHostArgs == [AclrtLaunchKernel EXCEPT !.unset = "plain"]
KernelLaunch ==
    [unset |-> "plain", stubArgs |-> "own", early |-> TRUE, clean |-> TRUE, posts |-> TRUE]
KernelLaunchWithFlagV2 == [KernelLaunch EXCEPT !.stubArgs = "plain"]
KernelLaunchWithHandleV2 == [KernelLaunch EXCEPT !.stubArgs = "plain"]

Hooks == {AclrtLaunchKernel, AclrtLaunchKernelV2, AclrtLaunchKernelWithConfig,
          AclrtLaunchKernelWithHostArgs, KernelLaunch, KernelLaunchWithFlagV2,
          KernelLaunchWithHandleV2}
ASSUME HooksAssumption == \A c \in Configs : c.hooks \subseteq Hooks

hook == launch.hook

\* refreshParamFunc_.
Refreshed_argsOnly == [func |-> func, args |-> hook.unset]
Refreshed == [func |-> "plain", args |-> hook.unset]
Member == [func |-> func, args |-> args]

Becomes(m) == func' = m.func /\ args' = m.args

\* PrepareDbiTaskForInstrProf: the stub and its buffer, or the failure of
\* one of them.
PrepareDbi(mode, ok) ==
    IF ok THEN Becomes([func |-> mode, args |-> mode])
    ELSE \/ Becomes(Refreshed)
         \/ Becomes(IF hook.early THEN [Refreshed EXCEPT !.args = mode] ELSE Refreshed)

Stub(f, a) == [func |-> f, args |-> IF hook.stubArgs = "own" THEN a ELSE hook.stubArgs]

-----------------------------------------------------------------------------
Init ==
    /\ MemoryInit /\ ReplayInit
    /\ launch = [hook |-> AclrtLaunchKernel, kind |-> "plain", simt |-> FALSE, selected |-> FALSE]
    /\ phase = "idle" /\ before = mem
    /\ func = "plain" /\ args = "plain" /\ ran = Plain
    /\ result = "ok" /\ launched = 0

Idle == phase = "idle"
unchangedHook == UNCHANGED <<func, args, ran, launched>>
unchangedLaunch == UNCHANGED <<cfg, launch, before>>

\* aclrtMalloc and aclrtFree; nothing is allocated while a range is captured.
Malloc(s) ==
    /\ Idle /\ ~range.capturing /\ AppendSection(s, ~IsAppReplay /\ ~lccl)
    /\ before' = [before EXCEPT ![s] = 0]
    /\ UNCHANGED <<cfg, launch, phase, replayVars, func, args, ran, result, launched>>

Free(s) ==
    /\ Idle /\ ~range.capturing /\ Discard(s)
    /\ before' = [before EXCEPT ![s] = 0]
    /\ UNCHANGED <<cfg, launch, phase, replayVars, func, args, ran, result, launched>>

HandleSigInt ==
    /\ MayFail /\ ~signal /\ signal' = TRUE
    /\ UNCHANGED <<memoryVars, cfg, launch, phase, task, mc2, lccl, count, l2, range, before,
                   func, args, ran, result, launched>>

MstxRangeAdd ==
    /\ Idle /\ IsRangeReplay /\ ~range.open
    /\ range' = [range EXCEPT !.open = TRUE]
    /\ UNCHANGED <<memoryVars, cfg, launch, phase, task, mc2, lccl, count, l2, signal, before,
                   func, args, ran, result, launched>>

\* InitParam: the new hook object asks the tool about its kernel; a kernel
\* the registry does not know is launched as it is.
InitParam(h, kind, simt, selected) ==
    /\ Idle /\ launched < Launches /\ launched' = launched + 1
    /\ selected => kind # "unknown" /\ (IsRangeReplay => range.open)
    /\ launch' = [hook |-> h, kind |-> kind, simt |-> simt, selected |-> selected]
    /\ before' = mem
    /\ phase' = IF kind = "unknown" THEN "bare" ELSE "sampling"
    /\ func' = "plain" /\ args' = h.unset
    /\ task' = NewTask /\ count' = 0
    /\ UNCHANGED <<memoryVars, cfg, mc2, lccl, l2, signal, range, ran, result>>

-----------------------------------------------------------------------------
(* Pre: the stubs, the replays, the block-count stub.                      *)

\* ProfPreForInstrProf.
RunsStub ==
    /\ InstrProfData
    /\ ran' = IF <<mem', snapshot', task'>> = <<mem, snapshot, task>> THEN ran ELSE Stub(func', args')

Sampling ==
    /\ phase = "sampling" /\ phase' = "timeline"
    /\ IF Flag("pc") /\ launch.simt
       THEN \E ok \in May :
               /\ PrepareDbi("pc", ok)
               /\ IF ok THEN RunsStub ELSE UNCHANGED <<mem, snapshot, lost, task, ran>>
       ELSE UNCHANGED <<func, args, mem, snapshot, lost, task, ran>>
    /\ unchangedLaunch
    /\ UNCHANGED <<live, sections, mc2, lccl, count, l2, signal, range, result, launched>>

\* The timeline stub is run whether or not it could be prepared.
Timeline ==
    /\ phase = "timeline" /\ phase' = "init"
    /\ IF Flag("timeline")
       THEN (\E ok \in May : PrepareDbi("timeline", ok)) /\ RunsStub
       ELSE UNCHANGED <<func, args, mem, snapshot, lost, task, ran>>
    /\ unchangedLaunch
    /\ UNCHANGED <<live, sections, mc2, lccl, count, l2, signal, range, result, launched>>

Initialize ==
    /\ phase = "init" /\ phase' = "data"
    /\ ProfInit
    /\ unchangedHook /\ unchangedLaunch
    /\ UNCHANGED <<memoryVars, task, count, l2, signal, range, result>>

\* ProfData up to its rounds.
Capture ==
    /\ phase = "data" /\ InRange
    /\ \E captured \in BOOLEAN : RangeReplayProfData(captured)
    /\ phase' = "bbcount"
    /\ unchangedHook /\ unchangedLaunch
    /\ UNCHANGED <<memoryVars, task, mc2, lccl, count, l2, signal, result>>

\* No output path, a path that cannot be made, a backup that fails.
NotReplayed ==
    /\ phase = "data" /\ ~InRange
    /\ \/ (~launch.selected \/ MayFail) /\ UNCHANGED snapshot
       \/ launch.selected /\ MayFail /\ Saves /\ BackupStopped(snapshot')
    /\ phase' = "bbcount"
    /\ unchangedHook /\ unchangedLaunch
    /\ UNCHANGED <<mem, live, sections, lost, replayVars, result>>

\* An application replay with stubs needs no rounds.
Replay ==
    /\ phase = "data" /\ ~InRange /\ launch.selected
    /\ IF IsDbi
       THEN /\ phase' = "bbcount"
            /\ mem' = Ran(mem, IF mc2 THEN 1 ELSE 0)
            /\ UNCHANGED <<snapshot, count, l2>>
       ELSE /\ BeforeRounds
            /\ phase' = IF Evicts THEN "evict" ELSE "rounds"
    /\ unchangedHook /\ unchangedLaunch
    /\ UNCHANGED <<live, sections, lost, task, mc2, lccl, signal, range, result>>

\* The round that evicts the L2 cache, and those that count: the start of the
\* channels, the run of the kernel between it and their stop.
EvictEnds == phase' = IF IsAppReplay THEN "bbcount" ELSE "rounds"
unchangedRound ==
    /\ unchangedHook /\ unchangedLaunch
    /\ UNCHANGED <<live, sections, snapshot, lost, mc2, lccl, l2, signal, range, result>>

EvictStarts ==
    /\ phase = "evict" /\ UNCHANGED count
    /\ \/ RoundStarts /\ phase' = "evicting"
       \/ RoundSkipped /\ EvictEnds
    /\ unchangedRound

EvictRuns ==
    /\ phase = "evicting" /\ RoundRuns(TRUE) /\ EvictEnds
    /\ UNCHANGED count /\ unchangedRound

NextRound ==
    IF IsAppReplay THEN phase' = "bbcount" /\ UNCHANGED count
                   ELSE phase' = "rounds" /\ count' = count + 1

Round ==
    /\ phase = "rounds" /\ MoreRounds
    /\ \/ RoundStarts /\ phase' = "measuring" /\ UNCHANGED count
       \/ RoundSkipped /\ NextRound
    /\ unchangedRound

Measure ==
    phase = "measuring" /\ RoundRuns(FALSE) /\ NextRound /\ unchangedRound

RoundsEnd ==
    /\ phase = "rounds" /\ ~MoreRounds /\ phase' = "bbcount"
    /\ Settled /\ FreeL2Cache
    /\ unchangedHook /\ unchangedLaunch
    /\ UNCHANGED <<live, sections, snapshot, task, mc2, lccl, count, signal, range, result>>

\* The task of BBCountDumper: the stub replaces the function first; the
\* arguments follow when its buffer was allocated.
BBCount ==
    /\ phase = "bbcount" /\ phase' = "origin"
    /\ IF IsBBCountNeedGen
       THEN \/ Becomes([func |-> "bbcount", args |-> "bbcount"])
            \/ MayFail /\ Becomes(IF hook.clean THEN Refreshed ELSE Member)
       ELSE UNCHANGED <<func, args>>
    /\ unchangedLaunch
    /\ UNCHANGED <<memoryVars, replayVars, ran, result, launched>>

-----------------------------------------------------------------------------
(* Call and Post.                                                          *)

\* A launch on a captured stream is recorded.
Runs(m) ==
    /\ ran' = m
    /\ IF range.capturing
       THEN range' = [range EXCEPT !.captured = @ + 1] /\ UNCHANGED mem
       ELSE mem' = Ran(mem, 1) /\ UNCHANGED range

Launched == IF args = "null" THEN Plain ELSE Member

\* The original function, with whatever the members hold.
Origin ==
    /\ phase = "origin"
    /\ \/ /\ IsNeedRunOriginLaunch
          /\ Runs(Launched) /\ result' = "ok" /\ phase' = "chart"
       \/ /\ IsNeedRunOriginLaunch /\ MayFail
          /\ result' = "error" /\ phase' = IF hook.posts THEN "chart" ELSE "idle"
          /\ UNCHANGED <<ran, mem, range>>
       \/ /\ ~IsNeedRunOriginLaunch
          /\ result' = "ok" /\ phase' = "chart"
          /\ UNCHANGED <<ran, mem, range>>
    /\ unchangedLaunch
    /\ UNCHANGED <<live, sections, snapshot, lost, task, mc2, lccl, count, l2, signal, func, args, launched>>

\* ProfPost: one more run for each of two stubs, after the application's own.
PostStub(mode, needed) ==
    /\ IF needed
       THEN \E ok \in May :
               /\ PrepareDbi(mode, ok)
               /\ IF ok THEN Runs([func |-> mode, args |-> mode])
                        ELSE UNCHANGED <<ran, mem, range>>
       ELSE UNCHANGED <<func, args, ran, mem, range>>
    /\ unchangedLaunch
    /\ UNCHANGED <<live, sections, snapshot, lost, task, mc2, lccl, count, l2, signal, result, launched>>

MemoryChart ==
    phase = "chart" /\ phase' = "record" /\ PostStub("memchart", IsMemoryChartNeedGen)

OperandRecord ==
    phase = "record" /\ phase' = "idle" /\ PostStub("record", IsOperandRecordNeedGen)

\* A kernel the registry does not know.
Bare ==
    /\ phase = "bare" /\ phase' = "idle"
    /\ \/ Runs(Plain) /\ result' = "ok"
       \/ MayFail /\ result' = "error" /\ UNCHANGED <<ran, mem, range>>
    /\ unchangedLaunch
    /\ UNCHANGED <<live, sections, snapshot, lost, task, mc2, lccl, count, l2, signal, func, args, launched>>

-----------------------------------------------------------------------------
(* MstxRangeEnd.                                                           *)

\* Nothing was captured.
RangeEndsEmpty ==
    /\ Idle /\ range.open /\ ~range.capturing
    /\ range' = AfterRange
    /\ UNCHANGED <<memoryVars, cfg, launch, phase, task, mc2, lccl, count, l2, signal, before,
                   func, args, ran, result, launched>>

\* The capture ends; a range without a selected kernel is not replayed.
RangeEnd ==
    /\ Idle /\ range.capturing /\ before' = mem
    /\ IF range.valid
       THEN /\ RangeBackup /\ l2' \in Prepared
            /\ mem' = Ran(mem, cfg.warm * range.captured)
            /\ phase' = "rangeRounds" /\ task' = NewTask /\ count' = 0
       ELSE phase' = "rangeEnds" /\ UNCHANGED <<mem, snapshot, task, count, l2>>
    /\ unchangedHook
    /\ UNCHANGED <<live, sections, lost, cfg, launch, mc2, lccl, signal, range, result>>

RangeRound ==
    /\ phase = "rangeRounds" /\ RangeRounds
    /\ \/ RangeRoundStarts /\ phase' = "rangeMeasuring" /\ UNCHANGED count
       \/ RangeRoundSkipped /\ count' = count + 1 /\ UNCHANGED phase
    /\ unchangedRound

RangeMeasure ==
    /\ phase = "rangeMeasuring" /\ RangeRoundRuns
    /\ phase' = "rangeRounds" /\ count' = count + 1
    /\ unchangedRound

RangeEnds ==
    /\ phase = "rangeEnds" \/ (phase = "rangeRounds" /\ ~RangeRounds)
    /\ phase' = "idle" /\ range' = AfterRange /\ FreeL2Cache
    /\ unchangedHook /\ unchangedLaunch
    /\ UNCHANGED <<memoryVars, task, mc2, lccl, count, signal, result>>

-----------------------------------------------------------------------------
Pre == Sampling \/ Timeline \/ Initialize \/ Capture \/ NotReplayed \/ Replay
       \/ EvictStarts \/ EvictRuns \/ Round \/ Measure \/ RoundsEnd \/ BBCount
CallAndPost == Origin \/ MemoryChart \/ OperandRecord \/ Bare
RangeReplay == RangeEndsEmpty \/ RangeEnd \/ RangeRound \/ RangeMeasure \/ RangeEnds

Next ==
    \/ \E s \in cfg.sections : Malloc(s) \/ Free(s)
    \/ HandleSigInt \/ MstxRangeAdd
    \/ \E h \in cfg.hooks, kind \in cfg.kinds, simt, selected \in BOOLEAN :
          (cfg.all => selected \/ kind = "unknown") /\ InitParam(h, kind, simt, selected)
    \/ Pre \/ CallAndPost \/ RangeReplay

Spec == Init /\ [][Next]_vars

-----------------------------------------------------------------------------
(* Properties.                                                             *)

\* A launch promises one execution when its kernel computes only and is
\* replayed on restored memory, or when the application is what is repeated
\* and the kernel runs once per application; so does an mstx range whose
\* kernels are all selected.
Exact ==
    \/ cfg.mode = "kernel" /\ cfg.kinds \cap {"mc2", "lccl"} = {}
       /\ cfg.flags \subseteq {"bbcount"}
    \/ cfg.mode = "app" /\ cfg.kinds \cap {"mc2", "lccl"} = {}
       /\ cfg.flags \in {{}, {"bbcount"}, {"memchart"}, {"record"}}
    \/ cfg.mode = "range" /\ cfg.all

Busy == CASE Idle -> "no"
          [] phase \in {"rangeRounds", "rangeMeasuring", "rangeEnds"} -> "range"
          [] OTHER -> "launch"

\* The captured launches that have returned.
Owed == range.captured - (IF range.capturing /\ phase \in {"chart", "record"} THEN 1 ELSE 0)

DM == INSTANCE DeviceMemory WITH
          content <- IF Idle THEN mem ELSE before, alive <- live,
          busy <- Busy, exact <- Exact, owed <- Owed,
          result <- IF Idle THEN result ELSE "none"

\* However often the profiler runs a kernel (the warm-ups, the round that
\* evicts the cache, the counted rounds, the application's own launch), and
\* whichever call fails in between, the application finds the memory that one
\* execution leaves, none if it was told of an error, and the kernels of an
\* mstx range once each after its end (ProfDataCollect.cpp:1077-1112).  What the
\* last Restore of a launch did not copy back is excepted, section by section,
\* until it is freed: the launch goes on (:1108, :1071).
OneExecution == DM!Spec

\* A stub writes its records through the last argument: it is never launched
\* with arguments that name another stub's buffer or none
\* (PrepareDbiTaskForInstrProf, "保证不被上次插桩污染").
StubHasItsBuffer == ran.func # "plain" => ran.args = ran.func

\* Every counted run of a kernel that computes only reads the memory the
\* application left, not what the warm-up, the eviction round, an earlier
\* round or one that was cut short wrote, nor what a failed Restore left
\* (ReplayOnce, ProfDataCollect.cpp:987-991).
RoundsReadTheOriginal ==
    phase \in {"evicting", "measuring"} /\ ~Fused /\ cfg.flags \cap {"pc", "timeline"} = {}
    => \A s \in sections : mem[s] = before[s]

\* A counted round records what it is there for: the counters of its own
\* group, and in the last round the duration, provided that the stubs of the
\* launch had their runs ("DONE 后进入正常 FFTS 重放流程", ProfTask.h:40; "save the
\* last replay duration.bin", ProfTask.cpp:710, 860, 917).  A Restore that fails in
\* the eviction round leaves the L2 events to the first round that is restored,
\* which then records nothing else (ProfDataCollect.cpp:987-991).
StubsRan == StateAt(launch.simt) \in {"DONE", "IDLE"}
EvictsLate == phase = "measuring" /\ Evicts /\ MayFail /\ task.on = {L2CacheTask}
RoundsAreMeasured ==
    phase \in {"measuring", "rangeMeasuring"} /\ StubsRan /\ ~EvictsLate =>
        /\ task.on \cap Counters # {} /\ task.group = count
        /\ IsPmuEventEmpty(count + 1) => task.on \cap Durations # {}

\* The buffers that flush the cache, hundreds of megabytes, and the channels
\* of the driver are given back before the hook returns, whichever phases it
\* went through and whatever failed (FreeL2Cache, ProfTask::Stop).
BuffersReturned == Idle => l2.live = 0 /\ task.on = {}

=============================================================================
