----------------------------- MODULE ProfReplay -----------------------------
(***************************************************************************)
(* DataCollectInDevice: how a selected kernel is run again and again inside *)
(* one launch, on memory that is saved before and restored between the      *)
(* runs (runtime/inject_helpers/ProfDataCollect.cpp).  The hooks that call  *)
(* it, and so the order of the phases, are in ProfLaunch.                   *)
(*                                                                         *)
(* One thread of the application.  A call of the driver or the runtime may *)
(* fail where cfg.faults is set, the copies of Backup and Restore included. *)
(***************************************************************************)
EXTENDS MemoryContext, ProfTask

CONSTANT SamplingRuns   \* the warm-up of the sampling stub (20 in the code)

ASSUME SamplingAssumption == SamplingRuns \in Nat
ASSUME SectionsAssumption == \A c \in Configs : c.sections \subseteq Section

VARIABLES
    launch,    \* the launch in progress: hook, kernel kind, SIMT, selected
    phase,     \* where it is
    mc2, lccl, \* the flags of KernelContext's device context
    count,     \* replayCount_
    l2,        \* the buffers of L2cacheParam: live, and freed but still named
    signal,    \* g_receiveSignal
    range,     \* the thread's RangeReplayConfig and its mstx range
    before     \* the memory when the launch began

replayVars == <<task, mc2, lccl, count, l2, signal, range>>

NoBuffers == [live |-> 0, dangling |-> 0]
NoRange == [open |-> FALSE, capturing |-> FALSE, valid |-> FALSE, captured |-> 0]

ReplayInit ==
    /\ cfg \in Configs
    /\ mc2 = FALSE /\ lccl = FALSE /\ signal = FALSE
    /\ task = NewTask /\ count = 0 /\ l2 = NoBuffers /\ range = NoRange

IsAppReplay == cfg.mode = "app"
IsRangeReplay == cfg.mode = "range"
IsDbi == IsAppReplay /\ cfg.flags \ {"timeline"} # {}
InRange == IsRangeReplay /\ range.open

\* Kernels that compute and communicate are replayed by every rank at once
\* and are never restored.
Fused == mc2 \/ lccl
Restores == ~IsAppReplay /\ ~Fused

-----------------------------------------------------------------------------
(* The flags of the kernel, set when its files are dumped.                 *)

LcclAfter == lccl \/ launch.kind = "lccl"

ProfInit ==
    IF launch.selected
    THEN mc2' = (launch.kind = "mc2") /\ lccl' = LcclAfter
    ELSE UNCHANGED <<mc2, lccl>>

IsBBCountNeedGen == Flag("bbcount") /\ launch.selected /\ ~Fused
IsMemoryChartNeedGen == Flag("memchart") /\ launch.selected /\ ~Fused
IsOperandRecordNeedGen == Flag("record") /\ launch.selected /\ ~Fused /\ ~IsRangeReplay

IsNeedRunOriginLaunch ==
    /\ ~Fused
    /\ launch.selected => ~(cfg.flags # {"bbcount"} /\ IsAppReplay)

-----------------------------------------------------------------------------
(* InstrProfData: one run of a stub that samples the program counter or    *)
(* marks the ends of the kernel.  A run that succeeds is not undone; one    *)
(* that fails, before or after the kernel ran, is, if Restore succeeds.     *)

WarmUps(n) == IF n = 0 \/ Fused \/ IsAppReplay THEN 0 ELSE n
InstrWarmUps == IF Flag("pc") THEN WarmUps(SamplingRuns) ELSE 0

KernelLaunchForInstrProf ==
    LET warmed == Ran(mem, InstrWarmUps)
    IN \/ mem' = warmed /\ task' \in StartedInVain(count, launch.simt, mc2) /\ UNCHANGED lost
       \/ /\ task' \in {Stopped(t, mc2) : t \in Started(count, launch.simt, mc2)}
          /\ \/ mem' = Ran(warmed, 1) /\ UNCHANGED lost
             \/ MayFail /\ ~Restores /\ mem' = warmed /\ UNCHANGED lost
             \/ MayFail /\ Restores /\ \E n \in 0..1 : PutBack(mem, Ran(warmed, n), MayFail)

InstrProfData ==
    IF IsRangeReplay \/ ~launch.selected THEN UNCHANGED <<mem, snapshot, lost, task>>
    ELSE \/ MayFail /\ UNCHANGED <<mem, snapshot, lost, task>>
         \/ MayFail /\ Restores /\ BackupStopped(snapshot') /\ UNCHANGED <<mem, lost, task>>
         \/ /\ IF Restores THEN BackedUp(snapshot') ELSE UNCHANGED snapshot
            /\ KernelLaunchForInstrProf

-----------------------------------------------------------------------------
(* The buffers that flush the L2 cache.                                    *)

\* Which buffers a call leaves, the last case alone being a success: one of
\* four allocations fails; two more and a copy, with what came last freed.
Prepared ==
    {[live |-> 5, dangling |-> 0]} \cup
    IF MayFail
    THEN {[live |-> n, dangling |-> 0] : n \in 0..3}
         \cup {[live |-> 3, dangling |-> 1], [live |-> 3, dangling |-> 2]}
    ELSE {}

PrepareWanted_always == TRUE
PrepareWanted == ~IsAppReplay
PrepareClearL2CacheParam ==
    IF PrepareWanted THEN l2' \in Prepared ELSE l2' = NoBuffers

FreeL2Cache == l2' = NoBuffers

-----------------------------------------------------------------------------
(* ProfData: the kernel is captured, or replayed.                          *)

\* In an mstx range the first kernel begins the capture.
RangeReplayProfData(captured) ==
    /\ range.capturing => captured
    /\ captured \in May \cup {range.capturing}
    /\ range' = IF captured
                THEN [range EXCEPT !.capturing = TRUE, !.valid = @ \/ launch.selected]
                ELSE range

Saves == ~IsAppReplay /\ ~lccl

\* The part of ProfData before the rounds: save, run an MC2 kernel once,
\* allocate, warm up.  An MC2 kernel is saved although it is not restored.
BeforeRounds ==
    /\ IF Saves THEN BackedUp(snapshot') ELSE UNCHANGED snapshot
    /\ PrepareClearL2CacheParam
    /\ mem' = Ran(mem, (IF mc2 THEN 1 ELSE 0) + WarmUps(cfg.warm))
    /\ count' = IF IsAppReplay THEN cfg.first ELSE 0

\* SupportProfL2CacheEvict: a round before the first records the L2 events.
Evicts == cfg.chip = "910B" /\ cfg.l2

\* ReplayOnce up to the launch of the kernel, or without one; the rounds of an
\* lccl kernel that follow the eviction round have warm-ups of their own.
Replayed_noRestore == mem
Replayed == IF Restores THEN Restored ELSE mem

NothingToMeasure == IsPmuEventEmpty(count) /\ count # 0
Restorable == Restores => CanRestore

RoundStarts ==
    /\ ~NothingToMeasure /\ Restorable /\ mem' = Replayed
    /\ task' \in Started(count, launch.simt, mc2)

RoundSkipped ==
    \/ NothingToMeasure /\ UNCHANGED <<mem, task>>
    \/ /\ ~NothingToMeasure /\ Restores /\ RestoreStopped(snapshot, mem, mem', MayFail)
       /\ UNCHANGED task
    \/ /\ ~NothingToMeasure /\ Restorable /\ mem' = Replayed
       /\ task' \in StartedInVain(count, launch.simt, mc2)

\* The kernel's launch, which may fail, and StopProf.
RoundRuns(evicting) ==
    /\ \E ran \in May :
          mem' = Ran(mem, (IF lccl /\ ~evicting THEN cfg.warm ELSE 0) + (IF ran THEN 1 ELSE 0))
    /\ task' = Stopped(task, mc2)

MoreRounds == count < Rounds /\ ~signal

\* After the rounds the memory is what it was before them, if Restore succeeds:
\* its outcome is not looked at.
Settled_dirty == UNCHANGED <<mem, lost>>
Settled == IF Fused THEN UNCHANGED <<mem, lost>> ELSE PutBack(snapshot, mem, MayFail)

-----------------------------------------------------------------------------
(* RangeReplay: the captured kernels, at the end of their range.           *)

\* The outcome of the backup is not looked at.
RangeBackup ==
    \/ BackedUp(snapshot')
    \/ MayFail /\ BackupStopped(snapshot')

RangeRounds == count < Rounds /\ ~signal /\ ~(count # 0 /\ IsPmuEventEmpty(count))

RangeRoundStarts ==
    CanRestore /\ mem' = Restored /\ task' \in Started(count, launch.simt, mc2)

RangeRoundSkipped ==
    \/ RestoreStopped(snapshot, mem, mem', MayFail) /\ UNCHANGED task
    \/ CanRestore /\ mem' = Restored /\ task' \in StartedInVain(count, launch.simt, mc2)

RangeRoundRuns ==
    /\ \E executed \in May : mem' = Ran(mem, IF executed THEN range.captured ELSE 0)
    /\ task' = Stopped(task, mc2)

\* ResetRangeConfig, and the range is closed.
AfterRange == NoRange
=============================================================================
