------------------------------ MODULE ProfTask ------------------------------
(***************************************************************************)
(* The channels of the driver that record one run of a kernel, and which   *)
(* of them a ProfTask opens and closes for it                              *)
(* (runtime/inject_helpers/ProfTask.cpp; DataCollectInDevice::StartProf).  *)
(*                                                                         *)
(* A task is made with the object that handles a launch or a range.  Its   *)
(* state carries from one profiled run to the next; what the task of each  *)
(* chip does with it differs.  The rounds record one group of PMU events   *)
(* each; the last of them also records the duration of the kernel, and the *)
(* runs of the two sampling stubs record nothing else.                     *)
(***************************************************************************)
EXTENDS Naturals, Sequences

CONSTANTS Configs,       \* what the tool may have sent, and what the application uses
          Rounds         \* GetReplayTimes

ASSUME RoundsAssumption == Rounds \in Nat \ {0}

\* The groups of events fit the rounds: the table holds Rounds of them.
ASSUME ConfigsAssumption ==
    \A c \in Configs :
        /\ c.mode \in {"kernel", "app", "range"} /\ c.chip \in {"910B", "310P", "950"}
        /\ c.l2 \in BOOLEAN /\ c.faults \in BOOLEAN
        /\ c.pmus \in 0..Rounds /\ c.first \in Nat /\ c.warm \in Nat

VARIABLES
    cfg,       \* ProfConfig: mode, dbi flags, warm-up, PMU groups, chip, L2 events
    task       \* the ProfTask of the launch or range in progress

\* The channels, by the classes whose GetTask configures them: the counters
\* of a group of events, the task log with its durations, the L2 events, the
\* log of the AICPU, the groups of channels of the two sampling stubs.
FftsTask == "ffts"
FftsA5Task == FftsTask
AiCoreTask == "aicore"
StarsTask == "stars"
HwtsTask == "hwts"
L2CacheTask == "tsfw"
AicpuTask == "aicpu"
InstrProfTask == "instr"

Counters == {FftsTask, AiCoreTask}
Durations == {StarsTask, HwtsTask}

May == IF cfg.faults THEN BOOLEAN ELSE {TRUE}
MayFail == cfg.faults
Flag(f) == f \in cfg.flags
IsPmuEventEmpty(n) == n >= cfg.pmus

\* on: the channels that are open; group: the events the counters were opened
\* for; started: isStarsStart_, isHwtsStart_, isAiCoreStart_, isL2CacheStart_;
\* last: isLastReplay_; l2: l2CachePmu[0] # 0; state: instrProfState_.
NewTask == [on |-> {}, group |-> 0, started |-> {}, last |-> FALSE,
            l2 |-> cfg.l2, state |-> "IDLE"]

-----------------------------------------------------------------------------
(* The channels a run asks for, in the order in which they are opened.     *)

\* There are Rounds groups at most, so the last one is an empty group's
\* predecessor too.
Last_late(n) == IsPmuEventEmpty(n)
Last(n) == IsPmuEventEmpty(n + 1)

Channel(wanted, ch) == IF wanted THEN <<ch>> ELSE <<>>
Unstarted(ch) == ch \notin task.started

\* The state in which a run of a 950 is started, and whether it is a stub's.
StateAt(simt) ==
    CASE task.state # "IDLE" -> task.state
      [] task.state = "IDLE" /\ Flag("pc") /\ simt -> "PC_SAMPLING"
      [] task.state = "IDLE" /\ ~(Flag("pc") /\ simt) ->
            IF Flag("timeline") THEN "TIMELINE" ELSE "IDLE"
IsStubRun(simt) == StateAt(simt) = "TIMELINE" \/ (task.state = "IDLE" /\ StateAt(simt) # "IDLE")

StartFFTSTaskOfA5 == <<FftsA5Task>>
StartFFTSTask == <<FftsTask>>
StartStarsTask(n) == Channel((task.last \/ Last(n)) /\ Unstarted(StarsTask), StarsTask)
StartTSFWTask == Channel(Unstarted(L2CacheTask), L2CacheTask)
StartHwtsTask(n) == Channel(Last(n) /\ Unstarted(HwtsTask), HwtsTask)

StartOfA5(n, simt) ==
    IF IsStubRun(simt) THEN <<InstrProfTask>> ELSE StartFFTSTaskOfA5 \o StartStarsTask(n)

StartOf910B(n, mc2) ==
    IF task.l2 THEN StartTSFWTask
    ELSE StartFFTSTask \o Channel(n = 0 /\ mc2, AicpuTask) \o StartStarsTask(n)

StartOf310P(n) ==
    Channel(~IsPmuEventEmpty(n) \/ n = 0, AiCoreTask)
    \o StartHwtsTask(n) \o Channel(n = 0 /\ task.l2, L2CacheTask)

ToOpen(n, simt, mc2) ==
    CASE cfg.chip = "950" -> StartOfA5(n, simt)
      [] cfg.chip = "310P" -> StartOf310P(n)
      [] cfg.chip = "910B" -> StartOf910B(n, mc2)

-----------------------------------------------------------------------------
(* StartProf and StopProf.                                                 *)

\* The task when the channels of a run were opened.
Opened(n, simt, opened) ==
    [on |-> task.on \cup opened,
     group |-> IF opened \cap Counters # {} THEN n ELSE task.group,
     started |-> task.started \cup (opened \cap (Durations \cup {AiCoreTask, L2CacheTask})),
     last |-> task.last \/ (FftsTask \in opened /\ Last(n)),
     l2 |-> task.l2 /\ cfg.chip # "910B",
     state |-> IF cfg.chip = "950" THEN StateAt(simt) ELSE task.state]

\* What Stop closes: the chip's own list, whatever is open.
StopInstrProfChannels(t) ==
    IF t.state \in {"PC_SAMPLING", "TIMELINE"} THEN {InstrProfTask} ELSE {}

StopOfA5(t) == {FftsA5Task} \cup (t.started \cap {StarsTask}) \cup StopInstrProfChannels(t)
StopOf910B(t, mc2) ==
    {FftsTask} \cup (t.started \cap {StarsTask, L2CacheTask})
    \cup IF t.last /\ mc2 THEN {AicpuTask} ELSE {}
StopOf310P(t) == t.started

Closed(t, mc2) ==
    CASE cfg.chip = "950" -> StopOfA5(t)
      [] cfg.chip = "310P" -> StopOf310P(t)
      [] cfg.chip = "910B" -> StopOf910B(t, mc2)

NextState(state) ==
    CASE state = "PC_SAMPLING" -> IF Flag("timeline") THEN "TIMELINE" ELSE "DONE"
      [] state = "TIMELINE" -> "DONE"
      [] OTHER -> state

Stopped(t, mc2) ==
    [t EXCEPT !.on = @ \ Closed(t, mc2), !.state = NextState(@)]

Firsts(chs, k) == {chs[i] : i \in 1..k}

\* StartProf.  A channel of the stubs that the driver refuses is passed over.
Started(n, simt, mc2) ==
    LET chs == ToOpen(n, simt, mc2)
    IN {Opened(n, simt, Firsts(chs, Len(chs)))}
       \cup IF MayFail /\ chs = <<InstrProfTask>> THEN {Opened(n, simt, {})} ELSE {}

\* A start that fails is followed by a stop.
StartedInVain(n, simt, mc2) ==
    LET chs == ToOpen(n, simt, mc2)
    IN IF MayFail
       THEN {Stopped(Opened(n, simt, Firsts(chs, k)), mc2) : k \in 0..Len(chs) - 1}
       ELSE {}
=============================================================================
