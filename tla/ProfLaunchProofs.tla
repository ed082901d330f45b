-------------------------- MODULE ProfLaunchProofs --------------------------
(***************************************************************************)
(* Proofs about ProfLaunch, for any memory, hooks, chips, groups of events *)
(* and failures.                                                           *)
(*                                                                         *)
(* RoundsReadTheOriginal rests on the snapshots of a replay: while rounds  *)
(* are run they hold what the memory held when the launch began.           *)
(* BuffersReturned and RoundsAreMeasured are about the task: what it has   *)
(* open is on the list of what it closes (ChannelsListed), but for the log *)
(* of the AICPU, which only the last round closes (AicpuOpen); and what    *)
(* opens a duration comes in the last round, so that no round follows it   *)
(* (Progress).                                                             *)
(*                                                                         *)
(* OneExecution rests on counting the executions of a launch in every      *)
(* section (Counted): no more than its stubs and rounds can make (AtMost), *)
(* one at least where the launch is bound to succeed (AtLeast), exactly    *)
(* one where what it runs is restored (ExactlyOnce), and none before its   *)
(* range is replayed (Recording).                                          *)
(***************************************************************************)
EXTENDS ProfLaunch, SequenceTheorems, WellFoundedInduction, TLAPS

RoundPhases == {"evict", "evicting", "rounds", "measuring"}
RangePhases == {"rangeRounds", "rangeMeasuring"}
Before == {"sampling", "timeline", "init", "data"}
After == {"bbcount", "origin", "chart", "record"}
Between == {"rounds", "rangeRounds"}
Measuring == {"measuring", "rangeMeasuring"}
Running == Measuring \cup {"evicting"}
Phases == {"idle", "bare", "rangeEnds"} \cup Before \cup After \cup RoundPhases \cup RangePhases

Channels == Counters \cup Durations \cup {L2CacheTask, AicpuTask, InstrProfTask}
Task == [on : SUBSET Channels, group : Nat, started : SUBSET Channels, last : BOOLEAN,
         l2 : BOOLEAN, state : {"IDLE", "PC_SAMPLING", "TIMELINE", "DONE"}]
Content == Nat \cup {Garbage}
Snapshot == Content \cup {NoSnapshot}

-----------------------------------------------------------------------------
(* The invariants.                                                         *)

MemoryOK ==
    /\ mem \in [Section -> Content] /\ before \in [Section -> Content]
    /\ snapshot \in [Section -> Snapshot]
    /\ live \subseteq Section /\ sections \subseteq Section /\ lost \subseteq Section

ReplayOK ==
    /\ cfg \in Configs /\ phase \in Phases
    /\ launch.simt \in BOOLEAN /\ launch.selected \in BOOLEAN
    /\ task \in Task /\ mc2 \in BOOLEAN /\ lccl \in BOOLEAN /\ signal \in BOOLEAN
    /\ count \in Nat /\ l2 \in [live : Nat, dangling : Nat]
    /\ range \in [open : BOOLEAN, capturing : BOOLEAN, valid : BOOLEAN, captured : Nat]

TypeOK == MemoryOK /\ ReplayOK

\* The arguments name the buffer of the function, before a launch and in it.
StubOK ==
    /\ cfg \in Configs
    /\ Flag("pc") \/ Flag("timeline") => hook.stubArgs = "own"
    /\ func # "plain" => args = func
    /\ StubHasItsBuffer

\* Only a replay has buffers.
BuffersInReplay ==
    /\ l2.live # 0 =>
          \/ phase \in RoundPhases /\ ~IsAppReplay
          \/ phase \in RangePhases \cup {"rangeEnds"}

\* No stub of the launch runs the kernel before its rounds.
Quiet == cfg.flags \cap {"pc", "timeline"} = {}

\* Where the application is repeated no section is kept.
NothingKept == IsAppReplay => sections = {}

\* What the snapshots and the memory are as long as the launch is replayed.
SnapshotsHold ==
    /\ phase \in Before /\ Quiet => mem = before
    /\ phase \in RoundPhases /\ Restores =>
          /\ CanRestore
          /\ Quiet => \A s \in sections : snapshot[s] = before[s]
          /\ Quiet /\ phase \in Running => \A s \in sections : mem[s] = before[s]
    /\ phase \in RangePhases /\ ~MayFail => CanRestore

\* How far the launch is, and what it is.
Course ==
    /\ mc2 => "mc2" \in cfg.kinds
    /\ launch.kind \in cfg.kinds \cup {"plain"}
    /\ signal => MayFail
    /\ range.capturing => range.open
    /\ range.open => IsRangeReplay
    /\ phase \in RangePhases => IsRangeReplay
    /\ phase \in {"evict", "evicting"} => Evicts
    /\ phase \in Before => count = 0
    /\ phase = "evict" /\ ~IsAppReplay => count = 0
    /\ phase \in RoundPhases /\ IsAppReplay => count = cfg.first
    /\ task.l2 => cfg.l2

\* What is open is closed by a stop, but for the log of the AICPU.
ChannelsListed ==
    task.on \ {AicpuTask} \subseteq IF phase \in Running THEN Closed(task, mc2) ELSE {}

\* The task is new until the rounds where no stub has run.
TaskIsNew ==
    Quiet /\ phase \in Before \cup {"evict"} => task = NewTask

\* The log of the AICPU is open only as long as the last round is to come.
AicpuOpen ==
    AicpuTask \in task.on =>
        /\ cfg.chip = "910B" /\ mc2 /\ ~task.l2
        /\ phase \in Between \cup Measuring
        /\ phase \in Between => count < cfg.pmus
        /\ phase \in Measuring => task.last \/ count + 1 < cfg.pmus
        /\ phase = "rounds" => ~IsAppReplay
        /\ phase = "measuring" /\ IsAppReplay => task.last

\* The last round has been started.
LastIn(t) == t.last \/ t.started \cap Durations # {}
LastStarted == LastIn(task)

\* The last round was the one that started it.
Progress ==
    /\ phase \in Before \cup {"evict", "evicting"} => ~LastStarted
    /\ phase \in Between /\ LastStarted => NothingToMeasure
    /\ phase \in Measuring /\ LastStarted => IsPmuEventEmpty(count + 1)
    /\ phase \in Between \cup Measuring /\ cfg.chip = "910B" /\ task.l2 =>
          phase = "rounds" /\ Evicts /\ MayFail /\ task = NewTask
    /\ phase = "evicting" => ~task.l2
    /\ phase = "sampling" => task.state = "IDLE"
    /\ phase = "timeline" /\ Flag("timeline") => task.state \in {"IDLE", "TIMELINE"}

-----------------------------------------------------------------------------
(* The conditions under which they hold, findings of the model apart: see  *)
(* the README.                                                             *)

\* The hooks whose sampling stubs have the buffer (FlagV2 and HandleV2 have not).
OwnStubs ==
    \A c \in Configs : c.flags \cap {"pc", "timeline"} # {} => \A h \in c.hooks : h.stubArgs = "own"

\* Only the task of a 950 has states for its stubs (ProfTaskOfA5).
StubsOf950 == \A c \in Configs : c.flags \cap {"pc", "timeline"} # {} => c.chip = "950"

\* Where a kernel that communicates is profiled on a 910B, nothing fails, and a
\* run of the application measures all its groups or not the first.
AicpuIsClosed ==
    \A c \in Configs : c.chip = "910B" /\ "mc2" \in c.kinds =>
        /\ ~c.faults
        /\ c.mode = "app" => c.first # 0 \/ c.pmus <= 1

\* A range on a 910B is not asked for L2 events.
RangesWithoutL2 == \A c \in Configs : c.mode = "range" /\ c.chip = "910B" => ~c.l2

\* Where kernels communicate every launch is profiled and nothing fails, as nothing
\* does where the application or a range is repeated; the application is repeated
\* with something that runs its kernel, and a range has no stub of its own.
Repeatable ==
    \A c \in Configs :
        /\ c.kinds \cap {"mc2", "lccl"} # {} => c.mode = "kernel" /\ c.all /\ ~c.faults
        /\ c.mode # "kernel" => ~c.faults
        /\ c.mode = "app" => /\ c.first = 0 \/ c.first < c.pmus
                             /\ \/ c.flags \subseteq {"bbcount"}
                                \/ c.flags \cap {"timeline", "memchart", "record"} # {}
        /\ c.mode = "range" => "memchart" \notin c.flags

\* The executions of n rounds, each with its warm-ups.
Reruns(n, warm) == n * (warm + 1)
StubRuns == SamplingRuns + 1

\* DeviceMemory's bound is above the most executions a launch can have.
RunsBound ==
    /\ MaxRuns \in Nat
    /\ \A c \in Configs :
          MaxRuns >= 2 * StubRuns + c.warm + 5 + Reruns(Rounds, c.warm)

-----------------------------------------------------------------------------
(* The memory.                                                             *)

\* Executions leave contents contents (MemoryContext's callers).
LEMMA RanType ==
    ASSUME NEW content \in [Section -> Content], NEW n \in Nat
    PROVE  Ran(content, n) \in [Section -> Content]
<1> DEFINE R(s) == IF s \in live /\ content[s] # Garbage THEN content[s] + n ELSE content[s]
<1>1. \A s \in Section : R(s) \in Content
  BY DEF Content
<1> QED BY <1>1 DEF Ran

\* What a Restore leaves are contents, also where it stops halfway: it copies no
\* snapshot that is not there, and nothing but sections.
LEMMA RestoreType ==
    ASSUME MemoryOK, NEW saved \in [Section -> Snapshot], NEW content \in [Section -> Content]
    PROVE  /\ AllSaved(saved) => RestoredTo(saved, content) \in [Section -> Content]
           /\ \A left, mayFail : RestoreStopped(saved, content, left, mayFail) =>
                 /\ left \in [Section -> Content]
                 /\ \A s \in Section \ sections : left[s] = content[s]
                 /\ AllSaved(saved) => mayFail
<1>1. sections \subseteq Section /\ \A s \in Section : saved[s] # NoSnapshot => saved[s] \in Content
  BY DEF MemoryOK, Snapshot
<1>2. AllSaved(saved) => RestoredTo(saved, content) \in [Section -> Content]
  BY <1>1 DEF AllSaved, RestoredTo
<1>3. ASSUME NEW left, NEW mayFail, RestoreStopped(saved, content, left, mayFail)
      PROVE  /\ left \in [Section -> Content]
             /\ \A s \in Section \ sections : left[s] = content[s]
             /\ AllSaved(saved) => mayFail
  <2>1. PICK f \in sections : \E atFailure \in {content[f], saved[f], Garbage} :
           /\ \A s \in sections : s < f => saved[s] # NoSnapshot
           /\ IF saved[f] = NoSnapshot THEN atFailure = content[f] ELSE mayFail
           /\ left = [s \in Section |-> IF s \in sections /\ s < f THEN saved[s]
                                        ELSE IF s = f THEN atFailure ELSE content[s]]
    BY <1>3 DEF RestoreStopped
  <2>2. PICK atFailure \in {content[f], saved[f], Garbage} :
           /\ \A s \in sections : s < f => saved[s] # NoSnapshot
           /\ IF saved[f] = NoSnapshot THEN atFailure = content[f] ELSE mayFail
           /\ left = [s \in Section |-> IF s \in sections /\ s < f THEN saved[s]
                                        ELSE IF s = f THEN atFailure ELSE content[s]]
    BY <2>1
  <2>3. atFailure \in Content
    BY <1>1, <2>2 DEF Content
  <2>4. \A s \in sections : s < f => saved[s] \in Content
    BY <1>1, <2>2
  <2>5. left \in [Section -> Content]
    BY <1>1, <2>2, <2>3, <2>4
  <2> QED BY <1>1, <2>2, <2>5 DEF AllSaved
<1> QED BY <1>2, <1>3

\* What a Restore leaves whose outcome is not looked at, and what it loses.
LEMMA PutBackType ==
    ASSUME MemoryOK, NEW saved \in [Section -> Snapshot], NEW content \in [Section -> Content],
           NEW mayFail, PutBack(saved, content, mayFail)
    PROVE  /\ mem' \in [Section -> Content]
           /\ lost \subseteq lost' /\ lost' \subseteq lost \cup sections
           /\ \A s \in Section \ sections : mem'[s] = content[s]
           /\ \A s \in sections \ lost' : mem'[s] = saved[s]
           /\ AllSaved(saved) /\ ~mayFail => lost' = lost
<1>1. sections \subseteq Section /\ lost' = lost \cup {s \in sections : mem'[s] # saved[s]}
  BY DEF MemoryOK, PutBack
<1>2. CASE AllSaved(saved) /\ mem' = RestoredTo(saved, content)
  <2>1. mem' \in [Section -> Content]
    BY <1>2, RestoreType
  <2>2. \A s \in Section : mem'[s] = IF s \in sections THEN saved[s] ELSE content[s]
    BY <1>2 DEF RestoredTo
  <2> QED BY <1>1, <2>1, <2>2
<1>3. CASE RestoreStopped(saved, content, mem', mayFail)
  BY <1>1, <1>3, RestoreType
<1> QED BY <1>2, <1>3 DEF PutBack

\* Contents can be kept as snapshots.
LEMMA ContentsAreSaved ==
    ASSUME MemoryOK
    PROVE  mem \in [Section -> Snapshot] /\ AllSaved(mem)
<1>1. mem \in [Section -> Content] /\ sections \subseteq Section
  BY DEF MemoryOK
<1>2. \A c \in Content : c # NoSnapshot /\ c \in Snapshot
  BY MarkAssumption DEF Content, Snapshot
<1> QED BY <1>1, <1>2 DEF AllSaved

\* What Backup leaves are snapshots, also where it stops halfway.
LEMMA BackupType ==
    ASSUME MemoryOK, NEW snap, BackedUp(snap) \/ BackupStopped(snap)
    PROVE  snap \in [Section -> Snapshot]
<1>1. CASE BackedUp(snap)
  BY <1>1 DEF BackedUp, MemoryOK, Saved, Snapshot
<1>2. CASE BackupStopped(snap)
  <2>1. PICK f \in sections, atFailure \in {NoSnapshot, Garbage} :
           snap = [s \in Section |-> IF s \in sections /\ s < f THEN Saved(s)
                                     ELSE IF s = f THEN atFailure ELSE snapshot[s]]
    BY <1>2 DEF BackupStopped
  <2>2. atFailure \in Snapshot
    BY DEF Snapshot, Content
  <2> QED BY <2>1, <2>2 DEF MemoryOK, Saved, Snapshot
<1> QED BY <1>1, <1>2

\* After a whole backup every section can be restored, to what it held.
LEMMA BackedUpHolds ==
    ASSUME MemoryOK, NEW snap, BackedUp(snap)
    PROVE  \A s \in sections : snap[s] = mem[s] /\ snap[s] # NoSnapshot
BY MarkAssumption DEF BackedUp, MemoryOK, Saved, Content

-----------------------------------------------------------------------------
(* The channels of a run.                                                  *)

Listed(chs) == Firsts(chs, Len(chs))
Only(wanted, ch) == IF wanted THEN {ch} ELSE {}

\* What two lists name together.
LEMMA ListedConcat ==
    ASSUME NEW p \in Seq(Channels), NEW q \in Seq(Channels)
    PROVE  Listed(p \o q) = Listed(p) \cup Listed(q) /\ p \o q \in Seq(Channels)
<1>1. /\ p \o q \in Seq(Channels) /\ Len(p \o q) = Len(p) + Len(q)
      /\ \A i \in 1 .. Len(p) + Len(q) : (p \o q)[i] = IF i <= Len(p) THEN p[i] ELSE q[i - Len(p)]
      /\ Len(p) \in Nat /\ Len(q) \in Nat
  BY ConcatProperties, LenProperties
<1>2. ASSUME NEW i \in 1..Len(p) PROVE p[i] \in Listed(p \o q)
  <2>1. (p \o q)[i] = p[i] /\ i \in 1..Len(p \o q)
    BY <1>1
  <2> QED BY <2>1 DEF Listed, Firsts
<1>3. ASSUME NEW i \in 1..Len(q) PROVE q[i] \in Listed(p \o q)
  <2>1. (p \o q)[Len(p) + i] = q[i] /\ Len(p) + i \in 1..Len(p \o q)
    BY <1>1
  <2> QED BY <2>1 DEF Listed, Firsts
<1>4. ASSUME NEW i \in 1..Len(p \o q) PROVE (p \o q)[i] \in Listed(p) \cup Listed(q)
  <2>1. CASE i <= Len(p)
    BY <1>1, <2>1 DEF Listed, Firsts
  <2>2. CASE ~(i <= Len(p))
    <3>1. (p \o q)[i] = q[i - Len(p)] /\ i - Len(p) \in 1..Len(q)
      BY <1>1, <2>2
    <3> QED BY <3>1 DEF Listed, Firsts
  <2> QED BY <2>1, <2>2
<1>5. Listed(p \o q) \subseteq Listed(p) \cup Listed(q)
  BY <1>4 DEF Listed, Firsts
<1>6. Listed(p) \subseteq Listed(p \o q) /\ Listed(q) \subseteq Listed(p \o q)
  BY <1>2, <1>3 DEF Listed, Firsts
<1> QED BY <1>1, <1>5, <1>6

\* What a list of one channel names.
LEMMA ListedChannel ==
    ASSUME NEW wanted, NEW ch \in Channels
    PROVE  /\ Channel(wanted, ch) \in Seq(Channels) /\ <<ch>> \in Seq(Channels)
           /\ Listed(Channel(wanted, ch)) = Only(wanted, ch)
           /\ Listed(<<ch>>) = {ch}
BY DEF Listed, Firsts, Channel, Only

\* The channels that a run asks for.
Asked(n, simt, m) == Listed(ToOpen(n, simt, m))

\* The channels a start asks for, by chip (ProfTask::Start of each task).
LEMMA AskedIs ==
    ASSUME cfg \in Configs, NEW n, NEW simt, NEW m
    PROVE  /\ cfg.chip = "950" => Asked(n, simt, m) =
                 IF IsStubRun(simt) THEN {InstrProfTask}
                 ELSE {FftsTask} \cup Only((task.last \/ Last(n)) /\ Unstarted(StarsTask), StarsTask)
           /\ cfg.chip = "310P" => Asked(n, simt, m) =
                 Only(~IsPmuEventEmpty(n) \/ n = 0, AiCoreTask)
                 \cup Only(Last(n) /\ Unstarted(HwtsTask), HwtsTask)
                 \cup Only(n = 0 /\ task.l2, L2CacheTask)
           /\ cfg.chip = "910B" => Asked(n, simt, m) =
                 IF task.l2 THEN Only(Unstarted(L2CacheTask), L2CacheTask)
                 ELSE {FftsTask} \cup Only(n = 0 /\ m, AicpuTask)
                      \cup Only((task.last \/ Last(n)) /\ Unstarted(StarsTask), StarsTask)
<1>1. /\ FftsTask \in Channels /\ AiCoreTask \in Channels /\ StarsTask \in Channels
      /\ HwtsTask \in Channels /\ L2CacheTask \in Channels /\ AicpuTask \in Channels
      /\ InstrProfTask \in Channels
  BY DEF Channels, Counters, Durations
<1> HIDE DEF Channels
<1>2. ASSUME cfg.chip = "950"
      PROVE  Asked(n, simt, m) =
                 IF IsStubRun(simt) THEN {InstrProfTask}
                 ELSE {FftsTask} \cup Only((task.last \/ Last(n)) /\ Unstarted(StarsTask), StarsTask)
  <2>1. ToOpen(n, simt, m) = StartOfA5(n, simt)
    BY <1>2 DEF ToOpen
  <2>2. CASE IsStubRun(simt)
    BY <1>1, <2>1, <2>2, ListedChannel DEF Asked, StartOfA5
  <2>3. CASE ~IsStubRun(simt)
    <3>1. Asked(n, simt, m) = Listed(<<FftsTask>> \o StartStarsTask(n))
      BY <2>1, <2>3 DEF Asked, StartOfA5, StartFFTSTaskOfA5, FftsA5Task
    <3>2. <<FftsTask>> \in Seq(Channels) /\ StartStarsTask(n) \in Seq(Channels)
      BY <1>1, ListedChannel DEF StartStarsTask
    <3>3. Asked(n, simt, m) = Listed(<<FftsTask>>) \cup Listed(StartStarsTask(n))
      BY <3>1, <3>2, ListedConcat
    <3> QED BY <1>1, <2>3, <3>3, ListedChannel DEF StartStarsTask
  <2> QED BY <2>2, <2>3
<1>3. ASSUME cfg.chip = "310P"
      PROVE  Asked(n, simt, m) =
                 Only(~IsPmuEventEmpty(n) \/ n = 0, AiCoreTask)
                 \cup Only(Last(n) /\ Unstarted(HwtsTask), HwtsTask)
                 \cup Only(n = 0 /\ task.l2, L2CacheTask)
  <2> DEFINE A == Channel(~IsPmuEventEmpty(n) \/ n = 0, AiCoreTask)
             L == Channel(n = 0 /\ task.l2, L2CacheTask)
  <2>1. Asked(n, simt, m) = Listed(A \o StartHwtsTask(n) \o L)
    BY <1>3 DEF Asked, ToOpen, StartOf310P
  <2>2. A \in Seq(Channels) /\ StartHwtsTask(n) \in Seq(Channels) /\ L \in Seq(Channels)
    BY <1>1, ListedChannel DEF StartHwtsTask
  <2>3. Asked(n, simt, m) = Listed(A) \cup Listed(StartHwtsTask(n)) \cup Listed(L)
    <3> HIDE DEF A, L
    <3>1. A \o StartHwtsTask(n) \in Seq(Channels)
          /\ Listed(A \o StartHwtsTask(n)) = Listed(A) \cup Listed(StartHwtsTask(n))
      BY <2>2, ListedConcat
    <3> QED BY <2>1, <2>2, <3>1, ListedConcat
  <2>4. /\ Listed(A) = Only(~IsPmuEventEmpty(n) \/ n = 0, AiCoreTask)
        /\ Listed(L) = Only(n = 0 /\ task.l2, L2CacheTask)
    BY <1>1, ListedChannel
  <2>5. Listed(StartHwtsTask(n)) = Only(Last(n) /\ Unstarted(HwtsTask), HwtsTask)
    BY <1>1, ListedChannel DEF StartHwtsTask
  <2> HIDE DEF A, L
  <2> QED BY <2>3, <2>4, <2>5
<1>4. ASSUME cfg.chip = "910B"
      PROVE  Asked(n, simt, m) =
                 IF task.l2 THEN Only(Unstarted(L2CacheTask), L2CacheTask)
                 ELSE {FftsTask} \cup Only(n = 0 /\ m, AicpuTask)
                      \cup Only((task.last \/ Last(n)) /\ Unstarted(StarsTask), StarsTask)
  <2>1. ToOpen(n, simt, m) = StartOf910B(n, m)
    BY <1>4 DEF ToOpen
  <2>2. CASE task.l2
    BY <1>1, <2>1, <2>2, ListedChannel DEF Asked, StartOf910B, StartTSFWTask
  <2>3. CASE ~task.l2
    <3> DEFINE A == Channel(n = 0 /\ m, AicpuTask)
    <3>1. Asked(n, simt, m) = Listed(<<FftsTask>> \o A \o StartStarsTask(n))
      BY <2>1, <2>3 DEF Asked, StartOf910B, StartFFTSTask
    <3>2. <<FftsTask>> \in Seq(Channels) /\ A \in Seq(Channels) /\ StartStarsTask(n) \in Seq(Channels)
      BY <1>1, ListedChannel DEF StartStarsTask
    <3>3. Asked(n, simt, m) = Listed(<<FftsTask>>) \cup Listed(A) \cup Listed(StartStarsTask(n))
      <4> HIDE DEF A
      <4>1. <<FftsTask>> \o A \in Seq(Channels)
            /\ Listed(<<FftsTask>> \o A) = Listed(<<FftsTask>>) \cup Listed(A)
        BY <3>2, ListedConcat
      <4> QED BY <3>1, <3>2, <4>1, ListedConcat
    <3>4. Listed(<<FftsTask>>) = {FftsTask} /\ Listed(A) = Only(n = 0 /\ m, AicpuTask)
      BY <1>1, ListedChannel
    <3>5. Listed(StartStarsTask(n)) = Only((task.last \/ Last(n)) /\ Unstarted(StarsTask), StarsTask)
      BY <1>1, ListedChannel DEF StartStarsTask
    <3> HIDE DEF A
    <3> QED BY <2>3, <3>3, <3>4, <3>5
  <2> QED BY <2>2, <2>3
<1> QED BY <1>2, <1>3, <1>4

\* The states of a task in a stub run of a 950, and otherwise.
LEMMA StateAtIs ==
    ASSUME task \in Task, NEW simt \in BOOLEAN
    PROVE  /\ StateAt(simt) \in {"IDLE", "PC_SAMPLING", "TIMELINE", "DONE"}
           /\ IsStubRun(simt) => StateAt(simt) \in {"PC_SAMPLING", "TIMELINE"}
           /\ ~IsStubRun(simt) => StateAt(simt) = task.state
BY DEF StateAt, IsStubRun, Task

\* A run starts with all that it asks for, but for a stub's on a 950.
LEMMA StartedIs ==
    ASSUME cfg \in Configs, NEW n, NEW simt, NEW m, NEW t \in Started(n, simt, m)
    PROVE  \/ t = Opened(n, simt, Asked(n, simt, m))
           \/ t = Opened(n, simt, {}) /\ Asked(n, simt, m) = {InstrProfTask}
<1>1. InstrProfTask \in Channels
  BY DEF Channels
<1>2. ToOpen(n, simt, m) = <<InstrProfTask>> => Asked(n, simt, m) = {InstrProfTask}
  BY <1>1, ListedChannel DEF Asked
<1> QED BY <1>2 DEF Started, Asked, Listed

\* A start that fails has been stopped again with part of what it asked for open.
LEMMA StartedInVainIs ==
    ASSUME NEW n, NEW simt, NEW m, NEW t \in StartedInVain(n, simt, m)
    PROVE  MayFail /\ \E o \in SUBSET Asked(n, simt, m) : t = Stopped(Opened(n, simt, o), m)
<1> DEFINE chs == ToOpen(n, simt, m)
<1>1. MayFail /\ \E k \in 0..Len(chs) - 1 : t = Stopped(Opened(n, simt, Firsts(chs, k)), m)
  BY DEF StartedInVain
<1>2. PICK k \in 0..Len(chs) - 1 : t = Stopped(Opened(n, simt, Firsts(chs, k)), m)
  BY <1>1
<1>3. Firsts(chs, k) \subseteq Listed(chs)
  <2>1. \A i \in 1..k : i \in 1..Len(chs)
    OBVIOUS
  <2> QED BY <2>1 DEF Firsts, Listed
<1> QED BY <1>1, <1>2, <1>3 DEF Asked

\* Part of the channels of a run.
AskedOK(n, simt, m, o) ==
    /\ n \in Nat /\ simt \in BOOLEAN /\ m \in BOOLEAN
    /\ o \subseteq Asked(n, simt, m)

\* A start asks for channels.
LEMMA AskedType ==
    ASSUME ReplayOK, NEW n, NEW simt, NEW m
    PROVE  Asked(n, simt, m) \subseteq Channels
<1>1. cfg.chip \in {"910B", "310P", "950"}
  BY ConfigsAssumption DEF ReplayOK
<1> QED BY <1>1, AskedIs DEF Channels, Only, ReplayOK, Counters, Durations

\* What a start that succeeds leaves is a task.
LEMMA OpenedType ==
    ASSUME ReplayOK, NEW n, NEW simt, NEW m, NEW o, AskedOK(n, simt, m, o)
    PROVE  Opened(n, simt, o) \in Task
<1>1. o \subseteq Channels
  BY AskedType DEF AskedOK
<1>2. StateAt(simt) \in {"IDLE", "PC_SAMPLING", "TIMELINE", "DONE"}
  BY StateAtIs DEF ReplayOK, AskedOK
<1>3. (Durations \cup {AiCoreTask, L2CacheTask}) \subseteq Channels
  BY DEF Channels, Counters
<1> QED BY <1>1, <1>2, <1>3 DEF Opened, Task, AskedOK, ReplayOK

\* What a stop leaves of a task.
LEMMA StoppedType ==
    ASSUME NEW t \in Task, NEW m
    PROVE  /\ Stopped(t, m) \in Task /\ Stopped(t, m).on = t.on \ Closed(t, m)
           /\ Stopped(t, m).group = t.group /\ Stopped(t, m).started = t.started
           /\ Stopped(t, m).last = t.last /\ Stopped(t, m).l2 = t.l2
           /\ Stopped(t, m).state = NextState(t.state)
BY DEF Stopped, Task, NextState

\* What a task closes of what it opened, in whole or in part.
LEMMA OpenedIsListed ==
    ASSUME ReplayOK, NEW n, NEW simt, NEW m, NEW o, AskedOK(n, simt, m, o)
    PROVE  o \ {AicpuTask} \subseteq Closed(Opened(n, simt, o), m)
<1> DEFINE t == Opened(n, simt, o)
<1>1. /\ task \in Task /\ cfg.chip \in {"910B", "310P", "950"}
      /\ t.started = task.started \cup (o \cap (Durations \cup {AiCoreTask, L2CacheTask}))
      /\ cfg.chip = "950" => t.state = StateAt(simt)
  BY ConfigsAssumption DEF ReplayOK, Opened
<1>2. o \subseteq Asked(n, simt, m)
  BY DEF AskedOK
<1> HIDE DEF t
<1>3. CASE cfg.chip = "950"
  <2>1. o \ {AicpuTask} \subseteq StopOfA5(t)
    <3>1. CASE IsStubRun(simt)
      <4>1. o \subseteq {InstrProfTask}
        BY <1>2, <1>3, <3>1, AskedIs DEF ReplayOK
      <4>2. t.state \in {"PC_SAMPLING", "TIMELINE"}
        BY <1>1, <1>3, <3>1, StateAtIs DEF AskedOK
      <4> QED BY <4>1, <4>2 DEF StopOfA5, StopInstrProfChannels
    <3>2. CASE ~IsStubRun(simt)
      <4>1. o \subseteq {FftsTask, StarsTask}
        BY <1>2, <1>3, <3>2, AskedIs DEF ReplayOK, Only
      <4> QED BY <1>1, <4>1 DEF StopOfA5, FftsA5Task, Durations
    <3> QED BY <3>1, <3>2
  <2> QED BY <1>3, <2>1 DEF Closed, t
<1>4. CASE cfg.chip = "310P"
  <2>1. o \subseteq {AiCoreTask, HwtsTask, L2CacheTask}
    BY <1>2, <1>4, AskedIs DEF ReplayOK, Only
  <2>2. Closed(t, m) = StopOf310P(t)
    BY <1>4 DEF Closed
  <2> QED BY <1>1, <2>1, <2>2 DEF StopOf310P, Durations, t
<1>5. CASE cfg.chip = "910B"
  <2>1. o \subseteq {FftsTask, AicpuTask, StarsTask, L2CacheTask}
    BY <1>2, <1>5, AskedIs DEF ReplayOK, Only
  <2>2. Closed(t, m) = StopOf910B(t, m)
    BY <1>5 DEF Closed
  <2> QED BY <1>1, <2>1, <2>2 DEF StopOf910B, Durations, t
<1> QED BY <1>1, <1>3, <1>4, <1>5

\* After a stop nothing is open, but for the log of the AICPU.
LEMMA StartedIsListed ==
    ASSUME ReplayOK, task.on \subseteq {AicpuTask},
           NEW n \in Nat, NEW simt \in BOOLEAN, NEW m \in BOOLEAN
    PROVE  /\ \A t \in Started(n, simt, m) :
                 t \in Task /\ t.on \ {AicpuTask} \subseteq Closed(t, m)
           /\ \A t \in StartedInVain(n, simt, m) :
                 t \in Task /\ t.on \ {AicpuTask} = {}
<1>1. ASSUME NEW o \in SUBSET Asked(n, simt, m)
      PROVE  LET t == Opened(n, simt, o)
             IN  t \in Task /\ t.on \ {AicpuTask} \subseteq Closed(t, m)
  <2>1. AskedOK(n, simt, m, o)
    BY DEF AskedOK
  <2>2. Opened(n, simt, o).on = task.on \cup o
    BY DEF Opened
  <2> QED BY <2>1, <2>2, OpenedType, OpenedIsListed
<1>2. ASSUME NEW t \in Started(n, simt, m)
      PROVE  t \in Task /\ t.on \ {AicpuTask} \subseteq Closed(t, m)
  <2>1. PICK o \in SUBSET Asked(n, simt, m) : t = Opened(n, simt, o)
    BY StartedIs DEF ReplayOK
  <2> QED BY <1>1, <2>1
<1>3. ASSUME NEW t \in StartedInVain(n, simt, m)
      PROVE  t \in Task /\ t.on \ {AicpuTask} = {}
  <2>1. PICK o \in SUBSET Asked(n, simt, m) : t = Stopped(Opened(n, simt, o), m)
    BY StartedInVainIs
  <2> QED BY <1>1, <2>1, StoppedType
<1> QED BY <1>2, <1>3

-----------------------------------------------------------------------------
(* Types.                                                                  *)

\* The tool's configuration and what may go wrong under it.
LEMMA ConfigOK ==
    ASSUME cfg \in Configs
    PROVE  /\ cfg.mode \in {"kernel", "app", "range"} /\ cfg.chip \in {"910B", "310P", "950"}
           /\ cfg.l2 \in BOOLEAN /\ cfg.faults \in BOOLEAN
           /\ cfg.pmus \in Nat /\ cfg.pmus <= Rounds /\ cfg.first \in Nat /\ cfg.warm \in Nat
           /\ cfg.sections \subseteq Section /\ cfg.hooks \subseteq Hooks
           /\ Rounds \in Nat \ {0} /\ SamplingRuns \in Nat
           /\ May \subseteq BOOLEAN /\ MayFail \in BOOLEAN /\ (~MayFail => May = {TRUE})
<1>1. /\ cfg.mode \in {"kernel", "app", "range"} /\ cfg.chip \in {"910B", "310P", "950"}
      /\ cfg.l2 \in BOOLEAN /\ cfg.faults \in BOOLEAN
      /\ cfg.pmus \in 0..Rounds /\ cfg.first \in Nat /\ cfg.warm \in Nat
  BY ConfigsAssumption
<1>2. cfg.sections \subseteq Section
  BY SectionsAssumption
<1>3. cfg.hooks \subseteq Hooks
  BY HooksAssumption
<1>4. May \subseteq BOOLEAN /\ MayFail \in BOOLEAN /\ (~MayFail => May = {TRUE})
  BY <1>1 DEF May, MayFail
<1>5. Rounds \in Nat \ {0} /\ SamplingRuns \in Nat
  BY RoundsAssumption, SamplingAssumption
<1>6. cfg.pmus \in Nat /\ cfg.pmus <= Rounds
  BY <1>1, <1>5
<1> QED BY <1>1, <1>2, <1>3, <1>4, <1>5, <1>6, Zenon

\* Warm-ups are counted.
LEMMA WarmUpsType ==
    ASSUME cfg \in Configs
    PROVE  InstrWarmUps \in Nat /\ WarmUps(cfg.warm) \in Nat
BY ConfigOK DEF InstrWarmUps, WarmUps

\* What the run of a stub leaves.
LEMMA InstrType ==
    ASSUME TypeOK, InstrProfData
    PROVE  mem' \in [Section -> Content] /\ snapshot' \in [Section -> Snapshot] /\ lost' \subseteq Section
<1> USE DEF TypeOK
<1>1. CASE UNCHANGED <<mem, snapshot, lost>>
  BY <1>1 DEF MemoryOK
<1>2. CASE BackupStopped(snapshot') /\ UNCHANGED <<mem, lost, task>>
  BY <1>2, BackupType DEF MemoryOK
<1>3. CASE /\ IF Restores THEN BackedUp(snapshot') ELSE UNCHANGED snapshot
           /\ KernelLaunchForInstrProf
  <2>1. snapshot' \in [Section -> Snapshot]
    BY <1>3, BackupType DEF MemoryOK
  <2>2. Ran(mem, InstrWarmUps) \in [Section -> Content]
    BY WarmUpsType, RanType DEF MemoryOK, ReplayOK
  <2>3. \A n \in 0..1 : Ran(Ran(mem, InstrWarmUps), n) \in [Section -> Content]
    BY <2>2, RanType
  <2>4. lost \subseteq Section /\ sections \subseteq Section
    BY DEF MemoryOK
  <2>5. \/ mem' = Ran(mem, InstrWarmUps) /\ lost' = lost
        \/ mem' = Ran(Ran(mem, InstrWarmUps), 1) /\ lost' = lost
        \/ \E n \in 0..1 : PutBack(mem, Ran(Ran(mem, InstrWarmUps), n), MayFail)
    BY <1>3 DEF KernelLaunchForInstrProf
  <2>6. ASSUME NEW n \in 0..1, PutBack(mem, Ran(Ran(mem, InstrWarmUps), n), MayFail)
        PROVE  mem' \in [Section -> Content] /\ lost' \subseteq Section
    BY <2>3, <2>4, <2>6, ContentsAreSaved, PutBackType
  <2>7. mem' \in [Section -> Content] /\ lost' \subseteq Section
    BY <2>2, <2>3, <2>4, <2>5, <2>6
  <2> QED BY <2>1, <2>7
<1> QED BY <1>1, <1>2, <1>3 DEF InstrProfData

\* What a round that starts or is skipped leaves.
LEMMA RestoreStepType ==
    ASSUME TypeOK,
           RoundStarts \/ RoundSkipped \/ RangeRoundStarts \/ RangeRoundSkipped
    PROVE  mem' \in [Section -> Content] /\ \A s \in Section \ sections : mem'[s] = mem[s]
<1>0. /\ MemoryOK /\ mem \in [Section -> Content] /\ snapshot \in [Section -> Snapshot]
      /\ sections \subseteq Section
  BY DEF TypeOK, MemoryOK
<1>1. CASE mem' = mem
  BY <1>0, <1>1
<1>2. CASE CanRestore /\ mem' = Restored
  <2>1. Restored \in [Section -> Content]
    BY <1>0, <1>2, RestoreType DEF CanRestore, Restored
  <2>2. \A s \in Section \ sections : Restored[s] = mem[s]
    BY DEF Restored, RestoredTo
  <2> QED BY <1>2, <2>1, <2>2
<1>3. CASE RestoreStopped(snapshot, mem, mem', MayFail)
  BY <1>0, <1>3, RestoreType
<1> QED BY <1>1, <1>2, <1>3
        DEF RoundStarts, RoundSkipped, RangeRoundStarts, RangeRoundSkipped, Restorable, Replayed

\* What the launch of a round leaves.
LEMMA RoundType ==
    ASSUME TypeOK, cfg \in Configs
    PROVE  /\ \A e : RoundRuns(e) => mem' \in [Section -> Content]
           /\ RangeRoundRuns => mem' \in [Section -> Content]
<1> USE DEF TypeOK
<1>1. ASSUME NEW e, RoundRuns(e) PROVE mem' \in [Section -> Content]
  <2>1. PICK ran_ \in May :
           mem' = Ran(mem, (IF lccl /\ ~e THEN cfg.warm ELSE 0) + (IF ran_ THEN 1 ELSE 0))
    BY <1>1 DEF RoundRuns
  <2>2. (IF lccl /\ ~e THEN cfg.warm ELSE 0) + (IF ran_ THEN 1 ELSE 0) \in Nat
    BY ConfigOK
  <2> QED BY <2>1, <2>2, RanType DEF MemoryOK
<1>2. ASSUME RangeRoundRuns PROVE mem' \in [Section -> Content]
  <2>1. PICK executed \in May : mem' = Ran(mem, IF executed THEN range.captured ELSE 0)
    BY <1>2 DEF RangeRoundRuns
  <2>2. (IF executed THEN range.captured ELSE 0) \in Nat
    BY DEF ReplayOK
  <2> QED BY <2>1, <2>2, RanType DEF MemoryOK
<1> QED BY <1>1, <1>2

\* Every step keeps the contents, the sections and the snapshots what they are.
LEMMA MemoryStep ==
    ASSUME TypeOK, [Next]_vars
    PROVE  MemoryOK'
<1>0. MemoryOK /\ ReplayOK /\ cfg \in Configs
  BY DEF TypeOK, ReplayOK
<1>1. /\ \A n \in Nat : Ran(mem, n) \in [Section -> Content]
      /\ mem \in [Section -> Content] /\ 0 \in Content
  BY <1>0, RanType DEF MemoryOK, Content
<1>2. CASE UNCHANGED <<memoryVars, before>>
  BY <1>0, <1>2 DEF MemoryOK, memoryVars
<1>3. ASSUME NEW s \in cfg.sections, Malloc(s) \/ Free(s) PROVE MemoryOK'
  <2>1. s \in Section /\ NoSnapshot \in Snapshot /\ before \in [Section -> Content]
    BY <1>0, ConfigOK DEF Snapshot, MemoryOK
  <2>2. CASE Malloc(s)
    BY <1>0, <1>1, <2>1, <2>2 DEF MemoryOK, Malloc, AppendSection
  <2>3. CASE Free(s)
    BY <1>0, <1>1, <2>1, <2>3 DEF MemoryOK, Free, Discard, Discarded
  <2> QED BY <1>3, <2>2, <2>3
<1>4. ASSUME NEW h, NEW kind, NEW simt, NEW selected, InitParam(h, kind, simt, selected)
      PROVE  MemoryOK'
  BY <1>0, <1>4 DEF MemoryOK, InitParam, memoryVars
<1>5. CASE Sampling \/ Timeline
  <2>1. UNCHANGED <<live, sections, before>>
    BY <1>5 DEF Sampling, Timeline, unchangedLaunch
  <2>2. InstrProfData \/ UNCHANGED <<mem, snapshot, lost>>
    BY <1>5 DEF Sampling, Timeline, RunsStub
  <2> QED BY <1>0, <2>1, <2>2, InstrType DEF MemoryOK
<1>6. CASE NotReplayed
  BY <1>0, <1>6, BackupType DEF MemoryOK, NotReplayed, unchangedLaunch
<1>7. CASE Replay
  <2>1. UNCHANGED <<live, sections, lost, before>>
    BY <1>7 DEF Replay, unchangedLaunch
  <2>2. snapshot' \in [Section -> Snapshot]
    BY <1>0, <1>7, BackupType DEF Replay, BeforeRounds, MemoryOK
  <2>3. (IF mc2 THEN 1 ELSE 0) \in Nat /\ (IF mc2 THEN 1 ELSE 0) + WarmUps(cfg.warm) \in Nat
    BY <1>0, WarmUpsType
  <2>4. \E n \in Nat : mem' = Ran(mem, n)
    BY <1>7, <2>3 DEF Replay, BeforeRounds
  <2> QED BY <1>0, <1>1, <2>1, <2>2, <2>4 DEF MemoryOK
<1>8. CASE EvictStarts \/ Round
  <2>1. UNCHANGED <<live, sections, lost, before, snapshot>> /\ (RoundStarts \/ RoundSkipped)
    BY <1>8 DEF EvictStarts, Round, unchangedRound, unchangedLaunch
  <2> QED BY <1>0, <2>1, RestoreStepType DEF MemoryOK, TypeOK
<1>9. CASE EvictRuns \/ Measure
  <2>1. UNCHANGED <<live, sections, lost, before, snapshot>> /\ (RoundRuns(TRUE) \/ RoundRuns(FALSE))
    BY <1>9 DEF EvictRuns, Measure, unchangedRound, unchangedLaunch
  <2> QED BY <1>0, <2>1, RoundType DEF MemoryOK, TypeOK
<1>10. CASE RoundsEnd
  <2>1. UNCHANGED <<live, sections, before, snapshot>> /\ Settled
    BY <1>10 DEF RoundsEnd, unchangedLaunch
  <2>2. PutBack(snapshot, mem, MayFail) => mem' \in [Section -> Content] /\ lost' \subseteq Section
    BY <1>0, PutBackType DEF MemoryOK
  <2> QED BY <1>0, <2>1, <2>2 DEF MemoryOK, Settled
<1>11. CASE Origin \/ MemoryChart \/ OperandRecord \/ Bare
  <2>1. UNCHANGED <<live, sections, lost, before, snapshot>>
    BY <1>11 DEF Origin, MemoryChart, OperandRecord, Bare, PostStub, unchangedLaunch
  <2>2. mem' = mem \/ mem' = Ran(mem, 1)
    BY <1>11 DEF Origin, MemoryChart, OperandRecord, Bare, PostStub, Runs
  <2> QED BY <1>0, <1>1, <2>1, <2>2 DEF MemoryOK
<1>12. CASE RangeEnd
  <2>1. UNCHANGED <<live, sections, lost>> /\ before' = mem
    BY <1>12 DEF RangeEnd
  <2>2. snapshot' \in [Section -> Snapshot]
    BY <1>0, <1>12, BackupType DEF RangeEnd, RangeBackup, MemoryOK
  <2>3. mem' = mem \/ mem' = Ran(mem, cfg.warm * range.captured)
    BY <1>12 DEF RangeEnd
  <2>4. cfg.warm * range.captured \in Nat
    BY <1>0, ConfigOK DEF ReplayOK
  <2> QED BY <1>0, <1>1, <2>1, <2>2, <2>3, <2>4 DEF MemoryOK
<1>13. CASE RangeRound
  <2>1. UNCHANGED <<live, sections, lost, before, snapshot>> /\ (RangeRoundStarts \/ RangeRoundSkipped)
    BY <1>13 DEF RangeRound, unchangedRound, unchangedLaunch
  <2> QED BY <1>0, <2>1, RestoreStepType DEF MemoryOK, TypeOK
<1>14. CASE RangeMeasure
  <2>1. UNCHANGED <<live, sections, lost, before, snapshot>> /\ RangeRoundRuns
    BY <1>14 DEF RangeMeasure, unchangedRound, unchangedLaunch
  <2> QED BY <1>0, <2>1, RoundType DEF MemoryOK, TypeOK
<1>15. HandleSigInt \/ MstxRangeAdd \/ Initialize \/ Capture \/ BBCount \/ RangeEndsEmpty \/ RangeEnds
       => UNCHANGED <<memoryVars, before>>
  BY DEF HandleSigInt, MstxRangeAdd, Initialize, Capture, BBCount, RangeEndsEmpty, RangeEnds,
         unchangedLaunch
<1>16. UNCHANGED vars => UNCHANGED <<memoryVars, before>>
  BY DEF vars
<1> QED
  BY <1>2, <1>3, <1>4, <1>5, <1>6, <1>7, <1>8, <1>9, <1>10, <1>11, <1>12, <1>13, <1>14, <1>15, <1>16
     DEF Next, Pre, CallAndPost, RangeReplay

\* A run of a stub leaves a task that has nothing open but the log of the AICPU.
LEMMA InstrTask ==
    ASSUME TypeOK, InstrProfData, task.on \subseteq {AicpuTask}
    PROVE  task' \in Task /\ task'.on \subseteq {AicpuTask}
<1>1. ReplayOK /\ count \in Nat /\ launch.simt \in BOOLEAN /\ mc2 \in BOOLEAN
  BY DEF TypeOK, ReplayOK
<1>2. CASE UNCHANGED task
  BY <1>1, <1>2 DEF ReplayOK
<1>3. CASE task' \in StartedInVain(count, launch.simt, mc2)
  BY <1>1, <1>3, StartedIsListed
<1>4. CASE task' \in {Stopped(t, mc2) : t \in Started(count, launch.simt, mc2)}
  BY <1>1, <1>4, StartedIsListed, StoppedType
<1> QED BY <1>2, <1>3, <1>4 DEF InstrProfData, KernelLaunchForInstrProf

\* Every step leaves a task whose open channels are on the list of those it closes.
LEMMA ReplayStep ==
    ASSUME TypeOK, ChannelsListed, [Next]_vars
    PROVE  ReplayOK' /\ ChannelsListed'
<1>0. /\ ReplayOK /\ cfg \in Configs /\ count \in Nat /\ launch.simt \in BOOLEAN
      /\ mc2 \in BOOLEAN /\ lccl \in BOOLEAN /\ task \in Task /\ phase \in Phases
      /\ launch.selected \in BOOLEAN /\ signal \in BOOLEAN
      /\ l2 \in [live : Nat, dangling : Nat]
      /\ range \in [open : BOOLEAN, capturing : BOOLEAN, valid : BOOLEAN, captured : Nat]
  BY DEF TypeOK, ReplayOK
<1>1. phase \notin Running => task.on \subseteq {AicpuTask}
  BY DEF ChannelsListed
<1>2. /\ NewTask \in Task /\ NewTask.on = {}
      /\ NoBuffers \in [live : Nat, dangling : Nat]
      /\ NoRange \in [open : BOOLEAN, capturing : BOOLEAN, valid : BOOLEAN, captured : Nat]
      /\ Prepared \subseteq [live : Nat, dangling : Nat]
  BY <1>0, ConfigOK DEF NewTask, Task, NoBuffers, NoRange, Prepared
<1>3. CASE UNCHANGED <<cfg, launch, phase, replayVars>>
  BY <1>0, <1>3 DEF ReplayOK, ChannelsListed, replayVars, Closed, StopOfA5, StopInstrProfChannels,
                     StopOf310P, StopOf910B
<1>4. ASSUME NEW s, Malloc(s) \/ Free(s) \/ HandleSigInt \/ MstxRangeAdd
      PROVE  ReplayOK' /\ ChannelsListed'
  <2>1. UNCHANGED <<cfg, launch, phase, task, mc2, lccl, count, l2>>
    BY <1>4 DEF Malloc, Free, HandleSigInt, MstxRangeAdd, replayVars
  <2>2. signal' \in BOOLEAN
    BY <1>0, <1>4 DEF Malloc, Free, HandleSigInt, MstxRangeAdd, replayVars
  <2>3. range' \in [open : BOOLEAN, capturing : BOOLEAN, valid : BOOLEAN, captured : Nat]
    BY <1>0, <1>4 DEF Malloc, Free, HandleSigInt, MstxRangeAdd, replayVars
  <2>4. ChannelsListed'
    BY <2>1 DEF ChannelsListed, Closed, StopOfA5, StopInstrProfChannels, StopOf310P, StopOf910B
  <2> QED BY <1>0, <2>1, <2>2, <2>3, <2>4 DEF ReplayOK
<1>5. ASSUME NEW h, NEW kind, NEW simt \in BOOLEAN, NEW selected \in BOOLEAN,
             InitParam(h, kind, simt, selected)
      PROVE  ReplayOK' /\ ChannelsListed'
  <2>1. phase' \in Phases \ Running
    BY <1>5 DEF InitParam, Phases, Before, After, Running, Measuring, RoundPhases, RangePhases
  <2>2. task' = NewTask
    BY <1>5 DEF InitParam
  <2> QED BY <1>0, <1>2, <1>5, <2>1, <2>2 DEF ReplayOK, ChannelsListed, InitParam
<1>6. CASE Sampling \/ Timeline
  <2>1. UNCHANGED <<cfg, launch, mc2, lccl, count, l2, signal, range>> /\ phase' \in {"timeline", "init"}
        /\ phase \in {"sampling", "timeline"}
    BY <1>6 DEF Sampling, Timeline, unchangedLaunch
  <2>2. InstrProfData \/ UNCHANGED task
    BY <1>6 DEF Sampling, Timeline, RunsStub
  <2>3. task.on \subseteq {AicpuTask}
    BY <1>1, <2>1 DEF Running, Measuring
  <2>4. task' \in Task /\ task'.on \subseteq {AicpuTask}
    BY <1>0, <2>2, <2>3, InstrTask
  <2> QED BY <1>0, <2>1, <2>4
          DEF ReplayOK, ChannelsListed, Phases, Before, Running, Measuring
<1>7. CASE Initialize \/ Capture \/ NotReplayed \/ Replay \/ RoundsEnd \/ BBCount
           \/ RangeEndsEmpty \/ RangeEnds
  <2>1. UNCHANGED <<cfg, launch, task>> /\ phase' \in Phases \ Running /\ phase \notin Running
    BY <1>7 DEF Initialize, Capture, NotReplayed, Replay, RoundsEnd, BBCount, RangeEndsEmpty, RangeEnds,
         unchangedLaunch, replayVars, Phases, Before, After, Running, Measuring, RoundPhases, RangePhases, Idle
  <2>2. mc2' \in BOOLEAN /\ lccl' \in BOOLEAN /\ signal' \in BOOLEAN
    BY <1>0, <1>7 DEF Initialize, Capture, NotReplayed, Replay, RoundsEnd, BBCount, RangeEndsEmpty, RangeEnds,
         replayVars, ProfInit, LcclAfter
  <2>3. count' \in Nat
    BY <1>0, <1>7, ConfigOK DEF Initialize, Capture, NotReplayed, Replay, RoundsEnd, BBCount, RangeEndsEmpty,
         RangeEnds, replayVars, BeforeRounds
  <2>4. l2' \in [live : Nat, dangling : Nat]
    BY <1>0, <1>2, <1>7 DEF Initialize, Capture, NotReplayed, Replay, RoundsEnd, BBCount, RangeEndsEmpty,
         RangeEnds, replayVars, BeforeRounds, PrepareClearL2CacheParam, FreeL2Cache
  <2>5. range' \in [open : BOOLEAN, capturing : BOOLEAN, valid : BOOLEAN, captured : Nat]
    BY <1>0, <1>2, <1>7 DEF Initialize, Capture, NotReplayed, Replay, RoundsEnd, BBCount, RangeEndsEmpty,
         RangeEnds, replayVars, RangeReplayProfData, AfterRange
  <2> QED BY <1>0, <1>1, <2>1, <2>2, <2>3, <2>4, <2>5 DEF ReplayOK, ChannelsListed
<1>8. CASE Origin \/ MemoryChart \/ OperandRecord \/ Bare
  <2>1. UNCHANGED <<cfg, launch, task, mc2, lccl, count, l2, signal>>
        /\ phase' \in Phases \ Running /\ phase \notin Running
    BY <1>8 DEF Origin, MemoryChart, OperandRecord, Bare, PostStub,
         unchangedLaunch, Phases, Before, After, Running, Measuring, RoundPhases, RangePhases
  <2>2. range' = range \/ range' = [range EXCEPT !.captured = @ + 1]
    BY <1>8 DEF Origin, MemoryChart, OperandRecord, Bare, PostStub, Runs
  <2>3. range' \in [open : BOOLEAN, capturing : BOOLEAN, valid : BOOLEAN, captured : Nat]
    BY <1>0, <2>2
  <2> QED BY <1>0, <1>1, <2>1, <2>3 DEF ReplayOK, ChannelsListed
<1>9. CASE EvictStarts \/ Round \/ RangeRound
  <2>1. UNCHANGED <<cfg, launch, mc2, lccl, l2, signal, range>> /\ phase' \in Phases /\ phase \notin Running
    BY <1>9 DEF EvictStarts, Round, RangeRound, unchangedRound, unchangedLaunch, EvictEnds, NextRound,
         Phases, Before, After, Running, Measuring, RoundPhases, RangePhases
  <2>2. count' \in Nat
    BY <1>0, <1>9 DEF EvictStarts, Round, RangeRound, NextRound
  <2>3. \/ task' \in Started(count, launch.simt, mc2) /\ phase' \in Running
        \/ task' \in StartedInVain(count, launch.simt, mc2) /\ phase' \notin Running
        \/ UNCHANGED task /\ phase' \notin Running
    BY <1>9 DEF EvictStarts, Round, RangeRound, RoundStarts, RoundSkipped, RangeRoundStarts, RangeRoundSkipped,
         EvictEnds, NextRound, Running, Measuring
  <2>4. task.on \subseteq {AicpuTask}
    BY <1>1, <2>1
  <2>5. /\ task' \in Task
        /\ phase' \in Running => task'.on \ {AicpuTask} \subseteq Closed(task', mc2)
        /\ phase' \notin Running => task'.on \ {AicpuTask} = {}
    BY <1>0, <2>3, <2>4, StartedIsListed
  <2>6. Closed(task, mc2)' = Closed(task', mc2)
    BY <2>1 DEF Closed, StopOfA5, StopInstrProfChannels, StopOf310P, StopOf910B
  <2> QED BY <1>0, <2>1, <2>2, <2>5, <2>6 DEF ReplayOK, ChannelsListed
<1>10. CASE EvictRuns \/ Measure \/ RangeMeasure
  <2>1. UNCHANGED <<cfg, launch, mc2, lccl, l2, signal, range>> /\ phase' \in Phases \ Running
        /\ phase \in Running /\ task' = Stopped(task, mc2)
    BY <1>10 DEF EvictRuns, Measure, RangeMeasure, unchangedRound, unchangedLaunch, EvictEnds, NextRound,
         Phases, Before, After, Running, Measuring, RoundPhases, RangePhases, RoundRuns, RangeRoundRuns
  <2>2. count' \in Nat
    <3>1. count' = count \/ count' = count + 1
      BY <1>10 DEF EvictRuns, Measure, RangeMeasure, NextRound
    <3> QED BY <1>0, <3>1
  <2>3. task' \in Task /\ task'.on \ {AicpuTask} = {}
    BY <1>0, <2>1, StoppedType DEF ChannelsListed
  <2> QED BY <1>0, <2>1, <2>2, <2>3 DEF ReplayOK, ChannelsListed
<1>11. CASE RangeEnd
  <2>1. UNCHANGED <<cfg, launch, mc2, lccl, signal, range>> /\ phase' \in Phases \ Running /\ phase = "idle"
    BY <1>11 DEF RangeEnd, Phases, Running, Measuring, RangePhases, Idle
  <2>2. count' \in Nat /\ task' \in {task, NewTask} /\ l2' \in {l2} \cup Prepared
    BY <1>0, <1>11 DEF RangeEnd
  <2>3. task.on \subseteq {AicpuTask}
    BY <1>1, <2>1 DEF Running, Measuring
  <2> QED BY <1>0, <1>2, <2>1, <2>2, <2>3 DEF ReplayOK, ChannelsListed
<1>12. UNCHANGED vars => UNCHANGED <<cfg, launch, phase, replayVars>>
  BY DEF vars
<1> QED BY <1>3, <1>4, <1>5, <1>6, <1>7, <1>8, <1>9, <1>10, <1>11, <1>12
        DEF Next, Pre, CallAndPost, RangeReplay

\* The first launch is to come, with nothing open.
LEMMA InitOK == Init => TypeOK /\ ChannelsListed /\ BuffersInReplay
<1> SUFFICES ASSUME Init PROVE TypeOK /\ ChannelsListed /\ BuffersInReplay
  OBVIOUS
<1>1. MemoryOK
  BY DEF Init, MemoryInit, MemoryOK, Content, Snapshot
<1>2. ReplayOK
  <2>1. cfg \in Configs /\ task = NewTask /\ l2 = NoBuffers /\ range = NoRange
    BY DEF Init, ReplayInit
  <2>2. NewTask \in Task
    BY <2>1, ConfigOK DEF NewTask, Task
  <2>3. launch.simt \in BOOLEAN /\ launch.selected \in BOOLEAN /\ phase \in Phases
    BY DEF Init, Phases
  <2>4. mc2 \in BOOLEAN /\ lccl \in BOOLEAN /\ signal \in BOOLEAN /\ count \in Nat
    BY DEF Init, ReplayInit
  <2>5. /\ NoBuffers \in [live : Nat, dangling : Nat]
        /\ NoRange \in [open : BOOLEAN, capturing : BOOLEAN, valid : BOOLEAN, captured : Nat]
    BY DEF NoBuffers, NoRange
  <2> QED BY <2>1, <2>2, <2>3, <2>4, <2>5 DEF ReplayOK
<1>3. ChannelsListed /\ BuffersInReplay
  BY DEF Init, ReplayInit, ChannelsListed, BuffersInReplay, NewTask, NoBuffers, Running, Measuring
<1> QED BY <1>1, <1>2, <1>3 DEF TypeOK

\* The types of the memory, of its snapshots and of the replay, and that an open
\* channel, but the AICPU's, is on the list of what the next stop closes
\* (ProfTask::Start, Stop), for every chip and failure.
THEOREM TypeCorrect == Spec => [](TypeOK /\ ChannelsListed)
<1>1. Init => TypeOK /\ ChannelsListed
  BY InitOK
<1>2. TypeOK /\ ChannelsListed /\ [Next]_vars => (TypeOK /\ ChannelsListed)'
  BY MemoryStep, ReplayStep DEF TypeOK
<1> QED BY <1>1, <1>2, PTL DEF Spec

-----------------------------------------------------------------------------
(* The stubs and their buffers.                                            *)

\* The tool is asked once.
LEMMA CfgStays ==
    ASSUME [Next]_vars
    PROVE  cfg' = cfg
BY DEF Next, vars, Malloc, Free, HandleSigInt, MstxRangeAdd, InitParam, Pre, Sampling, Timeline, Initialize,
     Capture, NotReplayed, Replay, EvictStarts, EvictRuns, Round, Measure, RoundsEnd, BBCount,
     CallAndPost, Origin, MemoryChart, OperandRecord, Bare, PostStub, RangeReplay, RangeEndsEmpty,
     RangeEnd, RangeRound, RangeMeasure, RangeEnds, unchangedLaunch, unchangedRound

\* A stub that was prepared has its buffer; one that was not is not there.
LEMMA PreparedWithBuffer ==
    ASSUME NEW mode, NEW ok, PrepareDbi(mode, ok)
    PROVE  func' # "plain" => args' = func'
BY DEF PrepareDbi, Becomes, Refreshed

\* Every step leaves the function and its arguments together, where hooks give stubs a buffer.
LEMMA StubStep ==
    ASSUME OwnStubs, StubOK, [Next]_vars
    PROVE  StubOK'
<1>0. /\ cfg' = cfg /\ cfg \in Configs
      /\ Flag("pc") \/ Flag("timeline") => hook.stubArgs = "own"
      /\ func # "plain" => args = func
      /\ ran.func # "plain" => ran.args = ran.func
  <2>1. cfg' = cfg
    BY CfgStays
  <2> QED BY <2>1 DEF StubOK, StubHasItsBuffer
<1>1. CASE UNCHANGED <<launch, func, args, ran>>
  BY <1>0, <1>1 DEF StubOK, StubHasItsBuffer, Flag, hook
<1>2. ASSUME NEW h \in cfg.hooks, NEW kind, NEW simt, NEW selected, InitParam(h, kind, simt, selected)
      PROVE  StubOK'
  <2>1. hook' = h /\ func' = "plain" /\ ran' = ran
    BY <1>2 DEF InitParam, hook
  <2>2. Flag("pc") \/ Flag("timeline") => h.stubArgs = "own"
    BY <1>0 DEF OwnStubs, Flag
  <2> QED BY <1>0, <2>1, <2>2 DEF StubOK, StubHasItsBuffer, Flag
<1>3. CASE Sampling \/ Timeline
  <2>1. launch' = launch
    BY <1>3 DEF Sampling, Timeline, unchangedLaunch
  <2>2. CASE UNCHANGED <<func, args, ran>>
    BY <1>1, <2>1, <2>2
  <2>3. ASSUME NEW mode, NEW ok, PrepareDbi(mode, ok), Flag("pc") \/ Flag("timeline"),
               ran' \in {ran, Stub(func', args')}
        PROVE  StubOK'
    <3>1. func' # "plain" => args' = func'
      BY <2>3, PreparedWithBuffer
    <3>2. Stub(func', args') = [func |-> func', args |-> args']
      BY <1>0, <2>3 DEF Stub
    <3>3. ran'.func # "plain" => ran'.args = ran'.func
      BY <1>0, <2>3, <3>1, <3>2
    <3> QED BY <1>0, <2>1, <3>1, <3>3 DEF StubOK, StubHasItsBuffer, Flag, hook
  <2>4. CASE Sampling
    BY <2>2, <2>3, <2>4 DEF Sampling, RunsStub
  <2>5. CASE Timeline
    BY <2>2, <2>3, <2>5 DEF Timeline, RunsStub
  <2> QED BY <1>3, <2>4, <2>5
<1>4. CASE BBCount
  <2>1. UNCHANGED <<launch, ran>>
    BY <1>4 DEF BBCount, unchangedLaunch
  <2>2. func' # "plain" => args' = func'
    BY <1>0, <1>4 DEF BBCount, Becomes, Refreshed, Member
  <2> QED BY <1>0, <2>1, <2>2 DEF StubOK, StubHasItsBuffer, Flag, hook
<1>5. CASE Origin \/ Bare
  <2>1. UNCHANGED <<launch, func, args>>
    BY <1>5 DEF Origin, Bare, unchangedLaunch
  <2>2. ran' \in {ran, Launched, Plain}
    BY <1>5 DEF Origin, Bare, Runs
  <2>3. ran'.func # "plain" => ran'.args = ran'.func
    BY <1>0, <2>2 DEF Launched, Plain, Member
  <2> QED BY <1>0, <2>1, <2>3 DEF StubOK, StubHasItsBuffer, Flag, hook
<1>6. CASE MemoryChart \/ OperandRecord
  <2>1. PICK mode, needed : PostStub(mode, needed)
    BY <1>6 DEF MemoryChart, OperandRecord
  <2>2. launch' = launch
    BY <2>1 DEF PostStub, unchangedLaunch
  <2>3. func' # "plain" => args' = func'
    <3>1. UNCHANGED <<func, args>> \/ \E ok \in May : PrepareDbi(mode, ok)
      BY <2>1 DEF PostStub
    <3> QED BY <1>0, <3>1, PreparedWithBuffer
  <2>4. ran' \in {ran, [func |-> mode, args |-> mode]}
    BY <2>1 DEF PostStub, Runs
  <2> QED BY <1>0, <2>2, <2>3, <2>4 DEF StubOK, StubHasItsBuffer, Flag, hook
<1>7. HandleSigInt \/ MstxRangeAdd \/ Initialize \/ Capture \/ NotReplayed \/ Replay \/ EvictStarts
      \/ EvictRuns \/ Round \/ Measure \/ RoundsEnd \/ RangeReplay \/ (\E s : Malloc(s) \/ Free(s))
      => UNCHANGED <<launch, func, args, ran>>
  BY DEF HandleSigInt, MstxRangeAdd, Initialize, Capture, NotReplayed, Replay, EvictStarts, EvictRuns, Round,
       Measure, RoundsEnd, RangeReplay, RangeEndsEmpty, RangeEnd, RangeRound, RangeMeasure, RangeEnds,
       Malloc, Free, unchangedHook, unchangedLaunch, unchangedRound
<1>8. UNCHANGED vars => UNCHANGED <<launch, func, args, ran>>
  BY DEF vars
<1> QED BY <1>1, <1>2, <1>3, <1>4, <1>5, <1>6, <1>7, <1>8 DEF Next, Pre, CallAndPost

\* A stub is never launched with another stub's buffer or with none, through any of
\* the hooks that give their stubs one and whatever fails in between
\* (PrepareDbiTaskForInstrProf); findings: FlagV2 and HandleV2 do not.
THEOREM StubsHaveTheirBuffers ==
    ASSUME OwnStubs
    PROVE  Spec => []StubHasItsBuffer
<1>1. Init => StubOK
  BY DEF Init, ReplayInit, StubOK, StubHasItsBuffer, Plain, hook, AclrtLaunchKernel
<1>2. StubOK /\ [Next]_vars => StubOK'
  BY StubStep
<1>3. StubOK => StubHasItsBuffer
  BY DEF StubOK
<1> QED BY <1>1, <1>2, <1>3, PTL DEF Spec

-----------------------------------------------------------------------------
(* The course of a launch.                                                 *)

\* A start adds to what the task knows, a stop takes nothing of it away.
LEMMA TaskMoves ==
    ASSUME cfg \in Configs, task \in Task, NEW n \in Nat, NEW simt, NEW m
    PROVE  /\ \A t \in Started(n, simt, m) : \E o \in SUBSET Asked(n, simt, m) : t = Opened(n, simt, o)
           /\ \A t \in Started(n, simt, m) \cup StartedInVain(n, simt, m) :
                 \E o \in SUBSET Asked(n, simt, m) :
                    /\ t.l2 = (task.l2 /\ cfg.chip # "910B")
                    /\ t.last = (task.last \/ (FftsTask \in o /\ Last(n)))
                    /\ t.started = task.started \cup (o \cap (Durations \cup {AiCoreTask, L2CacheTask}))
<1>1. ASSUME NEW t \in Started(n, simt, m)
      PROVE  \E o \in SUBSET Asked(n, simt, m) : t = Opened(n, simt, o)
  BY StartedIs
<1>2. ASSUME NEW t \in StartedInVain(n, simt, m)
      PROVE  \E o \in SUBSET Asked(n, simt, m) : t = Stopped(Opened(n, simt, o), m)
  BY StartedInVainIs
<1>3. ASSUME NEW o
      PROVE  LET t == Opened(n, simt, o)
                 u == Stopped(t, m)
             IN  /\ t.l2 = (task.l2 /\ cfg.chip # "910B")
                 /\ t.last = (task.last \/ (FftsTask \in o /\ Last(n)))
                 /\ t.started = task.started \cup (o \cap (Durations \cup {AiCoreTask, L2CacheTask}))
                 /\ u.l2 = t.l2 /\ u.last = t.last /\ u.started = t.started
  BY DEF Opened, Stopped
<1> QED BY <1>1, <1>2, <1>3

\* Every step keeps what the place of a launch tells of it.
LEMMA CourseStep ==
    ASSUME TypeOK, Course, [Next]_vars
    PROVE  Course'
<1>0. /\ cfg' = cfg /\ cfg \in Configs /\ task \in Task /\ count \in Nat
      /\ range \in [open : BOOLEAN, capturing : BOOLEAN, valid : BOOLEAN, captured : Nat]
  BY CfgStays DEF TypeOK, ReplayOK
<1> USE <1>0 DEF Course
<1>1. CASE UNCHANGED <<launch, phase, replayVars>>
  BY <1>1 DEF replayVars, Evicts, IsRangeReplay, IsAppReplay, MayFail
<1>2. ASSUME NEW s, Malloc(s) \/ Free(s) \/ HandleSigInt \/ MstxRangeAdd
      PROVE  Course'
  <2>1. UNCHANGED <<launch, phase, task, mc2, lccl, count, l2>>
    BY <1>2 DEF Malloc, Free, HandleSigInt, MstxRangeAdd, replayVars
  <2>2. /\ signal' = signal \/ MayFail
        /\ range' = range \/ (range' = [range EXCEPT !.open = TRUE] /\ IsRangeReplay)
    BY <1>2 DEF Malloc, Free, HandleSigInt, MstxRangeAdd, replayVars
  <2> QED BY <2>1, <2>2 DEF Evicts, IsRangeReplay, IsAppReplay, RoundPhases, MayFail
<1>3. ASSUME NEW h, NEW kind \in cfg.kinds, NEW simt, NEW selected, InitParam(h, kind, simt, selected)
      PROVE  Course'
  <2>1. /\ UNCHANGED <<mc2, lccl, l2, signal, range>> /\ phase' \in {"bare", "sampling"}
        /\ launch'.kind = kind /\ task' = NewTask /\ count' = 0
    BY <1>3 DEF InitParam
  <2> QED BY <2>1 DEF Evicts, IsRangeReplay, IsAppReplay, RoundPhases, MayFail, NewTask, RangePhases, Before
<1>4. CASE Sampling \/ Timeline
  <2>1. /\ UNCHANGED <<launch, mc2, lccl, count, l2, signal, range>> /\ phase' \in {"timeline", "init"}
        /\ phase \in Before
    BY <1>4 DEF Sampling, Timeline, unchangedLaunch, Before
  <2>2. InstrProfData \/ UNCHANGED task
    BY <1>4 DEF Sampling, Timeline, RunsStub
  <2>3. \/ UNCHANGED task \/ task' \in StartedInVain(count, launch.simt, mc2)
        \/ task' \in {Stopped(t, mc2) : t \in Started(count, launch.simt, mc2)}
    BY <2>2 DEF InstrProfData, KernelLaunchForInstrProf
  <2>4. \A t : Stopped(t, mc2).l2 = t.l2
    BY DEF Stopped
  <2>5. task'.l2 => task.l2
    <3>1. \A t \in Started(count, launch.simt, mc2) \cup StartedInVain(count, launch.simt, mc2) :
             t.l2 => task.l2
      BY TaskMoves
    <3> QED BY <2>3, <2>4, <3>1
  <2> QED BY <2>1, <2>5 DEF Evicts, IsRangeReplay, IsAppReplay, RoundPhases, MayFail, RangePhases, Before
<1>5. CASE Initialize
  <2>1. UNCHANGED <<launch, task, count, l2, signal, range>> /\ phase' = "data" /\ phase = "init"
    BY <1>5 DEF Initialize, unchangedLaunch
  <2>2. mc2' => mc2 \/ launch.kind = "mc2"
    BY <1>5 DEF Initialize, ProfInit
  <2> QED BY <2>1, <2>2 DEF Evicts, IsRangeReplay, IsAppReplay, RoundPhases, MayFail, RangePhases, Before
<1>6. CASE Capture
  <2>1. UNCHANGED <<launch, task, mc2, lccl, count, l2, signal>> /\ phase' = "bbcount"
    BY <1>6 DEF Capture, unchangedLaunch
  <2>2. range'.open = range.open /\ (range'.capturing => range.open)
    BY <1>6 DEF Capture, InRange, RangeReplayProfData
  <2> QED BY <2>1, <2>2 DEF Evicts, IsRangeReplay, IsAppReplay, RoundPhases, MayFail, RangePhases, Before
<1>7. CASE NotReplayed \/ BBCount
  BY <1>7 DEF NotReplayed, BBCount, unchangedLaunch, replayVars, RangePhases, Before,
              IsRangeReplay, IsAppReplay, RoundPhases, MayFail
<1>8. CASE Replay
  <2>1. /\ UNCHANGED <<launch, task, mc2, lccl, signal, range>> /\ phase = "data"
        /\ phase' \in {"bbcount", "evict", "rounds"} /\ (phase' = "evict" => Evicts)
        /\ phase' = "evict" /\ ~IsAppReplay => count' = 0
        /\ phase' # "bbcount" /\ IsAppReplay => count' = cfg.first
    BY <1>8 DEF Replay, BeforeRounds, unchangedLaunch
  <2> QED BY <2>1 DEF Evicts, IsRangeReplay, IsAppReplay, RoundPhases, MayFail, RangePhases, Before
<1>9. CASE EvictStarts
  <2>1. /\ UNCHANGED <<launch, mc2, lccl, l2, signal, range, count>> /\ phase = "evict"
        /\ phase' \in {"evicting", "bbcount"} \/ (phase' = "rounds" /\ ~IsAppReplay)
    BY <1>9 DEF EvictStarts, EvictEnds, unchangedRound, unchangedLaunch
  <2>2. UNCHANGED task \/ task' \in Started(count, launch.simt, mc2) \cup StartedInVain(count, launch.simt, mc2)
    BY <1>9 DEF EvictStarts, RoundStarts, RoundSkipped
  <2>3. task'.l2 => task.l2
    BY <2>2, TaskMoves
  <2> QED BY <2>1, <2>3 DEF Evicts, IsRangeReplay, IsAppReplay, RoundPhases, MayFail, RangePhases, Before
<1>10. CASE EvictRuns
  <2>1. /\ UNCHANGED <<launch, mc2, lccl, l2, signal, range>>
        /\ (phase' = "bbcount" \/ (phase' = "rounds" /\ ~IsAppReplay)) /\ task' = Stopped(task, mc2)
    BY <1>10 DEF EvictRuns, EvictEnds, RoundRuns, unchangedRound, unchangedLaunch
  <2> QED BY <2>1, StoppedType DEF IsRangeReplay, IsAppReplay, RoundPhases, MayFail, RangePhases, Before
<1>11. CASE Round \/ RangeRound
  <2>1. /\ UNCHANGED <<launch, mc2, lccl, l2, signal, range>>
        /\ \/ phase' = "bbcount" \/ (phase' = "rounds" /\ ~IsAppReplay)
           \/ phase' = "measuring" /\ phase = "rounds" /\ count' = count
           \/ phase' \in RangePhases /\ phase \in RangePhases
    BY <1>11 DEF Round, NextRound, RangeRound, unchangedRound, unchangedLaunch, RangePhases
  <2>2. UNCHANGED task \/ task' \in Started(count, launch.simt, mc2) \cup StartedInVain(count, launch.simt, mc2)
    BY <1>11 DEF Round, RangeRound, RoundStarts, RoundSkipped, RangeRoundStarts, RangeRoundSkipped
  <2>3. task'.l2 => task.l2
    BY <2>2, TaskMoves
  <2> QED BY <2>1, <2>3 DEF IsRangeReplay, IsAppReplay, RoundPhases, MayFail, RangePhases, Before
<1>12. CASE Measure \/ RangeMeasure
  <2>1. /\ UNCHANGED <<launch, mc2, lccl, l2, signal, range>> /\ task' = Stopped(task, mc2)
        /\ \/ phase' = "bbcount" \/ (phase' = "rounds" /\ ~IsAppReplay)
           \/ phase' \in RangePhases /\ phase \in RangePhases
    BY <1>12 DEF Measure, NextRound, RangeMeasure, unchangedRound, unchangedLaunch, RangePhases,
                 RoundRuns, RangeRoundRuns
  <2> QED BY <2>1, StoppedType DEF IsRangeReplay, IsAppReplay, RoundPhases, MayFail, RangePhases, Before
<1>13. CASE RoundsEnd
  BY <1>13 DEF RoundsEnd, unchangedLaunch, RangePhases, Before, IsRangeReplay, IsAppReplay, RoundPhases, MayFail
<1>14. CASE Origin \/ MemoryChart \/ OperandRecord \/ Bare
  <2>1. /\ UNCHANGED <<launch, task, mc2, lccl, count, l2, signal>>
        /\ phase' \in {"idle", "chart", "record"}
    BY <1>14 DEF Origin, MemoryChart, OperandRecord, Bare, PostStub, unchangedLaunch
  <2>2. range' = range \/ range' = [range EXCEPT !.captured = @ + 1]
    BY <1>14 DEF Origin, MemoryChart, OperandRecord, Bare, PostStub, Runs
  <2> QED BY <2>1, <2>2 DEF IsRangeReplay, IsAppReplay, RoundPhases, MayFail, RangePhases, Before
<1>15. CASE RangeEnd
  <2>1. /\ UNCHANGED <<launch, mc2, lccl, signal, range>> /\ range.capturing
        /\ phase' \in {"rangeRounds", "rangeEnds"} /\ task' \in {task, NewTask}
    BY <1>15 DEF RangeEnd
  <2> QED BY <2>1 DEF IsRangeReplay, IsAppReplay, RoundPhases, MayFail, RangePhases, Before, NewTask
<1>16. CASE RangeEnds \/ RangeEndsEmpty
  <2>1. /\ UNCHANGED <<launch, task, mc2, lccl, count, signal>> /\ range' = NoRange
        /\ phase' = "idle"
    BY <1>16 DEF RangeEnds, RangeEndsEmpty, AfterRange, unchangedLaunch, Idle
  <2> QED BY <2>1 DEF IsRangeReplay, IsAppReplay, RoundPhases, MayFail, RangePhases, Before, NoRange
<1>17. UNCHANGED vars => UNCHANGED <<launch, phase, replayVars>>
  BY DEF vars
<1> QED BY <1>1, <1>2, <1>3, <1>4, <1>5, <1>6, <1>7, <1>8, <1>9, <1>10, <1>11, <1>12, <1>13, <1>14,
           <1>15, <1>16, <1>17 DEF Next, Pre, CallAndPost, RangeReplay

\* Buffers for eviction are taken and given back within the rounds.
LEMMA BuffersStep ==
    ASSUME BuffersInReplay, [Next]_vars
    PROVE  BuffersInReplay'
<1> USE CfgStays DEF BuffersInReplay, IsAppReplay
<1>1. CASE UNCHANGED <<phase, l2>>
  BY <1>1
<1>2. ASSUME NEW h, NEW kind, NEW simt, NEW selected, InitParam(h, kind, simt, selected)
      PROVE  BuffersInReplay'
  BY <1>2 DEF InitParam, Idle, RoundPhases, RangePhases
<1>3. CASE Sampling \/ Timeline \/ Initialize \/ Capture \/ NotReplayed \/ BBCount \/ CallAndPost
  <2>1. l2' = l2 /\ phase \notin RoundPhases \cup RangePhases \cup {"rangeEnds"}
    BY <1>3 DEF Sampling, Timeline, Initialize, Capture, NotReplayed, BBCount, CallAndPost, Origin, MemoryChart,
         OperandRecord, Bare, PostStub, replayVars, RoundPhases, RangePhases
  <2> QED BY <2>1
<1>4. CASE Replay
  <2>1. /\ phase = "data" /\ phase' \in {"bbcount", "evict", "rounds"}
        /\ phase' = "bbcount" => l2' = l2
        /\ IsAppReplay => l2' = l2 \/ l2' = NoBuffers
    BY <1>4 DEF Replay, BeforeRounds, PrepareClearL2CacheParam, PrepareWanted
  <2> QED BY <2>1 DEF RoundPhases, RangePhases, NoBuffers
<1>5. CASE EvictStarts \/ EvictRuns \/ Round \/ Measure
  <2>1. /\ l2' = l2 /\ phase \in RoundPhases
        /\ phase' \in RoundPhases \/ (phase' = "bbcount" /\ IsAppReplay)
    BY <1>5 DEF EvictStarts, EvictRuns, Round, Measure, EvictEnds, NextRound, unchangedRound, RoundPhases
  <2> QED BY <2>1 DEF RoundPhases, RangePhases
<1>6. CASE RangeRound \/ RangeMeasure
  BY <1>6 DEF RangeRound, RangeMeasure, unchangedRound, RangePhases
<1>7. CASE RoundsEnd \/ RangeEnds
  BY <1>7 DEF RoundsEnd, RangeEnds, FreeL2Cache, NoBuffers
<1>8. CASE RangeEnd
  BY <1>8 DEF RangeEnd, RangePhases, Idle, RoundPhases
<1>9. HandleSigInt \/ MstxRangeAdd \/ RangeEndsEmpty \/ (\E s : Malloc(s) \/ Free(s)) \/ UNCHANGED vars
      => UNCHANGED <<phase, l2>>
  BY DEF HandleSigInt, MstxRangeAdd, RangeEndsEmpty, Malloc, Free, replayVars, vars
<1> QED BY <1>1, <1>2, <1>3, <1>4, <1>5, <1>6, <1>7, <1>8, <1>9 DEF Next, Pre, RangeReplay

-----------------------------------------------------------------------------
(* The snapshots of a replay.                                              *)

\* Malloc keeps no section where the application is repeated.
LEMMA KeptStep ==
    ASSUME NothingKept, [Next]_vars
    PROVE  NothingKept'
<1>1. sections' # sections => \E s : Malloc(s) \/ Free(s)
  BY DEF Next, vars, memoryVars, HandleSigInt, MstxRangeAdd, InitParam, Pre, Sampling, Timeline, Initialize,
     Capture, NotReplayed, Replay, EvictStarts, EvictRuns, Round, Measure, RoundsEnd, BBCount,
     CallAndPost, Origin, MemoryChart, OperandRecord, Bare, PostStub, RangeReplay, RangeEndsEmpty,
     RangeEnd, RangeRound, RangeMeasure, RangeEnds, unchangedRound
<1>2. ASSUME NEW s, Malloc(s) \/ Free(s)
      PROVE  NothingKept'
  BY <1>2, CfgStays DEF Malloc, Free, AppendSection, Appended, Discard, Discarded, NothingKept, IsAppReplay
<1> QED BY <1>1, <1>2, CfgStays DEF NothingKept, IsAppReplay

\* Every step keeps the snapshots of the rounds whole.
LEMMA SnapshotsStep ==
    ASSUME TypeOK, SnapshotsHold, [Next]_vars
    PROVE  SnapshotsHold'
<1>0. /\ cfg' = cfg /\ cfg \in Configs /\ MemoryOK /\ mem \in [Section -> Content]
      /\ before \in [Section -> Content] /\ sections \subseteq Section /\ snapshot \in [Section -> Snapshot]
  BY CfgStays DEF TypeOK, ReplayOK, MemoryOK
<1>1. ASSUME UNCHANGED <<mem, before, snapshot, sections, mc2, lccl>>,
             phase' \in Before => phase \in Before,
             phase' \in RoundPhases => phase \in RoundPhases,
             phase' \in RoundPhases /\ phase' \in Running => phase \in Running,
             phase' \in RangePhases => phase \in RangePhases
      PROVE  SnapshotsHold'
  BY <1>0, <1>1 DEF SnapshotsHold, Quiet, Fused, Restores, CanRestore, AllSaved, IsAppReplay, MayFail
<1>2. ASSUME phase' \notin Before \cup RoundPhases \cup RangePhases
      PROVE  SnapshotsHold'
  BY <1>2 DEF SnapshotsHold
<1>3. ASSUME NEW h, NEW kind, NEW simt, NEW selected, InitParam(h, kind, simt, selected)
      PROVE  SnapshotsHold'
  BY <1>3 DEF InitParam, SnapshotsHold, Before, RoundPhases, RangePhases, memoryVars
<1>4. CASE Sampling \/ Timeline
  <2>1. /\ phase \in Before /\ phase' \in Before /\ before' = before
        /\ Quiet => mem' = mem
    BY <1>4 DEF Sampling, Timeline, unchangedLaunch, Before, Quiet, Flag
  <2> QED BY <1>0, <2>1 DEF SnapshotsHold, Quiet, Before, RoundPhases, RangePhases
<1>5. CASE Initialize
  BY <1>0, <1>5 DEF Initialize, unchangedLaunch, SnapshotsHold, Quiet, Before, RoundPhases, RangePhases, memoryVars
<1>6. CASE Replay
  <2>1. CASE phase' = "bbcount"
    BY <1>2, <2>1 DEF Before, RoundPhases, RangePhases
  <2>2. CASE phase' # "bbcount"
    <3>1. /\ phase = "data" /\ phase' \in {"evict", "rounds"} /\ BeforeRounds
          /\ UNCHANGED <<before, sections, mc2, lccl>>
      BY <1>6, <2>2 DEF Replay, unchangedLaunch
    <3>2. Restores => \A s \in sections : snapshot'[s] = mem[s] /\ snapshot'[s] # NoSnapshot
      BY <1>0, <3>1, BackedUpHolds DEF BeforeRounds, Saves, Restores, Fused
    <3>3. Quiet => mem = before
      BY <3>1 DEF SnapshotsHold, Before
    <3> QED BY <1>0, <3>1, <3>2, <3>3
            DEF SnapshotsHold, Quiet, Restores, Fused, CanRestore, AllSaved, IsAppReplay, Before, RoundPhases,
                RangePhases, Running, Measuring
  <2> QED BY <2>1, <2>2
<1>7. CASE EvictStarts \/ Round
  <2>1. /\ UNCHANGED <<before, sections, snapshot, mc2, lccl>> /\ phase \in {"evict", "rounds"}
        /\ phase' \in RoundPhases \cup {"bbcount"} /\ (RoundStarts \/ RoundSkipped)
        /\ phase' \in Running => RoundStarts
    BY <1>7 DEF EvictStarts, Round, EvictEnds, NextRound, unchangedRound, unchangedLaunch, RoundPhases,
                Running, Measuring
  <2>3. ~Restores => mem' = mem
    BY <2>1 DEF RoundStarts, RoundSkipped, Replayed
  <2>4. Restores /\ RoundStarts => mem' = Restored
    BY DEF RoundStarts, Replayed
  <2>5. Restores /\ RoundStarts => \A s \in sections : mem'[s] = snapshot[s]
    BY <1>0, <2>4 DEF Restored, RestoredTo
  <2> QED BY <1>0, <2>1, <2>3, <2>5
          DEF SnapshotsHold, Quiet, Restores, Fused, CanRestore, AllSaved, IsAppReplay, Before, RoundPhases, RangePhases
<1>8. CASE EvictRuns \/ Measure
  <2>1. /\ UNCHANGED <<before, sections, snapshot, mc2, lccl>> /\ phase \in {"evicting", "measuring"}
        /\ phase' \in {"rounds", "bbcount"} /\ (IsAppReplay => phase' = "bbcount")
    BY <1>8 DEF EvictRuns, Measure, EvictEnds, NextRound, unchangedRound, unchangedLaunch
  <2> QED BY <1>0, <2>1
          DEF SnapshotsHold, Quiet, Restores, Fused, CanRestore, AllSaved, IsAppReplay, Before, RoundPhases, RangePhases,
              Running, Measuring
<1>9. CASE RangeEnd
  <2>1. CASE ~range.valid
    BY <1>2, <1>9, <2>1 DEF RangeEnd, Before, RoundPhases, RangePhases
  <2>2. CASE range.valid
    <3>1. phase' = "rangeRounds" /\ RangeBackup /\ UNCHANGED sections
      BY <1>9, <2>2 DEF RangeEnd
    <3>2. ~MayFail => \A s \in sections : snapshot'[s] # NoSnapshot
      BY <1>0, <3>1, BackedUpHolds DEF RangeBackup
    <3> QED BY <1>0, <3>1, <3>2 DEF SnapshotsHold, Before, RoundPhases, RangePhases, CanRestore, AllSaved, MayFail
  <2> QED BY <2>1, <2>2
<1>10. CASE RangeRound \/ RangeMeasure
  <2>1. phase \in RangePhases /\ phase' \in RangePhases /\ UNCHANGED <<snapshot, sections>>
    BY <1>10 DEF RangeRound, RangeMeasure, unchangedRound, RangePhases
  <2> QED BY <1>0, <2>1 DEF SnapshotsHold, Before, RoundPhases, RangePhases, CanRestore, AllSaved, MayFail
<1>11. ASSUME NEW s, Malloc(s) \/ Free(s) \/ MstxRangeAdd
       PROVE  SnapshotsHold'
  <2>1. phase' = "idle"
    BY <1>11 DEF Malloc, Free, MstxRangeAdd, Idle
  <2> QED BY <1>2, <2>1 DEF Before, RoundPhases, RangePhases
<1>12. CASE HandleSigInt \/ UNCHANGED vars
  BY <1>1, <1>12 DEF HandleSigInt, vars, memoryVars, replayVars
<1>13. CASE Capture \/ NotReplayed \/ RoundsEnd \/ BBCount \/ CallAndPost \/ RangeEndsEmpty \/ RangeEnds
  <2>1. phase' \in {"bbcount", "origin", "idle", "chart", "record"}
    BY <1>13 DEF Capture, NotReplayed, RoundsEnd, BBCount, CallAndPost, Origin, MemoryChart, OperandRecord, Bare,
                 RangeEndsEmpty, RangeEnds, Idle
  <2> QED BY <1>2, <2>1 DEF Before, RoundPhases, RangePhases
<1> QED BY <1>3, <1>4, <1>5, <1>6, <1>7, <1>8, <1>9, <1>10, <1>11, <1>12, <1>13
        DEF Next, Pre, RangeReplay

-----------------------------------------------------------------------------
(* The channels of the rounds.                                             *)

\* Nothing is started before the rounds but by a stub.
LEMMA NewStep ==
    ASSUME TypeOK, TaskIsNew, [Next]_vars
    PROVE  TaskIsNew'
<1>0. cfg' = cfg
  BY CfgStays
<1>1. ASSUME UNCHANGED task, phase' \in Before \cup {"evict"} => phase \in Before \cup {"evict"}
      PROVE  TaskIsNew'
  BY <1>0, <1>1 DEF TaskIsNew, Quiet, NewTask
<1>2. ASSUME phase' \notin Before \cup {"evict"}
      PROVE  TaskIsNew'
  BY <1>2 DEF TaskIsNew
<1>3. ASSUME NEW h, NEW kind, NEW simt, NEW selected, InitParam(h, kind, simt, selected)
      PROVE  TaskIsNew'
  BY <1>0, <1>3 DEF InitParam, TaskIsNew, NewTask
<1>4. CASE Sampling \/ Timeline
  <2>1. Quiet => UNCHANGED task
    BY <1>4 DEF Sampling, Timeline, Quiet, Flag
  <2>2. phase \in Before
    BY <1>4 DEF Sampling, Timeline, Before
  <2> QED BY <1>0, <2>1, <2>2 DEF TaskIsNew, Quiet, NewTask
<1>5. CASE Initialize \/ Replay \/ HandleSigInt \/ UNCHANGED vars
  <2>1. UNCHANGED task /\ (phase' = phase \/ phase \in Before)
    BY <1>5 DEF Initialize, Replay, HandleSigInt, vars, replayVars, Before
  <2> QED BY <1>1, <2>1
<1>6. ASSUME NEW s, Malloc(s) \/ Free(s)
      PROVE  TaskIsNew'
  BY <1>2, <1>6 DEF Malloc, Free, Idle, Before
<1>7. CASE MstxRangeAdd \/ Capture \/ NotReplayed \/ EvictStarts \/ EvictRuns \/ Round \/ Measure \/ RoundsEnd
           \/ BBCount \/ CallAndPost \/ RangeReplay
  <2>1. phase' \notin Before \cup {"evict"}
    BY <1>7 DEF MstxRangeAdd, Capture, NotReplayed, EvictStarts, EvictRuns, EvictEnds, Round, Measure, NextRound,
         RoundsEnd, BBCount, CallAndPost, Origin, MemoryChart, OperandRecord, Bare, RangeReplay,
         RangeEndsEmpty, RangeEnd, RangeRound, RangeMeasure, RangeEnds, Idle, Before
  <2> QED BY <1>2, <2>1
<1> QED BY <1>3, <1>4, <1>5, <1>6, <1>7 DEF Next, Pre

\* Who opens the log of the AICPU, and that its run is then the last or is not.
LEMMA AicpuJoins ==
    ASSUME ReplayOK, NEW n \in Nat, NEW simt, NEW m
    PROVE  /\ \A t \in Started(n, simt, m) \cup StartedInVain(n, simt, m) :
                 AicpuTask \in t.on \ task.on =>
                    cfg.chip = "910B" /\ ~task.l2 /\ n = 0 /\ m
           /\ cfg.chip = "910B" /\ ~task.l2 =>
                 \A t \in Started(n, simt, m) : (task.last \/ Last(n) => t.last) /\ ~t.l2
<1>1. cfg \in Configs /\ cfg.chip \in {"910B", "310P", "950"}
  BY ConfigsAssumption DEF ReplayOK
<1>2. AicpuTask \in Asked(n, simt, m) => cfg.chip = "910B" /\ ~task.l2 /\ n = 0 /\ m
  BY <1>1, AskedIs DEF Only, FftsTask, AiCoreTask, StarsTask, HwtsTask, L2CacheTask, AicpuTask, InstrProfTask
<1>3. ASSUME NEW t \in Started(n, simt, m) \cup StartedInVain(n, simt, m), AicpuTask \in t.on \ task.on
      PROVE  AicpuTask \in Asked(n, simt, m)
  <2>1. PICK o \in SUBSET Asked(n, simt, m) : t = Opened(n, simt, o) \/ t = Stopped(Opened(n, simt, o), m)
    BY <1>1, StartedIs, StartedInVainIs
  <2>2. Opened(n, simt, o).on = task.on \cup o
    BY DEF Opened
  <2>3. Stopped(Opened(n, simt, o), m).on \subseteq Opened(n, simt, o).on
    BY DEF Opened, Stopped
  <2>4. t.on \subseteq task.on \cup o
    BY <2>1, <2>2, <2>3
  <2> QED BY <1>3, <2>4
<1>4. ASSUME cfg.chip = "910B", ~task.l2, NEW t \in Started(n, simt, m)
      PROVE  (task.last \/ Last(n) => t.last) /\ ~t.l2
  <2>1. FftsTask \in Asked(n, simt, m) /\ Asked(n, simt, m) # {InstrProfTask}
    BY <1>1, <1>4, AskedIs DEF FftsTask, InstrProfTask
  <2>2. t = Opened(n, simt, Asked(n, simt, m))
    BY <1>1, <1>4, <2>1, StartedIs
  <2> QED BY <1>4, <2>1, <2>2 DEF Opened
<1> QED BY <1>2, <1>3, <1>4

\* The log of the AICPU is opened by no round that the last one does not follow.
LEMMA AicpuStep ==
    ASSUME AicpuIsClosed, StubsOf950,
           TypeOK, ChannelsListed, SnapshotsHold, Course, TaskIsNew, AicpuOpen, [Next]_vars
    PROVE  AicpuOpen'
<1>0. /\ cfg' = cfg /\ cfg \in Configs /\ ReplayOK /\ task \in Task /\ count \in Nat /\ phase \in Phases
      /\ launch.simt \in BOOLEAN /\ mc2 \in BOOLEAN
      /\ cfg.pmus \in Nat /\ Rounds \in Nat /\ cfg.pmus <= Rounds /\ cfg.l2 \in BOOLEAN
  BY CfgStays, ConfigOK DEF TypeOK, ReplayOK
<1>1. cfg.chip = "910B" /\ mc2 =>
        /\ ~MayFail /\ ~signal
        /\ IsAppReplay => cfg.first # 0 \/ cfg.pmus <= 1
  BY <1>0 DEF AicpuIsClosed, Course, MayFail, IsAppReplay
<1>2. cfg.chip # "950" => Quiet
  BY <1>0 DEF StubsOf950, Quiet
<1>3. ASSUME UNCHANGED <<task, mc2, count, phase>>
      PROVE  AicpuOpen'
  BY <1>0, <1>3 DEF AicpuOpen, IsAppReplay
<1>4. ASSUME AicpuTask \notin task'.on
      PROVE  AicpuOpen'
  BY <1>4 DEF AicpuOpen
<1>5. ASSUME UNCHANGED task, phase \notin Between \cup Measuring
      PROVE  AicpuOpen'
  BY <1>4, <1>5 DEF AicpuOpen
<1>6. ASSUME NEW h, NEW kind, NEW simt, NEW selected, InitParam(h, kind, simt, selected)
      PROVE  AicpuOpen'
  BY <1>4, <1>6 DEF InitParam, NewTask
<1>7. CASE Sampling \/ Timeline
  <2>1. phase \notin Between \cup Measuring
    BY <1>7 DEF Sampling, Timeline, Between, Measuring
  <2>2. \/ UNCHANGED task
        \/ ~Quiet /\ InstrProfData
    BY <1>7 DEF Sampling, Timeline, RunsStub, Quiet, Flag
  <2>3. ASSUME ~Quiet, InstrProfData PROVE AicpuTask \notin task'.on
    <3>1. cfg.chip # "910B" /\ AicpuTask \notin task.on
      BY <1>2, <2>1, <2>3 DEF AicpuOpen
    <3>2. \A t \in Started(count, launch.simt, mc2) \cup StartedInVain(count, launch.simt, mc2) :
             AicpuTask \notin t.on
      BY <1>0, <3>1, AicpuJoins
    <3>3. \A t : Stopped(t, mc2).on \subseteq t.on \/ Stopped(t, mc2) = t
      BY DEF Stopped
    <3>4. \A t \in Started(count, launch.simt, mc2) : t \in Task
      <4>1. task.on \subseteq {AicpuTask}
        BY <2>1, <1>7 DEF ChannelsListed, Running, Sampling, Timeline, Measuring
      <4> QED BY <1>0, <4>1, StartedIsListed
    <3>5. \A t \in Started(count, launch.simt, mc2) : AicpuTask \notin Stopped(t, mc2).on
      BY <3>2, <3>4, StoppedType
    <3> QED BY <2>3, <3>1, <3>2, <3>5 DEF InstrProfData, KernelLaunchForInstrProf
  <2> QED BY <1>4, <1>5, <2>1, <2>2, <2>3
<1>8. CASE EvictStarts
  <2>1. task = NewTask /\ cfg.chip = "910B" /\ cfg.l2
    BY <1>2, <1>8 DEF EvictStarts, Course, Evicts, TaskIsNew
  <2>2. task' \in {task} \cup Started(count, launch.simt, mc2) \cup StartedInVain(count, launch.simt, mc2)
    BY <1>8 DEF EvictStarts, RoundStarts, RoundSkipped
  <2>3. AicpuTask \notin task.on /\ task.l2
    BY <2>1 DEF NewTask
  <2> QED BY <1>0, <1>4, <2>2, <2>3, AicpuJoins
<1>9. CASE EvictRuns
  <2>1. task' = Stopped(task, mc2) /\ AicpuTask \notin task.on
    BY <1>9 DEF EvictRuns, RoundRuns, AicpuOpen, Between, Measuring
  <2> QED BY <1>0, <1>4, <2>1, StoppedType
<1>10. CASE Round \/ RangeRound
  <2>1. /\ UNCHANGED mc2 /\ phase \in Between /\ (phase = "rangeRounds" => ~IsAppReplay)
        /\ \/ phase' \in Between /\ count' = count + 1 /\ (phase' = "rounds" => ~IsAppReplay)
           \/ phase' = "bbcount"
           \/ /\ phase' \in Measuring /\ count' = count /\ task' \in Started(count, launch.simt, mc2)
              /\ phase' = "measuring" => phase = "rounds"
    BY <1>10 DEF Round, RangeRound, NextRound, RoundStarts, RangeRoundStarts, unchangedRound, Between, Measuring,
                 Course, RangePhases, IsRangeReplay, IsAppReplay
  <2>2. \/ task' \in Started(count, launch.simt, mc2) /\ phase' \in Measuring /\ count' = count
        \/ MayFail /\ task' \in StartedInVain(count, launch.simt, mc2)
        \/ UNCHANGED task /\ NothingToMeasure
        \/ /\ UNCHANGED task /\ RestoreStopped(snapshot, mem, mem', MayFail)
           /\ phase = "rounds" => Restores
    <3>1. ASSUME task' \in StartedInVain(count, launch.simt, mc2) PROVE MayFail
      BY <3>1, StartedInVainIs
    <3> QED BY <1>10, <3>1, <2>1 DEF Round, RangeRound, RoundStarts, RoundSkipped, RangeRoundStarts, RangeRoundSkipped,
                             Measuring
  <2> SUFFICES ASSUME AicpuTask \in task'.on PROVE AicpuOpen'
    BY <1>4
  <2>3. /\ cfg.chip = "910B" /\ mc2 /\ ~task.l2
        /\ AicpuTask \notin task.on => count = 0
    <3>1. CASE AicpuTask \in task.on
      BY <3>1 DEF AicpuOpen
    <3>2. CASE AicpuTask \notin task.on
      <4>1. task' \in Started(count, launch.simt, mc2) \cup StartedInVain(count, launch.simt, mc2)
        BY <2>2, <3>2
      <4> QED BY <1>0, <3>2, <4>1, AicpuJoins
    <3> QED BY <3>1, <3>2
  <2>4. ~MayFail /\ ~(RestoreStopped(snapshot, mem, mem', MayFail) /\ (phase = "rounds" => Restores))
    <3>1. ~MayFail
      BY <1>1, <2>3
    <3>2. (phase = "rounds" => Restores) => CanRestore
      BY <2>1, <3>1 DEF SnapshotsHold, RangePhases, RoundPhases, Between
    <3>3. CanRestore /\ RestoreStopped(snapshot, mem, mem', MayFail) => MayFail
      <4>1. MemoryOK /\ mem \in [Section -> Content] /\ snapshot \in [Section -> Snapshot]
        BY DEF TypeOK, MemoryOK
      <4> QED BY <4>1, RestoreType DEF CanRestore
    <3> QED BY <3>1, <3>2, <3>3
  <2>5. ~(UNCHANGED task /\ NothingToMeasure)
    <3> SUFFICES ASSUME UNCHANGED task, NothingToMeasure PROVE FALSE
      OBVIOUS
    <3>1. AicpuTask \in task.on
      OBVIOUS
    <3> QED BY <1>0, <2>1, <3>1 DEF AicpuOpen, NothingToMeasure, IsPmuEventEmpty
  <2>6. task' \in Started(count, launch.simt, mc2) /\ phase' \in Measuring /\ count' = count
    BY <2>2, <2>4, <2>5
  <2>7. (task.last \/ Last(count) => task'.last) /\ ~task'.l2
    BY <1>0, <2>3, <2>6, AicpuJoins
  <2>8. task'.last \/ count + 1 < cfg.pmus
    BY <1>0, <2>7 DEF Last, IsPmuEventEmpty
  <2>9. phase' = "measuring" /\ IsAppReplay => task'.last
    <3> SUFFICES ASSUME phase' = "measuring", IsAppReplay PROVE task'.last
      OBVIOUS
    <3>1. phase = "rounds" /\ count = cfg.first
      BY <2>1, <2>6 DEF Course, RoundPhases, Between, Measuring
    <3>2. AicpuTask \notin task.on
      BY <3>1 DEF AicpuOpen
    <3>3. count = 0 /\ cfg.pmus <= 1
      BY <1>1, <2>3, <3>1, <3>2
    <3> QED BY <1>0, <2>7, <3>3 DEF Last, IsPmuEventEmpty
  <2>10. phase' \notin Between
    BY <2>6 DEF Measuring, Between
  <2> QED BY <1>0, <2>1, <2>3, <2>6, <2>7, <2>8, <2>9, <2>10 DEF AicpuOpen, IsAppReplay, Between
<1>11. CASE Measure \/ RangeMeasure
  <2>1. /\ UNCHANGED mc2 /\ phase \in Measuring /\ task' = Stopped(task, mc2)
        /\ \/ phase' \in Between /\ count' = count + 1 /\ (phase' = "rounds" => ~IsAppReplay)
           \/ phase' = "bbcount" /\ IsAppReplay /\ phase = "measuring"
    BY <1>11 DEF Measure, RangeMeasure, NextRound, RoundRuns, RangeRoundRuns, unchangedRound, Between, Measuring
  <2> SUFFICES ASSUME AicpuTask \in task'.on PROVE AicpuOpen'
    BY <1>4
  <2>2. AicpuTask \in task.on \ Closed(task, mc2) /\ task'.last = task.last /\ task'.l2 = task.l2
    BY <1>0, <2>1, StoppedType
  <2>3. cfg.chip = "910B" /\ mc2 /\ ~task.l2
    BY <2>2 DEF AicpuOpen
  <2>4. ~task.last
    BY <2>2, <2>3 DEF Closed, StopOf910B
  <2>5. count + 1 < cfg.pmus /\ ~(phase = "measuring" /\ IsAppReplay)
    BY <2>1, <2>2, <2>4 DEF AicpuOpen
  <2> QED BY <1>0, <2>1, <2>2, <2>3, <2>5 DEF AicpuOpen, IsAppReplay, Between, Measuring
<1>12. CASE RoundsEnd \/ RangeEnds
  <2>1. UNCHANGED task
    BY <1>12 DEF RoundsEnd, RangeEnds
  <2> SUFFICES ASSUME AicpuTask \in task.on PROVE FALSE
    BY <1>4, <2>1
  <2>2. /\ phase \in Between \cup Measuring /\ cfg.chip = "910B" /\ mc2
        /\ phase \in Between => count < cfg.pmus
    BY DEF AicpuOpen
  <2>3. phase \in Between /\ ~signal
    BY <1>1, <1>12, <2>2 DEF RoundsEnd, RangeEnds, Between, Measuring
  <2>4. count < Rounds /\ ~(count >= cfg.pmus)
    BY <1>0, <2>2, <2>3
  <2>5. MoreRounds /\ RangeRounds
    BY <2>3, <2>4 DEF MoreRounds, RangeRounds, IsPmuEventEmpty
  <2> QED BY <1>12, <2>3, <2>5 DEF RoundsEnd, RangeEnds, Between
<1>13. CASE RangeEnd
  <2>1. task' \in {task, NewTask} /\ phase \notin Between \cup Measuring
    BY <1>13 DEF RangeEnd, Idle, Between, Measuring
  <2> QED BY <1>4, <2>1 DEF AicpuOpen, NewTask
<1>14. CASE HandleSigInt \/ UNCHANGED vars
  BY <1>3, <1>14 DEF HandleSigInt, vars, replayVars
<1>15. ASSUME NEW s, Malloc(s) \/ Free(s) \/ MstxRangeAdd
       PROVE  AicpuOpen'
  BY <1>3, <1>15 DEF Malloc, Free, MstxRangeAdd, replayVars
<1>16. CASE Initialize \/ Capture \/ NotReplayed \/ Replay \/ BBCount \/ CallAndPost \/ RangeEndsEmpty
  <2>1. UNCHANGED task /\ phase \notin Between \cup Measuring
    BY <1>16 DEF Initialize, Capture, NotReplayed, Replay, BBCount, CallAndPost, Origin, MemoryChart, OperandRecord,
         Bare, PostStub, RangeEndsEmpty, replayVars, Idle, Between, Measuring
  <2> QED BY <1>5, <2>1
<1> QED BY <1>6, <1>7, <1>8, <1>9, <1>10, <1>11, <1>12, <1>13, <1>14, <1>15, <1>16
        DEF Next, Pre, RangeReplay

-----------------------------------------------------------------------------
(* The last round, and what a round records.                               *)

\* What opens a duration, or tells that the last round has come, is the last
\* round; a run of a stub on a 950 and the eviction round are not rounds.
LEMMA LastJoins ==
    ASSUME ReplayOK, NEW n \in Nat, NEW simt \in BOOLEAN, NEW m,
           NEW t \in Started(n, simt, m) \cup StartedInVain(n, simt, m), LastIn(t)
    PROVE  LastStarted \/ /\ Last(n)
                          /\ ~(cfg.chip = "950" /\ IsStubRun(simt))
                          /\ ~(cfg.chip = "910B" /\ task.l2)
<1>1. cfg \in Configs /\ cfg.chip \in {"910B", "310P", "950"} /\ task \in Task
  BY ConfigsAssumption DEF ReplayOK
<1>2. PICK o \in SUBSET Asked(n, simt, m) :
         /\ t.last = (task.last \/ (FftsTask \in o /\ Last(n)))
         /\ t.started = task.started \cup (o \cap (Durations \cup {AiCoreTask, L2CacheTask}))
  BY <1>1, TaskMoves
<1> SUFFICES ASSUME ~LastStarted
             PROVE  /\ Last(n)
                    /\ ~(cfg.chip = "950" /\ IsStubRun(simt)) /\ ~(cfg.chip = "910B" /\ task.l2)
  OBVIOUS
<1>3. ~task.last /\ task.started \cap Durations = {}
  BY DEF LastStarted, LastIn
<1>4. (FftsTask \in o /\ Last(n)) \/ o \cap Durations # {}
  <2>1. CASE t.last
    BY <1>2, <1>3, <2>1
  <2>2. CASE t.started \cap Durations # {}
    BY <1>2, <1>3, <2>2 DEF Durations, StarsTask, HwtsTask, AiCoreTask, L2CacheTask
  <2> QED BY <2>1, <2>2 DEF LastIn
<1> USE DEF Only, Durations, FftsTask, AiCoreTask, StarsTask, HwtsTask, L2CacheTask, AicpuTask, InstrProfTask
<1>5. CASE cfg.chip = "950"
  BY <1>1, <1>3, <1>4, <1>5, AskedIs
<1>6. CASE cfg.chip = "310P"
  BY <1>1, <1>3, <1>4, <1>6, AskedIs
<1>7. CASE cfg.chip = "910B"
  BY <1>1, <1>3, <1>4, <1>7, AskedIs
<1> QED BY <1>1, <1>5, <1>6, <1>7

\* What a round that was started records.
Recorded ==
    StubsRan =>
        /\ task.on \cap Counters # {} /\ task.group = count
        /\ IsPmuEventEmpty(count + 1) => task.on \cap Durations # {}

\* A round that starts opens the counters of its group, and the last one the duration.
LEMMA RoundRecords ==
    ASSUME ReplayOK, ~LastStarted, ~NothingToMeasure, ~(cfg.chip = "910B" /\ task.l2),
           task' \in Started(count, launch.simt, mc2), UNCHANGED <<cfg, launch, count>>
    PROVE  Recorded'
<1> DEFINE A == Asked(count, launch.simt, mc2)
<1>1. /\ cfg \in Configs /\ cfg.chip \in {"910B", "310P", "950"} /\ task \in Task
      /\ count \in Nat /\ launch.simt \in BOOLEAN /\ cfg.pmus \in Nat
  BY ConfigOK DEF ReplayOK
<1>2. task.started \cap Durations = {} /\ ~task.last
  BY DEF LastStarted, LastIn
<1>3. CASE cfg.chip = "950" /\ IsStubRun(launch.simt)
  <2>1. task'.state = StateAt(launch.simt)
    BY <1>1, <1>3, StartedIs DEF Opened
  <2>2. task'.state \in {"PC_SAMPLING", "TIMELINE"}
    BY <1>1, <1>3, <2>1, StateAtIs
  <2>3. ~StubsRan'
    BY <2>2 DEF StubsRan, StateAt
  <2> QED BY <2>3 DEF Recorded
<1>4. CASE ~(cfg.chip = "950" /\ IsStubRun(launch.simt))
  <2>1. /\ A \cap Counters # {} /\ A # {InstrProfTask}
        /\ IsPmuEventEmpty(count + 1) => A \cap Durations # {}
    <3> USE DEF Only, Durations, Counters, FftsTask, AiCoreTask, StarsTask, HwtsTask, L2CacheTask, AicpuTask,
                InstrProfTask, Last, Unstarted
    <3>1. CASE cfg.chip = "950"
      BY <1>1, <1>2, <1>4, <3>1, AskedIs
    <3>2. CASE cfg.chip = "310P"
      <4>1. ~IsPmuEventEmpty(count) \/ count = 0
        BY DEF NothingToMeasure
      <4>2. A = {AiCoreTask} \cup Only(Last(count) /\ Unstarted(HwtsTask), HwtsTask)
                 \cup Only(count = 0 /\ task.l2, L2CacheTask)
        <5> USE DEF Only
        <5> QED BY <1>1, <3>2, <4>1, AskedIs
      <4> QED BY <1>1, <1>2, <4>2
    <3>3. CASE cfg.chip = "910B"
      BY <1>1, <1>2, <3>3, AskedIs
    <3> QED BY <1>1, <3>1, <3>2, <3>3
  <2>2. task' = Opened(count, launch.simt, A)
    BY <1>1, <2>1, StartedIs
  <2>3. task'.on = task.on \cup A /\ task'.group = count
    BY <2>1, <2>2 DEF Opened
  <2>4. IsPmuEventEmpty(count + 1)' = IsPmuEventEmpty(count + 1)
    BY DEF IsPmuEventEmpty
  <2> QED BY <2>1, <2>3, <2>4 DEF Recorded
<1> QED BY <1>3, <1>4

\* A round of a new task of a 910B that owes the L2 events opens nothing else.
LEMMA EvictionStarts ==
    ASSUME ReplayOK, cfg.chip = "910B", task = NewTask, task.l2,
           NEW n, NEW simt, NEW m, NEW t \in Started(n, simt, m)
    PROVE  t.on = {L2CacheTask}
<1>1. cfg \in Configs /\ task.on = {} /\ task.started = {}
  BY DEF ReplayOK, NewTask
<1>2. Asked(n, simt, m) = {L2CacheTask}
  BY <1>1, AskedIs DEF Only, Unstarted
<1>3. t = Opened(n, simt, {L2CacheTask})
  BY <1>1, <1>2, StartedIs DEF L2CacheTask, InstrProfTask
<1> QED BY <1>1, <1>3 DEF Opened

\* No round is started behind the last one.
LEMMA ProgressStep ==
    ASSUME StubsOf950, RangesWithoutL2,
           TypeOK, ChannelsListed, SnapshotsHold, Course, TaskIsNew, Progress, RoundsAreMeasured, [Next]_vars
    PROVE  Progress' /\ RoundsAreMeasured'
<1>0. /\ cfg' = cfg /\ cfg \in Configs /\ ReplayOK /\ task \in Task /\ count \in Nat /\ phase \in Phases
      /\ launch.simt \in BOOLEAN /\ cfg.pmus \in Nat /\ cfg.l2 \in BOOLEAN
  BY CfgStays, ConfigOK DEF TypeOK, ReplayOK
<1>1. cfg.chip # "950" => Quiet
  BY <1>0 DEF StubsOf950, Quiet
<1>2. ASSUME UNCHANGED <<task, count, phase, launch>>
      PROVE  Progress' /\ RoundsAreMeasured'
  BY <1>0, <1>2 DEF Progress, LastStarted, LastIn, NothingToMeasure, IsPmuEventEmpty, Flag, RoundsAreMeasured,
                    StubsRan, StateAt, Evicts, EvictsLate, MayFail, NewTask
<1>3. ASSUME phase' \in {"idle", "bare", "rangeEnds"} \cup After
      PROVE  Progress' /\ RoundsAreMeasured'
  BY <1>3 DEF Progress, RoundsAreMeasured, After, Before, Between, Measuring
<1>4. phase' \notin Measuring => RoundsAreMeasured'
  BY DEF RoundsAreMeasured, Measuring
<1>5. ASSUME NEW h, NEW kind, NEW simt, NEW selected, InitParam(h, kind, simt, selected)
      PROVE  Progress' /\ RoundsAreMeasured'
  <2>1. task' = NewTask /\ phase' \in {"bare", "sampling"}
    BY <1>5 DEF InitParam
  <2> QED BY <1>4, <2>1 DEF Progress, LastStarted, LastIn, NewTask, Before, Between, Measuring
<1>6. CASE Sampling \/ Timeline
  <2>1. /\ phase \in {"sampling", "timeline"} /\ UNCHANGED <<launch, count>>
        /\ phase' = IF phase = "sampling" THEN "timeline" ELSE "init"
    BY <1>6 DEF Sampling, Timeline, unchangedLaunch
  <2>2. ~LastStarted
    BY <2>1 DEF Progress, Before
  <2>3. ASSUME UNCHANGED task
        PROVE  Progress' /\ RoundsAreMeasured'
    BY <1>0, <1>4, <2>1, <2>2, <2>3 DEF Progress, LastStarted, LastIn, Before, Between, Measuring
  <2>4. ASSUME ~UNCHANGED task
        PROVE  Progress' /\ RoundsAreMeasured'
    <3>1. /\ cfg.chip = "950" /\ InstrProfData
          /\ phase = "sampling" => Flag("pc") /\ launch.simt
          /\ phase = "timeline" => Flag("timeline")
      <4>1. phase = "sampling" => Sampling
        BY <1>6 DEF Timeline
      <4>2. phase = "timeline" => Timeline
        BY <1>6 DEF Sampling
      <4>3. phase = "sampling" => InstrProfData /\ Flag("pc") /\ launch.simt
        BY <2>4, <4>1 DEF Sampling, RunsStub
      <4>4. phase = "timeline" => InstrProfData /\ Flag("timeline")
        BY <2>4, <4>2 DEF Timeline, RunsStub
      <4> QED BY <1>1, <2>1, <4>3, <4>4 DEF Quiet, Flag
    <3>2. IsStubRun(launch.simt)
      BY <1>0, <2>1, <3>1 DEF Progress, IsStubRun, StateAt
    <3>3. phase = "sampling" => StateAt(launch.simt) = "PC_SAMPLING"
      BY <3>1 DEF Progress, StateAt
    <3>4. ASSUME NEW t \in Started(count, launch.simt, mc2) \cup StartedInVain(count, launch.simt, mc2)
          PROVE  ~LastIn(t)
      BY <1>0, <2>2, <3>1, <3>2, LastJoins
    <3>5. ASSUME NEW o
          PROVE  /\ Opened(count, launch.simt, o).state = StateAt(launch.simt)
                 /\ Stopped(Opened(count, launch.simt, o), mc2).state = NextState(StateAt(launch.simt))
      BY <3>1 DEF Opened, Stopped
    <3>6. \A t : LastIn(Stopped(t, mc2)) <=> LastIn(t)
      BY DEF LastIn, Stopped
    <3>7. \/ task' \in StartedInVain(count, launch.simt, mc2)
          \/ task' \in {Stopped(t, mc2) : t \in Started(count, launch.simt, mc2)}
      BY <2>4, <3>1 DEF InstrProfData, KernelLaunchForInstrProf
    <3>8. \E o : task' = Stopped(Opened(count, launch.simt, o), mc2)
      BY <1>0, <3>7, TaskMoves, StartedInVainIs
    <3>9. task'.state = NextState(StateAt(launch.simt))
      BY <3>5, <3>8
    <3>10. ~LastIn(task')
      BY <3>4, <3>6, <3>7
    <3>11. phase = "sampling" /\ Flag("timeline") => task'.state = "TIMELINE"
      BY <3>3, <3>9 DEF NextState
    <3>12. Flag("timeline")' = Flag("timeline")
      BY <1>0 DEF Flag
    <3> QED BY <1>4, <2>1, <3>10, <3>11, <3>12 DEF Progress, LastStarted, Before, Between, Measuring
  <2> QED BY <2>3, <2>4
<1>7. CASE Initialize
  BY <1>0, <1>4, <1>7 DEF Initialize, Progress, LastStarted, LastIn, Before, Between, Measuring
<1>8. CASE Replay
  <2>1. phase = "data" /\ UNCHANGED task /\ phase' \in {"bbcount", "evict", "rounds"}
        /\ (phase' = "rounds" => ~Evicts)
    BY <1>8 DEF Replay
  <2>2. cfg.chip = "910B" /\ phase' = "rounds" => ~task.l2
    BY <2>1 DEF Course, Evicts
  <2> QED BY <1>0, <1>4, <2>1, <2>2 DEF Progress, LastStarted, LastIn, Before, Between, Measuring
<1>9. CASE EvictStarts
  <2>1. phase = "evict" /\ cfg.chip = "910B" /\ task.l2 /\ ~LastStarted /\ UNCHANGED count
    BY <1>1, <1>9 DEF EvictStarts, Course, Evicts, TaskIsNew, Progress, NewTask
  <2>2. /\ phase' \in {"evicting", "rounds", "bbcount"} /\ (phase' = "rounds" => ~IsAppReplay)
        /\ \/ task' \in Started(count, launch.simt, mc2) \cup StartedInVain(count, launch.simt, mc2)
           \/ UNCHANGED task /\ phase' # "evicting"
              /\ (NothingToMeasure \/ (Restores /\ RestoreStopped(snapshot, mem, mem', MayFail)))
    BY <1>9 DEF EvictStarts, EvictEnds, RoundStarts, RoundSkipped
  <2>3. CASE task' \in Started(count, launch.simt, mc2) \cup StartedInVain(count, launch.simt, mc2)
    <3>1. ~task'.l2
      BY <1>0, <2>1, <2>3, TaskMoves
    <3>2. ~LastIn(task')
      BY <1>0, <2>1, <2>3, LastJoins
    <3> QED BY <1>0, <1>4, <2>2, <3>1, <3>2 DEF Progress, LastStarted, Before, Between, Measuring
  <2>4. CASE UNCHANGED task /\ phase' # "evicting" /\ NothingToMeasure
    <3>1. phase' = "bbcount"
      BY <2>1, <2>2, <2>4 DEF Course, NothingToMeasure
    <3> QED BY <1>3, <3>1 DEF After
  <2>5. CASE /\ UNCHANGED task /\ phase' # "evicting"
             /\ Restores /\ RestoreStopped(snapshot, mem, mem', MayFail)
    <3>1. /\ MemoryOK /\ mem \in [Section -> Content] /\ snapshot \in [Section -> Snapshot]
          /\ CanRestore
      BY <2>1, <2>5 DEF TypeOK, MemoryOK, SnapshotsHold, RoundPhases
    <3>2. MayFail
      BY <2>5, <3>1, RestoreType DEF CanRestore
    <3>3. task = NewTask /\ Evicts
      BY <1>1, <2>1 DEF TaskIsNew, Course
    <3>4. MayFail' /\ Evicts' /\ task' = NewTask' /\ ~LastStarted'
      BY <1>0, <2>1, <2>5, <3>2, <3>3 DEF MayFail, Evicts, NewTask, LastStarted, LastIn
    <3> QED BY <1>4, <2>2, <2>5, <3>4 DEF Progress, Before, Between, Measuring
  <2> QED BY <2>2, <2>3, <2>4, <2>5
<1>10. CASE EvictRuns
  <2>1. phase' \in {"bbcount", "rounds"} /\ phase = "evicting" /\ task' = Stopped(task, mc2)
    BY <1>10 DEF EvictRuns, EvictEnds, RoundRuns
  <2>2. ~LastIn(task') /\ ~task'.l2
    BY <1>0, <2>1, StoppedType DEF LastIn, LastStarted, Progress
  <2> QED BY <1>4, <2>1, <2>2 DEF Progress, LastStarted, Before, Between, Measuring
<1>11. CASE Round \/ RangeRound
  <2>1. /\ UNCHANGED <<launch, cfg>> /\ phase \in Between
        /\ \/ /\ phase' \in Measuring /\ count' = count
              /\ task' \in Started(count, launch.simt, mc2) /\ ~NothingToMeasure
           \/ /\ phase' \in Between /\ count' = count + 1
              /\ \/ UNCHANGED task
                 \/ task' \in StartedInVain(count, launch.simt, mc2)
           \/ phase' = "bbcount"
    BY <1>11 DEF Round, RangeRound, NextRound, RoundStarts, RoundSkipped, RangeRoundStarts, RangeRoundSkipped,
                 unchangedRound, unchangedLaunch, Between, Measuring, RangeRounds, NothingToMeasure
  <2>2. /\ LastStarted => NothingToMeasure
        /\ cfg.chip = "910B" /\ task.l2 => phase = "rounds" /\ Evicts /\ MayFail /\ task = NewTask
    BY <2>1 DEF Progress
  <2>3. CASE phase' = "bbcount"
    BY <1>3, <2>3 DEF After
  <2>4. CASE /\ phase' \in Measuring /\ count' = count
             /\ task' \in Started(count, launch.simt, mc2) /\ ~NothingToMeasure
    <3>1. ~(cfg.chip = "910B" /\ task.l2) => Recorded'
      BY <1>0, <2>1, <2>2, <2>4, RoundRecords
    <3>2. LastIn(task') => Last(count)
      BY <1>0, <2>2, <2>4, LastJoins
    <3>3. cfg.chip = "910B" => ~task'.l2
      BY <1>0, <2>4, TaskMoves
    <3>4. LastStarted' => IsPmuEventEmpty(count + 1)'
      BY <1>0, <2>4, <3>2 DEF Last, LastStarted, IsPmuEventEmpty
    <3>5. RoundsAreMeasured'
      <4>1. CASE ~(cfg.chip = "910B" /\ task.l2)
        BY <3>1, <4>1 DEF RoundsAreMeasured, Recorded
      <4>2. CASE cfg.chip = "910B" /\ task.l2
        <5>1. phase' = "measuring" /\ Evicts /\ MayFail /\ task = NewTask
          BY <1>11, <2>2, <2>4, <4>2 DEF Round, RangeRound, NextRound, Measuring
        <5>2. task'.on = {L2CacheTask}
          BY <1>0, <2>4, <4>2, <5>1, EvictionStarts
        <5> QED BY <1>0, <5>1, <5>2 DEF RoundsAreMeasured, EvictsLate, Evicts, MayFail
      <4> QED BY <4>1, <4>2
    <3> QED BY <1>0, <2>4, <3>3, <3>4, <3>5 DEF Progress, Before, Between, Measuring
  <2>5. CASE /\ phase' \in Between /\ count' = count + 1
             /\ \/ UNCHANGED task
                \/ task' \in StartedInVain(count, launch.simt, mc2)
    <3>1. LastIn(task') => LastStarted \/ Last(count)
      BY <1>0, <2>5, LastJoins DEF LastStarted
    <3>2. cfg.chip = "910B" /\ task'.l2 => phase' = "rounds" /\ Evicts' /\ MayFail' /\ task' = NewTask'
      <4>1. CASE UNCHANGED task
        BY <1>0, <1>11, <2>2, <2>5, <4>1
           DEF Round, RangeRound, NextRound, Between, Evicts, MayFail, NewTask
      <4>2. CASE task' \in StartedInVain(count, launch.simt, mc2)
        BY <1>0, <4>2, TaskMoves
      <4> QED BY <2>5, <4>1, <4>2
    <3>3. LastStarted \/ Last(count) => NothingToMeasure'
      BY <1>0, <2>2, <2>5 DEF NothingToMeasure, Last, IsPmuEventEmpty
    <3> QED BY <1>0, <1>4, <2>5, <3>1, <3>2, <3>3 DEF Progress, LastStarted, Before, Between, Measuring
  <2> QED BY <2>1, <2>3, <2>4, <2>5
<1>12. CASE Measure \/ RangeMeasure
  <2>1. /\ phase \in Measuring /\ task' = Stopped(task, mc2)
        /\ (phase' \in Between /\ count' = count + 1) \/ phase' = "bbcount"
    BY <1>12 DEF Measure, RangeMeasure, NextRound, RoundRuns, RangeRoundRuns, Between, Measuring
  <2>2. (LastIn(task') => LastStarted) /\ task'.l2 = task.l2
    BY <1>0, <2>1, StoppedType DEF LastIn, LastStarted
  <2>3. CASE phase' = "bbcount"
    BY <1>3, <2>3 DEF After
  <2>4. CASE phase' \in Between /\ count' = count + 1
    <3>1. LastStarted => NothingToMeasure'
      BY <1>0, <2>1, <2>4 DEF Progress, NothingToMeasure, IsPmuEventEmpty
    <3> QED BY <1>0, <1>4, <2>1, <2>2, <2>4, <3>1 DEF Progress, LastStarted, Before, Between, Measuring
  <2> QED BY <2>1, <2>3, <2>4
<1>13. CASE RangeEnd
  <2>1. /\ range.capturing
        /\ (phase' = "rangeRounds" /\ task' = NewTask) \/ phase' = "rangeEnds"
    BY <1>13 DEF RangeEnd
  <2>2. cfg.chip = "910B" => ~cfg.l2
    BY <1>0, <2>1 DEF Course, IsRangeReplay, RangesWithoutL2
  <2>3. CASE phase' = "rangeEnds"
    BY <1>3, <2>3
  <2>4. CASE phase' = "rangeRounds" /\ task' = NewTask
    BY <1>0, <1>4, <2>2, <2>4 DEF Progress, LastStarted, LastIn, NewTask, Before, Between, Measuring
  <2> QED BY <2>1, <2>3, <2>4
<1>14. CASE HandleSigInt \/ UNCHANGED vars
  BY <1>2, <1>14 DEF HandleSigInt, vars, replayVars
<1>15. ASSUME NEW s, Malloc(s) \/ Free(s) \/ MstxRangeAdd
       PROVE  Progress' /\ RoundsAreMeasured'
  BY <1>2, <1>15 DEF Malloc, Free, MstxRangeAdd, replayVars
<1>16. CASE Capture \/ NotReplayed \/ BBCount \/ CallAndPost \/ RangeEndsEmpty \/ RoundsEnd \/ RangeEnds
  <2>1. phase' \in {"idle"} \cup After
    BY <1>16 DEF Capture, NotReplayed, BBCount, CallAndPost, Origin, MemoryChart, OperandRecord, Bare,
         RangeEndsEmpty, RoundsEnd, RangeEnds, Idle, After
  <2> QED BY <1>3, <2>1
<1> QED BY <1>5, <1>6, <1>7, <1>8, <1>9, <1>10, <1>11, <1>12, <1>13, <1>14, <1>15, <1>16
        DEF Next, Pre, RangeReplay

-----------------------------------------------------------------------------
(* The theorems.                                                           *)

\* The further invariants hold before the first launch.
LEMMA InitCourse ==
    Init => /\ NothingKept /\ SnapshotsHold /\ Course
            /\ TaskIsNew /\ AicpuOpen /\ Progress /\ RoundsAreMeasured
<1> SUFFICES ASSUME Init
             PROVE  /\ NothingKept /\ SnapshotsHold /\ Course
                    /\ TaskIsNew /\ AicpuOpen /\ Progress /\ RoundsAreMeasured
  OBVIOUS
<1>1. /\ cfg \in Configs /\ sections = {} /\ phase = "idle" /\ task = NewTask /\ range = NoRange
      /\ ~mc2 /\ ~signal /\ launch.kind = "plain"
  BY DEF Init, MemoryInit, ReplayInit
<1>2. NothingKept /\ SnapshotsHold
  BY <1>1 DEF NothingKept, SnapshotsHold, Before, RoundPhases, RangePhases
<1>3. Course
  BY <1>1, ConfigOK DEF Course, NewTask, NoRange, Before, RoundPhases, RangePhases
<1>4. TaskIsNew /\ AicpuOpen /\ Progress /\ RoundsAreMeasured
  BY <1>1 DEF TaskIsNew, AicpuOpen, Progress, RoundsAreMeasured, NewTask, Before, Between, Measuring
<1> QED BY <1>2, <1>3, <1>4

\* What holds of the memory, the buffers and the course of every launch, without
\* any condition.
Base == TypeOK /\ ChannelsListed /\ BuffersInReplay /\ NothingKept /\ SnapshotsHold /\ Course /\ TaskIsNew

\* While rounds are run the snapshots are whole and hold what the memory held when
\* the launch began, the buffers belong to a replay, and the place of a launch
\* tells what it is (DataCollectInDevice).
THEOREM Inductive == Spec => []Base
<1>1. Init => Base
  BY InitOK, InitCourse DEF Base
<1>2. Base /\ [Next]_vars => Base'
  <2> SUFFICES ASSUME Base, [Next]_vars PROVE Base'
    OBVIOUS
  <2>1. MemoryOK' /\ ReplayOK' /\ ChannelsListed'
    BY MemoryStep, ReplayStep DEF Base
  <2>2. BuffersInReplay' /\ NothingKept' /\ SnapshotsHold'
    BY BuffersStep, KeptStep, SnapshotsStep DEF Base
  <2>3. Course' /\ TaskIsNew'
    BY CourseStep, NewStep DEF Base
  <2> QED BY <2>1, <2>2, <2>3 DEF Base, TypeOK
<1> QED BY <1>1, <1>2, PTL DEF Spec

\* The kernel of every round that restores reads what the application left in all
\* that is replayed, whatever warm-ups, evictions, interrupts and failures, those of
\* a restore included, came before (ReplayOnce).
THEOREM ReadsTheOriginal == Spec => []RoundsReadTheOriginal
<1>1. Base => RoundsReadTheOriginal
  <2> SUFFICES ASSUME Base, phase \in {"evicting", "measuring"}, ~Fused, Quiet, NEW s \in sections
               PROVE  mem[s] = before[s]
    BY DEF RoundsReadTheOriginal, Quiet
  <2>1. Restores
    BY DEF Base, NothingKept, Restores
  <2> QED BY <2>1 DEF Base, SnapshotsHold, RoundPhases, Running, Measuring
<1> QED BY <1>1, Inductive, PTL

\* Whatever failed, a hook returns with no buffer and no channel of its own, where
\* the log of the AICPU can be closed at all (ProfTask::Stop, FreeL2Cache).
THEOREM BuffersAreReturned ==
    ASSUME AicpuIsClosed, StubsOf950
    PROVE  Spec => []BuffersReturned
<1>1. Init => AicpuOpen
  BY InitCourse
<1>2. Base /\ AicpuOpen /\ [Next]_vars => AicpuOpen'
  BY AicpuStep DEF Base
<1>3. Base /\ AicpuOpen => BuffersReturned
  <2> SUFFICES ASSUME Base, AicpuOpen, phase = "idle" PROVE l2.live = 0 /\ task.on = {}
    BY DEF BuffersReturned, Idle
  <2>1. l2.live = 0
    BY DEF Base, BuffersInReplay, RoundPhases, RangePhases
  <2>2. AicpuTask \notin task.on
    BY DEF AicpuOpen, Between, Measuring
  <2>3. task.on \ {AicpuTask} = {}
    BY DEF Base, ChannelsListed, Running, Measuring
  <2> QED BY <2>1, <2>2, <2>3
<1> QED BY <1>1, <1>2, <1>3, Inductive, PTL DEF Spec

\* A counted round has the counters of its own group open, and the last one the
\* duration, once the stubs had their runs, on every chip and after any failure of
\* an earlier round (ProfTask::Start).
THEOREM EveryRoundMeasures ==
    ASSUME StubsOf950, RangesWithoutL2
    PROVE  Spec => []RoundsAreMeasured
<1>1. Init => Progress /\ RoundsAreMeasured
  BY InitCourse
<1>2. Base /\ Progress /\ RoundsAreMeasured /\ [Next]_vars => (Progress /\ RoundsAreMeasured)'
  BY ProgressStep DEF Base
<1> QED BY <1>1, <1>2, Inductive, PTL DEF Spec

-----------------------------------------------------------------------------
(* One execution: the refinement of DeviceMemory.                          *)

\* The phases of a launch around its rounds.
Around == Before \cup After \cup {"bare"}

\* The most executions a launch may have had so far.
Most ==
    CASE phase \in {"bare", "sampling"}     -> 0
      [] phase = "timeline"                 -> StubRuns
      [] phase \in {"init", "data"}         -> 2 * StubRuns
      [] phase \in {"evict", "evicting"}    -> 2 * StubRuns + cfg.warm + 1
      [] phase \in {"rounds", "measuring"}  ->
            2 * StubRuns + cfg.warm + 2 + (IF IsAppReplay THEN 0 ELSE Reruns(count, cfg.warm))
      [] phase \in {"bbcount", "origin"}    -> 2 * StubRuns + cfg.warm + 2 + Reruns(Rounds, cfg.warm)
      [] phase = "chart"                    -> 2 * StubRuns + cfg.warm + 3 + Reruns(Rounds, cfg.warm)
      [] phase = "record"                   -> 2 * StubRuns + cfg.warm + 4 + Reruns(Rounds, cfg.warm)

\* The sections of which something is known: not those that were lost, nor, while
\* rounds are run, those that are restored after them.
Known == live \ (lost \cup IF phase \in RoundPhases /\ Restores THEN sections ELSE {})

\* What is kept, and what may be restored from it.
KeptOK ==
    /\ \A s \in Known : mem[s] \in Nat
    /\ \A s \in live \ lost : before[s] \in Nat
    /\ lost # {} => MayFail
    /\ sections \subseteq live \ Shared
    /\ ~IsAppReplay /\ "lccl" \notin cfg.kinds => sections = live \ Shared
    /\ phase \in RoundPhases /\ Restores =>
          \A s \in sections \ lost : snapshot[s] \in before[s] .. before[s] + 2 * StubRuns
    /\ phase \in RangePhases => \A s \in sections : snapshot[s] = before[s]

\* What a launch, its result and a range have to do with each other.
RangeCourse ==
    /\ lccl => "lccl" \in cfg.kinds
    /\ result \in {"ok", "error"} /\ (result = "error" => MayFail)
    /\ phase \in RoundPhases => ~IsRangeReplay /\ launch.selected /\ ~IsDbi
    /\ phase \in Around /\ launch.selected /\ IsRangeReplay => range.open
    /\ cfg.all /\ phase \in Around \ {"bare"} => launch.selected
    /\ cfg.all /\ range.capturing => range.valid
    /\ range.captured # 0 => range.capturing
    /\ phase \in RangePhases \cup {"rangeEnds"} => range.capturing
    /\ phase = "rangeEnds" => ~cfg.all

\* A launch has had no more executions than its hooks and rounds may make.
AtMost ==
    /\ phase \in {"rounds", "measuring"} /\ ~IsAppReplay => count <= Rounds
    /\ phase = "measuring" /\ ~IsAppReplay => count < Rounds
    /\ phase = "evicting" /\ ~IsAppReplay => count = 0
    /\ phase \in Around \cup RoundPhases =>
          \A s \in Known : mem[s] >= before[s] /\ mem[s] <= before[s] + Most

\* What has been recorded has not run.
Recording ==
    /\ IsRangeReplay /\ phase \in Around /\ (phase \in {"chart", "record"} => range.capturing)
          => mem = before
    /\ phase \in RangePhases => \A s \in live : mem[s] >= before[s]
    /\ phase = "rangeMeasuring" => \A s \in sections : mem[s] = before[s]
    /\ phase = "rangeRounds" /\ count # 0 =>
          \A s \in sections : mem[s] = before[s] + range.captured
    /\ phase = "rangeEnds" => mem = before

\* What must have run by now, to whatever end the launch comes.
MustHaveRun ==
    \/ IsAppReplay /\ launch.selected
       /\ \/ Flag("timeline") /\ phase \in {"init", "data"} \cup RoundPhases \cup After
          \/ cfg.flags = {} /\ phase \in After
          \/ Flag("memchart") /\ phase = "record"
    \/ mc2 /\ phase \in RoundPhases \cup After
    \/ lccl /\ (phase \in After \/ (phase = "rounds" /\ count # 0))
    \/ phase \in {"chart", "record"} /\ IsNeedRunOriginLaunch /\ result = "ok" /\ ~range.capturing

AtLeast == MustHaveRun => \A s \in Known : mem[s] > before[s]

\* Whether the one execution is over.
Done ==
    \/ phase \in {"bbcount", "origin"} /\ IsAppReplay /\ launch.selected /\ cfg.flags = {}
    \/ phase = "chart" /\ result = "ok"
       /\ ~(IsAppReplay /\ launch.selected /\ cfg.flags \in {{"memchart"}, {"record"}})
    \/ phase = "record" /\ result = "ok"
       /\ ~(IsAppReplay /\ launch.selected /\ cfg.flags = {"record"})

ExactlyOnce ==
    /\ Exact /\ phase \in Around /\ ~range.capturing =>
          \A s \in Known \ Shared : mem[s] = before[s] + (IF Done THEN 1 ELSE 0)
    /\ Exact /\ phase \in RoundPhases /\ IsAppReplay =>
          \A s \in Known \ Shared : mem[s] = before[s]

-----------------------------------------------------------------------------
(* What the steps make of the memory.                                      *)

\* Executions count: n of them add n to what is allocated.
LEMMA RanAdds ==
    ASSUME NEW c \in [Section -> Content], NEW n \in Nat
    PROVE  /\ Ran(c, n) \in [Section -> Content]
           /\ \A s \in Section : c[s] \in Nat =>
                 Ran(c, n)[s] \in Nat /\ Ran(c, n)[s] = IF s \in live THEN c[s] + n ELSE c[s]
           /\ n = 0 => Ran(c, n) = c
<1> DEFINE R(s) == IF s \in live /\ c[s] # Garbage THEN c[s] + n ELSE c[s]
<1>1. Ran(c, n) = [s \in Section |-> R(s)]
  BY DEF Ran
<1>2. \A s \in Section : c[s] \in Nat => R(s) \in Nat /\ R(s) = IF s \in live THEN c[s] + n ELSE c[s]
  BY MarkAssumption
<1>3. n = 0 => \A s \in Section : R(s) = c[s]
  BY DEF Content
<1>4. Ran(c, n) \in [Section -> Content]
  BY RanType
<1> HIDE DEF R
<1> QED BY <1>1, <1>2, <1>3, <1>4

\* The executions of rounds add up.
LEMMA RerunsAdd ==
    ASSUME NEW n \in Nat, NEW w \in Nat
    PROVE  /\ Reruns(n, w) \in Nat /\ Reruns(0, w) = 0
           /\ Reruns(n + 1, w) = Reruns(n, w) + w + 1
<1>1. ASSUME NEW k \in Nat
      PROVE  n * k \in Nat /\ (n + 1) * k = n * k + k /\ 0 * k = 0
  OBVIOUS
<1>2. w + 1 \in Nat
  OBVIOUS
<1>3. n * (w + 1) \in Nat /\ (n + 1) * (w + 1) = n * (w + 1) + (w + 1) /\ 0 * (w + 1) = 0
  BY <1>1, <1>2
<1> QED BY <1>3 DEF Reruns

\* More rounds are more executions.
LEMMA RerunsGrow ==
    ASSUME NEW m \in Nat, NEW n \in Nat, NEW w \in Nat, m <= n
    PROVE  Reruns(m, w) <= Reruns(n, w)
<1> DEFINE k == w + 1
           d == n - m
<1>1. k \in Nat /\ d \in Nat /\ n = m + d
  OBVIOUS
<1>2. Reruns(m, w) = m * k /\ Reruns(n, w) = n * k
  BY DEF Reruns
<1> HIDE DEF k, d
<1>3. (m + d) * k = m * k + d * k /\ d * k \in Nat /\ m * k \in Nat
  BY <1>1
<1>4. n * k = m * k + d * k
  BY <1>1, <1>3
<1> QED BY <1>2, <1>3, <1>4

\* What the configuration says of what may happen in a launch.
LEMMA Repeats ==
    ASSUME Repeatable, TypeOK, Course, RangeCourse
    PROVE  /\ Fused => cfg.mode = "kernel" /\ cfg.all /\ ~MayFail
           /\ IsAppReplay => ~MayFail /\ ~Fused /\ ~Restores /\ ~IsRangeReplay
           /\ IsAppReplay => /\ cfg.first = 0 \/ cfg.first < cfg.pmus
                             /\ \/ cfg.flags \subseteq {"bbcount"}
                                \/ Flag("timeline") \/ Flag("memchart") \/ Flag("record")
           /\ IsRangeReplay => ~MayFail /\ ~Fused /\ ~Flag("memchart")
           /\ ~MayFail => ~signal /\ May = {TRUE} /\ result = "ok"
<1>1. cfg \in Configs
  BY DEF TypeOK, ReplayOK
<1>2. Fused => cfg.kinds \cap {"mc2", "lccl"} # {}
  BY DEF Fused, Course, RangeCourse
<1>3. cfg.mode \in {"kernel", "app", "range"} /\ (~MayFail => May = {TRUE})
  BY <1>1, ConfigOK
<1>4. Fused => cfg.mode = "kernel" /\ cfg.all /\ ~MayFail
  BY <1>1, <1>2 DEF Repeatable, MayFail
<1>5. IsAppReplay => ~MayFail /\ ~Fused /\ ~Restores /\ ~IsRangeReplay
  BY <1>1, <1>4 DEF Repeatable, MayFail, IsAppReplay, IsRangeReplay, Restores
<1>6. IsRangeReplay => ~MayFail /\ ~Fused /\ ~Flag("memchart")
  BY <1>1, <1>4 DEF Repeatable, MayFail, IsRangeReplay, Flag
<1>7. ~MayFail => ~signal /\ result = "ok"
  BY DEF Course, RangeCourse
<1>8. IsAppReplay => /\ cfg.first = 0 \/ cfg.first < cfg.pmus
                     /\ \/ cfg.flags \subseteq {"bbcount"}
                        \/ Flag("timeline") \/ Flag("memchart") \/ Flag("record")
  BY <1>1 DEF Repeatable, IsAppReplay, Flag
<1> QED BY <1>3, <1>4, <1>5, <1>6, <1>7, <1>8

\* What promises one execution runs it from the hook, from its rounds or from
\* one stub.
LEMMA ExactIs ==
    ASSUME Repeatable, TypeOK, Course, RangeCourse, Exact
    PROVE  /\ ~Fused /\ (Quiet \/ IsRangeReplay)
           /\ cfg.mode = "kernel" => cfg.flags \subseteq {"bbcount"} /\ "lccl" \notin cfg.kinds
           /\ IsAppReplay => cfg.flags \in {{}, {"bbcount"}, {"memchart"}, {"record"}}
           /\ IsRangeReplay => cfg.all /\ "lccl" \notin cfg.kinds
           /\ cfg.mode \in {"kernel", "app", "range"}
<1>1. cfg \in Configs /\ cfg.mode \in {"kernel", "app", "range"}
  BY ConfigOK DEF TypeOK, ReplayOK
<1>2. cfg.mode # "range" => cfg.kinds \cap {"mc2", "lccl"} = {}
  BY DEF Exact
<1>3. cfg.mode = "range" => cfg.kinds \cap {"mc2", "lccl"} = {}
  BY <1>1 DEF Repeatable
<1>4. ~Fused
  BY <1>2, <1>3 DEF Fused, Course, RangeCourse
<1>5. IsAppReplay => cfg.flags \in {{}, {"bbcount"}, {"memchart"}, {"record"}}
  BY DEF Exact, IsAppReplay
<1>6. cfg.mode = "kernel" => cfg.flags \subseteq {"bbcount"}
  BY DEF Exact
<1>7. Quiet \/ IsRangeReplay
  BY <1>1, <1>5, <1>6 DEF Quiet, IsRangeReplay, IsAppReplay
<1> QED BY <1>1, <1>2, <1>3, <1>4, <1>5, <1>6, <1>7 DEF Exact, IsRangeReplay

\* The run of a stub adds its warm-ups and itself at most, and itself at least
\* where nothing fails, to what it does not lose.
LEMMA StubAdds ==
    ASSUME TypeOK, KeptOK, InstrProfData, phase \notin RoundPhases
    PROVE  /\ lost \subseteq lost' /\ lost' \subseteq lost \cup sections /\ (~MayFail => lost' = lost)
           /\ \A s \in live \ lost' :
                 mem'[s] \in Nat /\ mem'[s] >= mem[s] /\ mem'[s] <= mem[s] + StubRuns
           /\ IsRangeReplay \/ ~launch.selected => mem' = mem /\ lost' = lost
           /\ ~MayFail /\ launch.selected /\ ~IsRangeReplay => \A s \in live \ lost' : mem'[s] > mem[s]
<1>1. /\ mem \in [Section -> Content] /\ live \subseteq Section /\ cfg \in Configs /\ MemoryOK
      /\ sections \subseteq live /\ \A s \in live \ lost : mem[s] \in Nat
  BY DEF KeptOK, TypeOK, MemoryOK, ReplayOK, Known
<1>2. InstrWarmUps \in 0..SamplingRuns /\ SamplingRuns \in Nat
  BY SamplingAssumption DEF InstrWarmUps, WarmUps
<1>3. CASE mem' = mem /\ lost' = lost /\ (MayFail \/ IsRangeReplay \/ ~launch.selected)
  BY <1>1, <1>2, <1>3 DEF StubRuns
<1>4. CASE ~(IsRangeReplay \/ ~launch.selected) /\ KernelLaunchForInstrProf
  <2> DEFINE warmed == Ran(mem, InstrWarmUps)
  <2>1. /\ warmed \in [Section -> Content]
        /\ \A s \in live \ lost : warmed[s] \in Nat /\ warmed[s] = mem[s] + InstrWarmUps
    BY <1>1, <1>2, RanAdds
  <2>2. \/ mem' = warmed /\ MayFail /\ lost' = lost
        \/ mem' = Ran(warmed, 1) /\ lost' = lost
        \/ MayFail /\ \E n \in 0..1 : PutBack(mem, Ran(warmed, n), MayFail)
    BY <1>4 DEF KernelLaunchForInstrProf, StartedInVain
  <2> HIDE DEF warmed
  <2>3. CASE mem' = warmed /\ MayFail /\ lost' = lost
    BY <1>1, <1>2, <1>4, <2>1, <2>3 DEF StubRuns
  <2>4. ASSUME NEW n \in 0..1
        PROVE  /\ Ran(warmed, n) \in [Section -> Content]
               /\ \A s \in live \ lost : /\ Ran(warmed, n)[s] \in Nat
                                         /\ Ran(warmed, n)[s] = mem[s] + InstrWarmUps + n
    <3>1. \A s \in live \ lost : Ran(warmed, n)[s] \in Nat /\ Ran(warmed, n)[s] = warmed[s] + n
      BY <1>1, <2>1, RanAdds
    <3>2. Ran(warmed, n) \in [Section -> Content]
      BY <2>1, RanAdds
    <3> QED BY <1>1, <1>2, <2>1, <3>1, <3>2
  <2>5. CASE mem' = Ran(warmed, 1) /\ lost' = lost
    <3>1. \A s \in live \ lost : mem'[s] \in Nat /\ mem'[s] = mem[s] + InstrWarmUps + 1
      BY <2>4, <2>5
    <3> QED BY <1>1, <1>2, <1>4, <2>5, <3>1 DEF StubRuns
  <2>6. CASE MayFail /\ \E n \in 0..1 : PutBack(mem, Ran(warmed, n), MayFail)
    <3>1. PICK n \in 0..1 : PutBack(mem, Ran(warmed, n), MayFail)
      BY <2>6
    <3>2. /\ lost \subseteq lost' /\ lost' \subseteq lost \cup sections
          /\ \A s \in Section \ sections : mem'[s] = Ran(warmed, n)[s]
          /\ \A s \in sections \ lost' : mem'[s] = mem[s]
      BY <1>1, <2>4, <3>1, ContentsAreSaved, PutBackType
    <3>3. \A s \in live \ lost' : /\ mem'[s] \in Nat
                                   /\ mem'[s] >= mem[s] /\ mem'[s] <= mem[s] + StubRuns
      <4>1. TAKE s \in live \ lost'
      <4>2. /\ s \in live \ lost /\ s \in Section /\ mem[s] \in Nat
            /\ Ran(warmed, n)[s] = mem[s] + InstrWarmUps + n
        BY <1>1, <2>4, <3>2, <4>1
      <4>3. mem'[s] = mem[s] \/ mem'[s] = mem[s] + InstrWarmUps + n
        BY <3>2, <4>1, <4>2
      <4> QED BY <1>2, <4>2, <4>3 DEF StubRuns
    <3> QED BY <1>4, <2>6, <3>2, <3>3
  <2> QED BY <2>2, <2>3, <2>5, <2>6
<1> QED BY <1>3, <1>4 DEF InstrProfData

\* A round that starts or is skipped runs nothing.
LEMMA RoundRestores ==
    ASSUME TypeOK, KeptOK, phase \in RoundPhases, RoundStarts \/ RoundSkipped
    PROVE  (~Restores => mem' = mem) /\ \A s \in Known : mem'[s] = mem[s]
<1>1. ~Restores => mem' = mem
  BY DEF RoundStarts, RoundSkipped, Replayed
<1>2. Restores => \A s \in Known : mem'[s] = mem[s]
  BY RestoreStepType DEF TypeOK, MemoryOK, Known
<1> QED BY <1>1, <1>2

\* A round that runs, and how often.
LEMMA RoundAdds ==
    ASSUME TypeOK, KeptOK, NEW e \in BOOLEAN, RoundRuns(e)
    PROVE  \E n \in 0..cfg.warm + 1 :
              /\ \A s \in Known : mem'[s] = mem[s] + n
              /\ ~MayFail => n > 0
              /\ e \/ ~Fused => n <= 1
<1>1. /\ mem \in [Section -> Content] /\ live \subseteq Section /\ cfg \in Configs
      /\ Known \subseteq live /\ \A s \in Known : mem[s] \in Nat
  BY DEF KeptOK, TypeOK, MemoryOK, ReplayOK, Known
<1>2. cfg.warm \in Nat /\ (~MayFail => May = {TRUE}) /\ May \subseteq BOOLEAN
  BY <1>1, ConfigOK
<1>3. PICK r \in May : mem' = Ran(mem, (IF lccl /\ ~e THEN cfg.warm ELSE 0) + (IF r THEN 1 ELSE 0))
  BY DEF RoundRuns
<1> DEFINE w == IF lccl /\ ~e THEN cfg.warm ELSE 0
           n == w + (IF r THEN 1 ELSE 0)
<1>4. n \in 0..cfg.warm + 1 /\ (~MayFail => n > 0) /\ (e \/ ~Fused => n <= 1)
  <2>1. w \in 0..cfg.warm /\ (e \/ ~Fused => w = 0)
    BY <1>2 DEF Fused
  <2>2. (~MayFail => r = TRUE) /\ r \in BOOLEAN
    BY <1>2, <1>3
  <2> HIDE DEF w
  <2>3. CASE r = TRUE
    BY <1>2, <2>1, <2>3
  <2>4. CASE r = FALSE
    BY <1>2, <2>1, <2>2, <2>4
  <2> QED BY <2>2, <2>3, <2>4
<1> HIDE DEF n, w
<1>5. \A s \in Known : mem'[s] = mem[s] + n
  <2>1. n \in Nat
    BY <1>2, <1>4
  <2>2. mem' = Ran(mem, n)
    BY <1>3 DEF n, w
  <2> QED BY <1>1, <2>1, <2>2, RanAdds
<1> QED BY <1>4, <1>5

-----------------------------------------------------------------------------
(* The executions of a launch are counted.                                 *)

Counted == KeptOK /\ RangeCourse /\ AtMost /\ Recording /\ AtLeast /\ ExactlyOnce

\* What is known of the numbers.
LEMMA Numbers ==
    ASSUME TypeOK, KeptOK
    PROVE  /\ mem \in [Section -> Content] /\ before \in [Section -> Content] /\ live \subseteq Section
           /\ Known \subseteq live /\ \A s \in Known : mem[s] \in Nat /\ before[s] \in Nat
           /\ sections \subseteq live \ Shared /\ Known \subseteq live \ lost
           /\ (phase \in RoundPhases /\ Restores) \/ Known = live \ lost
           /\ ~MayFail => lost = {}
           /\ cfg \in Configs /\ cfg.warm \in Nat /\ SamplingRuns \in Nat /\ Rounds \in Nat \ {0}
           /\ count \in Nat /\ cfg.pmus <= Rounds /\ cfg.pmus \in Nat /\ cfg.first \in Nat
           /\ StubRuns \in Nat \ {0} /\ Reruns(Rounds, cfg.warm) \in Nat
           /\ Reruns(count, cfg.warm) \in Nat
           /\ range \in [open : BOOLEAN, capturing : BOOLEAN, valid : BOOLEAN, captured : Nat]
<1>1. /\ cfg \in Configs /\ count \in Nat /\ live \subseteq Section
      /\ mem \in [Section -> Content] /\ before \in [Section -> Content]
      /\ range \in [open : BOOLEAN, capturing : BOOLEAN, valid : BOOLEAN, captured : Nat]
  BY DEF TypeOK, ReplayOK, MemoryOK
<1>2. cfg.warm \in Nat /\ Rounds \in Nat \ {0} /\ cfg.pmus <= Rounds /\ cfg.pmus \in Nat /\ cfg.first \in Nat
  BY <1>1, ConfigOK
<1>3. Reruns(Rounds, cfg.warm) \in Nat /\ Reruns(count, cfg.warm) \in Nat
  BY <1>1, <1>2, RerunsAdd
<1>4. /\ Known \subseteq live \ lost
      /\ (phase \in RoundPhases /\ Restores) \/ Known = live \ lost
  BY DEF Known
<1>5. \A s \in Known : mem[s] \in Nat /\ before[s] \in Nat
  BY <1>4 DEF KeptOK
<1> QED BY <1>1, <1>2, <1>3, <1>4, <1>5, SamplingAssumption DEF KeptOK, StubRuns

\* Between launches and ranges nothing is counted.
LEMMA CountedIdle ==
    ASSUME KeptOK', RangeCourse', phase' = "idle"
    PROVE  Counted'
BY DEF Counted, AtMost, Recording, AtLeast, MustHaveRun, ExactlyOnce, Around, Before, After, RoundPhases,
       RangePhases

\* What is allocated and not shared is kept.
LEMMA CountedMemory ==
    ASSUME NEW s \in Section, Malloc(s) \/ Free(s), TypeOK, Counted, cfg' = cfg
    PROVE  Counted'
<1>1. /\ mem \in [Section -> Content] /\ before \in [Section -> Content] /\ live \subseteq Section
      /\ sections \subseteq live \ Shared /\ \A x \in live \ lost : mem[x] \in Nat /\ before[x] \in Nat
  BY Numbers DEF Counted, Known, RoundPhases, Malloc, Free, Idle
<1>2. /\ mem' = [mem EXCEPT ![s] = 0] /\ before' = [before EXCEPT ![s] = 0]
      /\ phase = "idle" /\ phase' = "idle" /\ lost' = lost \ {s}
      /\ live' \subseteq live \cup {s} /\ UNCHANGED <<lccl, result, launch, range>>
  BY DEF Malloc, Free, AppendSection, Discard, Idle, replayVars
<1>3. sections' \subseteq live' \ Shared
  BY <1>1 DEF Malloc, Free, AppendSection, Appended, Discard, Discarded
<1>4. ~IsAppReplay /\ "lccl" \notin cfg.kinds => sections' = live' \ Shared
  <2>1. SUFFICES ASSUME ~IsAppReplay, "lccl" \notin cfg.kinds PROVE sections' = live' \ Shared
    OBVIOUS
  <2>2. ~lccl /\ sections = live \ Shared
    BY <2>1 DEF Counted, RangeCourse, KeptOK
  <2> QED BY <2>1, <2>2 DEF Malloc, Free, AppendSection, Appended, Discard, Discarded
<1>5. KeptOK'
  <2>1. \A x \in live' \ lost' : mem'[x] \in Nat /\ before'[x] \in Nat
    BY <1>1, <1>2
  <2>2. Known' = live' \ lost'
    BY <1>2 DEF Known, RoundPhases
  <2> QED BY <1>2, <1>3, <1>4, <2>1, <2>2 DEF Counted, KeptOK, RoundPhases, RangePhases, IsAppReplay, MayFail
<1>6. RangeCourse'
  BY <1>2 DEF Counted, RangeCourse, RoundPhases, RangePhases, Around, Before, After, MayFail
<1> QED BY <1>2, <1>5, <1>6, CountedIdle

\* An interrupt changes no memory.
LEMMA CountedSignal ==
    ASSUME UNCHANGED <<memoryVars, cfg, launch, phase, mc2, lccl, count, range, before, result>>, Counted
    PROVE  Counted'
<1>1. /\ UNCHANGED <<mem, live, sections, snapshot, lost, Known>> /\ (Exact' <=> Exact) /\ (IsNeedRunOriginLaunch' <=> IsNeedRunOriginLaunch)
      /\ (Done' <=> Done) /\ Most' = Most
  BY DEF memoryVars, Known, Restores, Exact, IsNeedRunOriginLaunch, Fused, IsAppReplay, Done, Most
<1>2. MustHaveRun' <=> MustHaveRun
  BY <1>1 DEF MustHaveRun, IsAppReplay, Flag
<1>3. KeptOK' /\ RangeCourse'
  BY <1>1 DEF Counted, KeptOK, RangeCourse, IsAppReplay, IsRangeReplay, Restores, Fused, MayFail, IsDbi
<1> QED BY <1>1, <1>2, <1>3 DEF Counted, AtMost, Recording, AtLeast, ExactlyOnce, IsAppReplay, IsRangeReplay

\* A range begins, or ends with nothing captured.
LEMMA CountedRange ==
    ASSUME MstxRangeAdd \/ RangeEndsEmpty, TypeOK, Counted, cfg' = cfg
    PROVE  Counted'
<1>0. range \in [open : BOOLEAN, capturing : BOOLEAN, valid : BOOLEAN, captured : Nat]
  BY Numbers DEF Counted
<1>1. /\ UNCHANGED <<memoryVars, before, phase, lccl, result, launch>> /\ phase = "idle"
      /\ range' = [range EXCEPT !.open = TRUE] \/ range' = NoRange
  BY DEF MstxRangeAdd, RangeEndsEmpty, Idle, AfterRange
<1>2. KeptOK'
  BY <1>1 DEF Counted, KeptOK, Known, memoryVars, RoundPhases, RangePhases, IsAppReplay, MayFail
<1>3. RangeCourse'
  BY <1>0, <1>1 DEF Counted, RangeCourse, RoundPhases, RangePhases, Around, Before, After, MayFail, NoRange
<1> QED BY <1>1, <1>2, <1>3, CountedIdle

\* A launch begins with what the application left.
LEMMA CountedInit ==
    ASSUME NEW h, NEW kind, NEW simt, NEW selected, InitParam(h, kind, simt, selected),
           cfg.all => selected \/ kind = "unknown", Repeatable, TypeOK, Course, Counted, cfg' = cfg
    PROVE  Counted'
<1>1. /\ UNCHANGED <<memoryVars, lccl, range, result>> /\ before' = mem
      /\ phase' = (IF kind = "unknown" THEN "bare" ELSE "sampling")
      /\ selected => kind # "unknown" /\ (IsRangeReplay => range.open)
      /\ launch'.selected = selected
  BY DEF InitParam
<1>2. /\ Known \subseteq live \ lost /\ \A s \in Known : mem[s] \in Nat
      /\ phase = "idle" /\ Known = live \ lost /\ Known' = Known
  BY <1>1, Numbers DEF Counted, InitParam, Idle, Known, RoundPhases, memoryVars
<1>3. KeptOK'
  BY <1>1, <1>2 DEF Counted, KeptOK, memoryVars, RoundPhases, RangePhases, IsAppReplay, MayFail
<1>4. RangeCourse'
  BY <1>1 DEF Counted, RangeCourse, RoundPhases, RangePhases, Around, Before, After, MayFail, IsRangeReplay
<1>5. AtMost' /\ Recording' /\ ExactlyOnce'
  BY <1>1, <1>2 DEF AtMost, Most, Recording, ExactlyOnce, Done, RoundPhases, RangePhases, Around, Before, After, memoryVars
<1>6. AtLeast'
  BY <1>1 DEF AtLeast, MustHaveRun, RoundPhases, After
<1> QED BY <1>3, <1>4, <1>5, <1>6 DEF Counted

\* The stubs before the rounds.
LEMMA CountedStub ==
    ASSUME Sampling \/ Timeline, Repeatable, TypeOK, Course, Counted, cfg' = cfg
    PROVE  Counted'
<1>1. /\ UNCHANGED <<live, sections, before, mc2, lccl, range, result, launch>>
      /\ \/ phase = "sampling" /\ phase' = "timeline"
         \/ phase = "timeline" /\ phase' = "init"
      /\ UNCHANGED <<mem, lost>> \/ InstrProfData
  BY DEF Sampling, Timeline, unchangedLaunch, RunsStub
<1>2. Flag("timeline") /\ phase = "timeline" => InstrProfData
  BY DEF Sampling, Timeline, RunsStub
<1>3. /\ \A s \in Known : mem[s] \in Nat /\ before[s] \in Nat
      /\ Known = live \ lost /\ Known' = live \ lost'
      /\ StubRuns \in Nat \ {0}
  BY <1>1, Numbers DEF Counted, Known, RoundPhases
<1>4. /\ Known' \subseteq Known /\ lost \subseteq lost' /\ (~MayFail => lost' = lost)
      /\ \A s \in Known' : mem'[s] \in Nat /\ mem'[s] >= mem[s] /\ mem'[s] <= mem[s] + StubRuns
      /\ IsRangeReplay \/ ~launch.selected => mem' = mem
      /\ InstrProfData /\ ~MayFail /\ launch.selected /\ ~IsRangeReplay => \A s \in Known' : mem'[s] > mem[s]
  <2>1. CASE UNCHANGED <<mem, lost>> /\ ~InstrProfData
    BY <1>3, <2>1
  <2>2. CASE InstrProfData
    <3>1. phase \notin RoundPhases
      BY <1>1 DEF RoundPhases
    <3> QED BY <1>3, <2>2, <3>1, StubAdds DEF Counted
  <2> QED BY <1>1, <2>1, <2>2
<1>5. KeptOK' /\ RangeCourse'
  BY <1>1, <1>3, <1>4 DEF Counted, KeptOK, RangeCourse, RoundPhases, RangePhases, Around, Before, After, MayFail,
                    IsAppReplay, IsRangeReplay
<1>6. AtMost'
  <2>1. \A s \in Known : mem[s] >= before[s] /\ mem[s] <= before[s] + Most
    BY <1>1 DEF Counted, AtMost, Around, Before
  <2>2. /\ phase = "sampling" => Most = 0 /\ Most' = StubRuns
        /\ phase = "timeline" => Most = StubRuns /\ Most' = 2 * StubRuns
    BY <1>1 DEF Most, StubRuns
  <2>3. \A s \in Known' : s \in Known /\ mem[s] \in Nat /\ mem'[s] \in Nat /\ before[s] \in Nat
    BY <1>3, <1>4
  <2>4. \A s \in Known' : mem'[s] >= before[s] /\ mem'[s] <= before[s] + Most'
    BY <1>1, <1>3, <1>4, <2>1, <2>2, <2>3
  <2> QED BY <1>1, <2>4 DEF AtMost
<1>7. Recording'
  BY <1>1, <1>4 DEF Counted, Recording, Around, Before, IsRangeReplay, RangePhases
<1>8. AtLeast'
  <2>1. SUFFICES ASSUME MustHaveRun' PROVE \A s \in Known' : mem'[s] > before[s]
    BY <1>1 DEF AtLeast
  <2>2. IsAppReplay /\ launch.selected /\ Flag("timeline") /\ phase = "timeline"
    BY <1>1, <2>1 DEF MustHaveRun, RoundPhases, After, IsAppReplay, Flag
  <2>3. InstrProfData /\ ~MayFail /\ ~IsRangeReplay
    BY <1>2, <2>2, Repeats DEF Counted
  <2>4. \A s \in Known : mem[s] >= before[s]
    BY <2>2 DEF Counted, AtMost, Around, Before
  <2> QED BY <1>3, <1>4, <2>2, <2>3, <2>4
<1>9. ExactlyOnce'
  <2>1. SUFFICES ASSUME Exact, ~range.capturing
                 PROVE  \A s \in Known' \ Shared : mem'[s] = before[s] + (IF Done' THEN 1 ELSE 0)
    BY <1>1 DEF ExactlyOnce, Exact, RoundPhases
  <2>2. mem' = mem
    <3>1. Quiet \/ IsRangeReplay
      BY <2>1, ExactIs DEF Counted
    <3> QED BY <1>4, <3>1 DEF Sampling, Timeline, Quiet, Flag
  <2>3. ~Done /\ ~Done'
    BY <1>1 DEF Done
  <2>4. \A s \in Known \ Shared : mem[s] = before[s] + (IF Done THEN 1 ELSE 0)
    BY <1>1, <2>1 DEF Counted, ExactlyOnce, Around, Before
  <2> QED BY <1>4, <2>2, <2>3, <2>4
<1> QED BY <1>5, <1>6, <1>7, <1>8, <1>9 DEF Counted

\* What leaves the memory as it was on the way to the hook's own launch.
LEMMA CountedQuiet ==
    ASSUME Initialize \/ Capture \/ NotReplayed \/ BBCount, Repeatable, TypeOK, Course, Counted, cfg' = cfg
    PROVE  Counted'
<1>1. /\ UNCHANGED <<mem, live, sections, lost, before, result, launch>>
      /\ \/ phase = "init" /\ phase' = "data"
         \/ phase = "data" /\ phase' = "bbcount"
         \/ phase = "bbcount" /\ phase' = "origin"
  BY DEF Initialize, Capture, NotReplayed, BBCount, unchangedLaunch, unchangedHook, memoryVars, replayVars
<1>2. /\ \A s \in Known : mem[s] \in Nat /\ before[s] \in Nat
      /\ Known' = Known
      /\ StubRuns \in Nat \ {0} /\ cfg.warm \in Nat /\ Reruns(Rounds, cfg.warm) \in Nat
      /\ range \in [open : BOOLEAN, capturing : BOOLEAN, valid : BOOLEAN, captured : Nat]
  BY <1>1, Numbers DEF Counted, Known, RoundPhases
<1>3. /\ range' = range \/ (Capture /\ InRange /\ phase = "data" /\ ~MayFail
                            /\ range'.capturing /\ range'.captured = range.captured
                            /\ range'.open = range.open /\ range'.valid = (range.valid \/ launch.selected))
  <2>1. Capture => \E captured \in BOOLEAN : RangeReplayProfData(captured)
    BY DEF Capture
  <2>2. Capture => ~MayFail /\ May = {TRUE} /\ InRange /\ phase = "data"
    BY Repeats DEF Capture, InRange, Counted
  <2>3. ASSUME Capture, NEW captured \in BOOLEAN, RangeReplayProfData(captured)
        PROVE  range' \in {range, [range EXCEPT !.capturing = TRUE, !.valid = @ \/ launch.selected]}
    BY <2>3 DEF RangeReplayProfData
  <2>4. ~Capture => range' = range
    BY DEF Initialize, NotReplayed, BBCount, replayVars
  <2> QED BY <1>2, <2>1, <2>2, <2>3, <2>4
<1>4. /\ lccl' => lccl \/ (launch.kind = "lccl" /\ phase = "init")
      /\ phase # "init" => UNCHANGED <<mc2, lccl>>
  <2>0. lccl \in BOOLEAN
    BY DEF TypeOK, ReplayOK
  <2>1. CASE Initialize
    <3>1. \/ lccl' = (lccl \/ launch.kind = "lccl")
          \/ lccl' = lccl
      BY <2>1 DEF Initialize, ProfInit, LcclAfter
    <3> QED BY <2>0, <2>1, <3>1 DEF Initialize
  <2>2. CASE ~Initialize
    BY <2>2 DEF Capture, NotReplayed, BBCount, replayVars
  <2> QED BY <2>1, <2>2
<1>5. KeptOK'
  BY <1>1, <1>2 DEF Counted, KeptOK, RoundPhases, RangePhases, IsAppReplay, MayFail
<1>6. RangeCourse'
  <2>1. lccl' => "lccl" \in cfg.kinds
    BY <1>4 DEF Counted, RangeCourse, Course
  <2> QED BY <1>1, <1>3, <2>1 DEF Counted, RangeCourse, RoundPhases, RangePhases, Around, Before, After, MayFail,
                    IsAppReplay, IsRangeReplay
<1>7. AtMost'
  <2>1. \A s \in Known : mem[s] >= before[s] /\ mem[s] <= before[s] + Most
    BY <1>1 DEF Counted, AtMost, Around, Before, After
  <2>2. Most \in Nat /\ Most' \in Nat /\ Most <= Most'
    BY <1>1, <1>2 DEF Most, StubRuns
  <2>3. \A s \in Known : mem[s] \in Nat /\ before[s] \in Nat
    BY <1>2
  <2>4. \A s \in Known : mem[s] >= before[s] /\ mem[s] <= before[s] + Most'
    BY <2>1, <2>2, <2>3
  <2> QED BY <1>1, <1>2, <2>4 DEF AtMost
<1>8. Recording'
  BY <1>1 DEF Counted, Recording, Around, Before, After, IsRangeReplay, RangePhases
<1>9. AtLeast'
  <2>1. SUFFICES ASSUME MustHaveRun' PROVE MustHaveRun
    BY <1>1, <1>2 DEF Counted, AtLeast
  <2>2. CASE phase # "data"
    BY <1>1, <1>4, <2>1, <2>2 DEF MustHaveRun, RoundPhases, After, IsAppReplay, Flag
  <2>3. CASE phase = "data"
    <3>1. /\ IsAppReplay => ~MayFail /\ ~Fused /\ ~IsRangeReplay
          /\ Fused => cfg.mode = "kernel" /\ cfg.all /\ ~MayFail
      BY Repeats DEF Counted
    <3>2. Capture \/ (NotReplayed /\ (~launch.selected \/ MayFail))
      BY <2>3 DEF Initialize, Capture, NotReplayed, BBCount
    <3>3. cfg.all => launch.selected
      BY <2>3 DEF Counted, RangeCourse, Around, Before
    <3>4. ~Fused
      BY <3>1, <3>2, <3>3 DEF Capture, InRange, IsRangeReplay
    <3>5. ~(IsAppReplay /\ launch.selected)
      BY <3>1, <3>2 DEF Capture, InRange
    <3> QED BY <1>1, <1>4, <2>1, <2>3, <3>4, <3>5 DEF MustHaveRun, RoundPhases, After, IsAppReplay, Flag, Fused
  <2> QED BY <2>2, <2>3
<1>10. ExactlyOnce'
  <2>1. SUFFICES ASSUME Exact, ~range'.capturing
                 PROVE  \A s \in Known \ Shared : mem[s] = before[s] + (IF Done' THEN 1 ELSE 0)
    BY <1>1, <1>2 DEF ExactlyOnce, Exact, RoundPhases
  <2>2. ~range.capturing
    BY <1>3, <2>1
  <2>3. Done' <=> Done
    <3>1. phase = "data" => ~(IsAppReplay /\ launch.selected)
      <4>1. IsAppReplay => ~MayFail /\ ~IsRangeReplay
        BY Repeats DEF Counted
      <4> QED BY <4>1 DEF Initialize, Capture, NotReplayed, BBCount, InRange
    <3> QED BY <1>1, <3>1 DEF Done, IsAppReplay
  <2>4. \A s \in Known \ Shared : mem[s] = before[s] + (IF Done THEN 1 ELSE 0)
    BY <1>1, <2>1, <2>2 DEF Counted, ExactlyOnce, Around, Before, After
  <2> QED BY <2>3, <2>4
<1> QED BY <1>5, <1>6, <1>7, <1>8, <1>9, <1>10 DEF Counted

\* The rounds begin with what the stubs left, or there are none.
LEMMA CountedReplay ==
    ASSUME Replay, Repeatable, TypeOK, Course, Counted, cfg' = cfg
    PROVE  Counted'
<1>1. /\ UNCHANGED <<live, sections, lost, before, mc2, lccl, range, result, launch>>
      /\ phase = "data" /\ ~InRange /\ launch.selected
  BY DEF Replay, unchangedLaunch, unchangedHook
<1>2. /\ mem \in [Section -> Content] /\ live \subseteq Section
      /\ Known = live \ lost /\ \A s \in Known : mem[s] \in Nat /\ before[s] \in Nat
      /\ sections \subseteq live /\ Rounds \in Nat \ {0}
      /\ StubRuns \in Nat \ {0} /\ cfg.warm \in Nat /\ Reruns(Rounds, cfg.warm) \in Nat
  BY <1>1, Numbers DEF Counted, RoundPhases
<1> Known' \subseteq Known
  BY <1>1, <1>2 DEF Known
<1>3. ~IsRangeReplay /\ phase' # "data" /\ phase' \in RoundPhases \cup {"bbcount"}
  BY <1>1 DEF Counted, RangeCourse, Around, Before, InRange, IsRangeReplay, Replay, RoundPhases
<1>4. IsAppReplay => ~Fused /\ ~MayFail /\ ~Restores
  BY Repeats DEF Counted
<1>5. \A s \in Known : mem[s] >= before[s] /\ mem[s] <= before[s] + 2 * StubRuns
  <2>1. Most = 2 * StubRuns
    BY <1>1 DEF Most
  <2> QED BY <1>1, <2>1 DEF Counted, AtMost, Around, Before
<1>6. Flag("timeline") /\ IsAppReplay => \A s \in Known : mem[s] > before[s]
  BY <1>1 DEF Counted, AtLeast, MustHaveRun
<1>7. Exact => ~Fused /\ \A s \in Known \ Shared : mem[s] = before[s]
  <2>1. ~Done
    BY <1>1 DEF Done
  <2>2. range.capturing => IsRangeReplay
    BY DEF Course
  <2> QED BY <1>1, <1>3, <2>1, <2>2, <1>2, ExactIs DEF Counted, ExactlyOnce, Around, Before
<1>8. CASE IsDbi
  <2>1. /\ phase' = "bbcount" /\ mem' = Ran(mem, IF mc2 THEN 1 ELSE 0)
        /\ UNCHANGED <<snapshot, count>>
    BY <1>8 DEF Replay
  <2>2. IsAppReplay /\ ~mc2 /\ cfg.flags # {}
    BY <1>4, <1>8 DEF IsDbi, Fused
  <2>3. mem' = mem
    BY <1>2, <2>1, <2>2, RanAdds
  <2>4. KeptOK'
    BY <1>1, <1>2, <2>1, <2>3 DEF Counted, KeptOK, IsAppReplay, RoundPhases, RangePhases, MayFail
  <2>5. RangeCourse'
    BY <1>1, <1>3, <2>1 DEF Counted, RangeCourse, IsRangeReplay, MayFail, RoundPhases, RangePhases, Around, Before, After
  <2>6. AtMost'
    <3>1. Most' = 2 * StubRuns + cfg.warm + 2 + Reruns(Rounds, cfg.warm)
      BY <2>1 DEF Most, StubRuns
    <3>2. \A s \in Known : mem[s] \in Nat /\ before[s] \in Nat
      BY <1>2
    <3>3. \A s \in Known : mem[s] >= before[s] /\ mem[s] <= before[s] + Most'
      BY <1>2, <1>5, <3>1, <3>2
    <3> QED BY <1>1, <2>1, <2>3, <3>3 DEF AtMost
  <2>7. Recording'
    BY <1>3, <2>1 DEF Recording, RangePhases, IsRangeReplay
  <2>8. AtLeast'
    <3>1. MustHaveRun' => Flag("timeline") /\ IsAppReplay
      BY <1>1, <1>4, <2>1, <2>2 DEF MustHaveRun, After, IsAppReplay, Flag, Fused
    <3> QED BY <1>1, <1>6, <2>3, <3>1 DEF AtLeast
  <2>9. ExactlyOnce'
    <3>1. ~Done' /\ (Exact' <=> Exact) /\ phase' \notin RoundPhases
      BY <2>1, <2>2 DEF Done, Exact, RoundPhases
    <3> QED BY <1>1, <1>2, <1>7, <2>3, <3>1 DEF ExactlyOnce
  <2> QED BY <2>4, <2>5, <2>6, <2>7, <2>8, <2>9 DEF Counted
<1>9. CASE ~IsDbi
  <2> DEFINE first == IF mc2 THEN 1 ELSE 0
             n == first + WarmUps(cfg.warm)
  <2>1. /\ phase' \in {"evict", "rounds"} /\ mem' = Ran(mem, n) /\ (~IsAppReplay => count' = 0)
        /\ Restores => BackedUp(snapshot')
    BY <1>9 DEF Replay, BeforeRounds, Saves, Restores, Fused
  <2>2. /\ n \in 0..cfg.warm + 1 /\ (mc2 => n > 0) /\ (IsAppReplay => n = 0)
    <3>1. first \in {0, 1} /\ (mc2 => first = 1) /\ (IsAppReplay => first = 0)
      BY <1>4 DEF Fused
    <3>2. WarmUps(cfg.warm) \in 0..cfg.warm /\ (IsAppReplay => WarmUps(cfg.warm) = 0)
      BY <1>2 DEF WarmUps
    <3> HIDE DEF first
    <3> QED BY <1>2, <3>1, <3>2
  <2> HIDE DEF n
  <2>3. \A s \in Known : mem'[s] \in Nat /\ mem'[s] = mem[s] + n
    <3>1. n \in Nat
      BY <1>2, <2>2
    <3> QED BY <1>2, <2>1, <3>1, RanAdds
  <2>4. KeptOK'
    <3>1. Restores => \A s \in sections \ lost : snapshot'[s] \in before[s] .. before[s] + 2 * StubRuns
      <4>1. Restores => \A s \in sections : snapshot'[s] = mem[s]
        BY <2>1, BackedUpHolds DEF TypeOK
      <4> QED BY <1>2, <1>5, <4>1
    <3> QED BY <1>1, <1>2, <2>1, <2>3, <3>1 DEF Counted, KeptOK, IsAppReplay, RangePhases, Restores, Fused, StubRuns,
                                                MayFail
  <2>5. RangeCourse'
    BY <1>1, <1>3, <1>9, <2>1 DEF Counted, RangeCourse, IsRangeReplay, IsAppReplay, IsDbi, MayFail, RangePhases,
                                  Around, Before, After
  <2>6. AtMost'
    <3>1. Most' \in Nat /\ Most' >= 2 * StubRuns + cfg.warm + 1
      <4>1. phase' = "rounds" /\ ~IsAppReplay => Most' = 2 * StubRuns + cfg.warm + 2 + Reruns(0, cfg.warm)
        BY <2>1 DEF Most, StubRuns, IsAppReplay
      <4>2. phase' = "rounds" /\ IsAppReplay => Most' = 2 * StubRuns + cfg.warm + 2 + 0
        BY <2>1 DEF Most, StubRuns, IsAppReplay
      <4>3. phase' = "evict" => Most' = 2 * StubRuns + cfg.warm + 1
        BY <2>1 DEF Most, StubRuns
      <4>4. Reruns(0, cfg.warm) \in Nat
        BY <1>2, RerunsAdd
      <4> QED BY <1>2, <2>1, <4>1, <4>2, <4>3, <4>4
    <3>2. \A s \in Known : mem[s] \in Nat /\ before[s] \in Nat
      BY <1>2
    <3>3. \A s \in Known : mem'[s] >= before[s] /\ mem'[s] <= before[s] + Most'
      BY <1>2, <1>5, <2>2, <2>3, <3>1, <3>2
    <3>4. ~IsAppReplay => count' <= Rounds
      BY <1>2, <2>1
    <3> QED BY <1>1, <2>1, <3>3, <3>4 DEF AtMost, IsAppReplay
  <2>7. Recording'
    BY <1>3, <2>1 DEF Recording, RangePhases, IsRangeReplay
  <2>8. AtLeast'
    <3>1. MustHaveRun' => mc2 \/ (Flag("timeline") /\ IsAppReplay)
      <4>1. lccl => ~IsAppReplay
        BY <1>4 DEF Fused
      <4> QED BY <1>1, <1>4, <2>1, <4>1 DEF MustHaveRun, After, IsAppReplay, Flag
    <3>2. MustHaveRun' => \A s \in Known : mem'[s] > before[s]
      BY <1>2, <1>5, <1>6, <2>2, <2>3, <3>1
    <3> QED BY <1>1, <3>2 DEF AtLeast
  <2>9. ExactlyOnce'
    <3>1. Exact /\ IsAppReplay => \A s \in Known \ Shared : mem'[s] = before[s]
      BY <1>2, <1>7, <2>2, <2>3
    <3>2. (Exact' <=> Exact) /\ (IsAppReplay' <=> IsAppReplay) /\ phase' \notin Around
      BY <2>1 DEF Exact, IsAppReplay, Around, Before, After
    <3> QED BY <1>1, <3>1, <3>2 DEF ExactlyOnce
  <2> QED BY <2>4, <2>5, <2>6, <2>7, <2>8, <2>9 DEF Counted
<1> QED BY <1>8, <1>9

\* What the rounds leave alone.
LEMMA RoundFrame ==
    ASSUME EvictStarts \/ EvictRuns \/ Round \/ Measure \/ RoundsEnd, Course, Counted, cfg' = cfg
    PROVE  /\ UNCHANGED <<live, sections, snapshot, before, mc2, lccl, range, signal, result, launch>>
           /\ RoundsEnd \/ (UNCHANGED lost /\ Known' = live \ (lost \cup IF phase' \in RoundPhases /\ Restores THEN sections ELSE {}))
           /\ phase \in RoundPhases /\ phase' \in RoundPhases \cup {"bbcount"}
           /\ ~IsRangeReplay /\ launch.selected /\ ~IsDbi
           /\ RangeCourse' /\ Recording'
           /\ (\A s \in Known' : mem'[s] \in Nat) /\ lost \subseteq lost' /\ (lost' # {} => MayFail) => KeptOK'
<1>1. /\ UNCHANGED <<live, sections, snapshot, before, mc2, lccl, range, signal, result, launch>>
      /\ phase \in RoundPhases /\ phase' \in {"evicting", "rounds", "measuring", "bbcount"}
  BY DEF EvictStarts, EvictRuns, Round, Measure, RoundsEnd, EvictEnds, NextRound, unchangedRound, unchangedLaunch,
         unchangedHook, RoundPhases
<1>2. ~IsRangeReplay /\ launch.selected /\ ~IsDbi
  BY <1>1 DEF Counted, RangeCourse
<1>3. RangeCourse'
  BY <1>1, <1>2 DEF Counted, RangeCourse, IsRangeReplay, IsAppReplay, IsDbi, MayFail, RangePhases,
                    Around, Before, After
<1>4. Recording'
  BY <1>1, <1>2 DEF Recording, RangePhases, IsRangeReplay
<1>5. (\A s \in Known' : mem'[s] \in Nat) /\ lost \subseteq lost' /\ (lost' # {} => MayFail) => KeptOK'
  BY <1>1 DEF Counted, KeptOK, IsAppReplay, RangePhases, Restores, Fused, MayFail
<1>6. RoundsEnd \/ (UNCHANGED lost /\ Known' = live \ (lost \cup IF phase' \in RoundPhases /\ Restores THEN sections ELSE {}))
  BY <1>1 DEF EvictStarts, EvictRuns, Round, Measure, unchangedRound, Known, Restores, Fused, IsAppReplay
<1> QED BY <1>1, <1>2, <1>3, <1>4, <1>5, <1>6 DEF RoundPhases

\* A round starts, or is skipped.
LEMMA CountedStart ==
    ASSUME EvictStarts \/ Round, Repeatable, TypeOK, Course, SnapshotsHold, Counted, cfg' = cfg
    PROVE  Counted'
<1>1. /\ UNCHANGED <<live, sections, snapshot, before, mc2, lccl, range, signal, result, launch>>
      /\ ~IsRangeReplay /\ launch.selected /\ ~IsDbi /\ phase \in RoundPhases
      /\ RangeCourse' /\ Recording'
      /\ (\A s \in Known' : mem'[s] \in Nat) /\ lost \subseteq lost' /\ (lost' # {} => MayFail) => KeptOK'
      /\ UNCHANGED lost /\ Known' = live \ (lost \cup IF phase' \in RoundPhases /\ Restores THEN sections ELSE {})
      /\ ~RoundsEnd
  <2>1. ~RoundsEnd
    BY DEF EvictStarts, Round, RoundsEnd
  <2> QED BY <2>1, RoundFrame
<1>2. /\ \A s \in Known : mem[s] \in Nat /\ before[s] \in Nat
      /\ lost # {} => MayFail
      /\ sections \subseteq live /\ count \in Nat
      /\ StubRuns \in Nat \ {0} /\ cfg.warm \in Nat /\ Reruns(Rounds, cfg.warm) \in Nat
      /\ Reruns(count, cfg.warm) \in Nat
  BY Numbers DEF Counted
<1>3. /\ phase = "evict" => phase' \in {"evicting", "bbcount", "rounds"} /\ count' = count
      /\ phase \in {"evict", "rounds"}
      /\ phase = "rounds" => phase' \in {"measuring", "bbcount", "rounds"} /\ count < Rounds
      /\ phase = "rounds" /\ phase' = "rounds" => count' = count + 1
      /\ phase' = "measuring" => count' = count
      /\ phase' = "bbcount" => IsAppReplay
      /\ phase' = "rounds" => ~IsAppReplay
      /\ phase' \in {"bbcount", "rounds"} => RoundSkipped
      /\ RoundStarts \/ RoundSkipped
  BY DEF EvictStarts, Round, EvictEnds, NextRound, MoreRounds
<1>4. (~Restores => mem' = mem) /\ \A s \in Known : mem'[s] = mem[s]
  BY <1>1, <1>3, RoundRestores DEF Counted
<1>5. IsAppReplay => ~Fused /\ ~MayFail /\ ~Restores /\ (cfg.first = 0 \/ cfg.first < cfg.pmus)
  BY Repeats DEF Counted
<1>6. phase' # "bbcount" /\ Known' = Known
  <2>1. SUFFICES ASSUME IsAppReplay, RoundSkipped PROVE FALSE
    BY <1>1, <1>3 DEF Known, RoundPhases
  <2>2. count = cfg.first
    BY <1>1, <2>1 DEF Course
  <2>3. ~NothingToMeasure
    BY <1>2, <1>5, <2>1, <2>2, Numbers DEF NothingToMeasure, IsPmuEventEmpty, Counted
  <2>4. ~Restores /\ StartedInVain(count, launch.simt, mc2) = {}
    BY <1>5, <2>1 DEF StartedInVain
  <2> QED BY <2>1, <2>3, <2>4 DEF RoundSkipped
<1>7. AtMost'
  <2>1. \A s \in Known : mem[s] >= before[s] /\ mem[s] <= before[s] + Most
    BY <1>1 DEF Counted, AtMost
  <2>2. Most \in Nat /\ Most' \in Nat /\ Most <= Most' /\ 2 * StubRuns <= Most'
    <3>1. phase = "evict" => Most = 2 * StubRuns + cfg.warm + 1
      BY DEF Most
    <3>2. phase = "rounds" => Most = 2 * StubRuns + cfg.warm + 2 + (IF IsAppReplay THEN 0 ELSE Reruns(count, cfg.warm))
      BY DEF Most
    <3>3. phase' = "evicting" => Most' = 2 * StubRuns + cfg.warm + 1
      BY DEF Most, StubRuns
    <3>4. phase' \in {"rounds", "measuring"} =>
             Most' = 2 * StubRuns + cfg.warm + 2 + (IF IsAppReplay THEN 0 ELSE Reruns(count', cfg.warm))
      BY DEF Most, StubRuns, IsAppReplay
    <3>5. count' \in {count, count + 1}
      BY <1>3, <1>6
    <3>6. /\ Reruns(count', cfg.warm) \in Nat
          /\ Reruns(count, cfg.warm) <= Reruns(count', cfg.warm)
      <4>1. count \in Nat /\ count' \in Nat /\ cfg.warm \in Nat /\ count <= count'
        BY <1>2, <3>5
      <4> QED BY <4>1, RerunsAdd, RerunsGrow
    <3> HIDE DEF StubRuns
    <3> QED BY <1>2, <1>3, <1>6, <3>1, <3>2, <3>3, <3>4, <3>5, <3>6
  <2>3. \A s \in Known : mem[s] \in Nat /\ before[s] \in Nat
    BY <1>2
  <2>4. \A s \in Known : mem'[s] >= before[s] /\ mem'[s] <= before[s] + Most'
    BY <1>2, <1>4, <2>1, <2>2, <2>3
  <2>5. /\ phase' \in {"rounds", "measuring"} /\ ~IsAppReplay => count' <= Rounds
        /\ phase' = "measuring" => count' < Rounds
        /\ phase' = "evicting" /\ ~IsAppReplay => count' = 0
    <3>1. phase = "evict" /\ ~IsAppReplay => count = 0
      BY DEF Course
    <3> QED BY <1>2, <1>3, <3>1, RoundsAssumption
  <2> QED BY <1>1, <1>6, <2>4, <2>5 DEF AtMost, IsAppReplay
<1>8. AtLeast'
  <2>1. SUFFICES ASSUME MustHaveRun' PROVE \A s \in Known : mem'[s] > before[s]
    BY <1>1, <1>6 DEF AtLeast
  <2>2. phase' \in RoundPhases
    BY <1>3, <1>6 DEF RoundPhases
  <2>3. ~Restores /\ MustHaveRun
    <3>1. CASE IsAppReplay
      BY <1>1, <1>5, <2>1, <2>2, <3>1 DEF MustHaveRun, RoundPhases, After, IsAppReplay, Flag, Fused
    <3>2. CASE mc2
      BY <1>1, <3>2 DEF MustHaveRun, Restores, Fused
    <3>3. CASE ~IsAppReplay /\ ~mc2
      <4>1. lccl /\ phase' = "rounds" /\ count' # 0
        BY <1>1, <2>1, <2>2, <3>3 DEF MustHaveRun, RoundPhases, After, IsAppReplay, Flag
      <4>2. phase = "rounds"
        <5>1. phase = "evict" => count' = 0
          BY <1>3, <3>3 DEF Course
        <5> QED BY <1>3, <4>1, <5>1
      <4>3. ~Restores /\ ~MayFail
        BY <4>1, Repeats DEF Restores, Fused, Counted
      <4>4. NothingToMeasure
        BY <1>3, <4>1, <4>3 DEF RoundSkipped, StartedInVain
      <4> QED BY <4>1, <4>2, <4>3, <4>4 DEF MustHaveRun, NothingToMeasure
    <3> QED BY <3>1, <3>2, <3>3
  <2> QED BY <1>4, <2>3 DEF Counted, AtLeast
<1>9. ExactlyOnce'
  <2>1. (Exact' <=> Exact) /\ (IsAppReplay' <=> IsAppReplay) /\ phase' \notin Around
    BY <1>3, <1>6 DEF Exact, IsAppReplay, Around, Before, After
  <2>2. IsAppReplay => mem' = mem
    BY <1>4, <1>5
  <2> QED BY <1>1, <1>6, <2>1, <2>2 DEF Counted, ExactlyOnce
<1>10. KeptOK'
  <2>1. \A s \in Known' : mem'[s] \in Nat
    BY <1>2, <1>4, <1>6
  <2> QED BY <1>1, <1>2, <2>1
<1> QED BY <1>1, <1>7, <1>8, <1>9, <1>10 DEF Counted

\* A round runs.
LEMMA CountedRun ==
    ASSUME EvictRuns \/ Measure, Repeatable, TypeOK, Course, SnapshotsHold, Counted, cfg' = cfg
    PROVE  Counted'
<1>1. /\ UNCHANGED <<live, sections, snapshot, before, mc2, lccl, range, signal, result, launch>>
      /\ ~IsRangeReplay /\ launch.selected /\ ~IsDbi /\ phase \in RoundPhases
      /\ RangeCourse' /\ Recording'
      /\ (\A s \in Known' : mem'[s] \in Nat) /\ lost \subseteq lost' /\ (lost' # {} => MayFail) => KeptOK'
      /\ UNCHANGED lost /\ Known' = live \ (lost \cup IF phase' \in RoundPhases /\ Restores THEN sections ELSE {})
      /\ ~RoundsEnd
  <2>1. ~RoundsEnd
    BY DEF EvictRuns, Measure, RoundsEnd
  <2> QED BY <2>1, RoundFrame
<1>2. /\ \A s \in Known : mem[s] \in Nat /\ before[s] \in Nat
      /\ lost # {} => MayFail
      /\ count \in Nat
      /\ StubRuns \in Nat \ {0} /\ cfg.warm \in Nat /\ Reruns(Rounds, cfg.warm) \in Nat
      /\ Reruns(count, cfg.warm) \in Nat
  BY Numbers DEF Counted
<1>3. /\ phase = "evicting" => count' = count
      /\ phase \in {"evicting", "measuring"}
      /\ phase = "measuring" /\ phase' = "rounds" => count' = count + 1
      /\ phase' = (IF IsAppReplay THEN "bbcount" ELSE "rounds")
      /\ RoundRuns(phase = "evicting")
  BY DEF EvictRuns, Measure, EvictEnds, NextRound
<1>4. PICK n \in 0..cfg.warm + 1 : /\ \A s \in Known : mem'[s] = mem[s] + n
                                   /\ ~MayFail => n > 0
                                   /\ phase = "evicting" \/ ~Fused => n <= 1
  <2>1. (phase = "evicting") \in BOOLEAN
    OBVIOUS
  <2> QED BY <1>3, <2>1, RoundAdds DEF Counted
<1>5. /\ IsAppReplay => ~Fused /\ ~MayFail /\ ~Restores
      /\ Known' = Known
  <2>1. IsAppReplay => ~Fused /\ ~MayFail /\ ~Restores
    BY Repeats DEF Counted
  <2> QED BY <1>1, <1>3, <2>1 DEF Known, RoundPhases
<1>6. \A s \in Known : mem[s] \in Nat /\ before[s] \in Nat /\ mem[s] >= before[s] /\ mem[s] <= before[s] + Most
  BY <1>1, <1>2 DEF Counted, AtMost
<1>7. AtMost'
  <2>1. Most \in Nat /\ Most' \in Nat /\ Most + n <= Most'
    <3>1. phase = "evicting" => Most = 2 * StubRuns + cfg.warm + 1
      BY DEF Most
    <3>2. phase = "measuring" => Most = 2 * StubRuns + cfg.warm + 2 + (IF IsAppReplay THEN 0 ELSE Reruns(count, cfg.warm))
      BY DEF Most
    <3>3. phase' = "rounds" =>
             Most' = 2 * StubRuns + cfg.warm + 2 + (IF IsAppReplay THEN 0 ELSE Reruns(count', cfg.warm))
      BY DEF Most, StubRuns, IsAppReplay
    <3>4. phase' = "bbcount" => Most' = 2 * StubRuns + cfg.warm + 2 + Reruns(Rounds, cfg.warm)
      BY DEF Most, StubRuns
    <3>5. /\ Reruns(count + 1, cfg.warm) = Reruns(count, cfg.warm) + cfg.warm + 1
          /\ Reruns(Rounds, cfg.warm) >= cfg.warm + 1
      <4>1. count \in Nat /\ cfg.warm \in Nat /\ 0 \in Nat /\ 1 \in Nat /\ 1 <= Rounds /\ Rounds \in Nat
            /\ 0 + 1 = 1
        BY <1>2, RoundsAssumption
      <4>2. Reruns(count + 1, cfg.warm) = Reruns(count, cfg.warm) + cfg.warm + 1
        BY <4>1, RerunsAdd
      <4>3. Reruns(0, cfg.warm) = 0 /\ Reruns(0 + 1, cfg.warm) = Reruns(0, cfg.warm) + cfg.warm + 1
        BY <4>1, RerunsAdd
      <4>4. Reruns(1, cfg.warm) <= Reruns(Rounds, cfg.warm)
        BY <4>1, RerunsGrow
      <4>5. Reruns(1, cfg.warm) = cfg.warm + 1
        BY <4>1, <4>3
      <4> QED BY <1>2, <4>1, <4>2, <4>4, <4>5
    <3> HIDE DEF StubRuns
    <3>6. n \in Nat /\ n <= cfg.warm + 1 /\ (phase = "evicting" => n <= 1)
      BY <1>2, <1>4
    <3>7. CASE phase = "evicting" /\ ~IsAppReplay
      <4>1. count' = 0
        BY <1>3, <3>7 DEF Counted, AtMost
      <4>2. Reruns(0, cfg.warm) = 0
        BY <1>2, RerunsAdd
      <4> QED BY <1>2, <1>3, <3>1, <3>3, <3>7, <3>6, <4>1, <4>2
    <3>8. CASE phase = "measuring" /\ ~IsAppReplay
      BY <1>2, <1>3, <3>2, <3>3, <3>5, <3>8, <3>6
    <3>9. CASE IsAppReplay
      BY <1>2, <1>3, <3>1, <3>2, <3>4, <3>5, <3>9, <3>6
    <3> QED BY <1>3, <3>7, <3>8, <3>9
  <2>2. \A s \in Known : mem'[s] >= before[s] /\ mem'[s] <= before[s] + Most'
    BY <1>2, <1>4, <1>6, <2>1
  <2>3. phase' = "rounds" => count' <= Rounds
    BY <1>2, <1>3, RoundsAssumption DEF Counted, AtMost
  <2> QED BY <1>1, <1>3, <1>5, <2>2, <2>3 DEF AtMost
<1>8. AtLeast'
  <2>1. SUFFICES ASSUME MustHaveRun' PROVE \A s \in Known : mem'[s] > before[s]
    BY <1>1, <1>5 DEF AtLeast
  <2>2. CASE ~MayFail
    BY <1>2, <1>4, <1>6, <2>2
  <2>3. CASE MayFail
    <3>1. ~Fused /\ ~IsAppReplay
      BY <1>5, <2>3, Repeats DEF Counted
    <3>2. ~MustHaveRun'
      BY <1>1, <1>3, <3>1 DEF MustHaveRun, After, IsAppReplay, Fused
    <3> QED BY <2>1, <3>2
  <2> QED BY <2>2, <2>3
<1>9. ExactlyOnce'
  <2>1. SUFFICES ASSUME Exact, IsAppReplay PROVE \A s \in Known \ Shared : mem'[s] = before[s] + 1 /\ Done'
    BY <1>1, <1>3, <1>5 DEF ExactlyOnce, Exact, IsAppReplay, Around, Before, After, RoundPhases
  <2>2. n = 1
    BY <1>2, <1>4, <1>5, <2>1
  <2>3. \A s \in Known \ Shared : mem[s] = before[s]
    BY <1>1, <2>1 DEF Counted, ExactlyOnce
  <2>4. cfg.flags = {}
    <3>1. cfg.flags \in {{}, {"bbcount"}, {"memchart"}, {"record"}}
      BY <2>1, ExactIs DEF Counted
    <3> QED BY <1>1, <2>1, <3>1 DEF IsDbi
  <2> QED BY <1>1, <1>3, <1>4, <2>1, <2>2, <2>3, <2>4 DEF Done, IsAppReplay
<1>10. KeptOK'
  <2>1. \A s \in Known' : mem'[s] \in Nat
    BY <1>2, <1>4, <1>5
  <2> QED BY <1>1, <1>2, <2>1
<1> QED BY <1>1, <1>7, <1>8, <1>9, <1>10 DEF Counted

\* After the rounds.
LEMMA CountedEnd ==
    ASSUME RoundsEnd, Repeatable, TypeOK, Course, SnapshotsHold, Counted, cfg' = cfg
    PROVE  Counted'
<1>1. /\ UNCHANGED <<live, sections, snapshot, before, mc2, lccl, range, signal, result, launch>>
      /\ ~IsRangeReplay /\ launch.selected /\ ~IsDbi /\ phase \in RoundPhases
      /\ RangeCourse' /\ Recording'
      /\ (\A s \in Known' : mem'[s] \in Nat) /\ lost \subseteq lost' /\ (lost' # {} => MayFail) => KeptOK'
  BY RoundFrame
<1>2. /\ \A s \in Known : mem[s] \in Nat /\ before[s] \in Nat
      /\ \A s \in live \ lost : before[s] \in Nat
      /\ live \subseteq Section /\ sections \subseteq Section
      /\ count \in Nat /\ Rounds \in Nat \ {0} /\ cfg.pmus <= Rounds
      /\ cfg.first \in Nat /\ cfg.pmus \in Nat
      /\ StubRuns \in Nat \ {0} /\ cfg.warm \in Nat /\ Reruns(Rounds, cfg.warm) \in Nat
      /\ Reruns(count, cfg.warm) \in Nat /\ (lost # {} => MayFail)
  BY Numbers DEF Counted, KeptOK, TypeOK, MemoryOK
<1>3. phase = "rounds" /\ phase' = "bbcount" /\ ~MoreRounds /\ Settled
  BY DEF RoundsEnd
<1>4. IsAppReplay => ~Fused /\ ~MayFail /\ ~Restores /\ (cfg.first = 0 \/ cfg.first < cfg.pmus)
  BY Repeats DEF Counted
<1>5. ~IsAppReplay
  <2>1. SUFFICES ASSUME IsAppReplay PROVE MoreRounds
    BY <1>3
  <2>2. count = cfg.first /\ ~signal
    BY <1>1, <1>4, <2>1 DEF Course
  <2> QED BY <1>2, <1>4, <2>1, <2>2 DEF MoreRounds
<1>6. /\ Known' = live \ lost' /\ lost \subseteq lost' /\ (lost' # {} => MayFail)
      /\ Fused => mem' = mem /\ Known' = Known
      /\ \A s \in Known' :
            \/ s \in Known /\ mem'[s] = mem[s] /\ (~Fused => s \notin sections)
            \/ /\ s \in sections \ lost /\ ~Fused /\ mem'[s] = snapshot[s]
               /\ snapshot[s] \in before[s] .. before[s] + 2 * StubRuns
  <2>1. Known' = live \ lost'
    BY <1>1, <1>3 DEF Known, RoundPhases
  <2>2. CASE Fused
    <3>1. UNCHANGED <<mem, lost>> /\ ~Restores
      BY <1>3, <2>2 DEF Settled, Restores
    <3> QED BY <1>2, <2>1, <2>2, <3>1 DEF Known
  <2>3. CASE ~Fused
    <3>1. Restores
      BY <1>5, <2>3 DEF Restores
    <3>2. /\ MemoryOK /\ snapshot \in [Section -> Snapshot] /\ mem \in [Section -> Content]
          /\ PutBack(snapshot, mem, MayFail)
      BY <1>3, <2>3 DEF Settled, TypeOK, MemoryOK
    <3>3. /\ lost \subseteq lost' /\ \A s \in Section \ sections : mem'[s] = mem[s]
          /\ \A s \in sections \ lost' : mem'[s] = snapshot[s]
          /\ AllSaved(snapshot) /\ ~MayFail => lost' = lost
      BY <3>2, PutBackType
    <3>4. /\ AllSaved(snapshot) /\ Known = live \ (lost \cup sections)
          /\ \A s \in sections \ lost : snapshot[s] \in before[s] .. before[s] + 2 * StubRuns
      BY <1>1, <3>1 DEF SnapshotsHold, CanRestore, Counted, KeptOK, Known
    <3> QED BY <1>2, <2>1, <2>3, <3>3, <3>4
  <2> QED BY <2>2, <2>3
<1>7. AtMost'
  <2>1. Most' = 2 * StubRuns + cfg.warm + 2 + Reruns(Rounds, cfg.warm)
    BY <1>3 DEF Most, StubRuns
  <2>2. Most = 2 * StubRuns + cfg.warm + 2 + Reruns(count, cfg.warm)
    BY <1>3, <1>5 DEF Most
  <2>3. \A s \in Known : mem[s] \in Nat /\ before[s] \in Nat /\ mem[s] >= before[s] /\ mem[s] <= before[s] + Most
    BY <1>1, <1>2 DEF Counted, AtMost
  <2>4. Most <= Most'
    <3>1. count <= Rounds
      BY <1>3, <1>5 DEF Counted, AtMost
    <3>2. Reruns(count, cfg.warm) <= Reruns(Rounds, cfg.warm)
      BY <1>2, <3>1, RerunsGrow
    <3> QED BY <1>2, <2>1, <2>2, <3>2
  <2>5. Most \in Nat /\ Most' \in Nat /\ 2 * StubRuns \in Nat /\ 2 * StubRuns <= Most'
    BY <1>2, <2>1, <2>2
  <2>6. \A s \in Known' : mem'[s] >= before[s] /\ mem'[s] <= before[s] + Most'
    <3> HIDE DEF Most, StubRuns
    <3>1. TAKE s \in Known'
    <3>2. before[s] \in Nat
      BY <1>2, <1>6, <3>1
    <3>3. \/ s \in Known /\ mem'[s] = mem[s]
          \/ mem'[s] \in before[s] .. before[s] + 2 * StubRuns
      BY <1>6, <3>1
    <3> QED BY <2>3, <2>4, <2>5, <3>2, <3>3
  <2> QED BY <1>1, <1>3, <2>6 DEF AtMost
<1>8. AtLeast'
  <2>1. SUFFICES ASSUME MustHaveRun' PROVE \A s \in Known' : mem'[s] > before[s]
    BY <1>1 DEF AtLeast
  <2>2. Fused
    BY <1>1, <1>3, <1>5, <2>1 DEF MustHaveRun, After, IsAppReplay, Fused
  <2>3. count # 0
    <3>1. ~signal
      BY <2>2, Repeats DEF Counted
    <3> QED BY <1>2, <1>3, <3>1 DEF MoreRounds
  <2>4. MustHaveRun
    BY <1>3, <2>2, <2>3 DEF MustHaveRun, Fused, RoundPhases
  <2> QED BY <1>6, <2>2, <2>4 DEF Counted, AtLeast
<1>9. ExactlyOnce'
  <2>1. SUFFICES ASSUME Exact PROVE \A s \in Known' \ Shared : mem'[s] = before[s] /\ before[s] \in Nat
    <3>1. ~Done' /\ phase' \notin RoundPhases /\ (Exact' <=> Exact)
      BY <1>3, <1>5 DEF Exact, IsAppReplay, Done, RoundPhases
    <3> QED BY <1>1, <3>1 DEF ExactlyOnce
  <2>2. ~Fused /\ Quiet /\ "lccl" \notin cfg.kinds
    BY <1>1, <1>5, <2>1, ExactIs DEF Counted, IsAppReplay, IsRangeReplay
  <2>3. sections = live \ Shared /\ Restores
    BY <1>5, <2>2 DEF Counted, KeptOK, Restores
  <2>4. \A s \in sections : snapshot[s] = before[s]
    BY <1>1, <2>2, <2>3 DEF SnapshotsHold
  <2> QED BY <1>2, <1>6, <2>2, <2>3, <2>4
<1>10. KeptOK'
  <2>1. \A s \in Known' : mem'[s] \in Nat
    <3>1. TAKE s \in Known'
    <3>2. before[s] \in Nat /\ StubRuns \in Nat
      BY <1>2, <1>6, <3>1
    <3>3. \/ s \in Known /\ mem'[s] = mem[s]
          \/ mem'[s] \in before[s] .. before[s] + 2 * StubRuns
      BY <1>6, <3>1
    <3> QED BY <1>2, <3>2, <3>3
  <2> QED BY <1>1, <1>6, <2>1
<1> QED BY <1>1, <1>7, <1>8, <1>9, <1>10 DEF Counted

\* A launch of the hook's own: it runs once or is recorded; or there is none.
RunsOnce == /\ ~range.capturing /\ range' = range
            /\ \A s \in Known : mem'[s] \in Nat /\ mem'[s] = mem[s] + 1
Records == /\ range.capturing /\ mem' = mem
           /\ range' = [range EXCEPT !.captured = @ + 1]
LaunchesOne == RunsOnce \/ Records
LaunchesNone == mem' = mem /\ range' = range

\* What a launch of the hook's own does.
LEMMA RunsIs ==
    ASSUME TypeOK, KeptOK, NEW m, Runs(m)
    PROVE  LaunchesOne
<1>1. /\ mem \in [Section -> Content] /\ Known \subseteq live /\ live \subseteq Section
      /\ \A s \in Known : mem[s] \in Nat
  BY Numbers
<1>2. CASE range.capturing
  BY <1>2 DEF Runs, Records, LaunchesOne
<1>3. CASE ~range.capturing
  <2>1. mem' = Ran(mem, 1) /\ range' = range
    BY <1>3 DEF Runs
  <2> QED BY <1>1, <1>3, <2>1, RanAdds DEF RunsOnce, LaunchesOne
<1> QED BY <1>2, <1>3

\* A stub that is needed is launched, unless something fails.
LEMMA PostStubIs ==
    ASSUME TypeOK, KeptOK, NEW mode, NEW needed \in BOOLEAN, PostStub(mode, needed)
    PROVE  /\ UNCHANGED <<live, sections, snapshot, lost, before, mc2, lccl, launch, cfg, result>>
           /\ LaunchesOne \/ LaunchesNone
           /\ ~needed => LaunchesNone
           /\ ~MayFail /\ needed => LaunchesOne
<1>1. UNCHANGED <<live, sections, snapshot, lost, before, mc2, lccl, launch, cfg, result>>
  BY DEF PostStub, unchangedLaunch
<1>2. CASE ~needed
  BY <1>1, <1>2 DEF PostStub, LaunchesNone
<1>3. CASE needed
  <2>1. PICK ok \in May : IF ok THEN Runs([func |-> mode, args |-> mode])
                                ELSE UNCHANGED <<ran, mem, range>>
    BY <1>3 DEF PostStub
  <2>2. ~MayFail => ok = TRUE
    BY DEF May, MayFail
  <2>3. Runs([func |-> mode, args |-> mode]) => LaunchesOne
    BY RunsIs
  <2> QED BY <1>1, <1>3, <2>1, <2>2, <2>3 DEF LaunchesNone
<1> QED BY <1>2, <1>3

\* What a hook launches after the rounds.
LEMMA PostIs ==
    ASSUME CallAndPost, TypeOK, KeptOK
    PROVE  /\ UNCHANGED <<live, sections, snapshot, lost, before, mc2, lccl, launch, cfg>>
           /\ LaunchesOne \/ LaunchesNone
           /\ \/ /\ phase = "origin"
                 /\ \/ /\ phase' = "chart" /\ result' = "ok"
                       /\ IF IsNeedRunOriginLaunch THEN LaunchesOne ELSE LaunchesNone
                    \/ /\ phase' \in {"chart", "idle"} /\ result' = "error"
                       /\ IsNeedRunOriginLaunch /\ MayFail /\ LaunchesNone
              \/ /\ phase = "chart" /\ phase' = "record" /\ result' = result
                 /\ ~IsMemoryChartNeedGen => LaunchesNone
                 /\ ~MayFail /\ IsMemoryChartNeedGen => LaunchesOne
              \/ /\ phase = "record" /\ phase' = "idle" /\ result' = result
                 /\ ~IsOperandRecordNeedGen => LaunchesNone
                 /\ ~MayFail /\ IsOperandRecordNeedGen => LaunchesOne
              \/ /\ phase = "bare" /\ phase' = "idle"
                 /\ \/ result' = "ok" /\ LaunchesOne
                    \/ result' = "error" /\ MayFail /\ LaunchesNone
<1>1. ASSUME NEW m, Runs(m) PROVE LaunchesOne
  BY <1>1, RunsIs
<1>2. CASE Origin
  <2>1. UNCHANGED <<live, sections, snapshot, lost, before, mc2, lccl, launch, cfg>> /\ phase = "origin"
    BY <1>2 DEF Origin, unchangedLaunch
  <2>2. CASE IsNeedRunOriginLaunch /\ Runs(Launched) /\ result' = "ok" /\ phase' = "chart"
    BY <1>1, <2>1, <2>2
  <2>3. CASE /\ IsNeedRunOriginLaunch /\ MayFail /\ UNCHANGED <<ran, mem, range>>
             /\ result' = "error" /\ phase' = IF hook.posts THEN "chart" ELSE "idle"
    <3>1. phase' \in {"chart", "idle"}
      BY <2>3
    <3> QED BY <2>1, <2>3, <3>1 DEF LaunchesNone
  <2>4. CASE /\ ~IsNeedRunOriginLaunch /\ result' = "ok" /\ phase' = "chart"
             /\ UNCHANGED <<ran, mem, range>>
    BY <2>1, <2>4 DEF LaunchesNone
  <2> QED BY <1>2, <2>2, <2>3, <2>4 DEF Origin
<1>3. CASE MemoryChart
  <2>1. IsMemoryChartNeedGen \in BOOLEAN
    BY DEF IsMemoryChartNeedGen, TypeOK, ReplayOK, Flag
  <2> QED BY <1>3, <2>1, PostStubIs DEF MemoryChart
<1>4. CASE OperandRecord
  <2>1. IsOperandRecordNeedGen \in BOOLEAN
    BY DEF IsOperandRecordNeedGen, TypeOK, ReplayOK, Flag
  <2> QED BY <1>4, <2>1, PostStubIs DEF OperandRecord
<1>5. CASE Bare
  <2>1. UNCHANGED <<live, sections, snapshot, lost, before, mc2, lccl, launch, cfg>>
    BY <1>5 DEF Bare, unchangedLaunch
  <2> QED BY <1>1, <1>5, <2>1 DEF Bare, LaunchesNone
<1> QED BY <1>2, <1>3, <1>4, <1>5 DEF CallAndPost

\* The hook's own launch and the stubs after it.
LEMMA CountedPost ==
    ASSUME CallAndPost, Repeatable, TypeOK, Course, Counted
    PROVE  Counted'
<1>1. /\ UNCHANGED <<live, sections, snapshot, lost, before, mc2, lccl, launch, cfg>>
      /\ LaunchesOne \/ LaunchesNone
      /\ phase \in {"origin", "chart", "record", "bare"} /\ phase' \in {"chart", "record", "idle"}
      /\ result' \in {"ok", "error", result}
      /\ result' = "error" => result = "error" \/ MayFail
  BY PostIs DEF Counted
<1>2. /\ \A s \in Known : mem[s] \in Nat /\ before[s] \in Nat
      /\ StubRuns \in Nat \ {0} /\ cfg.warm \in Nat /\ Reruns(Rounds, cfg.warm) \in Nat
      /\ range \in [open : BOOLEAN, capturing : BOOLEAN, valid : BOOLEAN, captured : Nat]
  BY Numbers DEF Counted
<1>3. /\ Known' = Known
      /\ \A s \in Known : mem'[s] \in Nat /\ mem'[s] \in {mem[s], mem[s] + 1}
      /\ range' = range \/ (range.capturing /\ range' = [range EXCEPT !.captured = @ + 1])
  BY <1>1, <1>2 DEF LaunchesOne, LaunchesNone, RunsOnce, Records, Known, RoundPhases
<1>4. KeptOK'
  BY <1>1, <1>3 DEF Counted, KeptOK, IsAppReplay, RoundPhases, RangePhases, MayFail
<1>5. RangeCourse'
  <2>1. result' \in {"ok", "error"} /\ (result' = "error" => MayFail)
    BY <1>1 DEF Counted, RangeCourse
  <2>2. /\ range'.open = range.open /\ range'.capturing = range.capturing /\ range'.valid = range.valid
        /\ range'.captured # 0 => range.captured # 0 \/ range.capturing
    BY <1>2, <1>3
  <2>3. phase' # "idle" => phase \in {"origin", "chart"}
    BY PostIs DEF Counted
  <2>4. /\ phase' # "idle" => phase \in Around \ {"bare"} /\ phase' \in Around \ {"bare"}
        /\ phase' \notin RoundPhases \cup RangePhases \cup {"rangeEnds"}
        /\ phase' = "idle" => phase' \notin Around
    BY <1>1, <2>3 DEF Around, Before, After, RoundPhases, RangePhases
  <2> QED BY <1>1, <2>1, <2>2, <2>4 DEF Counted, RangeCourse, MayFail, IsRangeReplay
<1>6. CASE phase' = "idle"
  BY <1>4, <1>5, <1>6, CountedIdle
<1>7. CASE phase' # "idle"
  <2>1. phase \in {"origin", "chart"} /\ phase' = (IF phase = "origin" THEN "chart" ELSE "record")
    BY <1>7, PostIs DEF Counted
  <2>2. AtMost'
    <3>1. \A s \in Known : mem[s] >= before[s] /\ mem[s] <= before[s] + Most
      BY <2>1 DEF Counted, AtMost, Around, After
    <3>2. Most \in Nat /\ Most' \in Nat /\ Most + 1 <= Most'
      BY <1>1, <1>2, <2>1 DEF Most, StubRuns
    <3>3. \A s \in Known : mem[s] \in Nat /\ before[s] \in Nat
      BY <1>2
    <3>4. \A s \in Known : mem'[s] >= before[s] /\ mem'[s] <= before[s] + Most'
      BY <1>3, <3>1, <3>2, <3>3
    <3> QED BY <1>1, <1>3, <2>1, <3>4 DEF AtMost
  <2>3. Recording'
    <3>1. IsRangeReplay /\ range.capturing => mem = before /\ (LaunchesNone \/ Records)
      BY <1>1, <2>1 DEF Counted, Recording, Around, After, LaunchesOne, RunsOnce
    <3>2. range'.capturing => range.capturing
      BY <1>2, <1>3
    <3> QED BY <1>1, <2>1, <3>1, <3>2 DEF Recording, RangePhases, IsRangeReplay, LaunchesNone, Records
  <2>4. AtLeast'
    <3>1. SUFFICES ASSUME MustHaveRun' PROVE \A s \in Known : mem'[s] > before[s]
      BY <1>1, <1>3 DEF AtLeast
    <3>2. \A s \in Known : mem[s] \in Nat /\ before[s] \in Nat /\ mem[s] >= before[s]
      BY <1>2, <2>1 DEF Counted, AtMost, Around, After
    <3>3. MustHaveRun => \A s \in Known : mem[s] > before[s]
      BY DEF Counted, AtLeast
    <3>4. MustHaveRun => \A s \in Known : mem'[s] > before[s]
      BY <1>3, <3>2, <3>3
    <3>5. RunsOnce => \A s \in Known : mem'[s] > before[s]
      BY <3>2 DEF RunsOnce
    <3>6. (IsNeedRunOriginLaunch' <=> IsNeedRunOriginLaunch) /\ (range'.capturing <=> range.capturing)
      BY <1>1, <1>2, <1>3 DEF IsNeedRunOriginLaunch, IsAppReplay, Fused
    <3>7. CASE phase = "origin"
      <4>1. MustHaveRun \/ (IsNeedRunOriginLaunch /\ result' = "ok" /\ ~range.capturing)
        BY <1>1, <2>1, <3>1, <3>6, <3>7 DEF MustHaveRun, After, IsAppReplay, Flag
      <4>2. IsNeedRunOriginLaunch /\ result' = "ok" /\ ~range.capturing => RunsOnce
        BY <3>7, PostIs DEF Counted, LaunchesOne, Records
      <4> QED BY <3>4, <3>5, <4>1, <4>2
    <3>8. CASE phase = "chart"
      <4>0. result' = result
        BY <3>8, PostIs DEF Counted
      <4>1. MustHaveRun \/ (IsAppReplay /\ launch.selected /\ Flag("memchart"))
        BY <1>1, <2>1, <3>1, <3>6, <3>8, <4>0 DEF MustHaveRun, After, IsAppReplay, Flag
      <4>2. ASSUME IsAppReplay, launch.selected, Flag("memchart")
            PROVE  RunsOnce
        <5>1. ~MayFail /\ ~Fused /\ ~IsRangeReplay
          BY <4>2, Repeats DEF Counted
        <5>2. ~range.capturing
          BY <5>1 DEF Course
        <5>3. IsMemoryChartNeedGen
          BY <4>2, <5>1 DEF IsMemoryChartNeedGen
        <5> QED BY <3>8, <5>1, <5>2, <5>3, PostIs DEF Counted, LaunchesOne, Records
      <4> QED BY <3>4, <3>5, <4>1, <4>2
    <3> QED BY <2>1, <3>7, <3>8
  <2>5. ExactlyOnce'
    <3>1. SUFFICES ASSUME Exact, ~range'.capturing
                   PROVE  \A s \in Known \ Shared : mem'[s] = before[s] + (IF Done' THEN 1 ELSE 0)
      BY <1>1, <1>3, <2>1 DEF ExactlyOnce, Exact, RoundPhases
    <3>2. ~range.capturing
      BY <1>2, <1>3, <3>1
    <3>3. \A s \in Known \ Shared : /\ mem[s] \in Nat /\ before[s] \in Nat
                                   /\ mem[s] = before[s] + (IF Done THEN 1 ELSE 0)
      BY <1>2, <2>1, <3>1, <3>2 DEF Counted, ExactlyOnce, Around, After
    <3>4. /\ ~Fused
          /\ cfg.mode = "kernel" => cfg.flags \subseteq {"bbcount"}
          /\ IsAppReplay => cfg.flags \in {{}, {"bbcount"}, {"memchart"}, {"record"}}
          /\ IsRangeReplay => ~Flag("memchart") /\ ~MayFail
          /\ IsAppReplay => ~MayFail
          /\ cfg.mode \in {"kernel", "app", "range"}
      BY <3>1, ExactIs, Repeats DEF Counted
    <3>5. CASE Done' /\ ~Done /\ LaunchesOne
      BY <3>2, <3>3, <3>5 DEF LaunchesOne, RunsOnce, Records
    <3>6. CASE (Done' <=> Done) /\ LaunchesNone
      BY <3>3, <3>6 DEF LaunchesNone
    <3>7. CASE phase = "origin"
      <4>1. phase' = "chart"
        BY <2>1, <3>7
      <4>2. CASE IsNeedRunOriginLaunch
        <5>1. ~(IsAppReplay /\ launch.selected /\ cfg.flags # {"bbcount"})
          BY <4>2 DEF IsNeedRunOriginLaunch
        <5>2. ~Done /\ (Done' <=> result' = "ok")
          BY <1>1, <3>7, <4>1, <5>1 DEF Done, IsAppReplay
        <5> QED BY <3>5, <3>6, <3>7, <4>1, <4>2, <5>2, PostIs DEF Counted
      <4>3. CASE ~IsNeedRunOriginLaunch
        <5>1. IsAppReplay /\ launch.selected /\ cfg.flags # {"bbcount"}
          BY <3>4, <4>3 DEF IsNeedRunOriginLaunch
        <5>2. result' = "ok" /\ LaunchesNone
          BY <3>7, <4>3, PostIs DEF Counted
        <5>3. Done' <=> Done
          BY <1>1, <3>4, <3>7, <4>1, <5>1, <5>2 DEF Done, IsAppReplay
        <5> QED BY <3>6, <5>2, <5>3
      <4> QED BY <4>2, <4>3
    <3>8. CASE phase = "chart"
      <4>1. phase' = "record" /\ result' = result
        BY <2>1, <3>8, PostIs DEF Counted
      <4>2. CASE IsMemoryChartNeedGen
        <5>1. IsAppReplay /\ launch.selected /\ cfg.flags = {"memchart"} /\ ~MayFail
          BY <3>4, <4>2 DEF IsMemoryChartNeedGen, Flag, IsAppReplay, IsRangeReplay
        <5>2. result = "ok"
          BY <5>1 DEF Counted, RangeCourse
        <5>3. ~Done /\ Done'
          BY <1>1, <3>8, <4>1, <5>1, <5>2 DEF Done, IsAppReplay
        <5> QED BY <3>5, <3>8, <4>2, <5>1, <5>3, PostIs DEF Counted
      <4>3. CASE ~IsMemoryChartNeedGen
        <5>1. ~(IsAppReplay /\ launch.selected /\ cfg.flags = {"memchart"})
          BY <3>4, <4>3 DEF IsMemoryChartNeedGen, Flag
        <5>2. Done' <=> Done
          BY <1>1, <3>8, <4>1, <5>1 DEF Done, IsAppReplay
        <5>3. LaunchesNone
          BY <3>8, <4>3, PostIs DEF Counted
        <5> QED BY <3>6, <5>2, <5>3
      <4> QED BY <4>2, <4>3
    <3> QED BY <2>1, <3>7, <3>8
  <2> QED BY <1>4, <1>5, <2>2, <2>3, <2>4, <2>5 DEF Counted
<1> QED BY <1>6, <1>7

-----------------------------------------------------------------------------
(* The ends of ranges.                                                     *)

\* In a range nothing fails, so that every round restores what was saved.
LEMMA RangeRepeats ==
    ASSUME Repeatable, TypeOK, Course, SnapshotsHold, Counted, range.capturing
    PROVE  /\ IsRangeReplay /\ ~MayFail /\ ~signal /\ May = {TRUE}
           /\ lost = {} /\ (phase \notin RoundPhases => Known = live)
           /\ phase \in RangePhases => CanRestore
<1>1. IsRangeReplay /\ ~MayFail /\ ~signal /\ May = {TRUE}
  BY Repeats DEF Counted, Course
<1>2. lost = {} /\ (phase \notin RoundPhases => Known = live)
  BY <1>1 DEF Counted, KeptOK, Known
<1> QED BY <1>1, <1>2 DEF SnapshotsHold

\* In a range nothing of a launch is counted.
LEMMA CountedInRange ==
    ASSUME KeptOK', RangeCourse', Recording', phase' \in RangePhases \cup {"rangeEnds"}
    PROVE  Counted'
BY DEF Counted, AtMost, AtLeast, MustHaveRun, ExactlyOnce, Around, Before, After, RoundPhases, RangePhases

\* What a step of a range leaves of the course of launches.
LEMMA RangeCourseStays ==
    ASSUME RangeCourse, range.capturing, UNCHANGED <<lccl, result, range, cfg>>,
           phase' \in RangePhases \cup {"rangeEnds"}, phase' = "rangeEnds" => ~range.valid
    PROVE  RangeCourse'
BY DEF RangeCourse, RangePhases, RoundPhases, Around, Before, After, MayFail

\* The range begins with what the application left, and with what it warms up.
LEMMA CountedRangeEnd ==
    ASSUME RangeEnd, Repeatable, TypeOK, Course, SnapshotsHold, Counted, cfg' = cfg
    PROVE  Counted'
<1>1. /\ UNCHANGED <<live, sections, lost, launch, lccl, range, result>> /\ before' = mem
      /\ range.capturing /\ phase = "idle"
      /\ \/ /\ range.valid /\ RangeBackup /\ phase' = "rangeRounds" /\ count' = 0
            /\ mem' = Ran(mem, cfg.warm * range.captured)
         \/ ~range.valid /\ phase' = "rangeEnds" /\ UNCHANGED <<mem, snapshot>>
  BY DEF RangeEnd, Idle
<1>2. /\ mem \in [Section -> Content] /\ live \subseteq Section /\ sections \subseteq live
      /\ \A s \in live : mem[s] \in Nat
      /\ cfg.warm \in Nat /\ range.captured \in Nat
  BY <1>1, Numbers, RangeRepeats DEF Counted, RoundPhases
<1>3. RangeCourse'
  BY <1>1, RangeCourseStays DEF Counted, RangePhases
<1>4. /\ \A s \in live : mem'[s] \in Nat /\ mem'[s] >= mem[s]
      /\ phase' = "rangeEnds" => mem' = mem
  <2>1. CASE mem' = Ran(mem, cfg.warm * range.captured) /\ phase' = "rangeRounds"
    <3> DEFINE n == cfg.warm * range.captured
    <3>1. n \in Nat
      BY <1>2
    <3>2. mem' = Ran(mem, n)
      BY <2>1
    <3> HIDE DEF n
    <3>3. \A s \in live : mem'[s] = mem[s] + n
      BY <1>2, <3>1, <3>2, RanAdds
    <3> QED BY <1>2, <2>1, <3>1, <3>3
  <2>2. CASE mem' = mem
    BY <1>2, <2>2
  <2> QED BY <1>1, <2>1, <2>2
<1>5. phase' = "rangeRounds" => \A s \in sections : snapshot'[s] = mem[s]
  <2>1. ~MayFail
    BY <1>1, RangeRepeats
  <2>2. phase' = "rangeRounds" => BackedUp(snapshot')
    BY <1>1, <2>1 DEF RangeBackup
  <2> QED BY <2>2, BackedUpHolds DEF TypeOK
<1>6. KeptOK'
  BY <1>1, <1>2, <1>4, <1>5 DEF Counted, KeptOK, Known, IsAppReplay, RoundPhases, RangePhases, MayFail
<1>7. Recording'
  BY <1>1, <1>4 DEF Recording, Around, Before, After, RangePhases
<1> QED BY <1>1, <1>3, <1>6, <1>7, CountedInRange DEF RangePhases

\* A round begins with what was saved.
LEMMA CountedRangeRound ==
    ASSUME RangeRound, Repeatable, TypeOK, Course, SnapshotsHold, Counted, cfg' = cfg
    PROVE  Counted'
<1>1. /\ UNCHANGED <<live, sections, snapshot, lost, before, launch, lccl, range, result>>
      /\ phase = "rangeRounds" /\ range.capturing
  BY DEF RangeRound, unchangedRound, unchangedLaunch, Counted, RangeCourse, RangePhases
<1>2. CanRestore /\ ~MayFail /\ lost = {} /\ Known = live
  BY <1>1, RangeRepeats DEF RangePhases, RoundPhases
<1>3. phase' = "rangeMeasuring" /\ mem' = Restored
  BY <1>2 DEF RangeRound, RangeRoundStarts, RangeRoundSkipped, StartedInVain, RestoreStopped, CanRestore, AllSaved
<1>4. /\ \A s \in live : mem[s] \in Nat /\ before[s] \in Nat
      /\ live \subseteq Section /\ sections \subseteq live
  BY <1>2, Numbers DEF Counted
<1>5. /\ \A s \in sections : snapshot[s] = before[s]
      /\ \A s \in live : mem[s] >= before[s]
  BY <1>1 DEF Counted, KeptOK, Recording, RangePhases
<1>6. mem' = [s \in Section |-> IF s \in sections THEN snapshot[s] ELSE mem[s]]
  BY <1>3 DEF Restored, RestoredTo
<1>7. /\ \A s \in sections : mem'[s] = before[s]
      /\ \A s \in live : mem'[s] \in Nat /\ mem'[s] >= before[s]
  <2>1. \A s \in live : mem'[s] = IF s \in sections THEN before[s] ELSE mem[s]
    BY <1>4, <1>5, <1>6
  <2> QED BY <1>4, <1>5, <2>1
<1>8. KeptOK'
  BY <1>1, <1>3, <1>7 DEF Counted, KeptOK, Known, IsAppReplay, RoundPhases, RangePhases, MayFail
<1>9. RangeCourse'
  BY <1>1, <1>3, RangeCourseStays DEF Counted, RangePhases
<1>10. Recording'
  BY <1>1, <1>3, <1>7 DEF Recording, Around, Before, After, RangePhases
<1> QED BY <1>3, <1>8, <1>9, <1>10, CountedInRange DEF RangePhases

\* A round runs what was recorded.
LEMMA CountedRangeMeasure ==
    ASSUME RangeMeasure, Repeatable, TypeOK, Course, SnapshotsHold, Counted, cfg' = cfg
    PROVE  Counted'
<1>1. /\ UNCHANGED <<live, sections, snapshot, lost, before, launch, lccl, range, result>>
      /\ phase = "rangeMeasuring" /\ phase' = "rangeRounds" /\ range.capturing
  BY DEF RangeMeasure, unchangedRound, unchangedLaunch, Counted, RangeCourse, RangePhases
<1>2. May = {TRUE} /\ Known = live
  BY <1>1, RangeRepeats DEF RoundPhases
<1>3. mem' = Ran(mem, range.captured)
  BY <1>2 DEF RangeMeasure, RangeRoundRuns
<1>4. /\ mem \in [Section -> Content] /\ \A s \in live : mem[s] \in Nat /\ before[s] \in Nat
      /\ live \subseteq Section /\ sections \subseteq live /\ range.captured \in Nat
  BY <1>2, Numbers DEF Counted
<1>5. \A s \in live : mem'[s] \in Nat /\ mem'[s] = mem[s] + range.captured
  BY <1>3, <1>4, RanAdds
<1>6. /\ \A s \in sections : mem'[s] = before[s] + range.captured
      /\ \A s \in live : mem'[s] >= before[s]
  <2>1. /\ \A s \in sections : mem[s] = before[s]
        /\ \A s \in live : mem[s] >= before[s]
    BY <1>1 DEF Counted, Recording, RangePhases
  <2> QED BY <1>4, <1>5, <2>1
<1>7. KeptOK'
  BY <1>1, <1>5 DEF Counted, KeptOK, Known, IsAppReplay, RoundPhases, RangePhases, MayFail
<1>8. RangeCourse'
  BY <1>1, RangeCourseStays DEF Counted, RangePhases
<1>9. Recording'
  BY <1>1, <1>6 DEF Recording, Around, Before, After, RangePhases
<1> QED BY <1>1, <1>7, <1>8, <1>9, CountedInRange DEF RangePhases

\* The range ends.
LEMMA CountedRangeEnds ==
    ASSUME RangeEnds, TypeOK, Counted, cfg' = cfg
    PROVE  Counted'
<1>1. /\ UNCHANGED <<mem, live, sections, snapshot, lost, before, launch, lccl, result>>
      /\ phase' = "idle" /\ range' = NoRange /\ phase \notin RoundPhases
  BY DEF RoundPhases, RangeEnds, unchangedHook, unchangedLaunch, AfterRange, memoryVars
<1>2. KeptOK'
  BY <1>1 DEF Counted, KeptOK, Known, RoundPhases, RangePhases, IsAppReplay, MayFail
<1>3. RangeCourse'
  BY <1>1 DEF Counted, RangeCourse, RoundPhases, RangePhases, Around, Before, After, MayFail, NoRange
<1> QED BY <1>1, <1>2, <1>3, CountedIdle

-----------------------------------------------------------------------------
(* Every step.                                                             *)

\* Before the first launch nothing is counted.
LEMMA InitCounted == Init => Counted
<1> SUFFICES ASSUME Init PROVE Counted
  OBVIOUS
<1>1. /\ mem = [s \in Section |-> 0] /\ before = mem /\ live = {} /\ sections = {} /\ lost = {}
      /\ phase = "idle" /\ range = NoRange /\ ~lccl /\ result = "ok"
  BY DEF Init, MemoryInit, ReplayInit
<1>2. KeptOK
  <2>1. sections = live \ Shared /\ sections \subseteq live \ Shared
    BY <1>1
  <2> QED BY <1>1, <2>1 DEF KeptOK, Known, RoundPhases, RangePhases
<1>3. RangeCourse
  BY <1>1 DEF RangeCourse, NoRange, Around, Before, After, RoundPhases, RangePhases
<1> QED BY <1>1, <1>2, <1>3 DEF Counted, AtMost, Recording, AtLeast, MustHaveRun, ExactlyOnce, Around, Before,
       After, RoundPhases, RangePhases

\* The executions are counted in every step, under any failure the hypotheses allow.
LEMMA CountedStep ==
    ASSUME Repeatable, Base, Counted, [Next]_vars
    PROVE  Counted'
<1> USE DEF Base
<1>1. cfg' = cfg
  BY CfgStays
<1>2. CASE UNCHANGED vars \/ HandleSigInt
  BY <1>2, CountedSignal DEF HandleSigInt, vars, replayVars
<1>3. ASSUME NEW s \in cfg.sections, Malloc(s) \/ Free(s) PROVE Counted'
  <2>1. s \in Section
    BY SectionsAssumption DEF TypeOK, ReplayOK
  <2> QED BY <1>1, <1>3, <2>1, CountedMemory
<1>4. ASSUME NEW h \in cfg.hooks, NEW kind \in cfg.kinds, NEW simt \in BOOLEAN, NEW selected \in BOOLEAN,
             cfg.all => selected \/ kind = "unknown", InitParam(h, kind, simt, selected)
      PROVE  Counted'
  BY <1>1, <1>4, CountedInit
<1>5. CASE MstxRangeAdd \/ RangeEndsEmpty
  BY <1>1, <1>5, CountedRange
<1>6. CASE Pre
  <2>1. CASE Sampling \/ Timeline
    BY <1>1, <2>1, CountedStub
  <2>2. CASE Initialize \/ Capture \/ NotReplayed \/ BBCount
    BY <1>1, <2>2, CountedQuiet
  <2>3. CASE Replay
    BY <1>1, <2>3, CountedReplay
  <2>4. CASE EvictStarts \/ Round
    BY <1>1, <2>4, CountedStart
  <2>5. CASE EvictRuns \/ Measure
    BY <1>1, <2>5, CountedRun
  <2>6. CASE RoundsEnd
    BY <1>1, <2>6, CountedEnd
  <2> QED BY <1>6, <2>1, <2>2, <2>3, <2>4, <2>5, <2>6 DEF Pre
<1>7. CASE CallAndPost
  BY <1>7, CountedPost
<1>8. CASE RangeEnd
  BY <1>1, <1>8, CountedRangeEnd
<1>9. CASE RangeRound
  BY <1>1, <1>9, CountedRangeRound
<1>10. CASE RangeMeasure
  BY <1>1, <1>10, CountedRangeMeasure
<1>11. CASE RangeEnds
  BY <1>1, <1>11, CountedRangeEnds
<1> QED BY <1>2, <1>3, <1>4, <1>5, <1>6, <1>7, <1>8, <1>9, <1>10, <1>11 DEF Next, RangeReplay

-----------------------------------------------------------------------------
(* The refinement.                                                         *)

\* What the application finds and is told of DeviceMemory.
Finds == IF Idle THEN mem ELSE before
Told == IF Idle THEN result ELSE "none"

\* A step the application does not see.
LEMMA Unseen ==
    ASSUME UNCHANGED <<Finds, live, Busy, cfg, Owed, lost, Told>>
    PROVE  UNCHANGED DM!vars
BY DEF DM!vars, Finds, Told, Exact

\* A launch that has run.
LEMMA Leaves ==
    ASSUME Busy = "launch", Busy' = "no", UNCHANGED <<live, lost, cfg, Owed, before>>, Told' \in {"ok", "error"},
           RunsBound,
           \A s \in live \ lost : \E n \in 0..MaxRuns :
              /\ Finds'[s] = Finds[s] + n
              /\ Told' = "ok" => n > 0
              /\ Exact /\ s \notin Shared => n = IF Told' = "ok" THEN 1 ELSE 0
    PROVE  DM!Next
<1>1. MaxRuns \in Nat
  BY DEF RunsBound
<1>2. ASSUME NEW s \in live \ lost PROVE Finds'[s] \in {Finds[s] + n : n \in DM!Times(s)}
  <2>1. PICK n \in 0..MaxRuns :
              /\ Finds'[s] = Finds[s] + n
              /\ Told' = "ok" => n > 0
              /\ Exact /\ s \notin Shared => n = IF Told' = "ok" THEN 1 ELSE 0
    OBVIOUS
  <2>2. n \in DM!Times(s)
    BY <1>1, <2>1 DEF DM!Times, Told
  <2> QED BY <2>1, <2>2
<1>3. Exact' = Exact
  BY DEF Exact
<1> QED BY <1>2, <1>3 DEF DM!Next, DM!Leave, Finds, Told

\* A launch that is recorded.
LEMMA LeavesRecorded ==
    ASSUME Busy = "launch", Busy' = "no", UNCHANGED <<live, lost, cfg, Finds>>, Told' \in {"ok", "error"},
           Owed' = Owed + 1
    PROVE  DM!Next
<1>1. Exact' = Exact
  BY DEF Exact
<1> QED BY <1>1 DEF DM!Next, DM!Leave, Finds, Told

\* What the application finds is what it left, until a launch returns.
LEMMA UnseenInLaunch ==
    ASSUME Busy = "launch", Busy' = "launch", UNCHANGED <<before, live, lost, cfg, Owed>>
    PROVE  UNCHANGED DM!vars
<1>1. ~Idle /\ ~Idle'
  BY DEF Busy
<1> QED BY <1>1, Unseen DEF Finds, Told

\* Nor does it see that sections are lost, until then.
LEMMA LosesInLaunch ==
    ASSUME Busy = "launch", Busy' = "launch", UNCHANGED <<before, live, cfg, Owed>>,
           lost \subseteq lost', lost' \subseteq lost \cup sections, sections \subseteq live \ Shared
    PROVE  [DM!Next]_DM!vars
<1>1. ~Idle /\ ~Idle'
  BY DEF Busy
<1>2. UNCHANGED <<Finds, live, Busy, cfg, Owed, Told>> /\ Exact' = Exact
  BY <1>1 DEF Finds, Told, Exact
<1>3. lost' \in {lost \cup S : S \in SUBSET (live \ Shared)}
  <2> DEFINE S == lost' \ lost
  <2>1. S \in SUBSET (live \ Shared) /\ lost' = lost \cup S
    OBVIOUS
  <2> QED BY <2>1
<1>4. DM!Lose
  BY <1>2, <1>3 DEF DM!Lose, Finds, Told
<1> QED BY <1>4 DEF DM!Next

\* The phases of a launch.
LEMMA BusyIs ==
    ASSUME TypeOK
    PROVE  /\ Idle <=> Busy = "no"
           /\ phase \in Around \cup RoundPhases => Busy = "launch"
           /\ phase \in RangePhases \cup {"rangeEnds"} => Busy = "range"
           /\ phase \in {"idle"} \cup Around \cup RoundPhases \cup RangePhases \cup {"rangeEnds"}
           /\ phase \notin {"chart", "record"} => Owed = range.captured
<1>1. range.captured \in Nat
  BY DEF TypeOK, ReplayOK
<1> QED BY <1>1 DEF Busy, Idle, Around, Before, After, RoundPhases, RangePhases, Owed, TypeOK, ReplayOK, Phases

\* Allocations are the application's own.
LEMMA MemoryRefines ==
    ASSUME NEW s \in Section, Malloc(s) \/ Free(s), cfg' = cfg
    PROVE  DM!Next
<1>1. /\ phase = "idle" /\ phase' = "idle" /\ UNCHANGED <<range, result>>
      /\ mem' = [mem EXCEPT ![s] = 0] /\ lost' = lost \ {s}
      /\ \/ s \notin live /\ live' = live \cup {s}
         \/ s \in live /\ live' = live \ {s}
  BY DEF Malloc, Free, AppendSection, Discard, Idle, replayVars
<1>2. Busy = "no" /\ Busy' = "no" /\ Exact' = Exact /\ Owed' = Owed /\ Idle /\ Idle'
  BY <1>1 DEF Busy, Idle, Exact, Owed
<1>3. DM!Alloc(s) \/ DM!Free(s)
  BY <1>1, <1>2 DEF DM!Alloc, DM!Free
<1> QED BY <1>3 DEF DM!Next

\* A launch begins.
LEMMA InitRefines ==
    ASSUME NEW h, NEW kind, NEW simt, NEW selected, InitParam(h, kind, simt, selected), cfg' = cfg
    PROVE  DM!Next
<1>1. /\ phase = "idle" /\ phase' \in {"bare", "sampling"} /\ UNCHANGED <<mem, live, lost, range>> /\ before' = mem
  BY DEF InitParam, Idle, memoryVars
<1>2. Busy = "no" /\ Busy' = "launch" /\ Exact' = Exact /\ Owed' = Owed /\ Idle /\ ~Idle'
  BY <1>1 DEF Busy, Idle, Exact, Owed
<1>3. Exact \in BOOLEAN
  BY DEF Exact
<1>4. DM!Enter("launch")
  BY <1>1, <1>2, <1>3 DEF DM!Enter
<1> QED BY <1>4 DEF DM!Next

\* A range begins to be replayed.
LEMMA RangeEndRefines ==
    ASSUME RangeEnd, cfg' = cfg
    PROVE  DM!Next
<1>1. /\ phase = "idle" /\ phase' \in {"rangeRounds", "rangeEnds"} /\ UNCHANGED <<live, lost, range>> /\ before' = mem
  BY DEF RangeEnd, Idle
<1>2. Busy = "no" /\ Busy' = "range" /\ Exact' = Exact /\ Owed' = Owed /\ Idle /\ ~Idle'
  BY <1>1 DEF Busy, Idle, Exact, Owed
<1>3. Exact \in BOOLEAN
  BY DEF Exact
<1>4. DM!Enter("range")
  BY <1>1, <1>2, <1>3 DEF DM!Enter
<1> QED BY <1>4 DEF DM!Next

\* What goes on between launches, and an interrupt, is not seen.
LEMMA QuietRefines ==
    ASSUME HandleSigInt \/ MstxRangeAdd \/ RangeEndsEmpty \/ UNCHANGED vars, TypeOK, Counted, cfg' = cfg
    PROVE  UNCHANGED DM!vars
<1>1. UNCHANGED <<mem, live, lost, before, phase, result>>
  BY DEF HandleSigInt, MstxRangeAdd, RangeEndsEmpty, vars, memoryVars
<1>2. \/ range' = range
      \/ MstxRangeAdd /\ range' = [range EXCEPT !.open = TRUE]
      \/ RangeEndsEmpty /\ ~range.capturing /\ range' = NoRange
  BY DEF HandleSigInt, MstxRangeAdd, RangeEndsEmpty, vars, replayVars, AfterRange
<1>3. range'.capturing = range.capturing /\ range'.captured = range.captured
  <2>1. range \in [open : BOOLEAN, capturing : BOOLEAN, valid : BOOLEAN, captured : Nat]
    BY DEF TypeOK, ReplayOK
  <2>2. ~range.capturing => range.captured = 0
    BY DEF Counted, RangeCourse
  <2>3. CASE range' = [range EXCEPT !.open = TRUE]
    BY <2>1, <2>3
  <2>4. CASE ~range.capturing /\ range' = NoRange
    <3>1. range.capturing = FALSE
      BY <2>1, <2>4
    <3>2. range'.capturing = FALSE /\ range'.captured = 0
      BY <2>4 DEF NoRange
    <3> QED BY <2>2, <2>4, <3>1, <3>2
  <2> QED BY <1>2, <2>3, <2>4
<1> QED BY <1>1, <1>3, Unseen DEF Finds, Told, Idle, Busy, Owed

\* Nor is what a launch does before the hook's own, or a round, but for what it loses.
LEMMA PreRefines ==
    ASSUME Pre \/ RangeRound \/ RangeMeasure, Repeatable, TypeOK, TypeOK', Course, Counted, cfg' = cfg
    PROVE  [DM!Next]_DM!vars
<1>1. CASE Pre
  <2>1. /\ UNCHANGED <<before, live>>
        /\ phase \in Around \cup RoundPhases /\ phase' \in Around \cup RoundPhases
        /\ phase \notin {"chart", "record"} /\ phase' \notin {"chart", "record"}
    BY <1>1 DEF Pre, Sampling, Timeline, Initialize, Capture, NotReplayed, Replay, EvictStarts, EvictRuns, Round,
                Measure, RoundsEnd, BBCount, EvictEnds, NextRound, unchangedLaunch, unchangedRound, memoryVars,
                Around, Before, After, RoundPhases
  <2>2. range'.captured = range.captured
    <3>1. CASE Capture
      <4>1. range \in [open : BOOLEAN, capturing : BOOLEAN, valid : BOOLEAN, captured : Nat]
        BY DEF TypeOK, ReplayOK
      <4>2. PICK captured \in BOOLEAN : RangeReplayProfData(captured)
        BY <3>1 DEF Capture
      <4> QED BY <4>1, <4>2 DEF RangeReplayProfData
    <3>2. CASE ~Capture
      BY <1>1, <3>2 DEF Pre, Sampling, Timeline, Initialize, NotReplayed, Replay, EvictStarts, EvictRuns, Round,
                        Measure, RoundsEnd, BBCount, unchangedRound, replayVars
    <3> QED BY <3>1, <3>2
  <2>3. Busy = "launch" /\ Busy' = "launch" /\ Owed' = Owed
    BY <2>1, <2>2, BusyIs DEF Busy, Around, Before, After, RoundPhases, Idle, Owed
  <2>4. /\ lost \subseteq lost' /\ lost' \subseteq lost \cup sections
        /\ sections \subseteq live \ Shared
    <3>1. sections \subseteq live \ Shared
      BY DEF Counted, KeptOK
    <3>2. CASE Sampling \/ Timeline
      <4>1. lost' = lost \/ InstrProfData
        BY <3>2 DEF Sampling, Timeline, RunsStub
      <4>2. phase \notin RoundPhases
        BY <3>2 DEF Sampling, Timeline, RoundPhases
      <4> QED BY <3>1, <4>1, <4>2, StubAdds DEF Counted
    <3>3. CASE RoundsEnd
      <4>1. lost' = lost \/ PutBack(snapshot, mem, MayFail)
        BY <3>3 DEF RoundsEnd, Settled
      <4>2. MemoryOK /\ snapshot \in [Section -> Snapshot] /\ mem \in [Section -> Content]
        BY DEF TypeOK, MemoryOK
      <4> QED BY <3>1, <4>1, <4>2, PutBackType
    <3>4. CASE ~(Sampling \/ Timeline \/ RoundsEnd)
      <4>1. lost' = lost
        BY <1>1, <3>4 DEF Pre, Initialize, Capture, NotReplayed, Replay, EvictStarts, EvictRuns, Round, Measure,
                          BBCount, unchangedRound, memoryVars
      <4> QED BY <3>1, <4>1
    <3> QED BY <3>2, <3>3, <3>4
  <2> QED BY <2>1, <2>3, <2>4, LosesInLaunch
<1>2. CASE RangeRound \/ RangeMeasure
  <2>1. /\ UNCHANGED <<before, live, lost, range>> /\ phase \in RangePhases /\ phase' \in RangePhases
    BY <1>2 DEF RangeRound, RangeMeasure, unchangedRound, unchangedLaunch, RangePhases
  <2>2. Busy = "range" /\ Busy' = "range" /\ Owed' = Owed /\ ~Idle /\ ~Idle'
    BY <2>1 DEF Busy, RangePhases, Idle, Owed
  <2> QED BY <2>1, <2>2, Unseen DEF Finds, Told
<1> QED BY <1>1, <1>2

\* A launch returns.
LEMMA BareRefines ==
    ASSUME Bare, Repeatable, RunsBound, TypeOK, Course, Counted, cfg' = cfg
    PROVE  DM!Next
<1>1. /\ phase = "bare" /\ phase' = "idle" /\ UNCHANGED <<live, lost, before>> /\ result' \in {"ok", "error"}
      /\ \/ result' = "ok" /\ LaunchesOne
         \/ result' = "error" /\ MayFail /\ LaunchesNone
  BY PostIs DEF Bare, unchangedLaunch, CallAndPost, Counted
<1>2. /\ \A s \in live \ lost : mem[s] \in Nat /\ before[s] \in Nat
      /\ Known = live \ lost
      /\ StubRuns \in Nat /\ cfg.warm \in Nat /\ Reruns(Rounds, cfg.warm) \in Nat /\ cfg \in Configs
      /\ range \in [open : BOOLEAN, capturing : BOOLEAN, valid : BOOLEAN, captured : Nat]
  BY <1>1, Numbers DEF Counted, RoundPhases
<1>3. MaxRuns \in Nat /\ MaxRuns >= 1
  BY <1>2 DEF RunsBound
<1>4. \A s \in live \ lost : mem[s] = before[s]
  <2>1. Most = 0
    BY <1>1 DEF Most
  <2>2. \A s \in live \ lost : mem[s] >= before[s] /\ mem[s] <= before[s] + 0
    BY <1>1, <1>2, <2>1 DEF Counted, AtMost, Around
  <2>3. \A s \in live \ lost : mem[s] \in Nat /\ before[s] \in Nat
    BY <1>2
  <2> QED BY <2>2, <2>3
<1>5. Busy = "launch" /\ Busy' = "no" /\ ~Idle /\ Idle' /\ Told' = result' /\ Finds = before /\ Finds' = mem'
  BY <1>1 DEF Busy, Idle, Told, Finds
<1>6. CASE Records
  <2>1. mem' = mem /\ mem = before
    <3>1. IsRangeReplay
      BY <1>6 DEF Records, Course
    <3> QED BY <1>1, <1>6, <3>1 DEF Records, Counted, Recording, Around
  <2>2. Owed' = Owed + 1
    BY <1>1, <1>2, <1>6 DEF Owed, Records
  <2> QED BY <1>1, <1>5, <2>1, <2>2, LeavesRecorded
<1>7. CASE ~Records
  <2>1. \/ RunsOnce /\ result' = "ok"
        \/ LaunchesNone /\ result' = "error"
    BY <1>1, <1>7 DEF LaunchesOne
  <2>2. Owed' = Owed
    BY <1>1, <2>1 DEF Owed, RunsOnce, LaunchesNone
  <2>3. \A s \in live \ lost : /\ mem'[s] = before[s] + IF result' = "ok" THEN 1 ELSE 0
    BY <1>2, <1>4, <2>1 DEF RunsOnce, LaunchesNone
  <2> DEFINE n == IF result' = "ok" THEN 1 ELSE 0
  <2>4. n \in 0..MaxRuns /\ (result' = "ok" => n > 0)
    BY <1>3
  <2> QED BY <1>1, <1>5, <2>2, <2>3, <2>4, Leaves
<1> QED BY <1>6, <1>7

\* The hook's own launch fails, and nothing follows it.
LEMMA OriginRefines ==
    ASSUME Origin, Repeatable, RunsBound, TypeOK, Course, Counted, cfg' = cfg
    PROVE  [DM!Next]_DM!vars
<1>1. /\ phase = "origin" /\ UNCHANGED <<live, lost, before>>
      /\ \/ /\ phase' = "chart" /\ result' = "ok"
            /\ IF IsNeedRunOriginLaunch THEN LaunchesOne ELSE LaunchesNone
         \/ /\ phase' \in {"chart", "idle"} /\ result' = "error"
            /\ IsNeedRunOriginLaunch /\ MayFail /\ LaunchesNone
  BY PostIs DEF Origin, unchangedLaunch, CallAndPost, Counted
<1>2. /\ \A s \in live \ lost : mem[s] \in Nat /\ before[s] \in Nat
      /\ Known = live \ lost
      /\ StubRuns \in Nat /\ cfg.warm \in Nat /\ Reruns(Rounds, cfg.warm) \in Nat /\ cfg \in Configs
      /\ range \in [open : BOOLEAN, capturing : BOOLEAN, valid : BOOLEAN, captured : Nat]
  BY <1>1, Numbers DEF Counted, RoundPhases
<1>3. IsAppReplay \/ IsRangeReplay => ~MayFail
  BY Repeats DEF Counted
<1>4. range.capturing => IsRangeReplay /\ IsNeedRunOriginLaunch
  <2>1. SUFFICES ASSUME range.capturing PROVE IsRangeReplay /\ IsNeedRunOriginLaunch
    OBVIOUS
  <2>2. IsRangeReplay
    BY <2>1 DEF Course
  <2>3. ~Fused /\ ~IsAppReplay
    BY <2>2, Repeats DEF Counted
  <2> QED BY <2>2, <2>3 DEF IsNeedRunOriginLaunch
<1>5. CASE phase' = "chart"
  <2>1. Busy = "launch" /\ Busy' = "launch"
    BY <1>1, <1>5 DEF Busy, Idle
  <2>2. Owed' = Owed
    <3>1. CASE range.capturing
      <4>1. Records
        BY <1>1, <1>3, <1>4, <3>1 DEF LaunchesOne, RunsOnce
      <4>2. range'.captured = range.captured + 1 /\ range'.capturing
        BY <1>2, <4>1 DEF Records
      <4> QED BY <1>1, <1>2, <1>5, <4>2 DEF Owed
    <3>2. CASE ~range.capturing
      <4>1. range' = range
        BY <1>1, <3>2 DEF LaunchesOne, LaunchesNone, RunsOnce, Records
      <4> QED BY <3>2, <4>1 DEF Owed
    <3> QED BY <3>1, <3>2
  <2> QED BY <1>1, <2>1, <2>2, UnseenInLaunch
<1>6. CASE phase' = "idle"
  <2>1. result' = "error" /\ MayFail /\ LaunchesNone
    BY <1>1, <1>6
  <2>2. Busy = "launch" /\ Busy' = "no" /\ ~Idle /\ Idle' /\ Told' = result' /\ Finds = before /\ Finds' = mem
    BY <1>1, <1>6, <2>1 DEF Busy, Idle, Told, Finds, LaunchesNone
  <2>3. Owed' = Owed
    BY <1>1, <1>6, <2>1 DEF Owed, LaunchesNone
  <2>4. \A s \in live \ lost : mem[s] >= before[s] /\ mem[s] <= before[s] + MaxRuns
    <3>1. Most \in Nat /\ MaxRuns \in Nat /\ Most <= MaxRuns
      BY <1>1, <1>2 DEF Most, RunsBound
    <3>2. \A s \in live \ lost : mem[s] >= before[s] /\ mem[s] <= before[s] + Most
      BY <1>1, <1>2 DEF Counted, AtMost, Around, After
    <3>3. \A s \in live \ lost : mem[s] \in Nat /\ before[s] \in Nat
      BY <1>2
    <3> QED BY <3>1, <3>2, <3>3
  <2>5. Exact => \A s \in (live \ lost) \ Shared : mem[s] = before[s]
    <3>1. ~IsAppReplay /\ ~range.capturing
      BY <1>3, <1>4, <2>1
    <3>2. ~Done
      BY <1>1, <3>1 DEF Done
    <3>3. \A s \in live \ lost : mem[s] \in Nat /\ before[s] \in Nat
      BY <1>2
    <3> QED BY <1>1, <1>2, <3>1, <3>2, <3>3 DEF Counted, ExactlyOnce, Around, After
  <2>6. \A s \in live \ lost : \E n \in 0..MaxRuns :
           mem[s] = before[s] + n /\ (Exact /\ s \notin Shared => n = 0)
    <3>1. TAKE s \in live \ lost
    <3>2. mem[s] \in Nat /\ before[s] \in Nat /\ MaxRuns \in Nat
      BY <1>2, <3>1 DEF RunsBound
    <3>3. mem[s] - before[s] \in 0..MaxRuns
      BY <2>4, <3>2
    <3>4. mem[s] = before[s] + (mem[s] - before[s])
      BY <3>2
    <3>5. Exact /\ s \notin Shared => mem[s] - before[s] = 0
      BY <2>5, <3>2
    <3> WITNESS mem[s] - before[s] \in 0..MaxRuns
    <3> QED BY <3>4, <3>5
  <2> QED BY <1>1, <2>1, <2>2, <2>3, <2>6, Leaves
<1> QED BY <1>1, <1>5, <1>6

\* In a range nothing is recorded after the hook's own launch.
LEMMA ChartRefines ==
    ASSUME MemoryChart, Repeatable, TypeOK, Course, Counted, cfg' = cfg
    PROVE  UNCHANGED DM!vars
<1>1. /\ phase = "chart" /\ phase' = "record" /\ UNCHANGED <<live, lost, before>>
      /\ LaunchesOne \/ LaunchesNone
      /\ ~IsMemoryChartNeedGen => LaunchesNone
  BY PostIs DEF MemoryChart, PostStub, unchangedLaunch, CallAndPost, Counted
<1>2. range.capturing => LaunchesNone
  <2>1. range.capturing => ~Flag("memchart")
    BY Repeats DEF Course, Counted
  <2> QED BY <1>1, <2>1 DEF IsMemoryChartNeedGen
<1>3. range' = range
  BY <1>1, <1>2 DEF LaunchesOne, LaunchesNone, RunsOnce, Records
<1>4. Busy = "launch" /\ Busy' = "launch" /\ Owed' = Owed
  BY <1>1, <1>3 DEF Busy, Idle, Owed
<1> QED BY <1>1, <1>4, UnseenInLaunch

\* A launch returns after its last stub, if it has one.
LEMMA RecordRefines ==
    ASSUME OperandRecord, Repeatable, RunsBound, TypeOK, Course, Counted, cfg' = cfg
    PROVE  DM!Next
<1>1. /\ phase = "record" /\ phase' = "idle" /\ UNCHANGED <<live, lost, before, result>>
      /\ LaunchesOne \/ LaunchesNone
      /\ ~IsOperandRecordNeedGen => LaunchesNone
      /\ ~MayFail /\ IsOperandRecordNeedGen => LaunchesOne
  BY PostIs DEF OperandRecord, PostStub, unchangedLaunch, CallAndPost, Counted
<1>2. /\ \A s \in live \ lost : mem[s] \in Nat /\ before[s] \in Nat
      /\ Known = live \ lost
      /\ StubRuns \in Nat /\ cfg.warm \in Nat /\ Reruns(Rounds, cfg.warm) \in Nat /\ cfg \in Configs
      /\ range \in [open : BOOLEAN, capturing : BOOLEAN, valid : BOOLEAN, captured : Nat]
  BY <1>1, Numbers DEF Counted, RoundPhases
<1>3. /\ Fused => cfg.mode = "kernel" /\ cfg.all /\ ~MayFail
      /\ IsAppReplay => ~MayFail /\ ~Fused /\ ~IsRangeReplay
      /\ IsAppReplay => \/ cfg.flags \subseteq {"bbcount"}
                        \/ Flag("timeline") \/ Flag("memchart") \/ Flag("record")
      /\ ~MayFail => result = "ok"
  BY Repeats DEF Counted
<1>4. /\ Busy = "launch" /\ Busy' = "no" /\ ~Idle /\ Idle' /\ Told' = result /\ Finds = before /\ Finds' = mem'
      /\ result \in {"ok", "error"}
  BY <1>1 DEF Busy, Idle, Told, Finds, Counted, RangeCourse
<1>5. CASE range.capturing
  <2>1. IsRangeReplay
    BY <1>5 DEF Course
  <2>2. LaunchesNone
    BY <1>1, <2>1 DEF IsOperandRecordNeedGen
  <2>3. mem' = mem /\ mem = before /\ range' = range
    BY <1>1, <1>5, <2>1, <2>2 DEF LaunchesNone, Counted, Recording, Around, After
  <2>4. Owed' = Owed + 1
    <3>1. Owed = range.captured - 1 /\ Owed' = range.captured - 0
      BY <1>1, <1>5, <2>3 DEF Owed
    <3> QED BY <1>2, <3>1
  <2> QED BY <1>1, <1>4, <2>3, <2>4, LeavesRecorded
<1>6. CASE ~range.capturing
  <2>1. RunsOnce \/ LaunchesNone
    BY <1>1, <1>6 DEF LaunchesOne, Records
  <2>2. Owed' = Owed
    BY <1>1, <1>6, <2>1 DEF Owed, RunsOnce, LaunchesNone
  <2>3. \A s \in live \ lost : /\ mem[s] \in Nat /\ before[s] \in Nat /\ mem'[s] \in Nat
                        /\ mem[s] >= before[s] /\ mem'[s] \in {mem[s], mem[s] + 1}
    BY <1>1, <1>2, <2>1 DEF RunsOnce, LaunchesNone, Counted, AtMost, Around, After
  <2>4. \A s \in live \ lost : mem'[s] <= before[s] + MaxRuns
    <3>1. Most \in Nat /\ MaxRuns \in Nat /\ Most + 1 <= MaxRuns
      BY <1>1, <1>2 DEF Most, RunsBound
    <3>2. \A s \in live \ lost : mem[s] <= before[s] + Most
      BY <1>1, <1>2 DEF Counted, AtMost, Around, After
    <3> QED BY <2>3, <3>1, <3>2
  <2>5. result = "ok" => \A s \in live \ lost : mem'[s] > before[s]
    <3>1. SUFFICES ASSUME result = "ok" PROVE \A s \in live \ lost : mem'[s] > before[s]
      OBVIOUS
    <3>2. MustHaveRun => \A s \in live \ lost : mem'[s] > before[s]
      BY <1>2, <2>3 DEF Counted, AtLeast
    <3>3. RunsOnce => \A s \in live \ lost : mem'[s] > before[s]
      BY <1>2, <2>3 DEF RunsOnce
    <3>4. CASE IsNeedRunOriginLaunch \/ Fused
      <4>1. MustHaveRun
        BY <1>1, <1>6, <3>1, <3>4 DEF MustHaveRun, After, Fused
      <4> QED BY <3>2, <4>1
    <3>5. CASE ~IsNeedRunOriginLaunch /\ ~Fused
      <4>1. IsAppReplay /\ launch.selected /\ cfg.flags # {"bbcount"}
        BY <3>5 DEF IsNeedRunOriginLaunch
      <4>2. CASE Flag("record")
        <5>1. IsOperandRecordNeedGen
          BY <1>3, <3>5, <4>1, <4>2 DEF IsOperandRecordNeedGen
        <5> QED BY <1>1, <1>3, <1>6, <3>3, <4>1, <5>1 DEF LaunchesOne, Records
      <4>3. CASE ~Flag("record")
        <5>1. cfg.flags = {} \/ Flag("timeline") \/ Flag("memchart")
          BY <1>3, <4>1, <4>3
        <5>2. MustHaveRun
          BY <1>1, <4>1, <5>1 DEF MustHaveRun, After
        <5> QED BY <3>2, <5>2
      <4> QED BY <4>2, <4>3
    <3> QED BY <3>4, <3>5
  <2>6. Exact => \A s \in (live \ lost) \ Shared : mem'[s] = before[s] + IF result = "ok" THEN 1 ELSE 0
    <3>1. SUFFICES ASSUME Exact PROVE \A s \in (live \ lost) \ Shared : mem'[s] = before[s] + IF result = "ok" THEN 1 ELSE 0
      OBVIOUS
    <3>2. \A s \in (live \ lost) \ Shared : mem[s] = before[s] + (IF Done THEN 1 ELSE 0)
      BY <1>1, <1>2, <1>6, <3>1 DEF Counted, ExactlyOnce, Around, After
    <3>3. /\ ~Fused
          /\ cfg.mode = "kernel" => cfg.flags \subseteq {"bbcount"}
          /\ IsAppReplay => cfg.flags \in {{}, {"bbcount"}, {"memchart"}, {"record"}}
          /\ cfg.mode \in {"kernel", "app", "range"}
      BY <3>1, ExactIs DEF Counted
    <3>4. CASE IsOperandRecordNeedGen
      <4>1. IsAppReplay /\ launch.selected /\ cfg.flags = {"record"}
        BY <3>3, <3>4 DEF IsOperandRecordNeedGen, Flag, IsAppReplay, IsRangeReplay
      <4>2. ~Done /\ result = "ok" /\ RunsOnce
        BY <1>1, <1>3, <1>6, <3>4, <4>1 DEF Done, LaunchesOne, Records
      <4> QED BY <1>2, <2>3, <3>2, <4>2 DEF RunsOnce
    <3>5. CASE ~IsOperandRecordNeedGen
      <4>1. ~(IsAppReplay /\ launch.selected /\ cfg.flags = {"record"})
        BY <1>3, <3>3, <3>5 DEF IsOperandRecordNeedGen, Flag
      <4>2. (Done <=> result = "ok") /\ LaunchesNone
        BY <1>1, <3>5, <4>1 DEF Done
      <4> QED BY <3>2, <4>2 DEF LaunchesNone
    <3> QED BY <3>4, <3>5
  <2>7. \A s \in live \ lost : \E n \in 0..MaxRuns :
           /\ mem'[s] = before[s] + n
           /\ result = "ok" => n > 0
           /\ Exact /\ s \notin Shared => n = IF result = "ok" THEN 1 ELSE 0
    <3>1. TAKE s \in live \ lost
    <3>2. /\ mem'[s] \in Nat /\ before[s] \in Nat /\ MaxRuns \in Nat
          /\ mem'[s] >= before[s] /\ mem'[s] <= before[s] + MaxRuns
      BY <2>3, <2>4, <3>1 DEF RunsBound
    <3>3. mem'[s] - before[s] \in 0..MaxRuns /\ mem'[s] = before[s] + (mem'[s] - before[s])
      BY <3>2
    <3>4. result = "ok" => mem'[s] - before[s] > 0
      BY <2>5, <3>2
    <3>5. Exact /\ s \notin Shared => mem'[s] - before[s] = IF result = "ok" THEN 1 ELSE 0
      BY <2>6, <3>2
    <3> QED BY <3>3, <3>4, <3>5
  <2> QED BY <1>1, <1>4, <2>2, <2>7, Leaves
<1> QED BY <1>5, <1>6

\* The kernels of a range have run when it has ended.
LEMMA RangeEndsRefines ==
    ASSUME RangeEnds, Repeatable, TypeOK, Course, SnapshotsHold, Counted, cfg' = cfg
    PROVE  DM!Next
<1>1. /\ phase' = "idle" /\ UNCHANGED <<mem, live, sections, lost, before, result>> /\ range' = NoRange
      /\ phase = "rangeEnds" \/ (phase = "rangeRounds" /\ ~RangeRounds)
  BY DEF RangeEnds, unchangedHook, unchangedLaunch, AfterRange, memoryVars
<1>2. range.capturing /\ IsRangeReplay /\ ~signal /\ lost = {} /\ Known = live
  <2>1. range.capturing
    BY <1>1 DEF Counted, RangeCourse, RangePhases
  <2>2. phase \notin RoundPhases
    BY <1>1 DEF RoundPhases
  <2> QED BY <2>1, <2>2, RangeRepeats
<1>3. Busy = "range" /\ Busy' = "no" /\ ~Idle /\ Idle' /\ Told' = result /\ Finds = before /\ Finds' = mem
      /\ result \in {"ok", "error"} /\ Owed = range.captured /\ Owed' = 0 /\ Exact' = Exact
  <2>1. range \in [open : BOOLEAN, capturing : BOOLEAN, valid : BOOLEAN, captured : Nat]
    BY DEF TypeOK, ReplayOK
  <2> QED BY <1>1, <2>1 DEF Busy, Idle, Told, Finds, Owed, Exact, NoRange, Counted, RangeCourse
<1>4. \A s \in live : mem[s] >= before[s]
  <2>1. mem = before => \A s \in live : mem[s] \in Nat
    BY <1>2, Numbers DEF Counted
  <2>2. mem = before => \A s \in live : mem[s] >= before[s]
    BY <2>1
  <2> QED BY <1>1, <2>2 DEF Counted, Recording, RangePhases
<1>5. Exact => \A s \in live \ Shared : mem[s] = before[s] + range.captured
  <2>1. SUFFICES ASSUME Exact PROVE \A s \in live \ Shared : mem[s] = before[s] + range.captured
    OBVIOUS
  <2>2. cfg.all /\ "lccl" \notin cfg.kinds
    BY <1>2, <2>1, ExactIs DEF Counted
  <2>3. phase = "rangeRounds" /\ ~RangeRounds
    BY <1>1, <2>2 DEF Counted, RangeCourse
  <2>4. count # 0
    <3>1. Rounds \in Nat \ {0}
      BY RoundsAssumption
    <3>2. ~(count < Rounds) \/ count # 0
      BY <1>2, <2>3 DEF RangeRounds
    <3> QED BY <3>1, <3>2
  <2>5. sections = live \ Shared
    <3>1. ~IsAppReplay
      BY <1>2 DEF IsAppReplay, IsRangeReplay
    <3> QED BY <2>2, <3>1 DEF Counted, KeptOK
  <2> QED BY <2>3, <2>4, <2>5 DEF Counted, Recording
<1> QED BY <1>1, <1>2, <1>3, <1>4, <1>5 DEF DM!Next, DM!Leave, Finds, Told

\* Every step of a launch is one of the device memory's, or is not seen.
LEMMA StepRefines ==
    ASSUME Repeatable, RunsBound, Base, Base', Counted, [Next]_vars
    PROVE  [DM!Next]_DM!vars
<1> USE DEF Base
<1>1. cfg' = cfg
  BY CfgStays
<1>2. CASE HandleSigInt \/ MstxRangeAdd \/ RangeEndsEmpty \/ UNCHANGED vars
  BY <1>1, <1>2, QuietRefines
<1>3. ASSUME NEW s \in cfg.sections, Malloc(s) \/ Free(s) PROVE DM!Next
  <2>1. s \in Section
    BY SectionsAssumption DEF TypeOK, ReplayOK
  <2> QED BY <1>1, <1>3, <2>1, MemoryRefines
<1>4. ASSUME NEW h \in cfg.hooks, NEW kind \in cfg.kinds, NEW simt \in BOOLEAN, NEW selected \in BOOLEAN,
             InitParam(h, kind, simt, selected)
      PROVE  DM!Next
  BY <1>1, <1>4, InitRefines
<1>5. CASE Pre \/ RangeRound \/ RangeMeasure
  BY <1>1, <1>5, PreRefines
<1>6. CASE CallAndPost
  BY <1>1, <1>6, BareRefines, OriginRefines, ChartRefines, RecordRefines DEF CallAndPost
<1>7. CASE RangeEnd
  BY <1>1, <1>7, RangeEndRefines
<1>8. CASE RangeEnds
  BY <1>1, <1>8, RangeEndsRefines
<1> QED BY <1>2, <1>3, <1>4, <1>5, <1>6, <1>7, <1>8 DEF Next, RangeReplay

\* However often the profiler runs a kernel and whatever fails, a launch that succeeds
\* has run, exactly once where it promises so, and not at all if it then reports an
\* error; the kernels of a range run once each after its end (ProfDataCollect.cpp, the
\* hooks' Post).  Nothing is said of the sections that the last Restore of a launch
\* left as they were (ProfDataCollect.cpp:1071, 1108), and all of it of the others.
THEOREM OneExecutionOnly ==
    ASSUME Repeatable, RunsBound
    PROVE  Spec => OneExecution
<1>1. Init => DM!Init
  <2> SUFFICES ASSUME Init PROVE DM!Init
    OBVIOUS
  <2>1. /\ mem = [s \in Section |-> 0] /\ live = {} /\ lost = {}
        /\ phase = "idle" /\ range = NoRange /\ result = "ok"
    BY DEF Init, MemoryInit, ReplayInit
  <2>2. Busy = "no" /\ Idle /\ Exact \in BOOLEAN /\ Owed = 0
    BY <2>1 DEF Busy, Idle, Exact, Owed, NoRange
  <2> QED BY <2>1, <2>2 DEF DM!Init
<1>2. Init => Counted
  BY InitCounted
<1>3. Base /\ Counted /\ [Next]_vars => Counted'
  BY CountedStep
<1>4. Base /\ Base' /\ Counted /\ [Next]_vars => [DM!Next]_DM!vars
  BY StepRefines
<1> QED BY <1>1, <1>2, <1>3, <1>4, Inductive, PTL DEF Spec, OneExecution, DM!Spec
=============================================================================
