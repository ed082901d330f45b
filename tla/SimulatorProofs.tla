-------------------------- MODULE SimulatorProofs --------------------------
(***************************************************************************)
(* Proofs about Devices and Interact, as Simulator runs them, and then     *)
(* about its launches, for any threads, devices, kinds of requests and     *)
(* bounds.  For the exchanges every step is one of Interact or leaves its  *)
(* variables alone (EveryStep), so that the actions of the launches matter *)
(* only for the requests they make.                                        *)
(*                                                                         *)
(* IdsApart holds because a call that is not misplaced leaves the number   *)
(* of the driver's device in the context of that device.  OwnAnswer needs  *)
(* to know what is on a connection: before the configuration is stored     *)
(* only that, and after it at most the request of the thread that waits,   *)
(* in one of the two directions.                                           *)
(*                                                                         *)
(* LogsFiled needs the phases of a launch (Phase): as long as none has     *)
(* been disturbed one thread at most is in a launch, what is queued or in  *)
(* the files is its own, and between the tool's COLLECT_START and its      *)
(* PROF_FINISH every log is queued, held or filed.                         *)
(***************************************************************************)
EXTENDS Simulator, SequenceTheorems, FiniteSetTheorems, TLAPS

RequestKind == Kind \cup {"DATA_PATH", "COLLECT_START", "PROF_FINISH"}
Message == {Config} \cup {Summary(t) : t \in Thread}
               \cup [kind : RequestKind, of : Thread, nr : Nat]

\* Any step, as far as Interact is concerned.
InteractStep ==
    \/ \E d \in Device : ConnectHook(d) \/ Answer(d)
    \/ \E t \in Thread :
          \/ FindConfig(t) \/ LockConfig(t) \/ TakeConfig(t) \/ ConfigTimesOut(t)
          \/ Notify(t) \/ TakeAnswer(t) \/ AnswerTimesOut(t) \/ Use(t) \/ Used(t)
          \/ \E k \in RequestKind : Call(t, k)
          \/ \E d \in Device, ok \in BOOLEAN :
                (\E h \in SetHook : SetDevice(t, h, d, ok)) \/ ResetDevice(t, d, ok)

-----------------------------------------------------------------------------
(* The invariant.                                                           *)

DevicesOK ==
    /\ tool \in Tools
    /\ driver \in [Thread -> Device \cup {NoDevice}] /\ threadDevice \in [Thread -> Device]
    /\ devId \in [Device -> Device] /\ used \subseteq Device /\ misplaced \subseteq Thread
    /\ switched \in [Thread -> Nat]

InteractOK ==
    /\ pc \in [Thread -> {"idle", "getConfig", "waitConfig", "notify", "wait"}]
    /\ kind \in [Thread -> RequestKind \cup {"none"}] /\ made \in [Thread -> Nat]
    /\ outcome \in [Thread -> {"none", "config", "mismatch", "own", "other", "timeout"}]
    /\ mutex \in Thread \cup {NoThread}
    /\ config \in [Device -> {"none", "received", "default"}] /\ announced \subseteq Device
    /\ up \in [Device -> Seq(Message)] /\ down \in [Device -> Seq(Message)]
    /\ users \in [Device -> SUBSET Thread] /\ gaveUp \subseteq Device

TypeOK == DevicesOK /\ InteractOK

\* The context of a device that is some thread's has the device's own number, and
\* the simulator has one device.
NumbersOwn ==
    \A t \in Thread : driver[t] # NoDevice =>
        /\ Simulated => driver[t] = Home
        /\ ~Simulated /\ misplaced = {} => devId[driver[t]] = driver[t]

\* In an exchange, and until its answer is used, a thread stays with a device.
Active(t) == pc[t] # "idle" \/ outcome[t] # "none"

Settled ==
    \A t \in Thread : ~Profiled /\ Active(t) =>
        driver[t] \in {threadDevice[t], NoDevice} /\ t \in users[threadDevice[t]]

\* The lock is held while the configuration is waited for, which is then not there
\* yet, and by the profiler for a whole exchange.
LockHeld ==
    /\ \A t \in Thread :
          /\ pc[t] = "waitConfig" => mutex = t /\ config[Connection(t)] = "none"
          /\ Profiled /\ pc[t] = "wait" => mutex = t
          /\ mutex = t => pc[t] = "waitConfig" \/ (Profiled /\ pc[t] = "wait")
          /\ pc[t] \in {"notify", "wait"} => config[Connection(t)] # "none"
          /\ pc[t] = "wait" => kind[t] # "none"

\* The request a thread waits for the answer of.
Request(t) == [kind |-> kind[t], of |-> t, nr |-> made[t]]

\* A queue without a request, and one without another request than r.
Quiet(q) == \A i \in 1..Len(q) : q[i].kind \in Silent
Only(q, r) ==
    /\ \A i \in 1..Len(q) : q[i].kind \in Silent \/ q[i] = r
    /\ \A i, j \in 1..Len(q) : q[i].kind \notin Silent /\ q[j].kind \notin Silent => i = j

\* Nobody has asked anything, or r is what was asked: it is on its way, or its
\* answer is.
Nothing(d) == Quiet(up[d]) /\ down[d] = <<>>
Asked(d, r) ==
    /\ Only(up[d], r)
    /\ down[d] = <<>> \/ (down[d] = <<r>> /\ Quiet(up[d]))

NoConfig(q) == \A i \in 1..Len(q) : q[i] # Config

\* The server's configuration is what the sanitizer reads first.
ConfigFirst ==
    ~Profiled => \A d \in Device :
        /\ NoConfig(up[d])
        /\ config[d] = "none" =>
              Quiet(up[d]) /\ down[d] = IF d \in announced THEN <<Config>> ELSE <<>>
        /\ config[d] # "none" /\ d \notin gaveUp => d \in announced /\ NoConfig(down[d])

\* A thread that is alone on a connection of the sanitizer.
OneAsker ==
    ~Profiled => \A d \in Device, t \in Thread :
        d \notin gaveUp /\ config[d] # "none" /\ users[d] \subseteq {t} =>
            IF pc[t] = "wait" /\ Connection(t) = d THEN Asked(d, Request(t)) ELSE Nothing(d)

\* The connection of the profiler, by who holds the lock.
OneExchange ==
    Profiled /\ Main \notin gaveUp =>
        /\ mutex = NoThread => Nothing(Main)
        /\ \A t \in Thread : mutex = t =>
              Asked(Main, IF pc[t] = "waitConfig" THEN Config ELSE Request(t))

IInv ==
    /\ TypeOK /\ NumbersOwn /\ Settled /\ LockHeld
    /\ ConfigFirst /\ OneAsker /\ OneExchange /\ TakesOwn

-----------------------------------------------------------------------------
(* Queues.                                                                  *)

LEMMA AppendKeeps ==
    ASSUME NEW q \in Seq(Message), NEW m \in Message
    PROVE  /\ Append(q, m) \in Seq(Message) /\ Append(q, m) # <<>>
           /\ m.kind \in Silent => /\ Quiet(q) => Quiet(Append(q, m))
                                   /\ \A r : Only(q, r) => Only(Append(q, m), r)
           /\ Quiet(q) => Only(Append(q, m), m)
           /\ NoConfig(q) /\ m # Config => NoConfig(Append(q, m))
<1>1. /\ Append(q, m) \in Seq(Message) /\ Len(Append(q, m)) = Len(q) + 1
      /\ Append(q, m)[Len(q) + 1] = m
      /\ \A i \in 1..Len(q) : Append(q, m)[i] = q[i]
  OBVIOUS
<1>2. PICK n \in Nat : n = Len(q)
  OBVIOUS
<1>3. PICK a \in Seq(Message) : a = Append(q, m)
  BY <1>1
<1>4. \A i \in 1..(n + 1) : i \in 1..n \/ i = n + 1
  OBVIOUS
<1>5. /\ Len(a) = n + 1 /\ a[n + 1] = m
      /\ \A i \in 1..n : a[i] = q[i]
  BY <1>1, <1>2, <1>3
<1>6. m.kind \in Silent /\ Quiet(q) => Quiet(a)
  BY <1>2, <1>4, <1>5 DEF Quiet
<1>7. ASSUME NEW r, m.kind \in Silent, Only(q, r) PROVE Only(a, r)
  BY <1>2, <1>4, <1>5, <1>7 DEF Only
<1>8. Quiet(q) => Only(a, m)
  BY <1>2, <1>4, <1>5 DEF Quiet, Only
<1>9. NoConfig(q) /\ m # Config => NoConfig(a)
  BY <1>2, <1>4, <1>5 DEF NoConfig
<1>10. a # <<>>
  BY <1>2, <1>5
<1> QED BY <1>3, <1>6, <1>7, <1>8, <1>9, <1>10

LEMMA TailKeeps ==
    ASSUME NEW q \in Seq(Message), q # <<>>
    PROVE  /\ Tail(q) \in Seq(Message) /\ Head(q) \in Message
           /\ Quiet(q) => Quiet(Tail(q)) /\ Head(q).kind \in Silent
           /\ NoConfig(q) => NoConfig(Tail(q)) /\ Head(q) # Config
           /\ \A r : Only(q, r) =>
                 /\ Only(Tail(q), r)
                 /\ Head(q).kind \notin Silent => Head(q) = r /\ Quiet(Tail(q))
<1>1. /\ Tail(q) \in Seq(Message) /\ Len(q) \in Nat /\ Len(q) > 0 /\ Head(q) = q[1]
      /\ Head(q) \in Message /\ Len(Tail(q)) = Len(q) - 1
      /\ \A i \in 1..(Len(q) - 1) : Tail(q)[i] = q[i + 1]
  OBVIOUS
<1>2. PICK n \in Nat : n = Len(q) - 1
  <2>1. Len(q) - 1 \in Nat
    BY <1>1
  <2> QED BY <2>1
<1>3. PICK a \in Seq(Message) : a = Tail(q)
  BY <1>1
<1>4. Len(a) = n /\ \A i \in 1..n : a[i] = q[i + 1]
  BY <1>1, <1>2, <1>3
<1>5. 1 \in 1..Len(q) /\ \A i \in 1..n : i + 1 \in 1..Len(q) /\ i + 1 # 1
  BY <1>1, <1>2
<1>6. Quiet(q) => Quiet(a) /\ Head(q).kind \in Silent
  BY <1>1, <1>4, <1>5 DEF Quiet
<1>7. NoConfig(q) => NoConfig(a) /\ Head(q) # Config
  BY <1>1, <1>4, <1>5 DEF NoConfig
<1>8. ASSUME NEW r, Only(q, r)
      PROVE  Only(a, r) /\ (Head(q).kind \notin Silent => Head(q) = r /\ Quiet(a))
  <2>1. \A i \in 1..n : a[i].kind \in Silent \/ a[i] = r
    BY <1>4, <1>5, <1>8 DEF Only
  <2>2. \A i, j \in 1..n : a[i].kind \notin Silent /\ a[j].kind \notin Silent => i = j
    <3> SUFFICES ASSUME NEW i \in 1..n, NEW j \in 1..n,
                        a[i].kind \notin Silent, a[j].kind \notin Silent
                 PROVE  i = j
      OBVIOUS
    <3>1. i + 1 = j + 1
      BY <1>4, <1>5, <1>8 DEF Only
    <3> QED BY <3>1
  <2>3. ASSUME Head(q).kind \notin Silent PROVE Head(q) = r /\ Quiet(a)
    <3>1. Head(q) = r
      BY <1>1, <1>5, <1>8, <2>3 DEF Only
    <3>2. \A i \in 1..n : q[i + 1].kind \in Silent
      BY <1>1, <1>5, <1>8, <2>3 DEF Only
    <3> QED BY <1>4, <3>1, <3>2 DEF Quiet
  <2> QED BY <1>4, <2>1, <2>2, <2>3 DEF Only
<1> QED BY <1>1, <1>3, <1>6, <1>7, <1>8

\* What the queues of a connection say is the same where they are.
LEMMA QuietIsOnly ==
    ASSUME NEW q, Quiet(q), NEW r
    PROVE  Only(q, r)
BY DEF Quiet, Only

LEMMA EmptyIsQuiet ==
    /\ Quiet(<<>>) /\ NoConfig(<<>>) /\ \A r : Only(<<>>, r)
BY DEF Quiet, Only, NoConfig

\* The requests of a thread are messages, and none of them is the configuration.
LEMMA RequestIsMessage ==
    ASSUME TypeOK, NEW t \in Thread, kind[t] # "none"
    PROVE  /\ Request(t) \in Message /\ Request(t) # Config
           /\ Request(t).kind = kind[t] /\ Request(t).of = t /\ Request(t).nr = made[t]
<1>1. kind[t] \in RequestKind /\ made[t] \in Nat
  BY DEF TypeOK, InteractOK
<1>2. kind[t] # "config"
  BY <1>1, KindAssumption DEF RequestKind
<1>3. Request(t).kind = kind[t] /\ Request(t).of = t /\ Request(t).nr = made[t]
  BY DEF Request
<1>4. Request(t) \in [kind : RequestKind, of : Thread, nr : Nat]
  BY <1>1 DEF Request
<1> QED BY <1>2, <1>3, <1>4 DEF Message, Config

-----------------------------------------------------------------------------
(* Devices.                                                                 *)

LEMMA SameDevices ==
    ASSUME UNCHANGED <<tool, deviceVars>>
    PROVE  /\ Profiled' = Profiled /\ Simulated' = Simulated /\ tool' = tool
           /\ driver' = driver /\ threadDevice' = threadDevice
           /\ \A t \in Thread : Connection(t)' = Connection(t)
           /\ DevicesOK => DevicesOK'
           /\ NumbersOwn => NumbersOwn'
BY DEF deviceVars, Profiled, Simulated, Connection, Local, Answered, DevicesOK, NumbersOwn

LEMMA ConnectionIsDevice ==
    ASSUME DevicesOK, NEW t \in Thread
    PROVE  Connection(t) \in Device /\ Local(t) \in Device
BY KindAssumption DEF DevicesOK, Connection, Local, Answered

LEMMA DevicesInitOK == DevicesInit => DevicesOK /\ NumbersOwn
<1> SUFFICES ASSUME DevicesInit PROVE DevicesOK /\ NumbersOwn
  OBVIOUS
<1>1. \A d \in Device : Passed(d) \in Device
  BY DeviceAssumption DEF Passed
<1>2. DevicesOK
  <2>1. driver \in [Thread -> Device \cup {NoDevice}] /\ threadDevice \in [Thread -> Device]
    BY <1>1, DeviceAssumption DEF DevicesInit
  <2>2. devId \in [Device -> Device]
    BY DeviceAssumption DEF DevicesInit
  <2>3. used \subseteq Device
    BY DeviceAssumption DEF DevicesInit
  <2> QED BY <2>1, <2>2, <2>3 DEF DevicesInit, DevicesOK
<1>3. NumbersOwn
  <2> SUFFICES ASSUME NEW t \in Thread
               PROVE  /\ Simulated => driver[t] = Home
                      /\ ~Simulated => devId[driver[t]] = driver[t]
    BY DEF NumbersOwn
  <2>1. driver[t] = Passed(DeviceOf[t]) /\ DeviceOf[t] \in Device
    BY DeviceAssumption DEF DevicesInit
  <2>2. devId[DeviceOf[t]] = DeviceOf[t]
    BY <2>1 DEF DevicesInit
  <2> QED BY <2>1, <2>2 DEF Passed
<1> QED BY <1>2, <1>3

\* A call that passes and is not misplaced leaves the number of the device in the
\* device's own context, and no such call writes another number there.
LEMMA SwitchKeepsNumbers ==
    ASSUME DevicesOK, NumbersOwn, tool' = tool,
           NEW t \in Thread, NEW h \in SetHook, NEW d \in Device, NEW ok \in BOOLEAN,
           Switch(t, h, d, ok)
    PROVE  DevicesOK' /\ NumbersOwn'
<1>1. Passed(d) \in Device /\ Passed(d) = (IF Simulated THEN Home ELSE d) /\ Simulated' = Simulated
  BY DeviceAssumption DEF Passed, Simulated
<1>2. /\ driver' = IF ok THEN [driver EXCEPT ![t] = Passed(d)] ELSE driver
      /\ misplaced' = IF Misplaces(h, d, ok) THEN misplaced \cup {t} ELSE misplaced
      /\ switched' = [switched EXCEPT ![t] = @ + 1]
  BY DEF Switch
<1>3. /\ driver' \in [Thread -> Device \cup {NoDevice}] /\ misplaced' \subseteq Thread
      /\ switched' \in [Thread -> Nat]
  BY <1>1, <1>2 DEF DevicesOK
<1>4. \A u \in Thread : driver'[u] = IF ok /\ u = t THEN Passed(d) ELSE driver[u]
  BY <1>2 DEF DevicesOK
<1> DEFINE Kept == \A e \in Device : devId'[e] \in {devId[e], e}
           Placed == ok => devId'[d] = d
<1>5. CASE OriginSwitch(h, d)
  <2>1. threadDevice' = threadDevice /\ devId' = devId /\ used' = used /\ ~Hooked(h, d)
    BY <1>5 DEF OriginSwitch
  <2>2. ASSUME ~Simulated, misplaced' = {} PROVE Kept /\ Placed /\ misplaced = {}
    <3>1. ~Misplaces(h, d, ok) /\ misplaced = {}
      BY <1>2, <2>2
    <3>2. ~Profiled
      BY <2>1, <2>2 DEF Hooked, Bound, ProfilerBinds, IsDevIdUsed
    <3>3. devId[d] = d
      BY <2>1, <3>1, <3>2 DEF Misplaces
    <3> QED BY <2>1, <3>1, <3>3
  <2>3. DevicesOK'
    BY <1>3, <2>1 DEF DevicesOK
  <2>4. NumbersOwn'
    <3> SUFFICES ASSUME NEW u \in Thread, driver'[u] # NoDevice
                 PROVE  /\ Simulated => driver'[u] = Home
                        /\ ~Simulated /\ misplaced' = {} => devId'[driver'[u]] = driver'[u]
      BY <1>1 DEF NumbersOwn
    <3>1. Simulated => driver'[u] = Home
      BY <1>1, <1>4 DEF NumbersOwn
    <3>2. ASSUME ~Simulated, misplaced' = {} PROVE devId'[driver'[u]] = driver'[u]
      <4>1. CASE ok /\ u = t
        BY <1>1, <1>4, <2>2, <3>2, <4>1
      <4>2. CASE ~(ok /\ u = t)
        BY <1>4, <2>1, <2>2, <3>2, <4>2 DEF NumbersOwn
      <4> QED BY <4>1, <4>2
    <3> QED BY <3>1, <3>2
  <2> QED BY <2>3, <2>4
<1>6. CASE HookedSwitch(t, h, d, ok)
  <2>1. Hooked(h, d) /\ used' \subseteq Device
    BY <1>6 DEF HookedSwitch, DevicesOK
  <2>2. PICK stored \in Device : stored = IF h.pre THEN d ELSE threadDevice[t]
    BY DEF DevicesOK
  <2>3. PICK now \in Device \cup {NoDevice} : now = IF ok THEN Passed(d) ELSE driver[t]
    BY <1>1 DEF DevicesOK
  <2>4. h.writes \in {"own", "old", "local"}
    BY DEF SetHook, EarlyHook, rtSetDevice, rtSetDeviceV2, rtSetDeviceEx, rtCtxCreate,
           rtCtxCreateV2, rtCtxCreateEx, aclrtSetDeviceImpl, aclrtCreateContextImpl
  <2>5. PICK told \in Device :
           told = CASE h.writes = "own" -> IF Posts(h, ok) THEN d ELSE stored
                    [] h.writes = "old" -> Answered(driver[t], stored)
                    [] h.writes = "local" -> Answered(now, stored)
    <3>1. Answered(driver[t], stored) \in Device /\ Answered(now, stored) \in Device
      BY <2>2, <2>3 DEF Answered, DevicesOK
    <3>2. CASE h.writes = "own"
      BY <2>2, <3>2
    <3>3. CASE h.writes = "old"
      BY <3>1, <3>3
    <3>4. CASE h.writes = "local"
      BY <3>1, <3>4
    <3> QED BY <2>4, <3>2, <3>3, <3>4
  <2>6. /\ threadDevice' = [threadDevice EXCEPT ![t] = told]
        /\ devId' = IF Posts(h, ok)
                    THEN [devId EXCEPT ![told] = IF h.writes = "local" THEN Passed(d) ELSE d]
                    ELSE devId
    BY <1>6, <2>2, <2>3, <2>5 DEF HookedSwitch
  <2>7. DevicesOK'
    <3>1. threadDevice' \in [Thread -> Device] /\ devId' \in [Device -> Device]
      BY <1>1, <2>5, <2>6 DEF DevicesOK
    <3> QED BY <1>3, <2>1, <3>1 DEF DevicesOK
  <2>8. ASSUME ~Simulated, misplaced' = {} PROVE Kept /\ Placed /\ misplaced = {}
    <3>1. ~Misplaces(h, d, ok) /\ misplaced = {}
      BY <1>2, <2>8
    <3>2. h \in {rtSetDevice, aclrtSetDeviceImpl} \/ (h = aclrtCreateContextImpl /\ ok)
      BY <2>1, <3>1 DEF Misplaces, SetHook, Hooked, Bound, SanitizerBinds
    <3>3. CASE h \in {rtSetDevice, aclrtSetDeviceImpl}
      <4>1. h.writes = "own" /\ (ok => Posts(h, ok))
        BY <3>3 DEF rtSetDevice, aclrtSetDeviceImpl, Posts
      <4>2. Posts(h, ok) => told = d
        BY <2>5, <4>1
      <4>3. devId' = IF Posts(h, ok) THEN [devId EXCEPT ![d] = d] ELSE devId
        BY <2>6, <4>1, <4>2
      <4> QED BY <3>1, <4>1, <4>3 DEF DevicesOK
    <3>4. CASE h = aclrtCreateContextImpl /\ ok
      <4>1. h.writes = "local" /\ Posts(h, ok)
        BY <3>4 DEF aclrtCreateContextImpl, Posts
      <4>2. told = d
        BY <1>1, <2>3, <2>5, <2>8, <3>4, <4>1, DeviceAssumption DEF Answered
      <4>3. devId' = [devId EXCEPT ![d] = d]
        BY <1>1, <2>6, <2>8, <4>1, <4>2
      <4> QED BY <3>1, <4>3 DEF DevicesOK
    <3> QED BY <3>2, <3>3, <3>4
  <2>9. NumbersOwn'
    <3> SUFFICES ASSUME NEW u \in Thread, driver'[u] # NoDevice
                 PROVE  /\ Simulated => driver'[u] = Home
                        /\ ~Simulated /\ misplaced' = {} => devId'[driver'[u]] = driver'[u]
      BY <1>1 DEF NumbersOwn
    <3>1. Simulated => driver'[u] = Home
      BY <1>1, <1>4 DEF NumbersOwn
    <3>2. ASSUME ~Simulated, misplaced' = {} PROVE devId'[driver'[u]] = driver'[u]
      <4>1. CASE ok /\ u = t
        BY <1>1, <1>4, <2>8, <3>2, <4>1
      <4>2. CASE ~(ok /\ u = t)
        <5>1. driver'[u] = driver[u] /\ driver[u] \in Device
          BY <1>4, <4>2 DEF DevicesOK
        <5>2. devId[driver[u]] = driver[u]
          BY <2>8, <3>2, <5>1 DEF NumbersOwn
        <5> QED BY <2>8, <3>2, <5>1, <5>2
      <4> QED BY <4>1, <4>2
    <3> QED BY <3>1, <3>2
  <2> QED BY <2>7, <2>9
<1> QED BY <1>5, <1>6 DEF Switch

LEMMA ResetKeepsNumbers ==
    ASSUME DevicesOK, NumbersOwn, tool' = tool,
           NEW t \in Thread, NEW d \in Device, NEW ok \in BOOLEAN, Reset(t, d, ok)
    PROVE  /\ DevicesOK' /\ NumbersOwn' /\ threadDevice' = threadDevice
           /\ \A u \in Thread : driver'[u] \in {driver[u], NoDevice}
<1>1. /\ threadDevice' = threadDevice /\ devId' = devId /\ used' = used /\ misplaced' = misplaced
      /\ switched' = [switched EXCEPT ![t] = @ + 1] /\ Simulated' = Simulated
      /\ driver' = [u \in Thread |->
                      IF ok /\ driver[u] = Passed(d) THEN NoDevice ELSE driver[u]]
  BY DEF Reset, Simulated
<1>2. \A u \in Thread : driver'[u] \in {driver[u], NoDevice}
  BY <1>1
<1>3. DevicesOK'
  BY <1>1 DEF DevicesOK
<1>4. NumbersOwn'
  BY <1>1, <1>2 DEF NumbersOwn
<1> QED BY <1>1, <1>2, <1>3, <1>4

-----------------------------------------------------------------------------
(* What a step leaves as it is.                                             *)

\* Answers stay own as long as their threads stay with their connections.
LEMMA AnswersStay ==
    ASSUME TypeOK, TypeOK', TakesOwn, Profiled' = Profiled,
           \A u \in Thread : \/ outcome'[u] = "none"
                             \/ outcome'[u] = outcome[u] /\ Connection(u)' = Connection(u),
           gaveUp \subseteq gaveUp', \A d \in Device : users[d] \subseteq users'[d]
    PROVE  TakesOwn'
<1> SUFFICES ASSUME NEW u \in Thread, Connection(u)' \notin gaveUp'
             PROVE  /\ outcome'[u] # "config"
                    /\ Profiled \/ Alone(u)' => outcome'[u] \in {"none", "own"}
  BY DEF TakesOwn
<1>1. CASE outcome'[u] = "none"
  BY <1>1
<1>2. CASE outcome'[u] = outcome[u] /\ Connection(u)' = Connection(u)
  <2>1. Connection(u) \in Device
    BY ConnectionIsDevice DEF TypeOK
  <2>2. Alone(u)' => Alone(u)
    BY <1>2, <2>1 DEF Alone
  <2> QED BY <1>2, <2>2 DEF TakesOwn
<1> QED BY <1>1, <1>2

\* The connections are as they were.
LEMMA ConnectionsStay ==
    ASSUME TypeOK, OneAsker, OneExchange, ConfigFirst, Profiled' = Profiled, up' = up, down' = down,
           config' = config, announced' = announced, mutex' = mutex,
           gaveUp' = gaveUp, \A d \in Device : users[d] \subseteq users'[d],
           \A u \in Thread : mutex = u => (pc'[u] = "waitConfig" <=> pc[u] = "waitConfig"),
           \A u \in Thread : pc'[u] = "wait" <=> pc[u] = "wait",
           \A u \in Thread : pc[u] = "wait" =>
              kind'[u] = kind[u] /\ made'[u] = made[u] /\ Connection(u)' = Connection(u),
           \A u \in Thread : Profiled /\ mutex = u => kind'[u] = kind[u] /\ made'[u] = made[u]
    PROVE  OneAsker' /\ OneExchange' /\ ConfigFirst'
<1>1. ConfigFirst'
  BY DEF ConfigFirst
<1>2. \A d : Nothing(d)' = Nothing(d)
  BY DEF Nothing
<1>3. \A u \in Thread : kind'[u] = kind[u] /\ made'[u] = made[u] => Request(u)' = Request(u)
  BY DEF Request
<1>4. OneAsker'
  <2> SUFFICES ASSUME ~Profiled, NEW d \in Device, NEW u \in Thread, d \notin gaveUp,
                      config[d] # "none", users'[d] \subseteq {u}
               PROVE  IF pc'[u] = "wait" /\ Connection(u)' = d THEN Asked(d, Request(u))'
                      ELSE Nothing(d)
    BY <1>2 DEF OneAsker
  <2>1. users[d] \subseteq {u}
    OBVIOUS
  <2>2. IF pc[u] = "wait" /\ Connection(u) = d THEN Asked(d, Request(u)) ELSE Nothing(d)
    BY <2>1 DEF OneAsker
  <2>3. CASE pc[u] = "wait"
    <3>1. Asked(d, Request(u))' = Asked(d, Request(u))
      BY <1>3, <2>3 DEF Asked
    <3> QED BY <2>2, <2>3, <3>1
  <2>4. CASE pc[u] # "wait"
    BY <2>2, <2>4
  <2> QED BY <2>3, <2>4
<1>5. OneExchange'
  <2> SUFFICES ASSUME Profiled, Main \notin gaveUp
               PROVE  /\ mutex = NoThread => Nothing(Main)
                      /\ \A u \in Thread : mutex = u =>
                           Asked(Main, IF pc[u] = "waitConfig" THEN Config ELSE Request(u))'
    BY <1>2 DEF OneExchange
  <2>1. ASSUME NEW u \in Thread, mutex = u
        PROVE  Asked(Main, IF pc[u] = "waitConfig" THEN Config ELSE Request(u))'
    <3>1. Asked(Main, IF pc[u] = "waitConfig" THEN Config ELSE Request(u))
      BY <2>1 DEF OneExchange
    <3>2. Request(u)' = Request(u) /\ (pc'[u] = "waitConfig" <=> pc[u] = "waitConfig")
      BY <1>3, <2>1
    <3> QED BY <3>1, <3>2 DEF Asked
  <2> QED BY <2>1 DEF OneExchange
<1> QED BY <1>1, <1>4, <1>5

LEMMA SettledStays ==
    ASSUME Settled, UNCHANGED <<tool, deviceVars, users>>,
           \A u \in Thread : Active(u)' => Active(u)
    PROVE  Settled'
<1>1. Profiled' = Profiled /\ driver' = driver /\ threadDevice' = threadDevice
  BY SameDevices
<1> QED BY <1>1 DEF Settled

-----------------------------------------------------------------------------
(* The steps of Interact.                                                   *)

LEMMA FindConfigStep == ASSUME IInv, NEW t \in Thread, FindConfig(t) PROVE IInv'
<1>1. /\ Profiled' = Profiled /\ \A u \in Thread : Connection(u)' = Connection(u)
      /\ DevicesOK' /\ NumbersOwn'
  BY SameDevices DEF FindConfig, IInv, TypeOK
<1>2. /\ pc[t] = "getConfig" /\ mutex = NoThread /\ config[Connection(t)] # "none"
      /\ pc' = [pc EXCEPT ![t] = "notify"]
      /\ UNCHANGED <<kind, made, outcome, mutex, config, announced, up, down, users, gaveUp>>
  BY DEF FindConfig, Locked, threadVars, configVars, serverVars, ghostVars
<1>3. \A u \in Thread : pc'[u] = IF u = t THEN "notify" ELSE pc[u]
  BY <1>2 DEF IInv, TypeOK, InteractOK
<1>4. TypeOK'
  BY <1>1, <1>2 DEF IInv, TypeOK, InteractOK
<1>5. Settled'
  <2>1. \A u \in Thread : Active(u)' => Active(u)
    BY <1>2, <1>3 DEF Active
  <2> QED BY <2>1, <1>2, SettledStays DEF IInv, FindConfig
<1>6. LockHeld'
  BY <1>1, <1>2, <1>3, NoThreadAssumption DEF IInv, LockHeld
<1>7. OneAsker' /\ OneExchange' /\ ConfigFirst'
  <2>1. \A u \in Thread : mutex # u
    BY <1>2, NoThreadAssumption
  <2> QED BY <1>1, <1>2, <1>3, <2>1, ConnectionsStay DEF IInv
<1>8. TakesOwn'
  BY <1>1, <1>2, <1>4, AnswersStay DEF IInv
<1> QED BY <1>1, <1>4, <1>5, <1>6, <1>7, <1>8 DEF IInv

LEMMA UseStep == ASSUME IInv, NEW t \in Thread, Use(t) \/ Used(t) PROVE IInv'
<1>1. /\ Profiled' = Profiled /\ \A u \in Thread : Connection(u)' = Connection(u)
      /\ DevicesOK' /\ NumbersOwn'
  BY SameDevices DEF Use, Used, IInv, TypeOK
<1>2. /\ UNCHANGED <<kind, made, outcome, mutex, config, announced, up, down, users, gaveUp>>
      /\ \/ Profiled /\ pc[t] = "idle" /\ pc' = [pc EXCEPT ![t] = "getConfig"]
         \/ pc[t] = "notify" /\ pc' = [pc EXCEPT ![t] = "idle"]
  BY DEF Use, Used, FirstStep, threadVars, configVars, serverVars, ghostVars
<1>3. /\ pc[t] \in {"idle", "notify"} /\ pc'[t] \in {"idle", "getConfig"}
      /\ pc[t] = "idle" => Profiled
      /\ \A u \in Thread : u # t => pc'[u] = pc[u]
  BY <1>2 DEF IInv, TypeOK, InteractOK
<1>4. TypeOK'
  <2>1. pc' \in [Thread -> {"idle", "getConfig", "waitConfig", "notify", "wait"}]
    BY <1>2 DEF IInv, TypeOK, InteractOK
  <2> QED BY <1>1, <1>2, <2>1 DEF IInv, TypeOK, InteractOK
<1>5. Settled'
  <2>1. driver' = driver /\ threadDevice' = threadDevice /\ users' = users
    BY SameDevices DEF Use, Used, ghostVars
  <2> QED BY <1>1, <1>2, <1>3, <2>1 DEF IInv, Settled, Active
<1>6. LockHeld'
  BY <1>1, <1>2, <1>3 DEF IInv, LockHeld
<1>7. OneAsker' /\ OneExchange' /\ ConfigFirst'
  BY <1>1, <1>2, <1>3, ConnectionsStay DEF IInv
<1>8. TakesOwn'
  BY <1>1, <1>2, <1>4, AnswersStay DEF IInv
<1> QED BY <1>1, <1>4, <1>5, <1>6, <1>7, <1>8 DEF IInv

LEMMA CallStep == ASSUME IInv, NEW t \in Thread, NEW k \in RequestKind, Call(t, k) PROVE IInv'
<1>1. /\ pc[t] = "idle" /\ pc' = [pc EXCEPT ![t] = "getConfig"]
      /\ kind' = [kind EXCEPT ![t] = k] /\ outcome' = [outcome EXCEPT ![t] = "none"]
      /\ threadDevice' = [threadDevice EXCEPT ![t] = Local(t)]
      /\ users' = IF Profiled THEN users ELSE [users EXCEPT ![Connection(t)] = @ \cup {t}]
      /\ UNCHANGED <<tool, driver, devId, used, misplaced, switched, made, mutex, config, announced,
                     up, down, gaveUp>>
  BY DEF Call, FirstStep, configVars, serverVars
<1>2. Local(t) \in Device /\ Connection(t) \in Device
  BY ConnectionIsDevice DEF IInv, TypeOK
<1>3. Profiled' = Profiled /\ Simulated' = Simulated
  BY <1>1 DEF Profiled, Simulated
<1>4. \A u \in Thread : threadDevice'[u] = IF u = t THEN Local(t) ELSE threadDevice[u]
  BY <1>1 DEF IInv, TypeOK, DevicesOK
<1>5. \A u \in Thread : Local(u)' = Local(u)
  BY <1>1, <1>4 DEF Local, Answered
<1>6. \A u \in Thread : Connection(u)' = Connection(u)
  BY <1>3, <1>5 DEF Connection
<1>7. /\ \A u \in Thread : pc'[u] = IF u = t THEN "getConfig" ELSE pc[u]
      /\ \A u \in Thread : u # t => kind'[u] = kind[u] /\ outcome'[u] = outcome[u]
      /\ outcome'[t] = "none" /\ kind'[t] = k
      /\ \A d \in Device : users[d] \subseteq users'[d]
      /\ ~Profiled => t \in users'[Connection(t)]
  BY <1>1, <1>2 DEF IInv, TypeOK, InteractOK
<1>8. TypeOK'
  <2>1. DevicesOK'
    BY <1>1, <1>2 DEF IInv, TypeOK, DevicesOK
  <2>2. users' \in [Device -> SUBSET Thread]
    BY <1>1, <1>2 DEF IInv, TypeOK, InteractOK
  <2>3. /\ pc' \in [Thread -> {"idle", "getConfig", "waitConfig", "notify", "wait"}]
        /\ kind' \in [Thread -> RequestKind \cup {"none"}]
        /\ outcome' \in [Thread -> {"none", "config", "mismatch", "own", "other", "timeout"}]
    BY <1>1 DEF IInv, TypeOK, InteractOK
  <2> QED BY <1>1, <2>1, <2>2, <2>3 DEF IInv, TypeOK, InteractOK
<1>9. NumbersOwn'
  BY <1>1, <1>3 DEF IInv, NumbersOwn
<1>10. Settled'
  <2> SUFFICES ASSUME NEW u \in Thread, ~Profiled, Active(u)'
               PROVE  /\ driver'[u] \in {threadDevice'[u], NoDevice}
                      /\ u \in users'[threadDevice'[u]]
    BY <1>3 DEF Settled
  <2>1. CASE u = t
    <3>1. threadDevice'[t] = Local(t) /\ Connection(t) = Local(t)
      BY <1>4 DEF Connection
    <3>2. driver[t] \in {Local(t), NoDevice}
      BY DEF Local, Answered
    <3> QED BY <1>1, <1>7, <2>1, <3>1, <3>2
  <2>2. CASE u # t
    <3>1. Active(u) /\ threadDevice'[u] = threadDevice[u] /\ driver'[u] = driver[u]
      BY <1>1, <1>4, <1>7, <2>2 DEF Active
    <3>2. threadDevice[u] \in Device
      BY DEF IInv, TypeOK, DevicesOK
    <3> QED BY <1>7, <3>1, <3>2 DEF IInv, Settled
  <2> QED BY <2>1, <2>2
<1>11. LockHeld'
  <2>1. mutex # t
    BY <1>1 DEF IInv, LockHeld
  <2> QED BY <1>1, <1>3, <1>6, <1>7, <2>1 DEF IInv, LockHeld
<1>12. OneAsker' /\ OneExchange' /\ ConfigFirst'
  <2>1. mutex # t
    BY <1>1 DEF IInv, LockHeld
  <2> QED BY <1>1, <1>3, <1>6, <1>7, <2>1, ConnectionsStay DEF IInv
<1>13. TakesOwn'
  BY <1>1, <1>3, <1>6, <1>7, <1>8, AnswersStay DEF IInv
<1> QED BY <1>8, <1>9, <1>10, <1>11, <1>12, <1>13 DEF IInv

\* The calls that change the device may tell the tool of it, on any connection of the
\* sanitizer: the tool does not answer.
LEMMA SummaryStep ==
    ASSUME TypeOK, OneAsker, OneExchange, ConfigFirst, tool' = tool, NEW t \in Thread, NEW d \in Device,
           UNCHANGED <<pc, kind, made, mutex, config, announced, down, users, gaveUp>>,
           up' = up \/ (~Profiled /\ up' = [up EXCEPT ![d] = Append(@, Summary(t))]),
           \A u \in Thread : pc[u] = "wait" => Connection(u)' = Connection(u)
    PROVE  up' \in [Device -> Seq(Message)] /\ OneAsker' /\ OneExchange' /\ ConfigFirst'
<1>1. Profiled' = Profiled
  BY DEF Profiled
<1>2. CASE up' = up
  BY <1>1, <1>2, ConnectionsStay DEF TypeOK, InteractOK
<1>3. CASE ~Profiled /\ up' = [up EXCEPT ![d] = Append(@, Summary(t))]
  <2>1. /\ Summary(t) \in Message /\ Summary(t).kind \in Silent /\ Summary(t) # Config
    BY DEF Message, Summary, Silent, Config
  <2>2. up[d] \in Seq(Message)
    BY DEF TypeOK, InteractOK
  <2>3. up' \in [Device -> Seq(Message)] /\ up'[d] = Append(up[d], Summary(t))
        /\ \A e \in Device : e # d => up'[e] = up[e]
    BY <1>3, <2>1, <2>2, AppendKeeps DEF TypeOK, InteractOK
  <2>4. \A e \in Device : /\ Quiet(up[e]) => Quiet(up'[e])
                          /\ \A r : Only(up[e], r) => Only(up'[e], r)
                          /\ NoConfig(up[e]) => NoConfig(up'[e])
    <3> SUFFICES ASSUME NEW e \in Device
                 PROVE  /\ Quiet(up[e]) => Quiet(up'[e])
                        /\ \A r : Only(up[e], r) => Only(up'[e], r)
                        /\ NoConfig(up[e]) => NoConfig(up'[e])
      OBVIOUS
    <3>1. CASE e = d
      BY <2>1, <2>2, <2>3, <3>1, AppendKeeps
    <3>2. CASE e # d
      BY <2>3, <3>2
    <3> QED BY <3>1, <3>2
  <2>5. \A e \in Device : Nothing(e) => Nothing(e)'
    BY <2>4 DEF Nothing
  <2>6. ASSUME NEW e \in Device, NEW u \in Thread, Asked(e, Request(u))
        PROVE  Asked(e, Request(u))'
    BY <2>4, <2>6 DEF Asked, Request
  <2>7. OneAsker'
    <3> SUFFICES ASSUME NEW e \in Device, NEW u \in Thread, e \notin gaveUp, config[e] # "none",
                        users[e] \subseteq {u}
                 PROVE  IF pc[u] = "wait" /\ Connection(u)' = e THEN Asked(e, Request(u))'
                        ELSE Nothing(e)'
      BY <1>1 DEF OneAsker
    <3>1. IF pc[u] = "wait" /\ Connection(u) = e THEN Asked(e, Request(u)) ELSE Nothing(e)
      BY <1>3 DEF OneAsker
    <3> QED BY <2>5, <2>6, <3>1
  <2>8. OneExchange'
    BY <1>1, <1>3 DEF OneExchange
  <2>9. ConfigFirst'
    BY <1>1, <1>3, <2>4 DEF ConfigFirst
  <2> QED BY <2>3, <2>7, <2>8, <2>9
<1> QED BY <1>2, <1>3

LEMMA SetDeviceStep ==
    ASSUME IInv, NEW t \in Thread, NEW h \in SetHook, NEW d \in Device, NEW ok \in BOOLEAN,
           SetDevice(t, h, d, ok)
    PROVE  IInv'
<1>1. /\ pc[t] = "idle" /\ Switch(t, h, d, ok) /\ outcome' = [outcome EXCEPT ![t] = "none"]
      /\ UNCHANGED <<tool, pc, kind, made, mutex, config, announced, down, users, gaveUp>>
      /\ up' = up \/ (~Profiled /\ up' = [up EXCEPT ![d] = Append(@, Summary(t))])
  BY DEF SetDevice, MayTalk, Reported, configVars, ghostVars
<1>2. DevicesOK' /\ NumbersOwn'
  BY <1>1, SwitchKeepsNumbers DEF IInv, TypeOK
<1>3. \A u \in Thread : u # t => driver'[u] = driver[u] /\ threadDevice'[u] = threadDevice[u]
  BY <1>1 DEF IInv, TypeOK, DevicesOK, Switch, HookedSwitch, OriginSwitch
<1>4. Profiled' = Profiled
  BY <1>1 DEF Profiled
<1>5. \A u \in Thread : u # t => Connection(u)' = Connection(u)
  BY <1>3, <1>4 DEF Connection, Local, Answered
<1>6. \A u \in Thread : outcome'[u] = IF u = t THEN "none" ELSE outcome[u]
  BY <1>1 DEF IInv, TypeOK, InteractOK
<1>7. up' \in [Device -> Seq(Message)] /\ OneAsker' /\ OneExchange' /\ ConfigFirst'
  <2>1. \A u \in Thread : pc[u] = "wait" => Connection(u)' = Connection(u)
    BY <1>1, <1>5
  <2> QED BY <1>1, <2>1, SummaryStep DEF IInv
<1>8. TypeOK'
  <2>1. outcome' \in [Thread -> {"none", "config", "mismatch", "own", "other", "timeout"}]
    BY <1>1 DEF IInv, TypeOK, InteractOK
  <2> QED BY <1>1, <1>2, <1>7, <2>1 DEF IInv, TypeOK, InteractOK
<1>9. Settled'
  <2> SUFFICES ASSUME NEW u \in Thread, ~Profiled, Active(u)'
               PROVE  /\ driver'[u] \in {threadDevice'[u], NoDevice}
                      /\ u \in users[threadDevice'[u]]
    BY <1>1, <1>4 DEF Settled
  <2>1. u # t /\ Active(u)
    BY <1>1, <1>6 DEF Active
  <2> QED BY <1>3, <2>1 DEF IInv, Settled
<1>10. LockHeld'
  <2>1. \A u \in Thread : pc[u] # "idle" => Connection(u)' = Connection(u)
    BY <1>1, <1>5
  <2> QED BY <1>1, <1>4, <2>1 DEF IInv, LockHeld
<1>11. TakesOwn'
  BY <1>1, <1>4, <1>5, <1>6, <1>8, AnswersStay DEF IInv
<1> QED BY <1>2, <1>7, <1>8, <1>9, <1>10, <1>11 DEF IInv

LEMMA ResetDeviceStep ==
    ASSUME IInv, NEW t \in Thread, NEW d \in Device, NEW ok \in BOOLEAN, ResetDevice(t, d, ok)
    PROVE  IInv'
<1>1. /\ Reset(t, d, ok)
      /\ UNCHANGED <<tool, pc, kind, made, outcome, mutex, config, announced, down, users, gaveUp>>
      /\ up' = up \/ (~Profiled /\ up' = [up EXCEPT ![d] = Append(@, Summary(t))])
  BY DEF ResetDevice, rtDeviceReset, aclrtResetDeviceImpl, rtDeviceResetEx, MayTalk, Reported,
         threadVars, configVars, ghostVars
<1>2. /\ DevicesOK' /\ NumbersOwn' /\ threadDevice' = threadDevice
      /\ \A u \in Thread : driver'[u] \in {driver[u], NoDevice}
  BY <1>1, ResetKeepsNumbers DEF IInv, TypeOK
<1>3. Profiled' = Profiled
  BY <1>1 DEF Profiled
<1>4. \A u \in Thread : Active(u) => Connection(u)' = Connection(u)
  BY <1>2, <1>3 DEF IInv, Settled, Connection, Local, Answered
<1>5. up' \in [Device -> Seq(Message)] /\ OneAsker' /\ OneExchange' /\ ConfigFirst'
  <2>1. \A u \in Thread : pc[u] = "wait" => Connection(u)' = Connection(u)
    BY <1>4 DEF Active
  <2> QED BY <1>1, <2>1, SummaryStep DEF IInv
<1>6. TypeOK'
  BY <1>1, <1>2, <1>5 DEF IInv, TypeOK, InteractOK
<1>7. Settled'
  BY <1>1, <1>2, <1>3 DEF IInv, Settled, Active
<1>8. LockHeld'
  <2>1. \A u \in Thread : pc[u] # "idle" => Connection(u)' = Connection(u)
    BY <1>4 DEF Active
  <2> QED BY <1>1, <1>3, <2>1 DEF IInv, LockHeld
<1>9. TakesOwn'
  <2>1. \A u \in Thread : outcome'[u] = "none"
                          \/ (outcome'[u] = outcome[u] /\ Connection(u)' = Connection(u))
    BY <1>1, <1>4 DEF Active
  <2> QED BY <1>1, <1>3, <1>6, <2>1, AnswersStay DEF IInv
<1> QED BY <1>2, <1>5, <1>6, <1>7, <1>8, <1>9 DEF IInv

\* Steps of the server: the threads stay where they are.
LEMMA ServerKeepsThreads ==
    ASSUME IInv, UNCHANGED <<tool, deviceVars, threadVars, configVars, ghostVars>>,
           announced' \subseteq Device,
           up' \in [Device -> Seq(Message)], down' \in [Device -> Seq(Message)]
    PROVE  /\ TypeOK' /\ NumbersOwn' /\ Settled' /\ LockHeld' /\ TakesOwn'
           /\ Profiled' = Profiled /\ \A u \in Thread : Connection(u)' = Connection(u)
           /\ UNCHANGED <<pc, kind, made, outcome, mutex, config, users, gaveUp>>
<1>1. /\ Profiled' = Profiled /\ \A u \in Thread : Connection(u)' = Connection(u)
      /\ DevicesOK' /\ NumbersOwn' /\ driver' = driver /\ threadDevice' = threadDevice
  BY SameDevices DEF IInv, TypeOK
<1>2. UNCHANGED <<pc, kind, made, outcome, mutex, config, users, gaveUp>>
  BY DEF threadVars, configVars, ghostVars
<1>3. TypeOK'
  BY <1>1, <1>2 DEF IInv, TypeOK, InteractOK
<1>4. Settled'
  BY <1>1, <1>2 DEF IInv, Settled, Active
<1>5. LockHeld'
  BY <1>1, <1>2 DEF IInv, LockHeld
<1>6. TakesOwn'
  BY <1>1, <1>2, <1>3, AnswersStay DEF IInv
<1> QED BY <1>1, <1>2, <1>3, <1>4, <1>5, <1>6

LEMMA ConnectHookStep == ASSUME IInv, NEW d \in Device, ConnectHook(d) PROVE IInv'
<1>1. /\ ~Profiled /\ d \notin announced /\ announced' = announced \cup {d}
      /\ down' = [down EXCEPT ![d] = Append(@, Config)] /\ up' = up
      /\ UNCHANGED <<tool, deviceVars, threadVars, configVars, ghostVars>>
  BY DEF ConnectHook
<1>2. Config \in Message
  BY DEF Message
<1>3. /\ down' \in [Device -> Seq(Message)] /\ down'[d] = Append(down[d], Config)
      /\ \A e \in Device : e # d => down'[e] = down[e]
  BY <1>1, <1>2, AppendKeeps DEF IInv, TypeOK, InteractOK
<1>4. /\ TypeOK' /\ NumbersOwn' /\ Settled' /\ LockHeld' /\ TakesOwn'
      /\ Profiled' = Profiled /\ \A u \in Thread : Connection(u)' = Connection(u)
      /\ UNCHANGED <<pc, kind, made, outcome, mutex, config, users, gaveUp>>
  <2>1. announced' \subseteq Device /\ up' \in [Device -> Seq(Message)]
    BY <1>1 DEF IInv, TypeOK, InteractOK
  <2> QED BY <1>1, <1>3, <2>1, ServerKeepsThreads
<1>5. config[d] = "none" => down[d] = <<>> /\ down'[d] = <<Config>>
  <2>1. config[d] = "none" => down[d] = <<>>
    BY <1>1 DEF IInv, ConfigFirst
  <2>2. Append(<<>>, Config) = <<Config>>
    OBVIOUS
  <2> QED BY <1>3, <2>1, <2>2
<1>6. config[d] # "none" => d \in gaveUp
  BY <1>1 DEF IInv, ConfigFirst
<1>7. ConfigFirst'
  <2> SUFFICES ASSUME NEW e \in Device
               PROVE  /\ NoConfig(up[e])
                      /\ config[e] = "none" =>
                           /\ Quiet(up[e])
                           /\ down'[e] = IF e \in announced' THEN <<Config>> ELSE <<>>
                      /\ config[e] # "none" /\ e \notin gaveUp =>
                           e \in announced' /\ NoConfig(down'[e])
    BY <1>1, <1>4 DEF ConfigFirst
  <2>1. CASE e = d
    BY <1>1, <1>5, <1>6, <2>1 DEF IInv, ConfigFirst
  <2>2. CASE e # d
    BY <1>1, <1>3, <2>2 DEF IInv, ConfigFirst
  <2> QED BY <2>1, <2>2
<1>8. OneAsker'
  <2> SUFFICES ASSUME NEW e \in Device, NEW u \in Thread, e \notin gaveUp, config[e] # "none",
                      users[e] \subseteq {u}
               PROVE  IF pc[u] = "wait" /\ Connection(u) = e THEN Asked(e, Request(u))'
                      ELSE Nothing(e)'
    BY <1>4 DEF OneAsker
  <2>1. e # d
    BY <1>6
  <2>2. Request(u)' = Request(u)
    BY <1>4 DEF Request
  <2>3. down'[e] = down[e] /\ up'[e] = up[e]
    BY <1>1, <1>3, <2>1
  <2> QED BY <1>1, <2>2, <2>3 DEF IInv, OneAsker, Asked, Nothing
<1>9. OneExchange'
  BY <1>1, <1>4 DEF OneExchange
<1> QED BY <1>4, <1>7, <1>8, <1>9 DEF IInv

\* The answer to the only request is the only one there is.
LEMMA AnswerKeeps ==
    ASSUME TypeOK, NEW d \in Device, Answer(d)
    PROVE  /\ up' \in [Device -> Seq(Message)] /\ down' \in [Device -> Seq(Message)]
           /\ \A e \in Device : e # d => up'[e] = up[e] /\ down'[e] = down[e]
           /\ NoConfig(up[d]) => NoConfig(up'[d]) /\ (NoConfig(down[d]) => NoConfig(down'[d]))
           /\ Quiet(up[d]) => Quiet(up'[d]) /\ down'[d] = down[d]
           /\ \A r \in Message : Asked(d, r) =>
                 /\ Only(up'[d], r)
                 /\ down'[d] = <<>> \/ (down'[d] = <<r>> /\ Quiet(up'[d]))
<1> PICK q \in Seq(Message) : q = up[d]
  BY DEF TypeOK, InteractOK
<1> PICK a \in Seq(Message) : a = down[d]
  BY DEF TypeOK, InteractOK
<1>1. /\ q # <<>> /\ up' = [up EXCEPT ![d] = Tail(q)]
      /\ down' = IF Head(q).kind \in Silent THEN down ELSE [down EXCEPT ![d] = Append(a, Head(q))]
  BY DEF Answer
<1>2. /\ Tail(q) \in Seq(Message) /\ Head(q) \in Message
      /\ Quiet(q) => Quiet(Tail(q)) /\ Head(q).kind \in Silent
      /\ NoConfig(q) => NoConfig(Tail(q)) /\ Head(q) # Config
      /\ \A r : Only(q, r) => /\ Only(Tail(q), r)
                              /\ Head(q).kind \notin Silent => Head(q) = r /\ Quiet(Tail(q))
  BY <1>1, TailKeeps
<1>3. /\ Append(a, Head(q)) \in Seq(Message)
      /\ NoConfig(a) /\ Head(q) # Config => NoConfig(Append(a, Head(q)))
  BY <1>2, AppendKeeps
<1>4. /\ up' \in [Device -> Seq(Message)] /\ down' \in [Device -> Seq(Message)]
      /\ up'[d] = Tail(q)
      /\ down'[d] = IF Head(q).kind \in Silent THEN a ELSE Append(a, Head(q))
      /\ \A e \in Device : e # d => up'[e] = up[e] /\ down'[e] = down[e]
  BY <1>1, <1>2, <1>3 DEF TypeOK, InteractOK
<1>5. ASSUME NEW r \in Message, Asked(d, r)
      PROVE  /\ Only(up'[d], r)
             /\ down'[d] = <<>> \/ (down'[d] = <<r>> /\ Quiet(up'[d]))
  <2>1. Only(q, r) /\ (a = <<>> \/ (a = <<r>> /\ Quiet(q)))
    BY <1>5 DEF Asked
  <2>2. CASE Head(q).kind \in Silent
    BY <1>2, <1>4, <2>1, <2>2
  <2>3. CASE Head(q).kind \notin Silent
    <3>1. Head(q) = r /\ Quiet(Tail(q)) /\ a = <<>>
      BY <1>2, <2>1, <2>3
    <3>2. Append(a, Head(q)) = <<r>>
      BY <3>1
    <3> QED BY <1>2, <1>4, <2>1, <2>3, <3>1, <3>2
  <2> QED BY <2>2, <2>3
<1> QED BY <1>2, <1>3, <1>4, <1>5

LEMMA AnswerStep == ASSUME IInv, NEW d \in Device, Answer(d) PROVE IInv'
<1>1. /\ UNCHANGED <<tool, deviceVars, threadVars, configVars, ghostVars>>
      /\ announced' = announced
  BY DEF Answer
<1>2. /\ up' \in [Device -> Seq(Message)] /\ down' \in [Device -> Seq(Message)]
      /\ \A e \in Device : e # d => up'[e] = up[e] /\ down'[e] = down[e]
      /\ NoConfig(up[d]) => NoConfig(up'[d]) /\ (NoConfig(down[d]) => NoConfig(down'[d]))
      /\ Quiet(up[d]) => Quiet(up'[d]) /\ down'[d] = down[d]
  BY AnswerKeeps DEF IInv
<1>3. /\ TypeOK' /\ NumbersOwn' /\ Settled' /\ LockHeld' /\ TakesOwn'
      /\ Profiled' = Profiled /\ \A u \in Thread : Connection(u)' = Connection(u)
      /\ UNCHANGED <<pc, kind, made, outcome, mutex, config, users, gaveUp>>
  <2>1. announced' \subseteq Device
    BY <1>1 DEF IInv, TypeOK, InteractOK
  <2> QED BY <1>1, <1>2, <2>1, ServerKeepsThreads
<1>4. \A e \in Device : Nothing(e) => Nothing(e)'
  BY <1>2 DEF Nothing
<1>5. ASSUME NEW e \in Device, NEW r \in Message, Asked(e, r)
      PROVE  /\ Only(up'[e], r)
             /\ down'[e] = <<>> \/ (down'[e] = <<r>> /\ Quiet(up'[e]))
  <2>1. CASE e = d
    BY <1>5, <2>1, AnswerKeeps DEF IInv
  <2>2. CASE e # d
    BY <1>2, <1>5, <2>2 DEF Asked
  <2> QED BY <2>1, <2>2
<1>6. ASSUME NEW e \in Device, NEW u \in Thread, pc[u] = "wait", Asked(e, Request(u))
      PROVE  Asked(e, Request(u))'
  <2>1. Request(u) \in Message
    BY <1>6, RequestIsMessage DEF IInv, LockHeld
  <2>2. Request(u)' = Request(u)
    BY <1>3 DEF Request
  <2> QED BY <1>5, <1>6, <2>1, <2>2 DEF Asked
<1>7. ConfigFirst'
  <2> SUFFICES ASSUME ~Profiled, NEW e \in Device
               PROVE  /\ NoConfig(up'[e])
                      /\ config[e] = "none" =>
                           /\ Quiet(up'[e])
                           /\ down'[e] = IF e \in announced THEN <<Config>> ELSE <<>>
                      /\ config[e] # "none" /\ e \notin gaveUp =>
                           e \in announced /\ NoConfig(down'[e])
    BY <1>1, <1>3 DEF ConfigFirst
  <2>1. CASE e = d
    BY <1>2, <2>1 DEF IInv, ConfigFirst
  <2>2. CASE e # d
    BY <1>2, <2>2 DEF IInv, ConfigFirst
  <2> QED BY <2>1, <2>2
<1>8. OneAsker'
  <2> SUFFICES ASSUME ~Profiled, NEW e \in Device, NEW u \in Thread, e \notin gaveUp,
                      config[e] # "none", users[e] \subseteq {u}
               PROVE  IF pc[u] = "wait" /\ Connection(u) = e THEN Asked(e, Request(u))'
                      ELSE Nothing(e)'
    BY <1>3 DEF OneAsker
  <2> QED BY <1>4, <1>6 DEF IInv, OneAsker
<1>9. OneExchange'
  <2> SUFFICES ASSUME Profiled, Main \notin gaveUp
               PROVE  /\ mutex = NoThread => Nothing(Main)'
                      /\ \A u \in Thread : mutex = u =>
                           Asked(Main, IF pc[u] = "waitConfig" THEN Config ELSE Request(u))'
    BY <1>3 DEF OneExchange
  <2>1. Main \in Device
    BY KindAssumption
  <2>2. ASSUME NEW u \in Thread, mutex = u
        PROVE  Asked(Main, IF pc[u] = "waitConfig" THEN Config ELSE Request(u))'
    <3>1. Asked(Main, IF pc[u] = "waitConfig" THEN Config ELSE Request(u))
      BY <2>2 DEF IInv, OneExchange
    <3>2. CASE pc[u] = "waitConfig"
      <4>1. Config \in Message
        BY DEF Message
      <4> QED BY <1>3, <1>5, <2>1, <3>1, <3>2, <4>1 DEF Asked
    <3>3. CASE pc[u] # "waitConfig"
      <4>1. pc[u] = "wait"
        BY <2>2, <3>3 DEF IInv, LockHeld
      <4> QED BY <1>3, <1>6, <2>1, <3>1, <3>3, <4>1 DEF Asked
    <3> QED BY <3>2, <3>3
  <2> QED BY <1>4, <2>1, <2>2 DEF IInv, OneExchange
<1> QED BY <1>3, <1>7, <1>8, <1>9 DEF IInv

\* Steps of a thread in an exchange: what all of them keep.
LEMMA ExchangeKeepsDevices ==
    ASSUME IInv, UNCHANGED <<tool, deviceVars>>, UNCHANGED <<announced, users>>
    PROVE  /\ Profiled' = Profiled /\ tool' = tool /\ DevicesOK' /\ NumbersOwn'
           /\ \A u \in Thread : Connection(u)' = Connection(u) /\ Connection(u) \in Device
           /\ (\A u \in Thread : Active(u)' => Active(u)) => Settled'
BY SameDevices, ConnectionIsDevice, SettledStays DEF IInv, TypeOK

\* A thread that is alone on a connection this step leaves alone.
LEMMA AskerStays ==
    ASSUME OneAsker, ~Profiled, NEW e \in Device, NEW u \in Thread,
           e \notin gaveUp, config[e] # "none", users[e] \subseteq {u},
           up'[e] = up[e], down'[e] = down[e], Connection(u)' = Connection(u),
           pc'[u] = "wait" /\ Connection(u) = e <=> pc[u] = "wait" /\ Connection(u) = e,
           pc[u] = "wait" /\ Connection(u) = e => kind'[u] = kind[u] /\ made'[u] = made[u]
    PROVE  IF pc'[u] = "wait" /\ Connection(u)' = e THEN Asked(e, Request(u))' ELSE Nothing(e)'
<1>1. CASE pc[u] = "wait" /\ Connection(u) = e
  <2>1. Asked(e, Request(u)) /\ Request(u)' = Request(u)
    BY <1>1 DEF OneAsker, Request
  <2> QED BY <1>1, <2>1 DEF Asked
<1>2. CASE ~(pc[u] = "wait" /\ Connection(u) = e)
  BY <1>2 DEF OneAsker, Nothing
<1> QED BY <1>1, <1>2

LEMMA LockConfigStep == ASSUME IInv, NEW t \in Thread, LockConfig(t) PROVE IInv'
<1>1. /\ pc[t] = "getConfig" /\ mutex = NoThread /\ config[Connection(t)] = "none"
      /\ mutex' = t /\ pc' = [pc EXCEPT ![t] = "waitConfig"]
      /\ IF Profiled THEN up' = [up EXCEPT ![Connection(t)] = Append(@, Config)] ELSE up' = up
      /\ UNCHANGED <<tool, deviceVars>> /\ UNCHANGED <<announced, users>>
      /\ UNCHANGED <<kind, made, outcome, config, down, gaveUp>>
  BY DEF LockConfig, Locked, InitProfConfig, ghostVars
<1>2. /\ Profiled' = Profiled /\ DevicesOK' /\ NumbersOwn'
      /\ \A u \in Thread : Connection(u)' = Connection(u) /\ Connection(u) \in Device
      /\ (\A u \in Thread : Active(u)' => Active(u)) => Settled'
  BY <1>1, ExchangeKeepsDevices
<1>3. \A u \in Thread : pc'[u] = IF u = t THEN "waitConfig" ELSE pc[u]
  BY <1>1 DEF IInv, TypeOK, InteractOK
<1>4. Config \in Message
  BY DEF Message
<1>5. TypeOK'
  <2>1. \A d \in Device : up[d] \in Seq(Message)
    BY DEF IInv, TypeOK, InteractOK
  <2>2. \A d \in Device : Append(up[d], Config) \in Seq(Message)
    BY <1>4, <2>1
  <2>3. up' \in [Device -> Seq(Message)]
    <3>1. PICK d \in Device : d = Connection(t)
      BY <1>2
    <3>2. Append(up[d], Config) \in Seq(Message)
      BY <2>2
    <3>3. up' = [up EXCEPT ![d] = Append(up[d], Config)] \/ up' = up
      BY <1>1, <3>1
    <3> QED BY <3>2, <3>3 DEF IInv, TypeOK, InteractOK
  <2>4. pc' \in [Thread -> {"idle", "getConfig", "waitConfig", "notify", "wait"}]
    BY <1>1 DEF IInv, TypeOK, InteractOK
  <2> QED BY <1>1, <1>2, <2>3, <2>4 DEF IInv, TypeOK, InteractOK
<1>6. Settled'
  BY <1>1, <1>2, <1>3 DEF Active
<1>7. LockHeld'
  <2>1. \A u \in Thread : /\ pc[u] = "waitConfig" => FALSE
                          /\ Profiled /\ pc[u] = "wait" => FALSE
    BY <1>1, NoThreadAssumption DEF IInv, LockHeld
  <2> QED BY <1>1, <1>2, <1>3, <2>1 DEF IInv, LockHeld
<1>8. OneAsker'
  <2> SUFFICES ASSUME ~Profiled, NEW e \in Device, NEW u \in Thread, e \notin gaveUp,
                      config[e] # "none", users[e] \subseteq {u}
               PROVE  IF pc'[u] = "wait" /\ Connection(u)' = e THEN Asked(e, Request(u))'
                      ELSE Nothing(e)'
    BY <1>1, <1>2 DEF OneAsker
  <2>1. pc'[u] = "wait" /\ Connection(u) = e <=> pc[u] = "wait" /\ Connection(u) = e
    BY <1>1, <1>3
  <2> QED BY <1>1, <1>2, <2>1, AskerStays DEF IInv
<1>9. OneExchange'
  <2> SUFFICES ASSUME Profiled, Main \notin gaveUp
               PROVE  Asked(Main, Config)'
    BY <1>1, <1>2, <1>3, NoThreadAssumption DEF OneExchange
  <2>1. Nothing(Main) /\ Connection(t) = Main /\ Main \in Device
    BY <1>1, KindAssumption DEF IInv, OneExchange, Connection
  <2>2. up[Main] \in Seq(Message)
    BY <2>1 DEF IInv, TypeOK, InteractOK
  <2>3. up'[Main] = Append(up[Main], Config)
    BY <1>1, <2>1 DEF IInv, TypeOK, InteractOK
  <2>4. Only(up'[Main], Config)
    BY <1>4, <2>1, <2>2, <2>3, AppendKeeps DEF Nothing
  <2> QED BY <1>1, <2>1, <2>4 DEF Asked, Nothing
<1>10. ConfigFirst'
  BY <1>1, <1>2 DEF IInv, ConfigFirst
<1>11. TakesOwn'
  BY <1>1, <1>2, <1>5, AnswersStay DEF IInv
<1> QED BY <1>2, <1>5, <1>6, <1>7, <1>8, <1>9, <1>10, <1>11 DEF IInv

\* The bytes a thread waits for the configuration with are the configuration, unless it
\* gave up.
LEMMA TakeConfigStep ==
    ASSUME IInv, NEW t \in Thread, TakeConfig(t) \/ ConfigTimesOut(t)
    PROVE  IInv'
<1>1. PICK d \in Device : d = Connection(t)
  BY ConnectionIsDevice DEF IInv, TypeOK
<1>2. /\ pc[t] = "waitConfig" /\ mutex' = NoThread /\ pc' = [pc EXCEPT ![t] = "notify"]
      /\ config' \in {[config EXCEPT ![d] = "received"], [config EXCEPT ![d] = "default"]}
      /\ UNCHANGED <<tool, deviceVars>> /\ UNCHANGED <<announced, users>>
      /\ UNCHANGED <<kind, made, outcome, up>>
      /\ \/ down[d] # <<>> /\ down' = [down EXCEPT ![d] = <<>>] /\ gaveUp' = gaveUp
         \/ down' = down /\ gaveUp' = gaveUp \cup {d}
  BY <1>1 DEF TakeConfig, ConfigTimesOut, StoreConfig, Released, ghostVars, serverVars
<1>3. /\ Profiled' = Profiled /\ DevicesOK' /\ NumbersOwn'
      /\ \A u \in Thread : Connection(u)' = Connection(u) /\ Connection(u) \in Device
      /\ (\A u \in Thread : Active(u)' => Active(u)) => Settled'
  BY <1>2, ExchangeKeepsDevices
<1>4. \A u \in Thread : pc'[u] = IF u = t THEN "notify" ELSE pc[u]
  BY <1>2 DEF IInv, TypeOK, InteractOK
<1>5. /\ config' \in [Device -> {"none", "received", "default"}] /\ config'[d] # "none"
      /\ \A e \in Device : e # d => config'[e] = config[e]
      /\ mutex = t /\ config[d] = "none"
  <2>1. config \in [Device -> {"none", "received", "default"}]
    BY DEF IInv, TypeOK, InteractOK
  <2>2. mutex = t /\ config[d] = "none"
    BY <1>1, <1>2 DEF IInv, LockHeld
  <2> QED BY <1>1, <1>2, <2>1, <2>2
<1>6. /\ down' \in [Device -> Seq(Message)] /\ gaveUp' \subseteq Device
      /\ gaveUp \subseteq gaveUp' /\ gaveUp' \subseteq gaveUp \cup {d}
      /\ \A e \in Device : e # d => down'[e] = down[e]
      /\ d \notin gaveUp' => down[d] # <<>> /\ down'[d] = <<>>
  <2>1. <<>> \in Seq(Message)
    OBVIOUS
  <2> QED BY <1>2, <2>1 DEF IInv, TypeOK, InteractOK
<1>7. TypeOK'
  <2>1. pc' \in [Thread -> {"idle", "getConfig", "waitConfig", "notify", "wait"}]
    BY <1>2 DEF IInv, TypeOK, InteractOK
  <2> QED BY <1>2, <1>3, <1>5, <1>6, <2>1 DEF IInv, TypeOK, InteractOK
<1>8. Settled'
  BY <1>2, <1>3, <1>4 DEF Active
<1>9. LockHeld'
  <2>1. \A u \in Thread : u # t => pc[u] # "waitConfig" /\ ~(Profiled /\ pc[u] = "wait")
    BY <1>5 DEF IInv, LockHeld
  <2>2. \A u \in Thread : u # t /\ pc[u] \in {"notify", "wait"} => config'[Connection(u)] # "none"
    BY <1>3, <1>5 DEF IInv, LockHeld
  <2> QED BY <1>1, <1>2, <1>3, <1>4, <1>5, <2>1, <2>2, NoThreadAssumption DEF IInv, LockHeld
<1>10. ConfigFirst'
  <2> SUFFICES ASSUME ~Profiled, NEW e \in Device
               PROVE  /\ NoConfig(up[e])
                      /\ config'[e] = "none" =>
                           /\ Quiet(up[e])
                           /\ down'[e] = IF e \in announced THEN <<Config>> ELSE <<>>
                      /\ config'[e] # "none" /\ e \notin gaveUp' =>
                           e \in announced /\ NoConfig(down'[e])
    BY <1>2, <1>3 DEF ConfigFirst
  <2>1. CASE e = d
    <3>1. NoConfig(up[d]) /\ (down[d] # <<>> => d \in announced)
      BY <1>5 DEF IInv, ConfigFirst
    <3> QED BY <1>5, <1>6, <2>1, <3>1, EmptyIsQuiet
  <2>2. CASE e # d
    BY <1>5, <1>6, <2>2 DEF IInv, ConfigFirst
  <2> QED BY <2>1, <2>2
<1>11. OneAsker'
  <2> SUFFICES ASSUME ~Profiled, NEW e \in Device, NEW u \in Thread, e \notin gaveUp',
                      config'[e] # "none", users[e] \subseteq {u}
               PROVE  IF pc'[u] = "wait" /\ Connection(u)' = e THEN Asked(e, Request(u))'
                      ELSE Nothing(e)'
    BY <1>2, <1>3 DEF OneAsker
  <2>1. CASE e = d
    <3>1. Quiet(up[d]) /\ down'[d] = <<>>
      BY <1>5, <1>6, <2>1 DEF IInv, ConfigFirst
    <3>2. \A v \in Thread : pc'[v] = "wait" => Connection(v) # d
      BY <1>4, <1>5 DEF IInv, LockHeld
    <3> QED BY <1>2, <1>3, <2>1, <3>1, <3>2 DEF Nothing
  <2>2. CASE e # d
    <3>1. pc'[u] = "wait" /\ Connection(u) = e <=> pc[u] = "wait" /\ Connection(u) = e
      BY <1>1, <1>2, <1>4
    <3>2. e \notin gaveUp /\ config[e] # "none" /\ up'[e] = up[e] /\ down'[e] = down[e]
      BY <1>2, <1>5, <1>6, <2>2
    <3> QED BY <1>2, <1>3, <3>1, <3>2, AskerStays DEF IInv
  <2> QED BY <2>1, <2>2
<1>12. OneExchange'
  <2> SUFFICES ASSUME Profiled, Main \notin gaveUp' PROVE Nothing(Main)'
    BY <1>2, <1>3, NoThreadAssumption DEF OneExchange
  <2>1. d = Main
    BY <1>1 DEF Connection
  <2>2. Asked(Main, Config)
    BY <1>2, <1>5, <1>6 DEF IInv, OneExchange
  <2> QED BY <1>2, <1>6, <2>1, <2>2 DEF Asked, Nothing
<1>13. TakesOwn'
  BY <1>2, <1>3, <1>6, <1>7, AnswersStay DEF IInv
<1> QED BY <1>3, <1>7, <1>8, <1>9, <1>10, <1>11, <1>12, <1>13 DEF IInv

LEMMA NotifyStep == ASSUME IInv, NEW t \in Thread, Notify(t) PROVE IInv'
<1>1. PICK d \in Device : d = Connection(t)
  BY ConnectionIsDevice DEF IInv, TypeOK
<1> PICK r : r = [kind |-> kind[t], of |-> t, nr |-> made[t] + 1]
  OBVIOUS
<1>2. /\ pc[t] = "notify" /\ kind[t] # "none" /\ pc' = [pc EXCEPT ![t] = "wait"]
      /\ made' = [made EXCEPT ![t] = @ + 1] /\ up' = [up EXCEPT ![d] = Append(@, r)]
      /\ IF Profiled THEN mutex = NoThread /\ mutex' = t ELSE mutex' = mutex
      /\ UNCHANGED <<tool, deviceVars>> /\ UNCHANGED <<announced, users>>
      /\ UNCHANGED <<kind, outcome, config, down, gaveUp>>
  BY <1>1 DEF Notify, Entered, Locked, Sent, ghostVars
<1>3. /\ Profiled' = Profiled /\ DevicesOK' /\ NumbersOwn'
      /\ \A u \in Thread : Connection(u)' = Connection(u) /\ Connection(u) \in Device
      /\ (\A u \in Thread : Active(u)' => Active(u)) => Settled'
  BY <1>2, ExchangeKeepsDevices
<1>4. /\ \A u \in Thread : pc'[u] = IF u = t THEN "wait" ELSE pc[u]
      /\ \A u \in Thread : u # t => made'[u] = made[u]
      /\ made'[t] = made[t] + 1 /\ made' \in [Thread -> Nat]
      /\ pc' \in [Thread -> {"idle", "getConfig", "waitConfig", "notify", "wait"}]
  BY <1>2 DEF IInv, TypeOK, InteractOK
<1>5. r \in Message /\ r # Config /\ Request(t)' = r
  <2>1. kind[t] \in RequestKind /\ kind[t] # "config" /\ made[t] + 1 \in Nat
    BY <1>2, KindAssumption DEF IInv, TypeOK, InteractOK, RequestKind
  <2>2. r \in [kind : RequestKind, of : Thread, nr : Nat] /\ r.kind = kind[t]
    BY <2>1
  <2> QED BY <1>2, <1>4, <2>1, <2>2 DEF Message, Config, Request
<1>6. up[d] \in Seq(Message)
  BY DEF IInv, TypeOK, InteractOK
<1>7. /\ Append(up[d], r) \in Seq(Message)
      /\ Quiet(up[d]) => Only(Append(up[d], r), r)
      /\ NoConfig(up[d]) => NoConfig(Append(up[d], r))
  BY <1>5, <1>6, AppendKeeps
<1>8. /\ up' \in [Device -> Seq(Message)] /\ up'[d] = Append(up[d], r)
      /\ \A e \in Device : e # d => up'[e] = up[e]
  BY <1>2, <1>7 DEF IInv, TypeOK, InteractOK
<1>9. TypeOK'
  BY <1>2, <1>3, <1>4, <1>8 DEF IInv, TypeOK, InteractOK
<1>10. Settled'
  BY <1>2, <1>3, <1>4 DEF Active
<1>11. config[d] # "none" /\ ~(mutex = t)
  BY <1>1, <1>2 DEF IInv, LockHeld
<1>12. LockHeld'
  <2>1. \A u \in Thread : Profiled => pc[u] # "waitConfig" /\ pc[u] # "wait"
    BY <1>2, NoThreadAssumption DEF IInv, LockHeld
  <2> QED BY <1>1, <1>2, <1>3, <1>4, <1>11, <2>1 DEF IInv, LockHeld
<1>13. ConfigFirst'
  <2> SUFFICES ASSUME ~Profiled, NEW e \in Device
               PROVE  /\ NoConfig(up'[e])
                      /\ config[e] = "none" =>
                           /\ Quiet(up'[e])
                           /\ down[e] = IF e \in announced THEN <<Config>> ELSE <<>>
                      /\ config[e] # "none" /\ e \notin gaveUp =>
                           e \in announced /\ NoConfig(down[e])
    BY <1>2, <1>3 DEF ConfigFirst
  <2>1. CASE e = d
    BY <1>7, <1>8, <1>11, <2>1 DEF IInv, ConfigFirst
  <2>2. CASE e # d
    BY <1>8, <2>2 DEF IInv, ConfigFirst
  <2> QED BY <2>1, <2>2
<1>14. OneAsker'
  <2> SUFFICES ASSUME ~Profiled, NEW e \in Device, NEW u \in Thread, e \notin gaveUp,
                      config[e] # "none", users[e] \subseteq {u}
               PROVE  IF pc'[u] = "wait" /\ Connection(u)' = e THEN Asked(e, Request(u))'
                      ELSE Nothing(e)'
    BY <1>2, <1>3 DEF OneAsker
  <2>1. CASE e = d
    <3>1. t \in users[d]
      <4>1. Active(t)
        BY <1>2 DEF Active
      <4> QED BY <1>1, <4>1 DEF IInv, Settled, Connection, Local, Answered
    <3>2. u = t
      BY <2>1, <3>1
    <3>3. Nothing(d)
      BY <1>2, <2>1, <3>2 DEF IInv, OneAsker
    <3>4. Asked(d, Request(t))'
      BY <1>2, <1>5, <1>7, <1>8, <3>3 DEF Nothing, Asked
    <3> QED BY <1>1, <1>3, <1>4, <2>1, <3>2, <3>4
  <2>2. CASE e # d
    <3>1. pc'[u] = "wait" /\ Connection(u) = e <=> pc[u] = "wait" /\ Connection(u) = e
      BY <1>1, <1>4, <2>2
    <3>2. pc[u] = "wait" => kind'[u] = kind[u] /\ made'[u] = made[u]
      BY <1>2, <1>4
    <3> QED BY <1>2, <1>3, <1>8, <2>2, <3>1, <3>2, AskerStays DEF IInv
  <2> QED BY <2>1, <2>2
<1>15. OneExchange'
  <2> SUFFICES ASSUME Profiled, Main \notin gaveUp PROVE Asked(Main, Request(t))'
    BY <1>2, <1>3, <1>4, NoThreadAssumption DEF OneExchange
  <2>1. d = Main /\ Nothing(Main)
    BY <1>1, <1>2 DEF Connection, IInv, OneExchange
  <2> QED BY <1>2, <1>5, <1>7, <1>8, <2>1 DEF Nothing, Asked
<1>16. TakesOwn'
  BY <1>2, <1>3, <1>9, AnswersStay DEF IInv
<1> QED BY <1>3, <1>9, <1>10, <1>12, <1>13, <1>14, <1>15, <1>16 DEF IInv

\* What Wait finds is the answer to the thread's own request, or something else than
\* the configuration.
LEMMA TakenIsOwn ==
    ASSUME IInv, NEW t \in Thread, TakeAnswer(t), Connection(t) \notin gaveUp
    PROVE  /\ outcome'[t] # "config"
           /\ Profiled \/ Alone(t) => outcome'[t] = "own"
<1>1. PICK d \in Device : d = Connection(t)
  BY ConnectionIsDevice DEF IInv, TypeOK
<1>2. pc[t] = "wait" /\ down[d] # <<>> /\ outcome'[t] = Taken(t, Head(down[d]))
  BY <1>1 DEF TakeAnswer, IInv, TypeOK, InteractOK
<1>3. Request(t) # Config /\ Request(t).kind = kind[t] /\ Request(t).of = t
      /\ Request(t).nr = made[t]
  BY <1>2, RequestIsMessage DEF IInv, LockHeld
<1>4. Taken(t, Request(t)) = "own"
  BY <1>3 DEF Taken
<1>5. CASE Profiled
  <2>1. mutex = t /\ d = Main
    BY <1>1, <1>2, <1>5 DEF IInv, LockHeld, Connection
  <2>2. Asked(d, Request(t))
    BY <1>1, <1>2, <1>5, <2>1 DEF IInv, OneExchange
  <2>3. down[d] = <<Request(t)>>
    BY <1>2, <2>2 DEF Asked
  <2>4. Head(down[d]) = Request(t)
    BY <2>3
  <2> QED BY <1>2, <1>4, <2>4
<1>6. CASE ~Profiled
  <2>1. config[d] # "none"
    BY <1>1, <1>2 DEF IInv, LockHeld
  <2>2. NoConfig(down[d]) /\ down[d] \in Seq(Message)
    BY <1>1, <1>6, <2>1 DEF IInv, ConfigFirst, TypeOK, InteractOK
  <2>3. Head(down[d]) # Config
    BY <1>2, <2>2, TailKeeps
  <2>4. outcome'[t] # "config"
    BY <1>2, <2>3 DEF Taken
  <2>5. ASSUME Alone(t) PROVE outcome'[t] = "own"
    <3>1. Asked(d, Request(t))
      BY <1>1, <1>2, <1>6, <2>1, <2>5 DEF IInv, OneAsker, Alone
    <3>2. down[d] = <<Request(t)>>
      BY <1>2, <3>1 DEF Asked
    <3>3. Head(down[d]) = Request(t)
      BY <3>2
    <3> QED BY <1>2, <1>4, <3>3
  <2> QED BY <1>6, <2>4, <2>5
<1> QED BY <1>5, <1>6

LEMMA TakeAnswerStep ==
    ASSUME IInv, NEW t \in Thread, TakeAnswer(t) \/ AnswerTimesOut(t)
    PROVE  IInv'
<1>1. PICK d \in Device : d = Connection(t)
  BY ConnectionIsDevice DEF IInv, TypeOK
<1>2. /\ pc[t] = "wait" /\ pc' = [pc EXCEPT ![t] = "idle"]
      /\ kind' = [kind EXCEPT ![t] = "none"]
      /\ mutex' = IF Profiled THEN NoThread ELSE mutex
      /\ UNCHANGED <<tool, deviceVars>> /\ UNCHANGED <<announced, users>>
      /\ UNCHANGED <<made, config, up>>
      /\ \/ /\ down[d] # <<>> /\ down' = [down EXCEPT ![d] = <<>>] /\ gaveUp' = gaveUp
            /\ outcome' = [outcome EXCEPT ![t] = Taken(t, Head(down[d]))]
         \/ /\ down' = down /\ gaveUp' = gaveUp \cup {d}
            /\ outcome' = [outcome EXCEPT ![t] = "timeout"]
  BY <1>1 DEF TakeAnswer, AnswerTimesOut, Left, ghostVars, serverVars
<1>3. /\ Profiled' = Profiled /\ DevicesOK' /\ NumbersOwn'
      /\ \A u \in Thread : Connection(u)' = Connection(u) /\ Connection(u) \in Device
      /\ (\A u \in Thread : Active(u)' => Active(u)) => Settled'
  BY <1>2, ExchangeKeepsDevices
<1>4. /\ \A u \in Thread : pc'[u] = IF u = t THEN "idle" ELSE pc[u]
      /\ \A u \in Thread : u # t => kind'[u] = kind[u] /\ outcome'[u] = outcome[u]
      /\ pc' \in [Thread -> {"idle", "getConfig", "waitConfig", "notify", "wait"}]
      /\ kind' \in [Thread -> RequestKind \cup {"none"}]
  BY <1>2 DEF IInv, TypeOK, InteractOK
<1>5. /\ down' \in [Device -> Seq(Message)] /\ gaveUp' \subseteq Device
      /\ gaveUp \subseteq gaveUp'
      /\ \A e \in Device : e # d => down'[e] = down[e]
      /\ d \notin gaveUp' => down[d] # <<>> /\ down'[d] = <<>>
  <2>1. <<>> \in Seq(Message)
    OBVIOUS
  <2> QED BY <1>2, <2>1 DEF IInv, TypeOK, InteractOK
<1>6. TypeOK'
  <2>1. \A m : Taken(t, m) \in {"config", "mismatch", "own", "other"}
    BY DEF Taken
  <2>2. outcome' \in [Thread -> {"none", "config", "mismatch", "own", "other", "timeout"}]
    <3>1. outcome \in [Thread -> {"none", "config", "mismatch", "own", "other", "timeout"}]
      BY DEF IInv, TypeOK, InteractOK
    <3>2. PICK v \in {"config", "mismatch", "own", "other", "timeout"} :
             outcome' = [outcome EXCEPT ![t] = v]
      BY <1>2, <2>1
    <3> QED BY <3>1, <3>2
  <2> QED BY <1>2, <1>3, <1>4, <1>5, <2>2 DEF IInv, TypeOK, InteractOK
<1>7. Settled'
  BY <1>2, <1>3, <1>4 DEF Active
<1>8. LockHeld'
  <2>1. \A u \in Thread : u # t => ~(Profiled /\ (pc[u] = "waitConfig" \/ pc[u] = "wait"))
    BY <1>2 DEF IInv, LockHeld
  <2>2. ~Profiled => mutex # t
    BY <1>2 DEF IInv, LockHeld
  <2> QED BY <1>2, <1>3, <1>4, <2>1, <2>2, NoThreadAssumption DEF IInv, LockHeld
<1>9. config[d] # "none"
  BY <1>1, <1>2 DEF IInv, LockHeld
<1>10. ConfigFirst'
  <2> SUFFICES ASSUME ~Profiled, NEW e \in Device
               PROVE  /\ NoConfig(up[e])
                      /\ config[e] = "none" =>
                           /\ Quiet(up[e])
                           /\ down'[e] = IF e \in announced THEN <<Config>> ELSE <<>>
                      /\ config[e] # "none" /\ e \notin gaveUp' =>
                           e \in announced /\ NoConfig(down'[e])
    BY <1>2, <1>3 DEF ConfigFirst
  <2>1. CASE e = d
    BY <1>5, <1>9, <2>1, EmptyIsQuiet DEF IInv, ConfigFirst
  <2>2. CASE e # d
    BY <1>5, <2>2 DEF IInv, ConfigFirst
  <2> QED BY <2>1, <2>2
<1>11. OneAsker'
  <2> SUFFICES ASSUME ~Profiled, NEW e \in Device, NEW u \in Thread, e \notin gaveUp',
                      config[e] # "none", users[e] \subseteq {u}
               PROVE  IF pc'[u] = "wait" /\ Connection(u)' = e THEN Asked(e, Request(u))'
                      ELSE Nothing(e)'
    BY <1>2, <1>3 DEF OneAsker
  <2>1. CASE e = d
    <3>1. t \in users[d]
      <4>1. Active(t)
        BY <1>2 DEF Active
      <4> QED BY <1>1, <4>1 DEF IInv, Settled, Connection, Local, Answered
    <3>2. u = t
      BY <2>1, <3>1
    <3>3. Asked(d, Request(t)) /\ down[d] # <<>> /\ down'[d] = <<>>
      BY <1>1, <1>2, <1>5, <1>9, <2>1, <3>2 DEF IInv, OneAsker
    <3> QED BY <1>2, <1>4, <2>1, <3>2, <3>3 DEF Asked, Nothing
  <2>2. CASE e # d
    <3>1. pc'[u] = "wait" /\ Connection(u) = e <=> pc[u] = "wait" /\ Connection(u) = e
      BY <1>1, <1>4, <2>2
    <3>2. pc[u] = "wait" /\ Connection(u) = e => kind'[u] = kind[u] /\ made'[u] = made[u]
      BY <1>1, <1>2, <1>4, <2>2
    <3>3. e \notin gaveUp /\ up'[e] = up[e] /\ down'[e] = down[e]
      BY <1>2, <1>5, <2>2
    <3> QED BY <1>3, <3>1, <3>2, <3>3, AskerStays DEF IInv
  <2> QED BY <2>1, <2>2
<1>12. OneExchange'
  <2> SUFFICES ASSUME Profiled, Main \notin gaveUp' PROVE Nothing(Main)'
    BY <1>2, <1>3, NoThreadAssumption DEF OneExchange
  <2>1. d = Main /\ mutex = t
    BY <1>1, <1>2 DEF Connection, IInv, LockHeld
  <2>2. Asked(Main, Request(t))
    BY <1>2, <1>5, <2>1 DEF IInv, OneExchange
  <2> QED BY <1>2, <1>5, <2>1, <2>2 DEF Asked, Nothing
<1>13. TakesOwn'
  <2> SUFFICES ASSUME NEW u \in Thread, Connection(u) \notin gaveUp'
               PROVE  /\ outcome'[u] # "config"
                      /\ Profiled \/ Alone(u) => outcome'[u] \in {"none", "own"}
    BY <1>2, <1>3 DEF TakesOwn, Alone
  <2>1. CASE u = t
    <3>1. TakeAnswer(t) /\ Connection(t) \notin gaveUp
      BY <1>1, <1>5, <2>1 DEF AnswerTimesOut
    <3> QED BY <2>1, <3>1, TakenIsOwn
  <2>2. CASE u # t
    BY <1>4, <1>5, <2>2 DEF IInv, TakesOwn
  <2> QED BY <2>1, <2>2
<1> QED BY <1>3, <1>6, <1>7, <1>8, <1>10, <1>11, <1>12, <1>13 DEF IInv

-----------------------------------------------------------------------------
(* The steps of the whole.                                                  *)

LEMMA InitIInv == Init => IInv
<1> SUFFICES ASSUME InteractInit PROVE IInv
  BY DEF Init
<1>1. DevicesOK /\ NumbersOwn
  BY DevicesInitOK DEF InteractInit
<1>2. /\ \A t \in Thread : pc[t] = "idle" /\ outcome[t] = "none"
      /\ \A d \in Device : config[d] = "none" /\ up[d] = <<>> /\ down[d] = <<>>
      /\ announced = {} /\ mutex = NoThread /\ Main \in Device
  BY KindAssumption DEF InteractInit
<1>3. InteractOK
  <2>1. <<>> \in Seq(Message)
    OBVIOUS
  <2> QED BY <2>1 DEF InteractInit, InteractOK
<1>4. Settled /\ LockHeld
  BY <1>2, NoThreadAssumption DEF Settled, Active, LockHeld
<1>5. ConfigFirst
  BY <1>2, EmptyIsQuiet DEF ConfigFirst
<1>6. OneAsker /\ OneExchange
  BY <1>2, EmptyIsQuiet, NoThreadAssumption DEF OneAsker, OneExchange, Nothing
<1>7. TakesOwn
  BY <1>2 DEF TakesOwn
<1> QED BY <1>1, <1>3, <1>4, <1>5, <1>6, <1>7 DEF IInv, TypeOK

\* The launches and the sender touch the state of the exchanges only by making some.
LEMMA EveryStep == ASSUME TypeOK, [Next]_vars PROVE InteractStep \/ UNCHANGED interactVars
<1>1. CASE UNCHANGED vars
  BY <1>1 DEF vars
<1>2. ASSUME NEW d \in Device, Server(d) PROVE InteractStep
  BY <1>2 DEF Server, InteractStep
<1>3. ASSUME NEW t \in Thread, Exchange(t) PROVE InteractStep
  BY <1>3 DEF Exchange, Notifies, ReadStep, InteractStep
<1>4. ASSUME NEW t \in Thread, Asks(t) PROVE InteractStep \/ UNCHANGED interactVars
  <2>1. PICK k \in KindsOf[tool][t] : Call(t, k)
    BY <1>4 DEF Asks
  <2>2. k \in RequestKind
    BY <2>1, KindAssumption DEF RequestKind, TypeOK, DevicesOK
  <2> QED BY <2>1, <2>2 DEF InteractStep
<1>5. ASSUME NEW t \in Thread, Uses(t) PROVE InteractStep
  BY <1>5 DEF Uses, DeviceCall, InteractStep
<1>6. \A k \in {"DATA_PATH", "COLLECT_START", "PROF_FINISH"} : k \in RequestKind
  BY DEF RequestKind
<1>7. ASSUME NEW t \in Thread, Goes(t) PROVE InteractStep \/ UNCHANGED interactVars
  BY <1>6, <1>7 DEF Goes, PathAnswered, InitSelected, StartKernel, Synchronize, InitUnselected,
     InitFails, Announced, StopLogs, Drained, Collect, InteractStep
<1>8. ASSUME NEW t \in Launcher, Begins(t) PROVE InteractStep \/ UNCHANGED interactVars
  <2>1. t \in Thread
    BY SimulatorAssumption
  <2> QED BY <1>6, <1>8, <2>1 DEF Begins, BeginLaunch, InteractStep
<1>9. ASSUME NEW id \in running, Log(id) \/ EndKernel(id) PROVE UNCHANGED interactVars
  BY <1>9 DEF Log, EndKernel
<1>10. ASSUME Sender PROVE UNCHANGED interactVars
  BY <1>10 DEF Sender, Pop, Send
<1> QED BY <1>1, <1>2, <1>3, <1>4, <1>5, <1>7, <1>8, <1>9, <1>10 DEF Next

LEMMA StepIInv == IInv /\ [Next]_vars => IInv'
<1> SUFFICES ASSUME IInv, [Next]_vars PROVE IInv'
  OBVIOUS
<1>1. ASSUME NEW d \in Device, ConnectHook(d) \/ Answer(d) PROVE IInv'
  BY <1>1, ConnectHookStep, AnswerStep
<1>2. ASSUME NEW t \in Thread, FindConfig(t) \/ LockConfig(t) PROVE IInv'
  BY <1>2, FindConfigStep, LockConfigStep
<1>3. ASSUME NEW t \in Thread, TakeConfig(t) \/ ConfigTimesOut(t) PROVE IInv'
  BY <1>3, TakeConfigStep
<1>4. ASSUME NEW t \in Thread, Notify(t) PROVE IInv'
  BY <1>4, NotifyStep
<1>5. ASSUME NEW t \in Thread, TakeAnswer(t) \/ AnswerTimesOut(t) PROVE IInv'
  BY <1>5, TakeAnswerStep
<1>6. ASSUME NEW t \in Thread, Use(t) \/ Used(t) PROVE IInv'
  BY <1>6, UseStep
<1>7. ASSUME NEW t \in Thread, NEW k \in RequestKind, Call(t, k) PROVE IInv'
  BY <1>7, CallStep
<1>8. ASSUME NEW t \in Thread, NEW d \in Device, NEW ok \in BOOLEAN,
             (\E h \in SetHook : SetDevice(t, h, d, ok)) \/ ResetDevice(t, d, ok)
      PROVE  IInv'
  BY <1>8, SetDeviceStep, ResetDeviceStep
<1>9. CASE UNCHANGED interactVars
  <2>1. UNCHANGED <<tool, deviceVars>>
    BY <1>9 DEF interactVars
  <2>2. /\ Profiled' = Profiled /\ \A u \in Thread : Connection(u)' = Connection(u)
        /\ DevicesOK' /\ NumbersOwn' /\ driver' = driver /\ threadDevice' = threadDevice
    BY <2>1, SameDevices DEF IInv, TypeOK
  <2>3. UNCHANGED <<pc, kind, made, outcome, mutex, config, announced, up, down, users, gaveUp>>
    BY <1>9 DEF interactVars, threadVars, configVars, serverVars, ghostVars
  <2>4. TypeOK' /\ Settled' /\ LockHeld'
    BY <2>2, <2>3 DEF IInv, TypeOK, InteractOK, Settled, Active, LockHeld
  <2>5. OneAsker' /\ OneExchange' /\ ConfigFirst'
    BY <2>2, <2>3, ConnectionsStay DEF IInv
  <2>6. TakesOwn'
    BY <2>2, <2>3, <2>4, AnswersStay DEF IInv
  <2> QED BY <2>2, <2>4, <2>5, <2>6 DEF IInv
<1>10. InteractStep \/ UNCHANGED interactVars
  BY EveryStep DEF IInv
<1> QED BY <1>1, <1>2, <1>3, <1>4, <1>5, <1>6, <1>7, <1>8, <1>9, <1>10 DEF InteractStep

-----------------------------------------------------------------------------
(* The theorems.                                                            *)

\* The invariant holds whatever the threads call, and in whatever order the server
\* gets to it.
THEOREM Inductive == Spec => []IInv
BY InitIInv, StepIInv, PTL DEF Spec

\* Devices and exchanges are in the states the code knows, and only messages of the
\* protocol are on the connections.
THEOREM TypeCorrect == Spec => []TypeOK
<1>1. IInv => TypeOK
  BY DEF IInv
<1> QED BY <1>1, Inductive, PTL

\* Threads of different devices use different LaunchManagers, for any number of
\* threads and devices and any sequence of device calls, as long as no call misplaced
\* a number (GetDeviceId, LaunchManager::GetOrCreateInstance).
THEOREM ManagersStayApart == Spec => []IdsApart
<1>1. ASSUME IInv PROVE IdsApart
  <2> SUFFICES ASSUME misplaced = {}, NEW t \in Thread, NEW u \in Thread,
                      driver[t] # NoDevice, driver[u] # NoDevice, driver[t] # driver[u]
               PROVE  ManagerOf(t) # ManagerOf(u)
    BY DEF IdsApart
  <2>1. ~Simulated
    BY <1>1 DEF IInv, NumbersOwn
  <2>2. \A v \in {t, u} : ManagerOf(v) = driver[v]
    BY <1>1, <2>1 DEF IInv, NumbersOwn, ManagerOf, Local, Answered
  <2> QED BY <2>2
<1>2. IInv => IdsApart
  BY <1>1
<1> QED BY <1>2, Inductive, PTL

LEMMA DefaultStep == IInv /\ DefaultAfterTimeout /\ [Next]_vars => DefaultAfterTimeout'
<1> SUFFICES ASSUME IInv, DefaultAfterTimeout, [Next]_vars PROVE DefaultAfterTimeout'
  OBVIOUS
<1>1. CASE config' = config /\ gaveUp \subseteq gaveUp'
  BY <1>1 DEF DefaultAfterTimeout
<1>2. ASSUME NEW t \in Thread, ConfigTimesOut(t) PROVE DefaultAfterTimeout'
  BY <1>2, ConnectionIsDevice DEF IInv, TypeOK, InteractOK, DefaultAfterTimeout, ConfigTimesOut,
     StoreConfig
<1>3. ASSUME NEW t \in Thread, TakeConfig(t) PROVE DefaultAfterTimeout'
  <2>1. PICK d \in Device : d = Connection(t)
    BY ConnectionIsDevice DEF IInv, TypeOK
  <2>2. /\ pc[t] = "waitConfig" /\ down[d] # <<>> /\ gaveUp' = gaveUp
        /\ config' = [config EXCEPT ![d] = IF down[d] = <<Config>> THEN "received" ELSE "default"]
    BY <1>3, <2>1 DEF TakeConfig, StoreConfig, ghostVars
  <2>3. mutex = t /\ config[d] = "none"
    BY <2>1, <2>2 DEF IInv, LockHeld
  <2>4. ASSUME d \notin gaveUp PROVE down[d] = <<Config>>
    <3>1. CASE Profiled
      <4>1. d = Main
        BY <2>1, <3>1 DEF Connection
      <4> QED BY <2>2, <2>3, <2>4, <3>1, <4>1 DEF IInv, OneExchange, Asked
    <3>2. CASE ~Profiled
      BY <2>2, <2>3, <3>2 DEF IInv, ConfigFirst
    <3> QED BY <3>1, <3>2
  <2> QED BY <2>2, <2>4 DEF IInv, TypeOK, InteractOK, DefaultAfterTimeout
<1>4. CASE InteractStep
  <2>1. ASSUME NEW d \in Device, ConnectHook(d) \/ Answer(d)
        PROVE  config' = config /\ gaveUp' = gaveUp
    BY <2>1 DEF ConnectHook, Answer, configVars, ghostVars
  <2>2. ASSUME NEW t \in Thread, \/ FindConfig(t) \/ LockConfig(t) \/ Notify(t) \/ TakeAnswer(t)
                                 \/ AnswerTimesOut(t) \/ Use(t) \/ Used(t)
        PROVE  config' = config /\ gaveUp \subseteq gaveUp'
    BY <2>2 DEF FindConfig, LockConfig, Notify, TakeAnswer, AnswerTimesOut, Use, Used, configVars,
       ghostVars
  <2>3. ASSUME NEW t \in Thread, NEW k \in RequestKind, Call(t, k)
        PROVE  config' = config /\ gaveUp' = gaveUp
    BY <2>3 DEF Call, configVars
  <2>4. ASSUME NEW t \in Thread, NEW d \in Device, NEW ok \in BOOLEAN,
               (\E h \in SetHook : SetDevice(t, h, d, ok)) \/ ResetDevice(t, d, ok)
        PROVE  config' = config /\ gaveUp' = gaveUp
    BY <2>4 DEF SetDevice, ResetDevice, configVars, ghostVars
  <2> QED BY <1>1, <1>2, <1>3, <1>4, <2>1, <2>2, <2>3, <2>4 DEF InteractStep
<1>5. CASE UNCHANGED interactVars
  BY <1>1, <1>5 DEF interactVars, configVars, ghostVars
<1> QED BY <1>4, <1>5, EveryStep DEF IInv

\* Whoever waits takes what it waits for, as long as nobody on the connection gave
\* up: no exchange takes another thread's answer, under the profiler whoever uses the
\* connection, under the sanitizer if a thread has it to itself; nobody takes the
\* configuration for an answer, nor an answer for the configuration.
THEOREM AnswersAreOwn == Spec => []OwnAnswer
<1>1. IInv => TakesOwn
  BY DEF IInv
<1>2. Init => DefaultAfterTimeout
  BY DEF Init, InteractInit, DefaultAfterTimeout
<1>3. TakesOwn /\ DefaultAfterTimeout => OwnAnswer
  BY DEF OwnAnswer
<1> QED BY <1>1, <1>2, <1>3, DefaultStep, Inductive, PTL DEF Spec
-----------------------------------------------------------------------------
(* The launches under the simulator, as long as none has been disturbed.    *)

Stage == {"none", "path", "init", "announce", "launch", "run", "sync", "drain", "stop"}

\* What a thread in one of these stages has asked, or is about to ask.
KindIn(s) ==
    CASE s = "path" -> "DATA_PATH"
      [] s = "announce" -> "COLLECT_START"
      [] s = "stop" -> "PROF_FINISH"
      [] OTHER -> "none"

\* The request is on its way.
HasAsked(t) == pc[t] \in {"wait", "idle"}

StageOK ==
    /\ stage \in [Thread -> Stage] /\ queue \in Seq(emitted)
    /\ held # <<>> => held = <<Head(held)>>
    /\ begun \in [Thread -> Nat] /\ IsFiniteSet(Begun) /\ Cardinality(Begun) <= Launches
    /\ \A t \in Thread :
          /\ begun[t] <= Cardinality(Begun)
          /\ stage[t] # "none" => Simulated /\ t \in Launcher /\ begun[t] > 0
          /\ Simulated => kind[t] = IF pc[t] = "idle" THEN "none" ELSE KindIn(stage[t])

\* The tool files what it is sent under the launch of t; it does so no longer.
Open(t) ==
    /\ mode = "stream" /\ t \in selected
    /\ \/ stage[t] = "announce" /\ HasAsked(t)
       \/ stage[t] \in {"launch", "run", "sync", "drain"}
       \/ stage[t] = "stop" /\ ~HasAsked(t)
Closed(t) == stage[t] = "stop" /\ HasAsked(t)

Queued == {queue[i] : i \in DOMAIN queue}
AtMostOne(S) == \A x, y \in S : x = y

\* The logs of t's launch that are not filed under it, and those of others that are.
Unfiled(t) == Missing(Id(t))
Strays(t) == Foreign(Id(t))

\* While the tool files under the launch of t, each of its logs is queued, held or
\* filed; what is filed and another's is what was held when that began.
Delivers(t) ==
    /\ Open(t) => /\ window = Id(t)
                  /\ \A log \in Unfiled(t) : log \in Queued \/ held = <<log>>
                  /\ held # <<>> /\ Head(held).of # Id(t) => Strays(t) = {}
    /\ ~Open(t) => window = NoLaunch
    /\ AtMostOne(Strays(t))
    /\ Closed(t) /\ t \in selected => AtMostOne(Unfiled(t))

\* The logs and the kernel on the way are those of t's launch.
Owns(t) ==
    /\ running \subseteq IF stage[t] = "run" THEN {Id(t)} ELSE {}
    /\ queue # <<>> => enabled /\ mode = "stream" /\ stage[t] \in {"run", "sync", "drain"}
    /\ files # {} => mode # "stream" /\ stage[t] \in {"run", "sync"}
    /\ \A log \in Queued \cup files : log.of = Id(t)
    /\ mode # "stream" => \A log \in emitted : log.of = Id(t) => log \in files

Phase(t) ==
    /\ Id(t) \notin done
    /\ mode = "stream" /\ t \in selected /\ stage[t] \notin {"path", "init"} => enabled
    /\ stage[t] = "announce" => t \in selected
    /\ stage[t] \in {"drain", "stop"} => mode = "stream"
    /\ stage[t] \in {"path", "init", "announce", "launch"} => \A log \in emitted : log.of # Id(t)
    /\ \A x \in filed : x[1] = Id(t) => Open(t) \/ Closed(t)
    /\ Delivers(t) /\ Owns(t)

Single(t) == \A u \in Thread : stage[u] # "none" => u = t

\* Nobody launches anything.
Rests ==
    (\A t \in Thread : stage[t] = "none") =>
        running = {} /\ queue = <<>> /\ files = {} /\ window = NoLaunch

\* Nothing is known of launches to come.
Known ==
    /\ done \subseteq Begun
    /\ \A log \in emitted : log.of \in Begun
    /\ \A x \in filed : x[1] \in Begun

\* The launches that are over.
Complete ==
    /\ mode # "stream" => held = <<>>
    /\ \A id \in done : /\ AtMostOne(Missing(id)) /\ AtMostOne(Foreign(id))
                        /\ mode # "stream" => Missing(id) = {} /\ Foreign(id) = {}

Course ==
    /\ \A t \in Thread : stage[t] # "none" => Single(t) /\ Phase(t)
    /\ Rests /\ Known /\ Complete

LaunchInv == StageOK /\ (~disturbed => Course)

LEMMA SameLogs ==
    ASSUME UNCHANGED <<begun, emitted, filed>>
    PROVE  /\ \A t : Id(t)' = Id(t) /\ Unfiled(t)' = Unfiled(t) /\ Strays(t)' = Strays(t)
           /\ Begun' = Begun
           /\ \A id : Missing(id)' = Missing(id) /\ Foreign(id)' = Foreign(id)
BY DEF Id, Begun, Unfiled, Strays, Missing, Foreign

\* A thread in a launch goes on to another stage.
LEMMA StageStep ==
    ASSUME TypeOK, StageOK, NEW t \in Thread, NEW s \in Stage, stage[t] # "none", To(t, s),
           UNCHANGED <<begun, queue, emitted, held>>,
           \/ UNCHANGED interactVars /\ (pc[t] = "idle" \/ KindIn(s) = KindIn(stage[t]))
           \/ Call(t, KindIn(s))
    PROVE  StageOK'
<1>1. /\ stage' \in [Thread -> Stage] /\ stage'[t] = s
      /\ \A u \in Thread : u # t => stage'[u] = stage[u]
  BY DEF StageOK, To
<1>2. Begun' = Begun
  BY DEF Begun
<1>3. Simulated' = Simulated
  BY DEF Call, interactVars, Simulated
<1>4. \A u \in Thread :
         kind[u] = (IF pc[u] = "idle" THEN "none" ELSE KindIn(stage[u])) =>
            kind'[u] = (IF pc'[u] = "idle" THEN "none" ELSE KindIn(stage'[u]))
  <2>1. CASE UNCHANGED interactVars /\ (pc[t] = "idle" \/ KindIn(s) = KindIn(stage[t]))
    <3>1. pc' = pc /\ kind' = kind
      BY <2>1 DEF interactVars, threadVars
    <3> QED BY <1>1, <2>1, <3>1
  <2>2. CASE Call(t, KindIn(s))
    <3>1. /\ \A u \in Thread : u # t => pc'[u] = pc[u] /\ kind'[u] = kind[u]
          /\ pc'[t] = "getConfig" /\ kind'[t] = KindIn(s)
      BY <2>2 DEF Call, FirstStep, TypeOK, InteractOK
    <3> QED BY <1>1, <3>1
  <2> QED BY <2>1, <2>2
<1>5. \A u \in Thread : stage'[u] # "none" => Simulated /\ u \in Launcher /\ begun[u] > 0
  BY <1>1 DEF StageOK
<1>6. \A u \in Thread : Simulated =>
         kind'[u] = IF pc'[u] = "idle" THEN "none" ELSE KindIn(stage'[u])
  BY <1>4 DEF StageOK
<1> HIDE DEF To
<1> QED BY <1>1, <1>2, <1>3, <1>5, <1>6 DEF StageOK

\* A thread in a launch is the only one: what is left to show is the phase it is in.
LEMMA CourseStays ==
    ASSUME Course, NEW t \in Thread, stage[t] # "none", stage'[t] # "none",
           \A u \in Thread : u # t => stage'[u] = stage[u],
           Known', Complete', Phase(t)'
    PROVE  Course'
<1>1. \A u \in Thread : stage'[u] # "none" => u = t
  BY DEF Course, Single
<1>2. Single(t)'
  BY <1>1 DEF Single
<1>3. Rests'
  BY DEF Rests
<1>4. ASSUME NEW u \in Thread, stage'[u] # "none" PROVE Single(u)' /\ Phase(u)'
  BY <1>1, <1>2, <1>4
<1> QED BY <1>3, <1>4 DEF Course

LEMMA CourseStep ==
    ASSUME Course, NEW t \in Thread, stage[t] # "none", stage'[t] # "none",
           \A u \in Thread : u # t => stage'[u] = stage[u],
           UNCHANGED <<mode, begun, emitted, filed, done, held>>, Phase(t)'
    PROVE  Course'
<1>1. Known' /\ Complete'
  BY SameLogs DEF Course, Known, Complete, AtMostOne
<1> QED BY <1>1, CourseStays

LEMMA MovesOn ==
    ASSUME TypeOK, LaunchInv, NEW t \in Thread, NEW s \in Stage \ {"none"}, stage[t] # "none", To(t, s),
           UNCHANGED <<mode, begun, queue, emitted, filed, done, held>>,
           \/ UNCHANGED interactVars /\ (pc[t] = "idle" \/ KindIn(s) = KindIn(stage[t]))
           \/ Call(t, KindIn(s)),
           ~disturbed' => ~disturbed,
           ~disturbed' /\ Phase(t) => Phase(t)'
    PROVE  LaunchInv'
<1>1. StageOK'
  BY StageStep DEF LaunchInv
<1>2. stage'[t] # "none" /\ \A u \in Thread : u # t => stage'[u] = stage[u]
  BY DEF LaunchInv, StageOK, To
<1>3. ASSUME ~disturbed' PROVE Course'
  <2>1. Course /\ Phase(t)'
    BY <1>3 DEF LaunchInv, Course
  <2> QED BY <1>2, <2>1, CourseStep
<1> QED BY <1>1, <1>3 DEF LaunchInv

LEMMA PathAnsweredStep ==
    ASSUME TypeOK, LaunchInv, NEW t \in Thread, NEW chosen \in BOOLEAN, PathAnswered(t, chosen)
    PROVE  LaunchInv'
<1>1. /\ stage[t] = "path" /\ pc[t] = "idle" /\ To(t, "init") /\ selected' \subseteq selected \cup {t}
      /\ UNCHANGED <<mode, begun, queue, emitted, filed, done, held>> /\ UNCHANGED interactVars
      /\ UNCHANGED <<enabled, window, running, files, disturbed>>
  BY DEF PathAnswered
<1>2. stage'[t] = "init"
  BY <1>1 DEF To, LaunchInv, StageOK
<1>3. ASSUME Phase(t) PROVE Phase(t)'
  <2>1. Delivers(t)' /\ Owns(t)'
    BY <1>1, <1>2, <1>3, SameLogs DEF Phase, Delivers, Owns, Open, Closed, Queued, AtMostOne
  <2> QED BY <1>1, <1>2, <1>3, <2>1, SameLogs DEF Phase, Open, Closed
<1> QED BY <1>1, <1>3, MovesOn DEF Stage

LEMMA InitLeavesOut ==
    ASSUME TypeOK, LaunchInv, NEW t \in Thread, InitUnselected(t) \/ InitFails(t)
    PROVE  LaunchInv'
<1>1. /\ stage[t] = "init" /\ To(t, "launch") /\ t \notin selected'
      /\ UNCHANGED <<mode, begun, queue, emitted, filed, done, held>> /\ UNCHANGED interactVars
      /\ UNCHANGED <<window, running, files, disturbed>>
  BY DEF InitUnselected, InitFails
<1>2. stage'[t] = "launch" /\ KindIn("launch") = KindIn("init")
  BY <1>1 DEF To, LaunchInv, StageOK, KindIn
<1>3. ASSUME Phase(t) PROVE Phase(t)'
  <2>1. Delivers(t)' /\ Owns(t)'
    BY <1>1, <1>2, <1>3, SameLogs DEF Phase, Delivers, Owns, Open, Closed, Queued, AtMostOne
  <2> QED BY <1>1, <1>2, <1>3, <2>1, SameLogs DEF Phase, Open, Closed
<1> QED BY <1>1, <1>2, <1>3, MovesOn DEF Stage

LEMMA InitSelectedStep ==
    ASSUME TypeOK, LaunchInv, NEW t \in Thread, NEW fits \in BOOLEAN, InitSelected(t, fits)
    PROVE  LaunchInv'
<1>1. PICK s \in {"announce", "launch"} :
         /\ s = IF mode # "files" /\ fits THEN "announce" ELSE "launch"
         /\ stage[t] = "init" /\ t \in selected /\ To(t, s) /\ enabled' = (enabled \/ mode = "stream")
         /\ disturbed' = (disturbed \/ ~fits)
         /\ UNCHANGED <<mode, begun, queue, emitted, filed, done, held>>
         /\ UNCHANGED <<selected, window, running, files>>
         /\ s = "announce" => Call(t, "COLLECT_START")
         /\ s = "launch" => UNCHANGED interactVars
  BY DEF InitSelected
<1>2. /\ stage'[t] = s /\ KindIn("launch") = KindIn("init") /\ KindIn("announce") = "COLLECT_START"
  BY <1>1 DEF To, LaunchInv, StageOK, KindIn
<1>3. s = "announce" => ~HasAsked(t)'
  BY <1>1 DEF Call, FirstStep, TypeOK, InteractOK, HasAsked
<1>4. ASSUME Phase(t), ~disturbed' PROVE Phase(t)'
  <2>1. mode = "stream" => s = "announce"
    BY <1>1, <1>4
  <2>2. ~Open(t) /\ ~Open(t)' /\ ~Closed(t) /\ ~Closed(t)'
    BY <1>1, <1>2, <1>3, <2>1 DEF Open, Closed
  <2>3. Delivers(t)' /\ Owns(t)'
    BY <1>1, <1>2, <1>4, <2>2, SameLogs DEF Phase, Delivers, Owns, Queued, AtMostOne
  <2> QED BY <1>1, <1>2, <1>4, <2>2, <2>3, SameLogs DEF Phase
<1> QED BY <1>1, <1>2, <1>4, MovesOn DEF Stage

LEMMA AnnouncedStep ==
    ASSUME TypeOK, LaunchInv, NEW t \in Thread, Announced(t)
    PROVE  LaunchInv'
<1>1. /\ stage[t] = "announce" /\ pc[t] = "idle" /\ To(t, "launch")
      /\ UNCHANGED <<mode, begun, queue, emitted, filed, done, held>> /\ UNCHANGED interactVars
      /\ UNCHANGED <<selected, enabled, window, running, files, disturbed>>
  BY DEF Announced
<1>2. stage'[t] = "launch"
  BY <1>1 DEF To, LaunchInv, StageOK
<1>3. Open(t)' = Open(t) /\ ~Closed(t) /\ ~Closed(t)'
  BY <1>1, <1>2 DEF Open, Closed, HasAsked
<1>4. ASSUME Phase(t) PROVE Phase(t)'
  <2>1. Delivers(t)' /\ Owns(t)'
    BY <1>1, <1>2, <1>3, <1>4, SameLogs DEF Phase, Delivers, Owns, Queued, AtMostOne
  <2> QED BY <1>1, <1>2, <1>3, <1>4, <2>1, SameLogs DEF Phase
<1> QED BY <1>1, <1>4, MovesOn DEF Stage

LEMMA StartKernelStep ==
    ASSUME TypeOK, LaunchInv, NEW t \in Thread, NEW ok \in BOOLEAN, StartKernel(t, ok)
    PROVE  LaunchInv'
<1>1. /\ stage[t] = "launch" /\ To(t, "run")
      /\ running' = IF ok THEN running \cup {Id(t)} ELSE running
      /\ UNCHANGED <<mode, begun, queue, emitted, filed, done, held>> /\ UNCHANGED interactVars
      /\ UNCHANGED <<selected, enabled, window, files, disturbed>>
  BY DEF StartKernel
<1>2. stage'[t] = "run" /\ KindIn("run") = KindIn("launch")
  BY <1>1 DEF To, LaunchInv, StageOK, KindIn
<1>3. Open(t)' = Open(t) /\ ~Closed(t) /\ ~Closed(t)'
  BY <1>1, <1>2 DEF Open, Closed, HasAsked
<1>4. ASSUME Phase(t) PROVE Phase(t)'
  <2>1. Delivers(t)' /\ Owns(t)'
    BY <1>1, <1>2, <1>3, <1>4, SameLogs DEF Phase, Delivers, Owns, Queued, AtMostOne
  <2> QED BY <1>1, <1>2, <1>3, <1>4, <2>1, SameLogs DEF Phase
<1> QED BY <1>1, <1>2, <1>4, MovesOn DEF Stage

LEMMA SynchronizeStep ==
    ASSUME TypeOK, LaunchInv, NEW t \in Thread, NEW ok \in BOOLEAN, Synchronize(t, ok)
    PROVE  LaunchInv'
<1>1. /\ stage[t] = "run" /\ (ok => Id(t) \notin running) /\ To(t, "sync")
      /\ disturbed' = (disturbed \/ ~ok)
      /\ UNCHANGED <<mode, begun, queue, emitted, filed, done, held>> /\ UNCHANGED interactVars
      /\ UNCHANGED <<selected, enabled, window, running, files>>
  BY DEF Synchronize
<1>2. stage'[t] = "sync" /\ KindIn("run") = KindIn("sync")
  BY <1>1 DEF To, LaunchInv, StageOK, KindIn
<1>3. Open(t)' = Open(t) /\ ~Closed(t) /\ ~Closed(t)'
  BY <1>1, <1>2 DEF Open, Closed, HasAsked
<1>4. ASSUME Phase(t), ~disturbed' PROVE Phase(t)'
  <2>1. running = {}
    BY <1>1, <1>4 DEF Phase, Owns
  <2>2. Delivers(t)' /\ Owns(t)'
    BY <1>1, <1>2, <1>3, <1>4, <2>1, SameLogs DEF Phase, Delivers, Owns, Queued, AtMostOne
  <2> QED BY <1>1, <1>2, <1>3, <1>4, <2>2, SameLogs DEF Phase
<1> QED BY <1>1, <1>2, <1>4, MovesOn DEF Stage

LEMMA StopLogsStep ==
    ASSUME TypeOK, LaunchInv, NEW t \in Thread, StopLogs(t)
    PROVE  LaunchInv'
<1>1. /\ stage[t] = "sync" /\ mode = "stream" /\ enabled /\ To(t, "drain")
      /\ UNCHANGED <<mode, begun, queue, emitted, filed, done, held>> /\ UNCHANGED interactVars
      /\ UNCHANGED <<selected, enabled, window, running, files, disturbed>>
  BY DEF StopLogs, StopsTransfer
<1>2. stage'[t] = "drain" /\ KindIn("drain") = KindIn("sync")
  BY <1>1 DEF To, LaunchInv, StageOK, KindIn
<1>3. Open(t)' = Open(t) /\ ~Closed(t) /\ ~Closed(t)'
  BY <1>1, <1>2 DEF Open, Closed, HasAsked
<1>4. ASSUME Phase(t) PROVE Phase(t)'
  <2>1. Delivers(t)' /\ Owns(t)'
    BY <1>1, <1>2, <1>3, <1>4, SameLogs DEF Phase, Delivers, Owns, Queued, AtMostOne
  <2> QED BY <1>1, <1>2, <1>3, <1>4, <2>1, SameLogs DEF Phase
<1> QED BY <1>1, <1>2, <1>4, MovesOn DEF Stage

LEMMA DrainedStep ==
    ASSUME TypeOK, LaunchInv, NEW t \in Thread, Drained(t)
    PROVE  LaunchInv'
<1>1. /\ stage[t] = "drain" /\ queue = <<>> /\ To(t, "stop") /\ Call(t, "PROF_FINISH")
      /\ UNCHANGED <<mode, begun, queue, emitted, filed, done, held>>
      /\ UNCHANGED <<selected, enabled, window, running, files, disturbed>>
  BY DEF Drained, SendSync
<1>2. stage'[t] = "stop" /\ KindIn("stop") = "PROF_FINISH"
  BY <1>1 DEF To, LaunchInv, StageOK, KindIn
<1>3. ~HasAsked(t)'
  BY <1>1 DEF Call, FirstStep, TypeOK, InteractOK, HasAsked
<1>4. Open(t)' = Open(t) /\ ~Closed(t) /\ ~Closed(t)'
  BY <1>1, <1>2, <1>3 DEF Open, Closed
<1>5. ASSUME Phase(t) PROVE Phase(t)'
  <2>1. Delivers(t)' /\ Owns(t)'
    BY <1>1, <1>2, <1>4, <1>5, SameLogs DEF Phase, Delivers, Owns, Queued, AtMostOne
  <2> QED BY <1>1, <1>2, <1>4, <1>5, <2>1, SameLogs DEF Phase
<1> QED BY <1>1, <1>2, <1>5, MovesOn DEF Stage

-----------------------------------------------------------------------------
(* The kernel and the sender.                                               *)

\* The launch a thread is in has begun, and is a launch.
LEMMA IdIsBegun ==
    ASSUME StageOK, NEW t \in Thread, stage[t] # "none"
    PROVE  Id(t) \in Begun /\ Id(t) # NoLaunch
<1>1. begun[t] \in 1 .. Launches /\ t \in Launcher
  <2>1. Cardinality(Begun) \in Nat
    BY FS_CardinalityType DEF StageOK
  <2> QED BY <2>1, SimulatorAssumption DEF StageOK
<1> QED BY <1>1, SimulatorAssumption DEF Id, Begun, Launch

\* What is on its way is so for a launch that a thread is in.
LEMMA SomebodyLaunches ==
    ASSUME Course, running # {} \/ queue # <<>> \/ files # {} \/ window # NoLaunch
    PROVE  \E t \in Thread : stage[t] # "none"
BY DEF Course, Rests

LEMMA EndKernelStep ==
    ASSUME LaunchInv, NEW id, EndKernel(id) PROVE LaunchInv'
<1>1. /\ id \in running /\ running' = running \ {id} /\ UNCHANGED interactVars
      /\ UNCHANGED <<mode, begun, queue, emitted, filed, done, held>>
      /\ UNCHANGED <<stage, selected, enabled, window, files, disturbed>>
  BY DEF EndKernel
<1>2. pc' = pc /\ kind' = kind /\ tool' = tool
  BY <1>1 DEF interactVars, threadVars
<1>3. StageOK'
  BY <1>1, <1>2, SameLogs DEF LaunchInv, StageOK, Simulated
<1>4. ASSUME ~disturbed PROVE Course'
  <2>1. Course
    BY <1>4 DEF LaunchInv
  <2>2. PICK t \in Thread : stage[t] # "none"
    BY <1>1, <2>1, SomebodyLaunches
  <2>3. Phase(t)
    BY <2>1, <2>2 DEF Course
  <2>4. Open(t)' = Open(t) /\ Closed(t)' = Closed(t)
    BY <1>1, <1>2 DEF Open, Closed, HasAsked
  <2>5. Delivers(t)' /\ Owns(t)'
    BY <1>1, <2>3, <2>4, SameLogs DEF Phase, Delivers, Owns, Queued, AtMostOne
  <2>6. Phase(t)'
    BY <1>1, <2>3, <2>4, <2>5, SameLogs DEF Phase
  <2> QED BY <1>1, <2>1, <2>2, <2>6, CourseStep
<1> QED BY <1>1, <1>3, <1>4 DEF LaunchInv

LEMMA LogStep ==
    ASSUME LaunchInv, NEW id, Log(id) PROVE LaunchInv'
<1>1. PICK log : log = [of |-> id, nr |-> Cardinality(emitted) + 1]
  OBVIOUS
<1>2. /\ id \in running /\ emitted' = emitted \cup {log} /\ UNCHANGED interactVars
      /\ queue' = IF mode = "stream" /\ enabled THEN Append(queue, log) ELSE queue
      /\ files' = IF mode # "stream" THEN files \cup {log} ELSE files
      /\ UNCHANGED <<mode, begun, filed, done, held>>
      /\ UNCHANGED <<stage, selected, enabled, window, running, disturbed>>
  BY <1>1 DEF Log
<1>3. pc' = pc /\ kind' = kind /\ tool' = tool /\ log.of = id
  BY <1>1, <1>2 DEF interactVars, threadVars
<1>4. queue' \in Seq(emitted') /\ Queued' = IF mode = "stream" /\ enabled THEN Queued \cup {log} ELSE Queued
  <2>1. queue \in Seq(emitted') /\ log \in emitted'
    BY <1>2 DEF LaunchInv, StageOK
  <2>2. PICK q \in Seq(emitted') : q = queue
    BY <2>1
  <2>3. /\ Append(q, log) \in Seq(emitted') /\ DOMAIN Append(q, log) = 1 .. (Len(q) + 1)
        /\ DOMAIN q = 1 .. Len(q) /\ Append(q, log)[Len(q) + 1] = log
        /\ \A i \in 1 .. Len(q) : Append(q, log)[i] = q[i]
    BY <2>1
  <2>4. PICK n \in Nat : n = Len(q)
    OBVIOUS
  <2>5. \A i \in 1 .. (n + 1) : i \in 1 .. n \/ i = n + 1
    OBVIOUS
  <2>6. {Append(q, log)[i] : i \in DOMAIN Append(q, log)} = {q[i] : i \in DOMAIN q} \cup {log}
    BY <2>3, <2>4, <2>5
  <2> QED BY <1>2, <2>2, <2>3, <2>6 DEF Queued
<1>5. StageOK'
  <2>1. Begun' = Begun
    BY <1>2 DEF Begun
  <2> QED BY <1>2, <1>3, <1>4, <2>1 DEF LaunchInv, StageOK, Simulated
<1>6. ASSUME ~disturbed PROVE Course'
  <2>1. Course
    BY <1>6 DEF LaunchInv
  <2>2. PICK t \in Thread : stage[t] # "none"
    BY <1>2, <2>1, SomebodyLaunches
  <2>3. Phase(t)
    BY <2>1, <2>2 DEF Course
  <2>4. stage[t] = "run" /\ id = Id(t) /\ id \in Begun
    BY <1>2, <2>2, <2>3, IdIsBegun DEF Phase, Owns, LaunchInv
  <2>5. Open(t)' = Open(t) /\ Closed(t)' = Closed(t) /\ ~Closed(t)
    BY <1>2, <1>3, <2>4 DEF Open, Closed, HasAsked
  <2>6. /\ Id(t)' = Id(t) /\ Begun' = Begun /\ Strays(t)' = Strays(t)
        /\ Unfiled(t)' \subseteq Unfiled(t) \cup {log}
        /\ \A d : Foreign(d)' = Foreign(d) /\ (d # id => Missing(d)' = Missing(d))
    BY <1>2, <1>3 DEF Id, Begun, Strays, Foreign, Unfiled, Missing
  <2>7. Known' /\ Complete'
    <3>1. \A d \in done : d # id
      BY <2>3, <2>4 DEF Phase
    <3> QED BY <1>2, <1>3, <2>1, <2>4, <2>6, <3>1 DEF Course, Known, Complete, AtMostOne
  <2>8. Delivers(t)'
    <3>1. Open(t) => mode = "stream" /\ enabled
      BY <2>3, <2>4 DEF Phase, Open
    <3> QED BY <1>2, <1>4, <2>3, <2>5, <2>6, <3>1 DEF Phase, Delivers, AtMostOne
  <2>9. Owns(t)'
    <3>1. queue' # <<>> => mode = "stream" /\ enabled
      BY <1>2, <2>3 DEF Phase, Owns
    <3> QED BY <1>2, <1>3, <1>4, <2>3, <2>4, <2>6, <3>1 DEF Phase, Owns
  <2>10. Phase(t)'
    BY <1>2, <2>3, <2>4, <2>5, <2>6, <2>8, <2>9 DEF Phase
  <2> QED BY <1>2, <2>1, <2>2, <2>7, <2>10, CourseStays
<1> QED BY <1>2, <1>5, <1>6 DEF LaunchInv

LEMMA PopStep ==
    ASSUME LaunchInv, Pop PROVE LaunchInv'
<1>1. /\ queue # <<>> /\ held = <<>> /\ held' = <<Head(queue)>> /\ queue' = Tail(queue)
      /\ UNCHANGED interactVars /\ UNCHANGED <<mode, begun, emitted, filed, done>>
      /\ UNCHANGED <<stage, selected, enabled, window, running, files, disturbed>>
  BY DEF Pop, MayPop
<1>2. pc' = pc /\ kind' = kind /\ tool' = tool
  BY <1>1 DEF interactVars, threadVars
<1>3. /\ queue' \in Seq(emitted) /\ Queued = Queued' \cup {Head(queue)}
  <2>1. PICK q \in Seq(emitted) : q = queue
    BY DEF LaunchInv, StageOK
  <2>2. PICK n \in Nat : Len(q) = n + 1
    <3>1. Len(q) - 1 \in Nat
      BY <1>1, <2>1
    <3> QED BY <3>1, <2>1
  <2>3. PICK rest \in Seq(emitted) : rest = Tail(q)
    BY <1>1, <2>1
  <2>4. PICK log : log = Head(q)
    OBVIOUS
  <2>5. /\ log = q[1] /\ DOMAIN q = 1 .. (n + 1) /\ DOMAIN rest = 1 .. n
        /\ \A i \in 1 .. n : rest[i] = q[i + 1]
    BY <1>1, <2>1, <2>2, <2>3, <2>4
  <2>6. /\ \A i \in 1 .. (n + 1) : i = 1 \/ (i - 1 \in 1 .. n /\ (i - 1) + 1 = i)
        /\ 1 \in 1 .. (n + 1) /\ \A i \in 1 .. n : i + 1 \in 1 .. (n + 1)
    OBVIOUS
  <2>7. {q[i] : i \in DOMAIN q} = {rest[i] : i \in DOMAIN rest} \cup {log}
    <3> DEFINE Old == {q[i] : i \in 1 .. (n + 1)}
               New == {rest[i] : i \in 1 .. n} \cup {log}
    <3>1. ASSUME NEW i \in 1 .. (n + 1) PROVE q[i] \in New
      <4>1. i = 1 \/ \E j \in 1 .. n : i = j + 1
        BY <2>6
      <4>2. i = 1 => q[i] = log
        BY <2>5
      <4>3. ASSUME NEW j \in 1 .. n, i = j + 1 PROVE q[i] = rest[j]
        BY <2>5, <4>3
      <4> QED BY <4>1, <4>2, <4>3, Zenon
    <3>2. ASSUME NEW j \in 1 .. n PROVE rest[j] \in Old
      <4>1. rest[j] = q[j + 1] /\ j + 1 \in 1 .. (n + 1)
        BY <2>5, <2>6
      <4> QED BY <4>1
    <3>3. log \in Old
      BY <2>5, <2>6
    <3>4. Old \subseteq New /\ New \subseteq Old
      BY <3>1, <3>2, <3>3, Zenon
    <3>5. Old = New
      BY <3>4, Zenon
    <3> QED BY <2>5, <3>5, Zenon
  <2>8. Queued = {q[i] : i \in DOMAIN q} /\ Queued' = {rest[i] : i \in DOMAIN rest}
    BY <1>1, <2>1, <2>3, Zenon DEF Queued
  <2> QED BY <1>1, <2>1, <2>3, <2>4, <2>7, <2>8, Zenon
<1>4. StageOK'
  <2>1. Begun' = Begun /\ held' = <<Head(held')>>
    BY <1>1 DEF Begun
  <2> QED BY <1>1, <1>2, <1>3, <2>1 DEF LaunchInv, StageOK, Simulated
<1>5. ASSUME ~disturbed PROVE Course'
  <2>1. Course
    BY <1>5 DEF LaunchInv
  <2>2. PICK t \in Thread : stage[t] # "none"
    BY <1>1, <2>1, SomebodyLaunches
  <2>3. Phase(t)
    BY <2>1, <2>2 DEF Course
  <2>4. Open(t)' = Open(t) /\ Closed(t)' = Closed(t)
    BY <1>1, <1>2 DEF Open, Closed, HasAsked
  <2>5. mode = "stream" /\ Head(queue).of = Id(t) /\ Head(held') = Head(queue)
    BY <1>1, <1>3, <2>3 DEF Phase, Owns
  <2>6. Known' /\ Complete'
    BY <1>1, <2>1, <2>5, SameLogs DEF Course, Known, Complete, AtMostOne
  <2>7. Delivers(t)'
    BY <1>1, <1>3, <2>3, <2>4, <2>5, SameLogs DEF Phase, Delivers, AtMostOne
  <2>8. Owns(t)'
    BY <1>1, <1>3, <2>3, SameLogs DEF Phase, Owns
  <2>9. Phase(t)'
    BY <1>1, <2>3, <2>4, <2>7, <2>8, SameLogs DEF Phase
  <2> QED BY <1>1, <2>1, <2>2, <2>6, <2>9, CourseStays
<1> QED BY <1>1, <1>4, <1>5 DEF LaunchInv

LEMMA SendStep ==
    ASSUME LaunchInv, Send PROVE LaunchInv'
<1>1. /\ held # <<>> /\ held' = <<>>
      /\ filed' = IF window = NoLaunch THEN filed ELSE filed \cup {<<window, Head(held)>>}
      /\ UNCHANGED interactVars /\ UNCHANGED <<mode, begun, queue, emitted, done>>
      /\ UNCHANGED <<stage, selected, enabled, window, running, files, disturbed>>
  BY DEF Send
<1>2. pc' = pc /\ kind' = kind /\ tool' = tool /\ Begun' = Begun
  BY <1>1 DEF interactVars, threadVars, Begun
<1>3. StageOK'
  BY <1>1, <1>2 DEF LaunchInv, StageOK, Simulated
<1>4. PICK log : log = Head(held) /\ held = <<log>>
  BY <1>1 DEF LaunchInv, StageOK
<1>5. CASE window = NoLaunch
  <2>1. ASSUME ~disturbed PROVE Course'
    <3>1. Course /\ filed' = filed
      BY <1>1, <1>5, <2>1 DEF LaunchInv
    <3>2. Rests' /\ Known' /\ Complete'
      BY <1>1, <3>1, SameLogs DEF Course, Rests, Known, Complete, AtMostOne
    <3>3. ASSUME NEW t \in Thread, stage[t] # "none" PROVE Single(t)' /\ Phase(t)'
      <4>1. Single(t)' /\ Phase(t) /\ Id(t) # NoLaunch
        BY <1>1, <3>1, <3>3, IdIsBegun DEF Course, Single, LaunchInv
      <4>2. Open(t)' = Open(t) /\ Closed(t)' = Closed(t) /\ ~Open(t)
        BY <1>1, <1>2, <1>5, <4>1 DEF Open, Closed, HasAsked, Phase, Delivers
      <4>3. Delivers(t)' /\ Owns(t)'
        BY <1>1, <3>1, <4>1, <4>2, SameLogs DEF Phase, Delivers, Owns, Queued, AtMostOne
      <4> QED BY <1>1, <3>1, <4>1, <4>2, <4>3, SameLogs DEF Phase
    <3> QED BY <1>1, <3>2, <3>3 DEF Course
  <2> QED BY <1>1, <1>3, <2>1 DEF LaunchInv
<1>6. CASE window # NoLaunch
  <2>1. ASSUME ~disturbed PROVE Course'
    <3>1. Course
      BY <2>1 DEF LaunchInv
    <3>2. PICK t \in Thread : stage[t] # "none"
      BY <1>6, <3>1, SomebodyLaunches
    <3>3. Phase(t) /\ Id(t) \in Begun
      BY <3>1, <3>2, IdIsBegun DEF Course, LaunchInv
    <3>4. Open(t)' = Open(t) /\ Closed(t)' = Closed(t) /\ Open(t) /\ ~Closed(t) /\ window = Id(t)
      BY <1>1, <1>2, <1>6, <3>3 DEF Open, Closed, HasAsked, Phase, Delivers
    <3>5. filed' = filed \cup {<<Id(t), log>>} /\ Id(t)' = Id(t)
      BY <1>1, <1>4, <1>6, <3>4 DEF Id
    <3>6. /\ Unfiled(t)' = Unfiled(t) \ {log}
          /\ log.of = Id(t) => Strays(t)' = Strays(t)
          /\ log.of # Id(t) => Strays(t)' = Strays(t) \cup {<<Id(t), log>>}
          /\ \A d : d # Id(t) => Missing(d)' = Missing(d) /\ Foreign(d)' = Foreign(d)
      BY <1>1, <3>5 DEF Unfiled, Strays, Missing, Foreign
    <3>7. Known' /\ Complete'
      <4>1. \A d \in done : d # Id(t)
        BY <3>3 DEF Phase
      <4> QED BY <1>1, <1>2, <3>1, <3>3, <3>5, <3>6, <4>1 DEF Course, Known, Complete, AtMostOne
    <3>8. Delivers(t)'
      <4>1. /\ \A m \in Unfiled(t) : m \in Queued \/ held = <<m>>
            /\ log.of # Id(t) => Strays(t) = {}
            /\ AtMostOne(Strays(t))
        BY <1>1, <1>4, <3>3, <3>4 DEF Phase, Delivers
      <4>2. \A m \in Unfiled(t)' : m \in Queued'
        BY <1>1, <1>4, <3>6, <4>1 DEF Queued
      <4>3. AtMostOne(Strays(t))'
        BY <3>6, <4>1 DEF AtMostOne
      <4> QED BY <1>1, <3>4, <3>5, <4>2, <4>3 DEF Delivers
    <3>9. Owns(t)'
      BY <1>1, <3>3, <3>5 DEF Phase, Owns, Queued
    <3>10. Phase(t)'
      BY <1>1, <3>3, <3>4, <3>5, <3>8, <3>9 DEF Phase
    <3> QED BY <1>1, <3>1, <3>2, <3>7, <3>10, CourseStays
  <2> QED BY <1>1, <1>3, <2>1 DEF LaunchInv
<1> QED BY <1>5, <1>6

-----------------------------------------------------------------------------
(* The beginning and the end of a launch, and what the tool is told.        *)

LEMMA CollectStep ==
    ASSUME TypeOK, LaunchInv, NEW t \in Thread, Collect(t) PROVE LaunchInv'
<1>1. /\ \/ stage[t] = "sync" /\ ~StopsTransfer
         \/ stage[t] = "stop" /\ pc[t] = "idle"
      /\ To(t, "none") /\ files' = {} /\ UNCHANGED interactVars
      /\ filed' = IF t \in selected THEN filed \cup ({Id(t)} \X files) ELSE filed
      /\ done' = IF t \in selected THEN done \cup {Id(t)} ELSE done
      /\ UNCHANGED <<mode, begun, queue, emitted, held>>
      /\ UNCHANGED <<selected, enabled, window, running, disturbed>>
  BY DEF Collect
<1>2. StageOK'
  <2>1. KindIn("none") = KindIn("sync") /\ "none" \in Stage
    BY DEF KindIn, Stage
  <2> QED BY <1>1, <2>1, StageStep DEF LaunchInv
<1>3. ASSUME ~disturbed PROVE Course'
  <2>1. Course /\ Single(t) /\ Phase(t) /\ stage[t] # "none" /\ Id(t) \in Begun
    BY <1>1, <1>3, IdIsBegun DEF LaunchInv, Course
  <2>2. \A u \in Thread : stage'[u] = "none"
    BY <1>1, <2>1 DEF Single, To, LaunchInv, StageOK
  <2>3. ~Open(t) /\ window = NoLaunch /\ running = {} /\ queue = <<>>
    <3>1. ~Open(t)
      BY <1>1, <2>1 DEF Open, Phase, HasAsked, StopsTransfer
    <3> QED BY <1>1, <2>1, <3>1 DEF Phase, Delivers, Owns, StopsTransfer
  <2>4. Rests'
    BY <1>1, <2>3 DEF Rests
  <2>5. /\ Begun' = Begun
        /\ \A d : d # Id(t) => Missing(d)' = Missing(d) /\ Foreign(d)' = Foreign(d)
    BY <1>1 DEF Begun, Missing, Foreign
  <2>6. Known'
    BY <1>1, <2>1, <2>5 DEF Course, Known
  <2>7. ASSUME NEW d, d = Id(t), t \in selected
        PROVE  /\ AtMostOne(Missing(d)') /\ AtMostOne(Foreign(d)')
               /\ mode # "stream" => Missing(d)' = {} /\ Foreign(d)' = {}
    <3>1. CASE mode = "stream"
      <4>1. stage[t] = "stop" /\ Closed(t) /\ files = {}
        BY <1>1, <2>1, <2>7, <3>1 DEF Phase, Owns, Closed, HasAsked, StopsTransfer
      <4>2. filed' = filed
        BY <1>1, <4>1
      <4>3. Missing(d)' = Unfiled(t) /\ Foreign(d)' = Strays(t)
        BY <1>1, <2>7, <4>2 DEF Unfiled, Strays, Missing, Foreign
      <4> QED BY <2>1, <2>7, <3>1, <4>1, <4>3 DEF Phase, Delivers
    <3>2. CASE mode # "stream"
      <4>1. ~Closed(t) /\ filed' = filed \cup ({d} \X files)
        BY <1>1, <2>1, <2>7, <3>2 DEF Closed, Phase
      <4>2. /\ \A log \in emitted : log.of = d => log \in files
            /\ \A log \in files : log.of = d
            /\ \A x \in filed : x[1] # d
        BY <2>1, <2>3, <2>7, <3>2, <4>1 DEF Phase, Owns
      <4>3. Missing(d)' = {}
        BY <1>1, <4>1, <4>2 DEF Missing
      <4>4. Foreign(d)' = {}
        BY <4>1, <4>2 DEF Foreign
      <4> QED BY <3>2, <4>3, <4>4 DEF AtMostOne
    <3> QED BY <3>1, <3>2
  <2>8. Complete'
    <3>1. \A d \in done : d # Id(t)
      BY <2>1 DEF Phase
    <3>2. ASSUME NEW d \in done'
          PROVE  /\ AtMostOne(Missing(d)') /\ AtMostOne(Foreign(d)')
                 /\ mode # "stream" => Missing(d)' = {} /\ Foreign(d)' = {}
      <4>1. CASE d = Id(t)
        BY <1>1, <2>7, <3>1, <4>1
      <4>2. CASE d # Id(t)
        BY <1>1, <2>1, <2>5, <4>2 DEF Course, Complete
      <4> QED BY <4>1, <4>2
    <3> QED BY <1>1, <2>1, <3>2 DEF Course, Complete, AtMostOne
  <2> QED BY <2>2, <2>4, <2>6, <2>8 DEF Course
<1> QED BY <1>1, <1>2, <1>3 DEF LaunchInv

\* A thread counts one more launch, which nobody has counted.
LEMMA BegunGrows ==
    ASSUME StageOK, NEW t \in Launcher, Cardinality(Begun) < Launches,
           begun' = [begun EXCEPT ![t] = @ + 1]
    PROVE  /\ begun' \in [Thread -> Nat] /\ begun'[t] > 0 /\ Id(t)' \notin Begun
           /\ \A u \in Thread : u # t => begun'[u] = begun[u]
           /\ Begun' = Begun \cup {Id(t)'} /\ IsFiniteSet(Begun')
           /\ Cardinality(Begun') <= Launches
           /\ \A u \in Thread : begun'[u] <= Cardinality(Begun')
<1>1. /\ begun' \in [Thread -> Nat] /\ begun'[t] = begun[t] + 1 /\ begun[t] \in Nat
      /\ \A u \in Thread : u # t => begun'[u] = begun[u]
      /\ Launches \in Nat /\ Cardinality(Begun) \in Nat /\ Launcher \subseteq Thread
  BY SimulatorAssumption, FS_CardinalityType DEF StageOK
<1>2. begun[t] + 1 \in 1 .. Launches /\ \A u \in Thread : begun[u] <= Cardinality(Begun)
  BY <1>1 DEF StageOK
<1>3. Id(t)' = <<t, begun[t] + 1>>
  BY <1>1 DEF Id
<1>4. <<t, begun[t] + 1>> \notin Begun
  BY <1>1 DEF Begun
<1>5. Begun' = Begun \cup {<<t, begun[t] + 1>>}
  <2>1. ASSUME NEW u \in Launcher, NEW n \in 1 .. Launches
        PROVE  n <= begun'[u] <=> n <= begun[u] \/ <<u, n>> = <<t, begun[t] + 1>>
    <3>1. begun[u] \in Nat /\ n \in Nat
      BY <1>1
    <3>2. CASE u = t
      BY <1>1, <3>1, <3>2
    <3>3. CASE u # t
      BY <1>1, <3>1, <3>3
    <3> QED BY <3>2, <3>3
  <2>2. <<t, begun[t] + 1>> \in Launch
    BY <1>2 DEF Launch
  <2>3. \A x \in Launch : /\ x = <<x[1], x[2]>> /\ x[1] \in Launcher /\ x[2] \in 1 .. Launches
    BY DEF Launch
  <2>4. \A x \in Launch : x[2] <= begun'[x[1]] <=> x[2] <= begun[x[1]] \/ x = <<t, begun[t] + 1>>
    BY <2>1, <2>3
  <2> QED BY <2>2, <2>4 DEF Begun
<1>6. IsFiniteSet(Begun') /\ Cardinality(Begun') = Cardinality(Begun) + 1
  <2>1. PICK known : known = Begun /\ IsFiniteSet(known)
    BY DEF StageOK
  <2>2. PICK new : new = <<t, begun[t] + 1>> /\ new \notin known
    BY <1>4, <2>1
  <2>3. IsFiniteSet(known \cup {new}) /\ Cardinality(known \cup {new}) = Cardinality(known) + 1
    BY <2>1, <2>2, FS_AddElement
  <2> QED BY <1>5, <2>1, <2>2, <2>3
<1>7. \A u \in Thread : begun'[u] <= Cardinality(Begun')
  <2>1. ASSUME NEW u \in Thread PROVE begun'[u] <= Cardinality(Begun) + 1
    <3>1. begun[u] \in Nat /\ begun[u] <= Cardinality(Begun)
      BY <1>1, <1>2 DEF StageOK
    <3>2. CASE u = t
      BY <1>1, <3>1, <3>2
    <3>3. CASE u # t
      BY <1>1, <3>1, <3>3
    <3> QED BY <3>2, <3>3
  <2> QED BY <1>6, <2>1
<1> QED BY <1>1, <1>3, <1>4, <1>5, <1>6, <1>7

LEMMA BeginLaunchStep ==
    ASSUME TypeOK, LaunchInv, NEW t \in Launcher, NEW named \in BOOLEAN, BeginLaunch(t, named)
    PROVE  LaunchInv'
<1> t \in Thread
  BY SimulatorAssumption
<1>1. PICK s \in {"path", "init"} :
         /\ Simulated /\ stage[t] = "none" /\ Cardinality(Begun) < Launches
         /\ begun' = [begun EXCEPT ![t] = @ + 1] /\ To(t, s)
         /\ disturbed' = (disturbed \/ running # {} \/ \E u \in Thread : stage[u] # "none")
         /\ UNCHANGED <<mode, enabled, queue, held, window, running, emitted, files, filed, done>>
         /\ s = "path" => Call(t, "DATA_PATH")
         /\ s = "init" => pc[t] = "idle" /\ UNCHANGED interactVars
  BY DEF BeginLaunch, MayTalk
<1>2. stage' = [stage EXCEPT ![t] = s] /\ s \in Stage
  BY <1>1 DEF To, Stage
<1>3. /\ stage' \in [Thread -> Stage] /\ stage'[t] = s
      /\ \A u \in Thread : u # t => stage'[u] = stage[u]
  BY <1>2 DEF LaunchInv, StageOK
<1>4. Simulated' /\ \A u \in Thread :
         kind'[u] = IF pc'[u] = "idle" THEN "none" ELSE KindIn(stage'[u])
  <2>1. \A u \in Thread : kind[u] = IF pc[u] = "idle" THEN "none" ELSE KindIn(stage[u])
    BY <1>1 DEF LaunchInv, StageOK
  <2>2. CASE s = "path"
    <3>1. /\ \A u \in Thread : u # t => pc'[u] = pc[u] /\ kind'[u] = kind[u]
          /\ pc'[t] = "getConfig" /\ kind'[t] = "DATA_PATH" /\ tool' = tool
      BY <1>1, <2>2 DEF Call, FirstStep, TypeOK, InteractOK
    <3>2. KindIn("path") = "DATA_PATH"
      BY DEF KindIn
    <3> QED BY <1>1, <1>3, <2>1, <2>2, <3>1, <3>2 DEF Simulated
  <2>3. CASE s = "init"
    <3>1. pc' = pc /\ kind' = kind /\ tool' = tool /\ pc[t] = "idle"
      BY <1>1, <2>3 DEF interactVars, threadVars
    <3> QED BY <1>1, <1>3, <2>1, <3>1 DEF Simulated
  <2> QED BY <2>2, <2>3
<1>5. StageOK'
  <2>1. \A u \in Thread : stage'[u] # "none" => u \in Launcher /\ begun'[u] > 0
    BY <1>1, <1>3, BegunGrows DEF LaunchInv, StageOK
  <2>2. StageOK
    BY DEF LaunchInv
  <2>3. /\ begun' \in [Thread -> Nat] /\ IsFiniteSet(Begun') /\ Cardinality(Begun') <= Launches
        /\ \A u \in Thread : begun'[u] <= Cardinality(Begun')
    BY <1>1, <2>2, BegunGrows
  <2>4. queue' \in Seq(emitted') /\ (held' # <<>> => held' = <<Head(held')>>)
    BY <1>1, <2>2 DEF StageOK
  <2> QED BY <1>3, <1>4, <2>1, <2>3, <2>4 DEF StageOK
<1>6. ASSUME ~disturbed' PROVE Course'
  <2>1. Course /\ StageOK /\ running = {} /\ \A u \in Thread : stage[u] = "none"
    BY <1>1, <1>6 DEF LaunchInv
  <2>2. queue = <<>> /\ files = {} /\ window = NoLaunch
    BY <2>1 DEF Course, Rests
  <2>3. Begun' = Begun \cup {Id(t)'} /\ Id(t)' \notin Begun
    BY <1>1, <2>1, BegunGrows
  <2>4. \A d : Missing(d)' = Missing(d) /\ Foreign(d)' = Foreign(d)
    BY <1>1 DEF Missing, Foreign
  <2>5. Known' /\ Complete'
    BY <1>1, <2>1, <2>3, <2>4 DEF Course, Known, Complete, AtMostOne
  <2>6. Single(t)' /\ Rests' /\ \A u \in Thread : stage'[u] # "none" => u = t
    BY <1>3, <2>1 DEF Single, Rests
  <2>7. /\ Id(t)' \notin done' /\ (\A log \in emitted' : log.of # Id(t)')
        /\ \A x \in filed' : x[1] # Id(t)'
    BY <1>1, <2>1, <2>3 DEF Course, Known
  <2>8. ~Open(t)' /\ ~Closed(t)' /\ Strays(t)' = {} /\ Queued' = {}
    <3>1. ~Open(t)' /\ ~Closed(t)'
      BY <1>3 DEF Open, Closed
    <3>2. Strays(t)' = {}
      BY <2>7 DEF Strays, Foreign
    <3>3. Queued' = {}
      BY <1>1, <2>2 DEF Queued
    <3> QED BY <3>1, <3>2, <3>3
  <2>9. Delivers(t)'
    BY <1>1, <2>2, <2>8 DEF Delivers, AtMostOne
  <2>10. Owns(t)'
    BY <1>1, <2>1, <2>2, <2>7, <2>8 DEF Owns
  <2>11. Phase(t)'
    BY <1>1, <1>3, <2>7, <2>9, <2>10 DEF Phase
  <2>12. \A u \in Thread : stage'[u] # "none" => Single(u)' /\ Phase(u)'
    BY <2>6, <2>11
  <2> QED BY <2>5, <2>6, <2>12 DEF Course
<1> QED BY <1>5, <1>6 DEF LaunchInv

LEMMA NotifiesStep ==
    ASSUME TypeOK, LaunchInv, NEW t \in Thread, Notifies(t) PROVE LaunchInv'
<1>1. /\ pc[t] = "notify" /\ kind[t] # "none" /\ pc' = [pc EXCEPT ![t] = "wait"]
      /\ kind' = kind /\ tool' = tool
      /\ window' = IF Simulated THEN Window(t) ELSE window
      /\ UNCHANGED <<mode, begun, queue, emitted, filed, done, held>>
      /\ UNCHANGED <<stage, selected, enabled, running, files, disturbed>>
  BY DEF Notifies, Notify
<1>2. /\ pc'[t] = "wait" /\ \A u \in Thread : u # t => pc'[u] = pc[u]
  BY <1>1 DEF TypeOK, InteractOK
<1>3. StageOK'
  <2>1. \A u \in Thread : Simulated => kind[u] = IF pc'[u] = "idle" THEN "none" ELSE KindIn(stage[u])
    BY <1>1, <1>2 DEF LaunchInv, StageOK
  <2> QED BY <1>1, <2>1, SameLogs DEF LaunchInv, StageOK, Simulated
<1>4. CASE ~Simulated
  <2>1. ASSUME ~disturbed PROVE Course'
    <3>1. Course /\ \A u \in Thread : stage[u] = "none"
      BY <1>4, <2>1 DEF LaunchInv, StageOK
    <3>2. Rests' /\ Known' /\ Complete'
      BY <1>1, <1>4, <3>1, SameLogs DEF Course, Rests, Known, Complete, AtMostOne
    <3> QED BY <1>1, <3>1, <3>2 DEF Course
  <2> QED BY <1>1, <1>3, <2>1 DEF LaunchInv
<1>5. CASE Simulated
  <2>1. kind[t] = KindIn(stage[t]) /\ stage[t] \in {"path", "announce", "stop"}
    BY <1>1, <1>5 DEF LaunchInv, StageOK, KindIn
  <2>2. ~HasAsked(t) /\ HasAsked(t)'
    BY <1>1, <1>2 DEF HasAsked
  <2>3. ASSUME ~disturbed PROVE Course'
    <3>1. Course /\ Phase(t) /\ stage[t] # "none"
      BY <2>1, <2>3 DEF LaunchInv, Course
    <3>2. Owns(t)'
      BY <1>1, <3>1, SameLogs DEF Phase, Owns, Queued
    <3>3. ASSUME Delivers(t)', \A x \in filed : x[1] = Id(t) => Open(t)' \/ Closed(t)'
          PROVE  Phase(t)'
      BY <1>1, <3>1, <3>2, <3>3, SameLogs DEF Phase
    <3>4. CASE stage[t] = "path"
      <4>1. ~Open(t) /\ ~Closed(t) /\ ~Open(t)' /\ ~Closed(t)'
        BY <1>1, <3>4 DEF Open, Closed
      <4>2. window' = window
        BY <1>1, <2>1, <3>4 DEF Window, KindIn
      <4>3. Delivers(t)'
        BY <1>1, <3>1, <4>1, <4>2, SameLogs DEF Phase, Delivers, AtMostOne
      <4> QED BY <1>1, <3>1, <3>3, <4>1, <4>3, CourseStep DEF Phase
    <3>5. CASE stage[t] = "announce"
      <4>1. ~Open(t) /\ ~Closed(t) /\ ~Closed(t)' /\ (Open(t)' <=> mode = "stream")
        BY <1>1, <2>2, <3>1, <3>5 DEF Open, Closed, Phase
      <4>2. window' = IF mode = "stream" THEN Id(t) ELSE NoLaunch
        BY <1>1, <1>5, <2>1, <3>5 DEF Window, KindIn
      <4>3. \A x \in filed : x[1] # Id(t)
        BY <3>1, <4>1 DEF Phase
      <4>4. Unfiled(t)' = {} /\ Strays(t)' = {}
        <5>1. Unfiled(t) = {}
          BY <3>1, <3>5 DEF Phase, Unfiled, Missing
        <5>2. Strays(t) = {}
          BY <4>3 DEF Strays, Foreign
        <5> QED BY <1>1, <5>1, <5>2, SameLogs
      <4>5. Delivers(t)'
        BY <1>1, <4>1, <4>2, <4>4, SameLogs DEF Delivers, AtMostOne
      <4> QED BY <1>1, <3>1, <3>3, <4>3, <4>5, CourseStep
    <3>6. CASE stage[t] = "stop"
      <4>1. ~Open(t)' /\ Closed(t)' /\ (t \in selected => Open(t))
        BY <1>1, <2>2, <3>1, <3>6 DEF Open, Closed, Phase
      <4>2. window' = NoLaunch
        BY <1>1, <1>5, <2>1, <3>6 DEF Window, KindIn
      <4>3. t \in selected => \A log \in Unfiled(t) : held = <<log>>
        <5>1. Queued = {}
          BY <3>1, <3>6 DEF Phase, Owns, Queued
        <5> QED BY <3>1, <4>1, <5>1 DEF Phase, Delivers
      <4>4. t \in selected => AtMostOne(Unfiled(t))
        <5> SUFFICES ASSUME t \in selected, NEW log \in Unfiled(t), NEW other \in Unfiled(t)
                     PROVE  log = other
          BY DEF AtMostOne
        <5>1. <<log>> = <<other>>
          BY <4>3
        <5> QED BY <5>1
      <4>5. Delivers(t)'
        BY <1>1, <3>1, <4>1, <4>2, <4>4, SameLogs DEF Phase, Delivers, AtMostOne
      <4> QED BY <1>1, <3>1, <3>3, <4>1, <4>5, CourseStep
    <3> QED BY <2>1, <3>4, <3>5, <3>6
  <2> QED BY <1>1, <1>3, <2>3 DEF LaunchInv
<1> QED BY <1>4, <1>5

\* The exchanges of a thread in a launch do not matter to it but for its requests.
LEMMA QuietStep ==
    ASSUME LaunchInv, UNCHANGED simVars, tool' = tool,
           \A u \in Thread :
              Simulated => /\ kind'[u] = IF pc'[u] = "idle" THEN "none" ELSE KindIn(stage[u])
                           /\ stage[u] \in {"announce", "stop"} => HasAsked(u)' = HasAsked(u)
    PROVE  LaunchInv'
<1>1. /\ UNCHANGED <<mode, begun, queue, emitted, filed, done, held>>
      /\ UNCHANGED <<stage, selected, enabled, window, running, files, disturbed>>
  BY DEF simVars
<1>2. StageOK'
  BY <1>1, SameLogs DEF LaunchInv, StageOK, Simulated
<1>3. ASSUME ~disturbed PROVE Course'
  <2>1. Course
    BY <1>3 DEF LaunchInv
  <2>2. Rests' /\ Known' /\ Complete'
    BY <1>1, <2>1, SameLogs DEF Course, Rests, Known, Complete, AtMostOne
  <2>3. ASSUME NEW t \in Thread, stage[t] # "none" PROVE Single(t)' /\ Phase(t)'
    <3>1. Single(t)' /\ Phase(t) /\ Simulated
      BY <1>1, <2>1, <2>3 DEF Course, Single, LaunchInv, StageOK
    <3>2. Open(t)' = Open(t) /\ Closed(t)' = Closed(t)
      BY <1>1, <3>1 DEF Open, Closed
    <3>3. Delivers(t)' /\ Owns(t)'
      BY <1>1, <3>1, <3>2, SameLogs DEF Phase, Delivers, Owns, Queued, AtMostOne
    <3> QED BY <1>1, <3>1, <3>2, <3>3, SameLogs DEF Phase
  <2> QED BY <1>1, <2>2, <2>3 DEF Course
<1> QED BY <1>1, <1>2, <1>3 DEF LaunchInv

LEMMA ReadStepStep ==
    ASSUME TypeOK, LaunchInv, NEW t \in Thread, ReadStep(t), UNCHANGED simVars PROVE LaunchInv'
<1>1. /\ tool' = tool /\ pc[t] # "idle"
      /\ \/ /\ pc[t] \in {"getConfig", "waitConfig"} /\ kind' = kind
            /\ \E p \in {"waitConfig", "notify"} : pc' = [pc EXCEPT ![t] = p]
         \/ pc[t] = "notify" /\ kind[t] = "none" /\ kind' = kind /\ pc' = [pc EXCEPT ![t] = "idle"]
         \/ /\ pc[t] = "wait" /\ kind' = [kind EXCEPT ![t] = "none"]
            /\ pc' = [pc EXCEPT ![t] = "idle"]
  BY DEF ReadStep, FindConfig, LockConfig, TakeConfig, ConfigTimesOut, StoreConfig, Used, TakeAnswer,
         AnswerTimesOut
<1>2. \A u \in Thread : u # t => pc'[u] = pc[u] /\ kind'[u] = kind[u]
  BY <1>1 DEF TypeOK, InteractOK
<1>3. \/ pc[t] \in {"getConfig", "waitConfig"} /\ pc'[t] \in {"waitConfig", "notify"} /\ kind'[t] = kind[t]
      \/ pc[t] = "notify" /\ kind[t] = "none" /\ kind'[t] = "none" /\ pc'[t] = "idle"
      \/ pc[t] = "wait" /\ kind'[t] = "none" /\ pc'[t] = "idle"
  BY <1>1 DEF TypeOK, InteractOK
<1>4. ASSUME NEW u \in Thread, Simulated
      PROVE  /\ kind'[u] = IF pc'[u] = "idle" THEN "none" ELSE KindIn(stage[u])
             /\ stage[u] \in {"announce", "stop"} => HasAsked(u)' = HasAsked(u)
  <2>1. kind[u] = IF pc[u] = "idle" THEN "none" ELSE KindIn(stage[u])
    BY <1>4 DEF LaunchInv, StageOK
  <2>2. stage[u] \in {"announce", "stop"} => KindIn(stage[u]) # "none"
    BY DEF KindIn
  <2>3. CASE u = t
    BY <1>1, <1>3, <2>1, <2>2, <2>3 DEF HasAsked
  <2>4. CASE u # t
    BY <1>2, <2>1, <2>4 DEF HasAsked
  <2> QED BY <2>3, <2>4
<1> QED BY <1>1, <1>4, QuietStep

\* Calls outside of a launch, and the server.
LEMMA OtherStep ==
    ASSUME TypeOK, LaunchInv, UNCHANGED simVars,
           \/ \E d \in Device : Server(d)
           \/ \E t \in Thread : Asks(t) \/ Uses(t)
           \/ UNCHANGED interactVars
    PROVE  LaunchInv'
<1>1. ASSUME pc' = pc, kind' = kind, tool' = tool PROVE LaunchInv'
  BY <1>1, QuietStep DEF LaunchInv, StageOK, HasAsked
<1>2. ASSUME NEW d \in Device, Server(d) PROVE LaunchInv'
  <2>1. pc' = pc /\ kind' = kind /\ tool' = tool
    BY <1>2 DEF Server, ConnectHook, Answer, threadVars
  <2> QED BY <1>1, <2>1
<1>3. ASSUME NEW t \in Thread, Asks(t) PROVE LaunchInv'
  <2>1. ~Simulated /\ tool' = tool
    BY <1>3 DEF Asks, Call
  <2> QED BY <2>1, QuietStep
<1>4. ASSUME NEW t \in Thread, Uses(t) PROVE LaunchInv'
  <2>1. CASE Use(t)
    <3>1. /\ pc[t] = "idle" /\ pc'[t] = "getConfig" /\ kind' = kind /\ tool' = tool
          /\ stage[t] = "none" /\ \A u \in Thread : u # t => pc'[u] = pc[u]
      BY <1>4, <2>1 DEF Uses, Use, FirstStep, TypeOK, InteractOK
    <3>2. KindIn("none") = "none"
      BY DEF KindIn
    <3>3. ASSUME NEW u \in Thread, Simulated
          PROVE  /\ kind'[u] = IF pc'[u] = "idle" THEN "none" ELSE KindIn(stage[u])
                 /\ stage[u] \in {"announce", "stop"} => HasAsked(u)' = HasAsked(u)
      <4>1. kind[u] = IF pc[u] = "idle" THEN "none" ELSE KindIn(stage[u])
        BY <3>3 DEF LaunchInv, StageOK
      <4>2. CASE u = t
        BY <3>1, <3>2, <4>1, <4>2
      <4>3. CASE u # t
        BY <3>1, <4>1, <4>3 DEF HasAsked
      <4> QED BY <4>2, <4>3
    <3> QED BY <3>1, <3>3, QuietStep
  <2>2. CASE DeviceCall(t)
    <3>1. pc' = pc /\ kind' = kind /\ tool' = tool
      BY <2>2 DEF DeviceCall, SetDevice, ResetDevice, threadVars
    <3> QED BY <1>1, <3>1
  <2> QED BY <1>4, <2>1, <2>2 DEF Uses
<1>5. CASE UNCHANGED interactVars
  <2>1. pc' = pc /\ kind' = kind /\ tool' = tool
    BY <1>5 DEF interactVars, threadVars
  <2> QED BY <1>1, <2>1
<1> QED BY <1>2, <1>3, <1>4, <1>5

LEMMA InitLaunchInv == Init => LaunchInv
<1> SUFFICES ASSUME Init PROVE LaunchInv
  OBVIOUS
<1>1. /\ \A t \in Thread : stage[t] = "none" /\ begun[t] = 0 /\ pc[t] = "idle" /\ kind[t] = "none"
      /\ stage \in [Thread -> Stage] /\ begun \in [Thread -> Nat]
      /\ queue = <<>> /\ held = <<>> /\ window = NoLaunch /\ running = {} /\ emitted = {}
      /\ files = {} /\ filed = {} /\ done = {}
  BY DEF Init, InteractInit, Stage
<1>2. Begun = {}
  <2>1. \A x \in Launch : x[1] \in Thread /\ x[2] \in 1 .. Launches
    BY SimulatorAssumption DEF Launch
  <2>2. \A n \in 1 .. Launches : ~(n <= 0)
    BY SimulatorAssumption
  <2> QED BY <1>1, <2>1, <2>2 DEF Begun
<1>3. StageOK
  <2>1. <<>> \in Seq(emitted) /\ Launches \in Nat
    BY SimulatorAssumption
  <2> QED BY <1>1, <1>2, <2>1, FS_EmptySet DEF StageOK
<1>4. Course
  BY <1>1 DEF Course, Rests, Known, Complete
<1> QED BY <1>3, <1>4 DEF LaunchInv

LEMMA StepLaunchInv == TypeOK /\ LaunchInv /\ [Next]_vars => LaunchInv'
<1> SUFFICES ASSUME TypeOK, LaunchInv, [Next]_vars PROVE LaunchInv'
  OBVIOUS
<1>1. CASE UNCHANGED vars
  BY <1>1, OtherStep DEF vars
<1>2. ASSUME NEW d \in Device, Server(d) /\ UNCHANGED simVars PROVE LaunchInv'
  BY <1>2, OtherStep
<1>3. ASSUME NEW t \in Thread, Exchange(t) PROVE LaunchInv'
  BY <1>3, NotifiesStep, ReadStepStep DEF Exchange
<1>4. ASSUME NEW t \in Thread, Asks(t) \/ Uses(t) PROVE LaunchInv'
  <2>1. UNCHANGED simVars
    BY <1>4 DEF Asks, Uses
  <2> QED BY <1>4, <2>1, OtherStep
<1>5. ASSUME NEW t \in Thread, Goes(t) PROVE LaunchInv'
  BY <1>5, PathAnsweredStep, InitSelectedStep, StartKernelStep, SynchronizeStep, InitLeavesOut,
     AnnouncedStep, StopLogsStep, DrainedStep, CollectStep DEF Goes
<1>6. ASSUME NEW t \in Launcher, Begins(t) PROVE LaunchInv'
  BY <1>6, BeginLaunchStep DEF Begins
<1>7. ASSUME NEW id \in running, Log(id) \/ EndKernel(id) PROVE LaunchInv'
  BY <1>7, LogStep, EndKernelStep
<1>8. CASE Sender
  BY <1>8, PopStep, SendStep DEF Sender
<1> QED BY <1>1, <1>2, <1>3, <1>4, <1>5, <1>6, <1>7, <1>8 DEF Next

LEMMA AtMostOneIsFew ==
    ASSUME NEW S, AtMostOne(S) PROVE Cardinality(S) <= 1 /\ (S = {} => Cardinality(S) = 0)
<1>1. CASE S = {}
  BY <1>1, FS_EmptySet
<1>2. CASE S # {}
  <2>1. PICK x : S = {x}
    BY <1>2 DEF AtMostOne
  <2>2. Cardinality({x}) = 1
    BY FS_Singleton
  <2> QED BY <1>2, <2>1, <2>2
<1> QED BY <1>1, <1>2

\* A selected launch under the simulator has all its logs filed when it is over and
\* nothing of other launches, but for the one log in the sender's hands, for any number
\* of threads, launches and logs and whatever way they travel, as long as launches do
\* not overlap and each is announced and waited for (DataCollectWithSimulator,
\* CamodelHelper).
THEOREM LogsAreFiled == Spec => []LogsFiled
<1>1. ASSUME LaunchInv PROVE LogsFiled
  <2> SUFFICES ASSUME ~disturbed, NEW id \in done
               PROVE  Cardinality(Missing(id)) <= Late /\ Cardinality(Foreign(id)) <= Late
    BY DEF LogsFiled
  <2>1. /\ AtMostOne(Missing(id)) /\ AtMostOne(Foreign(id))
        /\ mode # "stream" => Missing(id) = {} /\ Foreign(id) = {}
    BY <1>1 DEF LaunchInv, Course, Complete
  <2>2. /\ Cardinality(Missing(id)) <= 1 /\ (Missing(id) = {} => Cardinality(Missing(id)) = 0)
        /\ Cardinality(Foreign(id)) <= 1 /\ (Foreign(id) = {} => Cardinality(Foreign(id)) = 0)
    BY <2>1, AtMostOneIsFew
  <2> QED BY <2>1, <2>2 DEF Late
<1>2. LaunchInv => LogsFiled
  BY <1>1
<1> QED BY <1>2, InitLaunchInv, StepLaunchInv, TypeCorrect, PTL DEF Spec
=============================================================================
