--------------------------- MODULE RtKernelsProofs ---------------------------
(***************************************************************************)
(* Proofs about RtKernels for any threads, devices, binaries, kernels,     *)
(* handles and stubs.  A launch is followed through three tables: the last *)
(* event of its device is its own, the number its handle has names its     *)
(* binary, and a task keeps what it made for the key it is found with.     *)
(***************************************************************************)
EXTENDS RtKernels, SequenceTheorems, TLAPS

-----------------------------------------------------------------------------
(* What the theorems assume of an application.                             *)

\* No two threads launch on one device.
OwnDevices == \A t, u \in Thread : DeviceOf[t] = DeviceOf[u] => t = u

\* A stub always stands for one kernel, as stubInfo_ keeps what it had first.
StubsTheSame == "other" \notin Again

\* Every launch that is put through tasks has its blocks counted first, or none
\* has them counted: no task is made before its thread keeps directories.
CountsFirst(todo) == todo # <<>> => Head(todo) = "BB_COUNT"
CountsNever(todo) == \A i \in 1..Len(todo) : todo[i] # "BB_COUNT"
KeepsFromTheStart == (\A todo \in Todo : CountsFirst(todo)) \/ (\A todo \in Todo : CountsNever(todo))

-----------------------------------------------------------------------------
(* Types, and what has been registered.                                    *)

Registration == [code : Code, image : Image]
Event == [launch : Thread \X Nat, hdl : Handle, stub : Stub \cup {None}, args : Buffer,
          pcStart : [of : Image, offset : Image]]
DBITask == [handle : Nat, image : Image \cup {None}, launchId : Nat,
            bound : [handle : Nat, kernel : Kernel] \cup {None}]
Dumped == [device : Device, launchId : Nat, launch : Thread \X Nat, hdl : Handle]
Fields == [pc : {"idle", "event", "archive", "task", "update", "run"}, stub : Stub \cup {None},
           hdl : Handle \cup {None}, kernel : Kernel \cup {None}, args : Buffer \cup {None},
           todo : Seq(BIType), launchId : Nat, key : Key \cup {None}, ok : BOOLEAN]
Call == {c \in Fields : c.pc # "idle" => c.args # None}
Memory == [launch : Thread \X Nat, addrs : (Thread \X Nat) \cup {None}]

Tables(D, V) == UNION {[S -> V] : S \in SUBSET D}

RuntimeOK ==
    /\ binaries \in [Handle -> Code \cup {None}]
    /\ stubs \in [Stub -> StubFuncInfo \cup {None}]
RegistryOK ==
    /\ registerEvents \in Seq(Registration)
    /\ hdlToRegId \in [Handle -> Nat \cup {None}]
    /\ stubInfo \in [Stub -> StubFuncInfo \cup {None}]
HistoryOK ==
    /\ launchEvents \in [Device -> Seq(Event)]
    /\ memInfoHistory \in [Device -> Seq(Memory)]
    /\ hostArgs \in [Buffer -> (Thread \X Nat) \cup {None}]
TasksOK ==
    /\ taskPool \in [Thread -> Tables(Key, DBITask)] /\ keepOutputs \in [Thread -> BOOLEAN]
    /\ outputs \in [Thread -> SUBSET (Nat \X BIType)]
CallbacksOK ==
    /\ dumps \subseteq Dumped
    /\ listener \in [Device -> {"none", "started", "listening", "gone"}]
CallOK == call \in [Thread -> Call] /\ nr \in [Thread -> Nat]
TypeOK == RuntimeOK /\ RegistryOK /\ HistoryOK /\ TasksOK /\ CallbacksOK /\ CallOK

\* The handle has had a binary, and its number is that of a registration.
Numbered(h) == h \in Handle /\ hdlToRegId[h] \in 1..Len(registerEvents)

\* What names a handle names one with a number.
HandlesKnown ==
    /\ \A h \in Handle : binaries[h] # None => Numbered(h)
    /\ \A s \in Stub : stubs[s] # None => binaries[stubs[s].hdl] # None
    /\ \A s \in Stub : stubs[s] # None /\ s \notin Unseen => stubInfo[s] # None
    /\ \A s \in Stub : stubInfo[s] # None => Numbered(stubInfo[s].hdl)
    /\ \A d \in Device : \A i \in 1..Len(launchEvents[d]) :
          LET event == launchEvents[d][i]
          IN  Numbered(event.hdl) /\ (event.stub # None => stubInfo[event.stub] # None)

\* And its number names its binary.
NumbersTell ==
    /\ \A h \in Handle :
          binaries[h] # None => registerEvents[hdlToRegId[h]].code = binaries[h]
    /\ \A h, g \in Handle :
          binaries[h] # None /\ binaries[g] # None /\ hdlToRegId[h] = hdlToRegId[g] => h = g

\* A launch of a stub some hook saw, or of a handle.
Seen(c) == c.stub = None \/ c.stub \notin Unseen
Recorded == {"archive", "task", "update", "run"}

\* A launch is of a binary that is registered, recorded before a task runs, and
\* has the key of a task only when that task succeeded.
Launching(t) ==
    LET c == call[t]
    IN  /\ c.pc = "idle" => c = Idle
        /\ c.pc # "idle" =>
              /\ c.hdl \in Handle /\ c.kernel \in Kernel /\ binaries[c.hdl] # None
              /\ c.stub # None /\ Seen(c) => stubInfo[c.stub] # None
        /\ c.pc \in Recorded /\ Seen(c) => Len(launchEvents[DeviceOf[t]]) > 0
        /\ c.pc \in {"event", "archive", "task"} => c.key = None /\ ~c.ok
        /\ c.pc = "task" => c.todo # <<>>
        /\ c.pc = "update" => c.ok
        /\ c.ok => c.key # None
        /\ c.key # None =>
              /\ Seen(c) /\ c.todo # <<>> /\ c.launchId \in 1..Len(launchEvents[DeviceOf[t]])
              /\ c.key = TaskKey(c, c.key.regId)
              /\ c.key \in DOMAIN taskPool[t] /\ taskPool[t][c.key].image # None
              /\ c.stub # None => taskPool[t][c.key].bound # None

BaseInv == TypeOK /\ HandlesKnown /\ NumbersTell /\ \A t \in Thread : Launching(t)

-----------------------------------------------------------------------------
(* The last event of its device is a launch's own.                         *)

\* A stub means to the hooks what it means to the runtime.
StubsTell ==
    /\ \A s \in Stub : stubs[s] # None /\ s \notin Unseen => stubInfo[s] = stubs[s]
    /\ \A t \in Thread :
          LET c == call[t]
          IN  c.stub # None /\ Seen(c) => stubInfo[c.stub] = [hdl |-> c.hdl, kernel |-> c.kernel]

LastIsOwn(t) ==
    LET c == call[t]
        event == LastEvent(t)
    IN  /\ c.pc \in Recorded /\ Seen(c) =>
              event.launch = LaunchOf(t) /\ event.hdl = c.hdl /\ event.stub = c.stub
        /\ c.key # None => c.launchId = GetLaunchId(t) /\ c.key.regId = hdlToRegId[c.hdl]

LaunchInv == StubsTell /\ \A t \in Thread : LastIsOwn(t)

-----------------------------------------------------------------------------
(* A task keeps what it made for its key.                                  *)

\* As long as a thread does not keep directories, it has not made a task.
KeepsNow(t) ==
    IF \A todo \in Todo : CountsFirst(todo)
    THEN ~keepOutputs[t] =>
            /\ DOMAIN taskPool[t] = {} /\ CountsFirst(call[t].todo)
            /\ call[t].todo # <<>> => call[t].pc \in {"event", "archive", "task"}
    ELSE ~keepOutputs[t] /\ CountsNever(call[t].todo)

TaskTells(t, key) ==
    LET task == taskPool[t][key]
    IN  /\ key.regId \in 1..Len(registerEvents)
        /\ task.image # None =>
              /\ task.image = [code |-> registerEvents[key.regId].code, kernel |-> key.tilingKey,
                               type |-> key.type]
              /\ keepOutputs[t] => OutputDir(task.launchId, key.type) \in outputs[t]
        /\ task.bound # None =>
              /\ task.image # None /\ key.stub # None /\ stubInfo[key.stub] # None
              /\ task.bound = [handle |-> task.handle, kernel |-> stubInfo[key.stub].kernel]

TaskInv == \A t \in Thread : KeepsNow(t) /\ \A key \in DOMAIN taskPool[t] : TaskTells(t, key)

-----------------------------------------------------------------------------
(* The symbols of a binary are those of the copy at hand.                  *)

\* No two threads instrument one binary.
Apart ==
    \A t, u \in Thread :
        t # u /\ call[t].todo # <<>> /\ call[u].todo # <<>> => call[t].hdl # call[u].hdl

CopyIsOwn(t) ==
    LET c == call[t]
        image == taskPool[t][c.key].image
    IN  /\ c.key # None => registerEvents[hdlToRegId[c.hdl]].image = image
        /\ c.pc = "run" /\ c.ok => LastEvent(t).pcStart = [of |-> image, offset |-> image]

CopyInv == Apart /\ \A t \in Thread : CopyIsOwn(t)

-----------------------------------------------------------------------------
(* The memory history keeps step with the events.                          *)

Archived == {"task", "update", "run"}
InStep(t) ==
    LET memory == memInfoHistory[DeviceOf[t]]
    IN  /\ Len(memory) = IF call[t].pc = "archive" THEN GetLaunchId(t) - 1 ELSE GetLaunchId(t)
        /\ call[t].pc \in Archived => memory[GetLaunchId(t)].launch = LaunchOf(t)

\* What a callback will save is still there.
Awaited(d) ==
    LET events == launchEvents[d.device]
        memory == memInfoHistory[d.device]
    IN  /\ d.launchId \in 1..Len(events) /\ d.launchId \in 1..Len(memory)
        /\ events[d.launchId].launch = d.launch /\ events[d.launchId].hdl = d.hdl
        /\ memory[d.launchId].launch = d.launch /\ binaries[d.hdl] # None

DumpInv == (\A t \in Thread : InStep(t)) /\ \A d \in dumps : Awaited(d)

-----------------------------------------------------------------------------
(* An event points to the arguments of its launch, while they are there.   *)

\* No buffer holds the arguments of a launch to come.
Begun(launch) == launch \in Thread \X Nat /\ launch[2] <= nr[launch[1]]
PointsTo(launch, args) == \A a \in Buffer : hostArgs[a] = launch => args = a

EventsPointTo ==
    \A d \in Device : \A i \in 1..Len(launchEvents[d]) :
        LET event == launchEvents[d][i]
        IN  Begun(event.launch) /\ PointsTo(event.launch, event.args)

ArgsInv ==
    /\ \A a \in Buffer : hostArgs[a] # None => Begun(hostArgs[a])
    /\ \A t \in Thread : call[t].pc # "idle" => PointsTo(LaunchOf(t), call[t].args)
    /\ EventsPointTo

-----------------------------------------------------------------------------
(* Lemmas about the operators of the model.                                *)

\* What is in a table is of its types.
LEMMA TableFacts ==
    ASSUME NEW D, NEW V, NEW f \in Tables(D, V)
    PROVE  DOMAIN f \subseteq D /\ \A x \in DOMAIN f : f[x] \in V
  BY DEF Tables

\* And stays so.
LEMMA WithType ==
    ASSUME NEW D, NEW V, NEW f \in Tables(D, V), NEW x \in D, NEW v \in V
    PROVE  With(f, x, v) \in Tables(D, V)
<1> DEFINE S == {x} \cup DOMAIN f
<1>1. S \subseteq D
  BY TableFacts
<1>2. With(f, x, v) \in [S -> V]
  BY TableFacts DEF With
<1> QED BY <1>1, <1>2 DEF Tables

\* The task found with a key, and the key itself.
LEMMA TaskFacts ==
    ASSUME TypeOK, NEW t \in Thread
    PROVE  /\ \A key \in DOMAIN taskPool[t] : key \in Key /\ taskPool[t][key] \in DBITask
           /\ \A key : Task(t, key) \in DBITask
           /\ \A key \in DOMAIN taskPool[t] : Task(t, key) = taskPool[t][key]
           /\ \A key : key \notin DOMAIN taskPool[t] => Task(t, key) = NewTask
<1>1. NewTask \in DBITask
  BY DEF NewTask, DBITask
<1>2. taskPool[t] \in Tables(Key, DBITask)
  BY DEF TypeOK, TasksOK
<1>3. DOMAIN taskPool[t] \subseteq Key /\ \A key \in DOMAIN taskPool[t] : taskPool[t][key] \in DBITask
  BY <1>2, TableFacts
<1> QED BY <1>1, <1>3 DEF Task

\* The tasks of a launch.
LEMMA TodoFacts ==
    ASSUME NEW todo \in Seq(BIType), todo # <<>>
    PROVE  Head(todo) \in BIType /\ Tail(todo) \in Seq(BIType) /\ (Len(todo) > 1 => Tail(todo) # <<>>)
<1>1. Head(todo) \in BIType /\ Tail(todo) \in Seq(BIType)
  OBVIOUS
<1>2. Len(Tail(todo)) = Len(todo) - 1
  OBVIOUS
<1>3. Len(todo) > 1 => Len(Tail(todo)) # 0
  BY <1>2
<1>4. Len(<<>>) = 0
  OBVIOUS
<1> QED BY <1>1, <1>3, <1>4, Zenon

-----------------------------------------------------------------------------
(* The steps of the system.                                                *)

\* The steps of a thread that have inputs.
RegistersOne(t) == \E h \in Handle, c \in Code : DevBinaryRegister(t, h, c)
Unregisters(t) == \E h \in Handle : DevBinaryUnRegister(t, h)
BindsStub(t) == \E h \in Handle, s \in Stub, k \in Kernel : FunctionRegister(t, h, s, k)
Begins(t) ==
    \E h \in Handle, s \in Stub \cup {None}, k \in Kernel, a \in Buffer, todo \in Todo :
        Launch(t, h, s, k, a, todo)
Runs(t) == \E sink \in Sink : Run(t, sink)

\* What happens beside the calls.
Beside ==
    \/ \E d \in dumps : Dump(d)
    \/ \E d \in Device : ListenCallbackTask(d)
    \/ \E a \in Buffer : ReuseArgs(a)

\* The steps, one by one.
LEMMA Steps ==
    ASSUME Next
    PROVE  \/ \E t \in Thread :
                 \/ RegistersOne(t) \/ Unregisters(t) \/ BindsStub(t) \/ Begins(t)
                 \/ AddLaunchEvent(t) \/ ArchiveMemInfo(t) \/ RunDBITask(t)
                 \/ UpdatePcStartAddrByDbi(t) \/ Runs(t)
           \/ Beside
  BY DEF Next, RegistersOne, Unregisters, BindsStub, Begins, Runs, Beside

\* What a task of a thread does that is run: its last event names the number,
\* new is the task then.
RegOf(t) == hdlToRegId[LastEvent(t).hdl]
KeyOf(t) == TaskKey(call[t], RegOf(t))
ImageOf(t) == [code |-> registerEvents[RegOf(t)].code, kernel |-> KeyOf(t).tilingKey,
               type |-> Head(call[t].todo)]

Made(t, new, replaced) ==
    LET old == Task(t, KeyOf(t))
    IN  \/ /\ new.image = old.image /\ new.handle = old.handle /\ new.launchId = old.launchId
        \/ /\ NeedConvert(old, Head(call[t].todo), t) /\ ~replaced
           /\ new.image = None /\ new.bound = old.bound
        \/ /\ NeedConvert(old, Head(call[t].todo), t) /\ replaced
           /\ new.image = ImageOf(t) /\ new.handle = old.handle + 1
           /\ new.launchId = GetLaunchId(t)
Binds(t, new, replaced) ==
    LET old == Task(t, KeyOf(t))
        stub == LastEvent(t).stub
    IN  \/ new.bound = old.bound
        \/ /\ replaced /\ stub # None /\ stubInfo[stub] # None
           /\ new.bound = [handle |-> new.handle, kernel |-> stubInfo[stub].kernel]
Ran(t, new, replaced, ok) ==
    /\ new \in DBITask /\ Made(t, new, replaced) /\ Binds(t, new, replaced)
    /\ replaced => new.image # None
    /\ ok => replaced /\ (call[t].stub = None \/ new.bound # None)
    /\ taskPool' = [taskPool EXCEPT ![t] = With(taskPool[t], KeyOf(t), new)]
    /\ outputs' = IF keepOutputs'[t]
                  THEN [outputs EXCEPT ![t] = @ \cup {OutputDir(GetLaunchId(t), Head(call[t].todo))}]
                  ELSE outputs
    /\ registerEvents' = IF replaced THEN [registerEvents EXCEPT ![RegOf(t)].image = new.image]
                         ELSE registerEvents
    /\ call' = [call EXCEPT ![t] = [call[t] EXCEPT
                   !.pc = IF ok THEN "update" ELSE "run", !.launchId = GetLaunchId(t),
                   !.ok = ok, !.key = IF ok THEN KeyOf(t) ELSE None]]

\* The event, the number and the kernel a task goes by.
LEMMA LastEventFacts ==
    ASSUME BaseInv, NEW t \in Thread, call[t].pc = "task", Seen(call[t])
    PROVE  /\ call[t] \in Call /\ DeviceOf[t] \in Device
           /\ GetLaunchId(t) \in 1..Len(launchEvents[DeviceOf[t]])
           /\ LastEvent(t) \in Event
           /\ RegOf(t) \in 1..Len(registerEvents)
           /\ KeyOf(t) \in Key
           /\ ImageOf(t) \in Image
           /\ LastEvent(t).stub # None =>
                 /\ LastEvent(t).stub \in Stub /\ stubInfo[LastEvent(t).stub] # None
                 /\ stubInfo[LastEvent(t).stub].kernel \in Kernel
<1>1. call[t] \in Call /\ DeviceOf[t] \in Device /\ call[t].todo # <<>>
  BY ThreadAssumption DEF BaseInv, TypeOK, CallOK, Launching
<1>2. launchEvents[DeviceOf[t]] \in Seq(Event) /\ Len(launchEvents[DeviceOf[t]]) > 0
  BY <1>1 DEF BaseInv, TypeOK, HistoryOK, Launching, Recorded
<1>3. GetLaunchId(t) \in 1..Len(launchEvents[DeviceOf[t]]) /\ LastEvent(t) \in Event
  BY <1>2 DEF GetLaunchId, LastEvent, GetDeviceContext
<1>4. Numbered(LastEvent(t).hdl)
      /\ (LastEvent(t).stub # None => stubInfo[LastEvent(t).stub] # None)
  BY <1>1, <1>3 DEF BaseInv, HandlesKnown, LastEvent, GetDeviceContext
<1>5. RegOf(t) \in 1..Len(registerEvents)
  BY <1>4 DEF RegOf, Numbered
<1>6. registerEvents[RegOf(t)] \in Registration
  BY <1>5 DEF BaseInv, TypeOK, RegistryOK
<1>7. Head(call[t].todo) \in BIType /\ RegOf(t) \in Nat
  BY <1>1, <1>5, TodoFacts DEF Call, Fields
<1>8. /\ call[t].stub \in Stub \cup {None} /\ call[t].kernel \in Kernel \cup {None}
  BY <1>1 DEF Call, Fields
<1>9. KeyOf(t) \in Key
  BY <1>7, <1>8 DEF KeyOf, TaskKey, Key
<1>10. ImageOf(t) \in Image
  BY <1>6, <1>7, <1>9 DEF ImageOf, Image, Registration, Key
<1>11. ASSUME LastEvent(t).stub # None
       PROVE  LastEvent(t).stub \in Stub /\ stubInfo[LastEvent(t).stub] \in StubFuncInfo
  BY <1>3, <1>4, <1>11 DEF Event, BaseInv, TypeOK, RegistryOK
<1> QED BY <1>1, <1>3, <1>4, <1>5, <1>9, <1>10, <1>11 DEF StubFuncInfo

\* What is left of a task by KernelReplaceTask and the binding of its stub.
LEMMA TaskOutcomes ==
    ASSUME NEW task \in DBITask, NEW image \in Image, NEW launchId \in Nat, NEW event \in Event,
           event.stub # None =>
              /\ event.stub \in Stub /\ stubInfo[event.stub] # None
              /\ stubInfo[event.stub].kernel \in Kernel
    PROVE  /\ \A made \in Converted(task, image, launchId) :
                 /\ made \in DBITask /\ made.bound = task.bound
                 /\ \/ made = task
                    \/ made.image = None /\ made.handle = task.handle
                    \/ /\ made.image = image /\ made.handle = task.handle + 1
                       /\ made.launchId = launchId
           /\ \A new \in Bound(task, event) :
                 /\ new \in DBITask /\ new.image = task.image /\ new.handle = task.handle
                 /\ new.launchId = task.launchId
                 /\ \/ new.bound = task.bound
                    \/ /\ event.stub # None
                       /\ new.bound = [handle |-> new.handle, kernel |-> stubInfo[event.stub].kernel]
<1>1. ASSUME NEW made \in Converted(task, image, launchId)
      PROVE  /\ made \in DBITask /\ made.bound = task.bound
             /\ \/ made = task
                \/ made.image = None /\ made.handle = task.handle
                \/ /\ made.image = image /\ made.handle = task.handle + 1
                   /\ made.launchId = launchId
  <2>1. \/ made = task
        \/ made = [task EXCEPT !.handle = @ + 1, !.image = image, !.launchId = launchId]
        \/ made = [task EXCEPT !.image = None]
    BY DEF Converted
  <2>2. ASSUME NEW n \in Nat
        PROVE  [task EXCEPT !.handle = n, !.image = image, !.launchId = launchId] \in DBITask
    BY DEF DBITask
  <2>3. [task EXCEPT !.image = None] \in DBITask
    BY DEF DBITask
  <2>4. task.handle + 1 \in Nat
    BY DEF DBITask
  <2>5. CASE made = task
    BY <2>5
  <2>6. CASE made = [task EXCEPT !.image = None]
    BY <2>3, <2>6 DEF DBITask
  <2>7. CASE made = [task EXCEPT !.handle = @ + 1, !.image = image, !.launchId = launchId]
    <3>1. made = [task EXCEPT !.handle = task.handle + 1, !.image = image, !.launchId = launchId]
      BY <2>7 DEF DBITask
    <3>2. made \in DBITask
      BY <3>1, <2>2, <2>4
    <3>3. made.bound = task.bound /\ made.handle = task.handle + 1 /\ made.image = image
          /\ made.launchId = launchId
      BY <3>1 DEF DBITask
    <3> QED BY <3>2, <3>3
  <2> QED BY <2>1, <2>5, <2>6, <2>7
<1>2. ASSUME NEW new \in Bound(task, event)
      PROVE  /\ new \in DBITask /\ new.image = task.image /\ new.handle = task.handle
             /\ new.launchId = task.launchId
             /\ \/ new.bound = task.bound
                \/ /\ event.stub # None
                   /\ new.bound = [handle |-> new.handle, kernel |-> stubInfo[event.stub].kernel]
  <2>1. \/ new = task
        \/ /\ event.stub # None
           /\ new = [task EXCEPT !.bound = [handle |-> task.handle,
                                            kernel |-> stubInfo[event.stub].kernel]]
    BY DEF Bound
  <2>2. CASE new = task
    BY <2>2
  <2>3. CASE /\ event.stub # None
             /\ new = [task EXCEPT !.bound = [handle |-> task.handle,
                                              kernel |-> stubInfo[event.stub].kernel]]
    <3> DEFINE b == [handle |-> task.handle, kernel |-> stubInfo[event.stub].kernel]
    <3>1. b \in [handle : Nat, kernel : Kernel]
      BY <2>3 DEF DBITask
    <3>2. new = [task EXCEPT !.bound = b] /\ b.handle = task.handle
      BY <2>3
    <3> HIDE DEF b
    <3>3. new \in DBITask /\ new.image = task.image /\ new.handle = task.handle
          /\ new.launchId = task.launchId /\ new.bound = b
      BY <3>1, <3>2 DEF DBITask
    <3> QED BY <2>3, <3>3 DEF b
  <2> QED BY <2>1, <2>2, <2>3
<1> QED BY <1>1, <1>2

\* RunDBITask either skips the task or runs it.
LEMMA RanFacts ==
    ASSUME BaseInv, NEW t \in Thread, RunDBITask(t)
    PROVE  \/ Skipped(t)
           \/ Seen(call[t]) /\ \E new, replaced, ok : ok \in BOOLEAN /\ replaced \in BOOLEAN
                                                      /\ Ran(t, new, replaced, ok)
<1>1. Skipped(t) \/ (RunTask(t) /\ Seen(call[t]))
  BY DEF RunDBITask, RunByStub, RunByHandle, Seen
<1>2. call[t].pc = "task"
  BY DEF RunDBITask
<1>3. ASSUME RunTask(t), Seen(call[t])
      PROVE  \E new, replaced, ok : ok \in BOOLEAN /\ replaced \in BOOLEAN
                                    /\ Ran(t, new, replaced, ok)
  <2> DEFINE key == KeyOf(t)
             old == Task(t, key)
             again == ~NeedConvert(old, Head(call[t].todo), t)
  <2>1. PICK made \in IF again THEN {old} ELSE Converted(old, ImageOf(t), GetLaunchId(t)) :
          LET replaced == again \/ made.handle # old.handle
          IN  \E new \in IF replaced THEN Bound(made, LastEvent(t)) ELSE {made} :
              LET ok == replaced /\ (call[t].stub = None \/ new.bound # None)
              IN  /\ taskPool' = [taskPool EXCEPT ![t] = With(@, key, new)]
                  /\ outputs' = IF keepOutputs'[t]
                                THEN [outputs EXCEPT ![t] =
                                         @ \cup {OutputDir(GetLaunchId(t), Head(call[t].todo))}]
                                ELSE outputs
                  /\ registerEvents' = IF replaced THEN SetDbiBinary(RegOf(t), new.image, again)
                                       ELSE registerEvents
                  /\ call' = [call EXCEPT ![t] = [call[t] EXCEPT
                                 !.pc = IF ok THEN "update" ELSE "run", !.launchId = GetLaunchId(t),
                                 !.ok = ok, !.key = IF ok THEN key ELSE None]]
    BY <1>3 DEF RunTask, KeyOf, ImageOf, RegOf
  <2> DEFINE replaced == again \/ made.handle # old.handle
  <2>2. PICK new \in IF replaced THEN Bound(made, LastEvent(t)) ELSE {made} :
          LET ok == replaced /\ (call[t].stub = None \/ new.bound # None)
          IN  /\ taskPool' = [taskPool EXCEPT ![t] = With(@, key, new)]
              /\ outputs' = IF keepOutputs'[t]
                            THEN [outputs EXCEPT ![t] =
                                     @ \cup {OutputDir(GetLaunchId(t), Head(call[t].todo))}]
                            ELSE outputs
              /\ registerEvents' = IF replaced THEN SetDbiBinary(RegOf(t), new.image, again)
                                   ELSE registerEvents
              /\ call' = [call EXCEPT ![t] = [call[t] EXCEPT
                             !.pc = IF ok THEN "update" ELSE "run", !.launchId = GetLaunchId(t),
                             !.ok = ok, !.key = IF ok THEN key ELSE None]]
    BY <2>1
  <2> DEFINE ok == replaced /\ (call[t].stub = None \/ new.bound # None)
  <2>3. /\ GetLaunchId(t) \in Nat /\ LastEvent(t) \in Event /\ ImageOf(t) \in Image
        /\ LastEvent(t).stub # None =>
              /\ LastEvent(t).stub \in Stub /\ stubInfo[LastEvent(t).stub] # None
              /\ stubInfo[LastEvent(t).stub].kernel \in Kernel
    BY <1>2, <1>3, LastEventFacts
  <2>4. old \in DBITask
    BY TaskFacts DEF BaseInv
  <2>5. again => old.image # None
    BY DEF NeedConvert
  <2> HIDE DEF key, old, again
  <2>6. /\ made \in DBITask /\ made.bound = old.bound
        /\ \/ made = old
           \/ ~again /\ made.image = None /\ made.handle = old.handle
           \/ /\ ~again /\ made.image = ImageOf(t) /\ made.handle = old.handle + 1
              /\ made.launchId = GetLaunchId(t)
    BY <2>1, <2>3, <2>4, TaskOutcomes
  <2>7. made.handle \in Nat /\ old.handle \in Nat /\ made.handle = old.handle + 1 => made.handle # old.handle
    OBVIOUS
  <2>8. /\ made.handle \in Nat /\ old.handle \in Nat
    BY <2>4, <2>6 DEF DBITask
  <2>9. \/ ~replaced /\ new = made
        \/ /\ replaced /\ new \in DBITask /\ new.image = made.image /\ new.handle = made.handle
           /\ new.launchId = made.launchId
           /\ \/ new.bound = made.bound
              \/ /\ LastEvent(t).stub # None /\ stubInfo[LastEvent(t).stub] # None
                 /\ new.bound = [handle |-> new.handle,
                                 kernel |-> stubInfo[LastEvent(t).stub].kernel]
    <3>1. CASE replaced
      <4> HIDE DEF replaced
      <4>1. new \in Bound(made, LastEvent(t))
        BY <2>2, <3>1
      <4> QED BY <4>1, <2>3, <2>6, <3>1, TaskOutcomes
    <3>2. CASE ~replaced
      BY <2>2, <3>2
    <3> QED BY <3>1, <3>2
  <2>10. new \in DBITask
    BY <2>6, <2>9
  <2>11. Made(t, new, replaced)
    <3>1. /\ again <=> ~NeedConvert(Task(t, KeyOf(t)), Head(call[t].todo), t)
          /\ old = Task(t, KeyOf(t))
      BY DEF again, old, key
    <3> HIDE DEF replaced
    <3>2. CASE made = old
      <4>1. new.image = old.image /\ new.handle = old.handle /\ new.launchId = old.launchId
        BY <2>9, <3>2
      <4> QED BY <4>1, <3>1 DEF Made
    <3>3. CASE ~again /\ made.image = None /\ made.handle = old.handle
      <4>1. ~replaced
        BY <3>3 DEF replaced
      <4>2. new = made
        BY <4>1, <2>9
      <4> QED BY <4>1, <4>2, <3>1, <3>3, <2>6 DEF Made
    <3>4. CASE ~again /\ made.image = ImageOf(t) /\ made.handle = old.handle + 1
               /\ made.launchId = GetLaunchId(t)
      <4>1. replaced
        BY <3>4, <2>7, <2>8 DEF replaced
      <4>2. new.image = made.image /\ new.handle = made.handle /\ new.launchId = made.launchId
        BY <4>1, <2>9
      <4> QED BY <4>1, <4>2, <3>1, <3>4 DEF Made
    <3> QED BY <2>6, <3>2, <3>3, <3>4
  <2>12. Binds(t, new, replaced)
    BY <2>6, <2>9 DEF Binds, old, key
  <2>13. replaced => new.image # None
    <3>1. CASE made = old
      <4>1. replaced => again
        BY <3>1
      <4>2. new.image = old.image
        BY <2>9, <3>1
      <4> QED BY <4>1, <4>2, <2>5
    <3>2. CASE ~again /\ made.image = None /\ made.handle = old.handle
      BY <3>2
    <3>3. CASE made.image = ImageOf(t)
      BY <2>3, <2>9, <3>3, NoneAssumption
    <3> QED BY <2>6, <3>1, <3>2, <3>3
  <2>14. Ran(t, new, replaced, ok)
    <3>1. /\ taskPool' = [taskPool EXCEPT ![t] = With(taskPool[t], key, new)]
          /\ outputs' = IF keepOutputs'[t]
                        THEN [outputs EXCEPT ![t] =
                                 @ \cup {OutputDir(GetLaunchId(t), Head(call[t].todo))}]
                        ELSE outputs
          /\ registerEvents' = IF replaced THEN [registerEvents EXCEPT ![RegOf(t)].image = new.image]
                               ELSE registerEvents
          /\ call' = [call EXCEPT ![t] = [call[t] EXCEPT
                         !.pc = IF ok THEN "update" ELSE "run", !.launchId = GetLaunchId(t),
                         !.ok = ok, !.key = IF ok THEN key ELSE None]]
      BY <2>2 DEF SetDbiBinary
    <3>2. ok => replaced /\ (call[t].stub = None \/ new.bound # None)
      OBVIOUS
    <3> HIDE DEF ok, replaced
    <3> QED BY <3>1, <3>2, <2>10, <2>11, <2>12, <2>13 DEF Ran, key
  <2>15. ok \in BOOLEAN /\ replaced \in BOOLEAN
    OBVIOUS
  <2> QED BY <2>14, <2>15
<1> QED BY <1>1, <1>3

-----------------------------------------------------------------------------
(* Types.                                                                  *)

\* The base invariant holds at the start.
LEMMA InitBase == Init => BaseInv
<1> SUFFICES ASSUME Init PROVE BaseInv
  OBVIOUS
<1>1. ASSUME NEW D, NEW V PROVE <<>> \in Tables(D, V)
  <2>1. <<>> \in [{} -> V]
    OBVIOUS
  <2> QED BY <2>1 DEF Tables
<1>2. Idle \in Call
  BY DEF Idle, Call, Fields
<1>3. TypeOK
  <2>1. RuntimeOK /\ RegistryOK
    BY DEF Init, RuntimeOK, RegistryOK
  <2>2. HistoryOK
    BY DEF Init, HistoryOK
  <2>3. TasksOK
    BY <1>1 DEF Init, TasksOK
  <2>4. CallbacksOK /\ CallOK
    BY <1>2 DEF Init, CallbacksOK, CallOK
  <2> QED BY <2>1, <2>2, <2>3, <2>4 DEF TypeOK
<1>4. HandlesKnown /\ NumbersTell
  BY DEF Init, HandlesKnown, NumbersTell
<1>5. ASSUME NEW t \in Thread PROVE Launching(t)
  BY DEF Init, Launching, Idle, Recorded
<1> QED BY <1>3, <1>4, <1>5 DEF BaseInv

\* Registration and unregistration.
LEMMA RegistryTypes ==
    ASSUME BaseInv, NEW t \in Thread, RegistersOne(t) \/ Unregisters(t) \/ BindsStub(t)
    PROVE  TypeOK'
<1> USE DEF BaseInv, TypeOK
<1>1. ASSUME NEW h \in Handle, NEW c \in Code, DevBinaryRegister(t, h, c)
      PROVE  TypeOK'
  <2>1. RuntimeOK'
    BY <1>1 DEF DevBinaryRegister, RuntimeOK
  <2>2. RegistryOK'
    <3>1. [code |-> c, image |-> Original(c)] \in Registration
      BY DEF Registration, Image, Original
    <3>2. Registered(h) \in Nat
      BY DEF Registered, RegistryOK
    <3>3. registerEvents' \in Seq(Registration)
      BY <1>1, <3>1 DEF DevBinaryRegister, RegistryOK
    <3> QED BY <1>1, <3>2, <3>3 DEF DevBinaryRegister, RegistryOK
  <2> QED BY <1>1, <2>1, <2>2 DEF DevBinaryRegister, HistoryOK, TasksOK, CallbacksOK, CallOK,
                                  history, tasks, callbacks
<1>2. ASSUME NEW h \in Handle, DevBinaryUnRegister(t, h)
      PROVE  TypeOK'
  <2>1. RuntimeOK'
    BY <1>2 DEF DevBinaryUnRegister, RuntimeOK
  <2> QED BY <1>2, <2>1 DEF DevBinaryUnRegister, RegistryOK, HistoryOK, TasksOK, CallbacksOK, CallOK,
                            registry, history, tasks, callbacks
<1>3. ASSUME NEW h \in Handle, NEW s \in Stub, NEW k \in Kernel, FunctionRegister(t, h, s, k)
      PROVE  TypeOK'
  <2>1. [hdl |-> h, kernel |-> k] \in StubFuncInfo
    BY DEF StubFuncInfo
  <2>2. RuntimeOK'
    BY <1>3, <2>1 DEF FunctionRegister, RuntimeOK
  <2>3. stubInfo' \in [Stub -> StubFuncInfo \cup {None}]
    BY <1>3, <2>1 DEF FunctionRegister, RegistryOK
  <2> QED BY <1>3, <2>2, <2>3 DEF FunctionRegister, RegistryOK, HistoryOK, TasksOK, CallbacksOK,
                                  CallOK, history, tasks, callbacks
<1> QED BY <1>1, <1>2, <1>3 DEF RegistersOne, Unregisters, BindsStub

\* The record of a launch.
LEMMA LaunchTypes ==
    ASSUME BaseInv, NEW t \in Thread,
           Begins(t) \/ AddLaunchEvent(t) \/ ArchiveMemInfo(t)
    PROVE  TypeOK'
<1> USE DEF BaseInv, TypeOK
<1>0. DeviceOf[t] \in Device /\ call[t] \in Call
  BY ThreadAssumption DEF CallOK
<1>1. ASSUME NEW h \in Handle, NEW s \in Stub \cup {None}, NEW k \in Kernel, NEW a \in Buffer,
             NEW todo \in Todo, Launch(t, h, s, k, a, todo)
      PROVE  TypeOK'
  <2> DEFINE c == [Idle EXCEPT !.pc = "event", !.stub = s, !.hdl = h, !.kernel = k, !.args = a,
                               !.todo = todo]
  <2>1. c \in Call
    BY TodoAssumption, NoneAssumption DEF Call, Fields, Idle
  <2>2. call' = [call EXCEPT ![t] = c] /\ nr' = [nr EXCEPT ![t] = @ + 1]
    BY <1>1 DEF Launch
  <2> HIDE DEF c
  <2>3. CallOK'
    BY <2>1, <2>2 DEF CallOK
  <2>4. HistoryOK'
    <3>1. <<t, nr[t] + 1>> \in Thread \X Nat
      BY DEF CallOK
    <3> QED BY <1>1, <3>1 DEF Launch, HistoryOK, history
  <2> QED BY <1>1, <2>3, <2>4 DEF Launch, RuntimeOK, RegistryOK, TasksOK, CallbacksOK,
                                  runtime, registry, tasks, callbacks
<1>2. ASSUME AddLaunchEvent(t) PROVE TypeOK'
  <2> DEFINE c == call[t]
             known == c.stub = None \/ stubInfo[c.stub] # None
             hdl == IF c.stub = None THEN c.hdl ELSE stubInfo[c.stub].hdl
             event == [launch |-> LaunchOf(t), hdl |-> hdl, stub |-> c.stub, args |-> c.args,
                       pcStart |-> PcStart(Original(binaries[c.hdl]), hdl)]
  <2>1. c.pc = "event" /\ c \in Call /\ c.hdl \in Handle /\ binaries[c.hdl] # None
    BY <1>0, <1>2 DEF AddLaunchEvent, Launching
  <2>2. ASSUME known PROVE event \in Event
    <3>1. hdl \in Handle /\ Numbered(hdl)
      <4>1. CASE c.stub = None
        BY <2>1, <4>1 DEF HandlesKnown
      <4>2. CASE c.stub # None
        <5>1. c.stub \in Stub /\ stubInfo[c.stub] # None /\ stubInfo[c.stub] \in StubFuncInfo
          BY <2>1, <2>2, <4>2 DEF Call, Fields, RegistryOK
        <5> QED BY <5>1, <4>2 DEF HandlesKnown, StubFuncInfo
      <4> QED BY <4>1, <4>2
    <3> HIDE DEF hdl
    <3>2. registerEvents[hdlToRegId[hdl]] \in Registration
      BY <3>1 DEF Numbered, RegistryOK
    <3>3. KernelOffset(hdl) \in Image
      BY <3>2 DEF KernelOffset, EventOf, Registration
    <3>4. Original(binaries[c.hdl]) \in Image
      BY <2>1 DEF Original, Image, RuntimeOK
    <3>5. LaunchOf(t) \in Thread \X Nat /\ c.stub \in Stub \cup {None} /\ c.args \in Buffer
      BY <2>1 DEF LaunchOf, CallOK, Call, Fields
    <3> QED BY <3>1, <3>3, <3>4, <3>5 DEF Event, PcStart
  <2>3. HistoryOK'
    <3>0. UNCHANGED <<memInfoHistory, hostArgs>>
      BY <1>2 DEF AddLaunchEvent
    <3> HIDE DEF known, event
    <3>1. launchEvents' = IF ~known THEN launchEvents
                          ELSE [launchEvents EXCEPT ![DeviceOf[t]] = Append(@, event)]
      BY <1>2 DEF AddLaunchEvent, GetDeviceContext, known, event
    <3> QED BY <3>0, <3>1, <2>2, <1>0 DEF HistoryOK
  <2>4. CallOK'
    <3>1. [call[t] EXCEPT !.pc = "archive"] \in Call
      BY <1>0, <2>1 DEF Call, Fields
    <3>2. call' = [call EXCEPT ![t].pc = "archive"] /\ nr' = nr
      BY <1>2 DEF AddLaunchEvent
    <3> QED BY <3>1, <3>2 DEF CallOK
  <2> QED BY <1>2, <2>3, <2>4 DEF AddLaunchEvent, RuntimeOK, RegistryOK, TasksOK, CallbacksOK,
                                  runtime, registry, tasks, callbacks
<1>3. ASSUME ArchiveMemInfo(t) PROVE TypeOK'
  <2>1. HistoryOK'
    <3>1. LaunchOf(t) \in Thread \X Nat
      BY DEF LaunchOf, CallOK
    <3>2. [launch |-> LaunchOf(t), addrs |-> LaunchOf(t)] \in Memory
      BY <3>1 DEF Memory
    <3> QED BY <1>0, <1>3, <3>2 DEF ArchiveMemInfo, HistoryOK, GetDeviceContext
  <2>2. CallOK'
    <3>1. GetLaunchId(t) \in Nat
      BY <1>0 DEF GetLaunchId, GetDeviceContext, HistoryOK
    <3> DEFINE pc == IF call[t].todo = <<>> THEN "run" ELSE "task"
               c == [call[t] EXCEPT !.launchId = GetLaunchId(t), !.pc = pc]
    <3>2. c \in Call
      BY <1>0, <1>3, <3>1 DEF ArchiveMemInfo, Call, Fields
    <3>3. call' = [call EXCEPT ![t] = c] /\ nr' = nr
      BY <1>3 DEF ArchiveMemInfo
    <3> HIDE DEF c
    <3> QED BY <3>2, <3>3 DEF CallOK
  <2> QED BY <1>3, <2>1, <2>2 DEF ArchiveMemInfo, RuntimeOK, RegistryOK, TasksOK, CallbacksOK,
                                  runtime, registry, tasks, callbacks
<1> QED BY <1>1, <1>2, <1>3 DEF Begins

\* Directories are kept from now on, or as before.
LEMMA ConfigureType ==
    ASSUME TypeOK, NEW t \in Thread, Configure(t)
    PROVE  /\ keepOutputs' \in [Thread -> BOOLEAN]
           /\ keepOutputs'[t] = (keepOutputs[t] \/ Head(call[t].todo) = "BB_COUNT")
           /\ \A u \in Thread \ {t} : keepOutputs'[u] = keepOutputs[u]
  BY DEF Configure, TypeOK, TasksOK

\* The tasks of a launch.
LEMMA TaskTypes ==
    ASSUME BaseInv, NEW t \in Thread, RunDBITask(t)
    PROVE  TypeOK'
<1>1. call[t].pc = "task" /\ Configure(t) /\ TypeOK
      /\ UNCHANGED <<binaries, stubs, hdlToRegId, stubInfo, launchEvents, memInfoHistory, hostArgs,
                     dumps, listener, nr>>
  BY DEF RunDBITask, BaseInv, runtime, history, callbacks
<1>2. call[t] \in Call /\ call[t].todo # <<>> /\ keepOutputs' \in [Thread -> BOOLEAN]
  BY <1>1, ConfigureType DEF BaseInv, TypeOK, CallOK, Launching
<1>3. ASSUME Skipped(t) PROVE TypeOK'
  <2>1. [call[t] EXCEPT !.pc = "run", !.ok = FALSE] \in Call
    BY <1>1, <1>2 DEF Call, Fields
  <2>2. CallOK'
    BY <1>1, <1>3, <2>1 DEF Skipped, TypeOK, CallOK
  <2> QED BY <1>1, <1>2, <1>3, <2>2 DEF Skipped, TypeOK, RuntimeOK, RegistryOK, HistoryOK, TasksOK,
                                        CallbacksOK
<1>4. ASSUME NEW new, NEW replaced \in BOOLEAN, NEW ok \in BOOLEAN, Ran(t, new, replaced, ok),
             Seen(call[t])
      PROVE  TypeOK'
  <2>1. /\ GetLaunchId(t) \in Nat /\ RegOf(t) \in 1..Len(registerEvents) /\ KeyOf(t) \in Key
    BY <1>1, <1>4, LastEventFacts
  <2>2. CallOK'
    <3> DEFINE c == [call[t] EXCEPT !.pc = IF ok THEN "update" ELSE "run",
                         !.launchId = GetLaunchId(t), !.ok = ok,
                         !.key = IF ok THEN KeyOf(t) ELSE None]
    <3>1. c \in Call
      BY <1>1, <1>2, <2>1 DEF Call, Fields
    <3>2. call' = [call EXCEPT ![t] = c]
      BY <1>4 DEF Ran
    <3> HIDE DEF c
    <3> QED BY <1>1, <3>1, <3>2 DEF TypeOK, CallOK
  <2>3. RegistryOK'
    <3>1. CASE replaced
      <4>1. /\ new.image \in Image
            /\ registerEvents' = [registerEvents EXCEPT ![RegOf(t)].image = new.image]
        BY <1>4, <3>1 DEF Ran, DBITask
      <4>2. registerEvents[RegOf(t)] \in Registration
        BY <1>1, <2>1 DEF TypeOK, RegistryOK
      <4> DEFINE r == [registerEvents[RegOf(t)] EXCEPT !.image = new.image]
      <4>3. r \in Registration
        BY <4>1, <4>2 DEF Registration
      <4>4. registerEvents' = [registerEvents EXCEPT ![RegOf(t)] = r]
        BY <4>1
      <4> HIDE DEF r
      <4> QED BY <4>3, <4>4, <1>1, <2>1 DEF TypeOK, RegistryOK
    <3>2. CASE ~replaced
      BY <1>1, <1>4, <3>2 DEF Ran, TypeOK, RegistryOK
    <3> QED BY <3>1, <3>2
  <2>4. TasksOK'
    <3>1. taskPool' \in [Thread -> Tables(Key, DBITask)]
      <4>1. taskPool[t] \in Tables(Key, DBITask) /\ new \in DBITask
        BY <1>1, <1>4 DEF TypeOK, TasksOK, Ran
      <4>2. With(taskPool[t], KeyOf(t), new) \in Tables(Key, DBITask)
        BY <4>1, <2>1, WithType
      <4>3. taskPool' = [taskPool EXCEPT ![t] = With(taskPool[t], KeyOf(t), new)]
        BY <1>4 DEF Ran
      <4> QED BY <1>1, <4>2, <4>3 DEF TypeOK, TasksOK
    <3>2. outputs' \in [Thread -> SUBSET (Nat \X BIType)]
      <4>1. Head(call[t].todo) \in BIType
        BY <1>2, TodoFacts DEF Call, Fields
      <4>2. OutputDir(GetLaunchId(t), Head(call[t].todo)) \in Nat \X BIType
        BY <2>1, <4>1 DEF OutputDir
      <4> QED BY <1>1, <1>4, <4>2 DEF TypeOK, TasksOK, Ran
    <3> QED BY <1>2, <3>1, <3>2 DEF TasksOK
  <2> QED BY <1>1, <2>2, <2>3, <2>4 DEF TypeOK, RuntimeOK, HistoryOK, CallbacksOK
<1> QED BY <1>3, <1>4, RanFacts

\* The start address, the kernel and the next task.
LEMMA RunTypes ==
    ASSUME BaseInv, NEW t \in Thread, UpdatePcStartAddrByDbi(t) \/ Runs(t)
    PROVE  TypeOK'
<1> USE DEF BaseInv, TypeOK
<1>0. DeviceOf[t] \in Device /\ call[t] \in Call
  BY ThreadAssumption DEF CallOK
<1>1. ASSUME UpdatePcStartAddrByDbi(t) PROVE TypeOK'
  <2> DEFINE c == call[t]
             hdl == IF c.stub = None THEN c.hdl ELSE stubInfo[c.stub].hdl
             pc == PcStart(Task(t, c.key).image, hdl)
  <2>1. /\ c.pc = "update" /\ c \in Call /\ c.hdl \in Handle /\ binaries[c.hdl] # None
        /\ c.key # None /\ Seen(c) /\ c.key \in DOMAIN taskPool[t] /\ taskPool[t][c.key].image # None
        /\ c.launchId \in 1..Len(launchEvents[DeviceOf[t]])
        /\ c.stub # None => stubInfo[c.stub] # None
    BY <1>0, <1>1 DEF UpdatePcStartAddrByDbi, Launching
  <2>2. pc \in [of : Image, offset : Image]
    <3>1. hdl \in Handle /\ Numbered(hdl)
      <4>1. CASE c.stub = None
        BY <2>1, <4>1 DEF HandlesKnown
      <4>2. CASE c.stub # None
        <5>1. c.stub \in Stub /\ stubInfo[c.stub] # None /\ stubInfo[c.stub] \in StubFuncInfo
          BY <2>1, <4>2 DEF Call, Fields, RegistryOK
        <5> QED BY <5>1, <4>2 DEF HandlesKnown, StubFuncInfo
      <4> QED BY <4>1, <4>2
    <3> HIDE DEF hdl
    <3>2. registerEvents[hdlToRegId[hdl]] \in Registration
      BY <3>1 DEF Numbered, RegistryOK
    <3>3. KernelOffset(hdl) \in Image
      BY <3>2 DEF KernelOffset, EventOf, Registration
    <3>4. Task(t, c.key) \in DBITask /\ Task(t, c.key).image # None
      BY <2>1, TaskFacts
    <3> QED BY <3>3, <3>4 DEF PcStart, DBITask
  <2> HIDE DEF pc
  <2>3. PICK ok \in May("PcStart") :
          /\ launchEvents' = IF ok THEN [launchEvents EXCEPT ![DeviceOf[t]] =
                                            [@ EXCEPT ![c.launchId].pcStart = pc]]
                             ELSE launchEvents
          /\ call' = [call EXCEPT ![t] = [c EXCEPT !.pc = "run", !.ok = ok]]
    BY <1>1 DEF UpdatePcStartAddrByDbi, GetDeviceContext, pc
  <2>4. ok \in BOOLEAN
    BY DEF May
  <2>5. CallOK'
    <3>1. [c EXCEPT !.pc = "run", !.ok = ok] \in Call
      BY <2>1, <2>4 DEF Call, Fields
    <3> QED BY <1>1, <2>3, <3>1 DEF CallOK, UpdatePcStartAddrByDbi
  <2>6. HistoryOK'
    <3> DEFINE es == launchEvents[DeviceOf[t]]
    <3>1. es \in Seq(Event) /\ es[c.launchId] \in Event
      BY <1>0, <2>1 DEF HistoryOK
    <3>2. [es[c.launchId] EXCEPT !.pcStart = pc] \in Event
      BY <3>1, <2>2 DEF Event
    <3> DEFINE new == [es EXCEPT ![c.launchId].pcStart = pc]
    <3>3. new = [es EXCEPT ![c.launchId] = [es[c.launchId] EXCEPT !.pcStart = pc]]
      OBVIOUS
    <3>4. new \in Seq(Event)
      BY <3>1, <3>2, <3>3, <2>1
    <3>5. launchEvents' = IF ok THEN [launchEvents EXCEPT ![DeviceOf[t]] = new] ELSE launchEvents
      BY <2>3
    <3> HIDE DEF new
    <3>6. UNCHANGED <<memInfoHistory, hostArgs>>
      BY <1>1 DEF UpdatePcStartAddrByDbi
    <3> QED BY <3>4, <3>5, <3>6 DEF HistoryOK
  <2> QED BY <1>1, <2>5, <2>6 DEF UpdatePcStartAddrByDbi, RuntimeOK, RegistryOK, TasksOK, CallbacksOK,
                                  runtime, registry, tasks, callbacks
<1>2. ASSUME NEW sink \in BOOLEAN, Run(t, sink) PROVE TypeOK'
  <2> DEFINE c == call[t]
             next == IF Len(c.todo) > 1
                     THEN [c EXCEPT !.pc = "task", !.todo = Tail(@), !.key = None, !.ok = FALSE]
                     ELSE Idle
  <2>1. next \in Call
    <3>1. ASSUME Len(c.todo) > 1
          PROVE  [c EXCEPT !.pc = "task", !.todo = Tail(@), !.key = None, !.ok = FALSE] \in Call
      <4>1. Tail(c.todo) \in Seq(BIType)
        <5>1. c.todo \in Seq(BIType)
          BY <1>0 DEF Call, Fields
        <5>2. Len(<<>>) = 0 /\ ~(0 > 1)
          OBVIOUS
        <5>3. c.todo # <<>>
          BY <3>1, <5>2, Zenon
        <5> QED BY <5>1, <5>3, TodoFacts
      <4> QED BY <1>0, <1>2, <4>1 DEF Run, Call, Fields
    <3>2. Idle \in Call
      BY DEF Idle, Call, Fields
    <3> QED BY <3>1, <3>2
  <2>2. call' = [call EXCEPT ![t] = next] /\ nr' = nr
    BY <1>2 DEF Run
  <2> HIDE DEF next
  <2>3. CallOK'
    BY <2>1, <2>2 DEF CallOK
  <2>4. CallbacksOK'
    <3>1. CASE sink
      <4>1. LaunchDumpTask(t)
        BY <1>2, <3>1 DEF Run
      <4>2. c.hdl \in Handle /\ c.pc = "run"
        BY <1>0, <1>2 DEF Run, Launching
      <4> DEFINE d == [device |-> GetDeviceContext(t), launchId |-> GetLaunchId(t),
                       launch |-> LaunchOf(t), hdl |-> call[t].hdl]
      <4>3. d \in Dumped
        BY <1>0, <4>2 DEF Dumped, GetDeviceContext, GetLaunchId, LaunchOf, CallOK, HistoryOK
      <4>4. dumps' = dumps \cup {d} \/ dumps' = dumps
        BY <4>1 DEF LaunchDumpTask
      <4> HIDE DEF d
      <4>5. dumps' \subseteq Dumped
        BY <4>3, <4>4 DEF CallbacksOK
      <4>6. listener' \in [Device -> {"none", "started", "listening", "gone"}]
        BY <4>1 DEF LaunchDumpTask, SubscribeReport, CallbacksOK
      <4> QED BY <4>5, <4>6 DEF CallbacksOK
    <3>2. CASE ~sink
      BY <1>2, <3>2 DEF Run, callbacks, CallbacksOK
    <3> QED BY <3>1, <3>2
  <2> QED BY <1>2, <2>3, <2>4 DEF Run, RuntimeOK, RegistryOK, HistoryOK, TasksOK,
                                  runtime, registry, history, tasks
<1> QED BY <1>1, <1>2, TodoAssumption DEF Runs

\* The thread that listens.
LEMMA CallbackTypes ==
    ASSUME TypeOK, Beside
    PROVE  TypeOK'
<1> USE DEF TypeOK
<1>1. ASSUME NEW d \in dumps, Dump(d) PROVE TypeOK'
  <2> DEFINE event == launchEvents[d.device][d.launchId]
             memory == memInfoHistory[d.device]
  <2>1. HistoryOK'
    <3>1. CASE UNCHANGED memInfoHistory
      BY <1>1, <3>1 DEF Dump, HistoryOK
    <3>2. CASE /\ d.launchId \in DOMAIN launchEvents[d.device] \cap DOMAIN memory
               /\ UpdateNormalTaskArgsAddr(d)
      <4>1. d.device \in Device /\ launchEvents[d.device] \in Seq(Event) /\ memory \in Seq(Memory)
        BY DEF CallbacksOK, Dumped, HistoryOK
      <4>2. event \in Event /\ memory[d.launchId] \in Memory
        BY <3>2, <4>1
      <4>3. DumpKernelArgs(d) \in (Thread \X Nat) \cup {None}
        BY <4>2 DEF DumpKernelArgs, Event, HistoryOK
      <4>4. [memory[d.launchId] EXCEPT !.addrs = DumpKernelArgs(d)] \in Memory
        BY <4>2, <4>3 DEF Memory
      <4>5. [memory EXCEPT ![d.launchId].addrs = DumpKernelArgs(d)] \in Seq(Memory)
        BY <3>2, <4>1, <4>4
      <4> HIDE DEF memory
      <4>6. memInfoHistory' \in [Device -> Seq(Memory)]
        BY <3>2, <4>1, <4>5 DEF UpdateNormalTaskArgsAddr, HistoryOK, memory
      <4> QED BY <1>1, <4>6 DEF Dump, HistoryOK
    <3> QED BY <1>1, <3>1, <3>2 DEF Dump
  <2> QED BY <1>1, <2>1 DEF Dump, RuntimeOK, RegistryOK, TasksOK, CallbacksOK, CallOK, runtime, registry,
                            tasks
<1>2. ASSUME NEW d \in Device, ListenCallbackTask(d) PROVE TypeOK'
  <2>1. CallbacksOK'
    BY <1>2 DEF ListenCallbackTask, CallbacksOK
  <2> QED BY <1>2, <2>1 DEF ListenCallbackTask, RuntimeOK, RegistryOK, HistoryOK, TasksOK, CallOK,
                            runtime, registry, history, tasks
<1>3. ASSUME NEW a \in Buffer, ReuseArgs(a) PROVE TypeOK'
  BY <1>3 DEF ReuseArgs, RuntimeOK, RegistryOK, HistoryOK, TasksOK, CallbacksOK, CallOK, runtime,
              registry, history, tasks, callbacks
<1> QED BY <1>1, <1>2, <1>3 DEF Beside

-----------------------------------------------------------------------------
(* What is registered, known and recorded stays so.                        *)

\* What a step may add to the registry and to the events, and what it keeps.
NumberedThen(h) == h \in Handle /\ hdlToRegId'[h] \in 1..Len(registerEvents')
RegistryGrows ==
    /\ Len(registerEvents) <= Len(registerEvents')
    /\ \A i \in 1..Len(registerEvents) : registerEvents'[i].code = registerEvents[i].code
    /\ \A h \in Handle : binaries[h] # None => hdlToRegId'[h] = hdlToRegId[h]
    /\ \A h \in Handle : Numbered(h) => NumberedThen(h)
    /\ \A s \in Stub : stubInfo[s] # None => stubInfo'[s] = stubInfo[s]
EventsGrow ==
    \A d \in Device :
        /\ Len(launchEvents[d]) <= Len(launchEvents'[d])
        /\ \A i \in 1..Len(launchEvents[d]) :
              /\ launchEvents'[d][i].launch = launchEvents[d][i].launch
              /\ launchEvents'[d][i].hdl = launchEvents[d][i].hdl
              /\ launchEvents'[d][i].stub = launchEvents[d][i].stub
              /\ launchEvents'[d][i].args = launchEvents[d][i].args

\* Nothing of the registry but the image of a registration changes.
LEMMA ImageOnly ==
    ASSUME BaseInv, UNCHANGED <<hdlToRegId, stubInfo>>,
           \/ registerEvents' = registerEvents
           \/ \E n \in 1..Len(registerEvents), image \in Image :
                 registerEvents' = [registerEvents EXCEPT ![n].image = image]
    PROVE  RegistryGrows /\ Len(registerEvents') = Len(registerEvents)
<1>0. registerEvents \in Seq(Registration)
  BY DEF BaseInv, TypeOK, RegistryOK
<1>1. /\ Len(registerEvents') = Len(registerEvents)
      /\ \A i \in 1..Len(registerEvents) : registerEvents'[i].code = registerEvents[i].code
  <2>1. CASE registerEvents' = registerEvents
    BY <2>1
  <2>2. ASSUME NEW n \in 1..Len(registerEvents), NEW image \in Image,
               registerEvents' = [registerEvents EXCEPT ![n].image = image]
        PROVE  /\ Len(registerEvents') = Len(registerEvents)
               /\ \A i \in 1..Len(registerEvents) : registerEvents'[i].code = registerEvents[i].code
    <3>1. registerEvents[n] \in Registration
      BY <1>0
    <3> DEFINE r == [registerEvents[n] EXCEPT !.image = image]
    <3>2. r.code = registerEvents[n].code
      BY <3>1 DEF Registration
    <3>3. registerEvents' = [registerEvents EXCEPT ![n] = r]
      BY <2>2
    <3> HIDE DEF r
    <3> QED BY <1>0, <3>2, <3>3
  <2> QED BY <2>1, <2>2
<1> QED BY <1>0, <1>1 DEF RegistryGrows, Numbered, NumberedThen

\* A task writes the image of a registration.
LEMMA TaskGrows ==
    ASSUME BaseInv, NEW t \in Thread, RunDBITask(t)
    PROVE  RegistryGrows /\ Len(registerEvents') = Len(registerEvents)
<1>1. UNCHANGED <<hdlToRegId, stubInfo>> /\ call[t].pc = "task"
  BY DEF RunDBITask
<1>2. CASE Skipped(t)
  BY <1>1, <1>2, ImageOnly DEF Skipped
<1>3. ASSUME NEW new, NEW replaced \in BOOLEAN, NEW ok \in BOOLEAN, Ran(t, new, replaced, ok),
             Seen(call[t])
      PROVE  \/ registerEvents' = registerEvents
             \/ \E n \in 1..Len(registerEvents), image \in Image :
                   registerEvents' = [registerEvents EXCEPT ![n].image = image]
  <2>1. RegOf(t) \in 1..Len(registerEvents)
    BY <1>1, <1>3, LastEventFacts
  <2>2. replaced => new.image \in Image
    BY <1>3 DEF Ran, DBITask
  <2> QED BY <1>3, <2>1, <2>2 DEF Ran
<1> QED BY <1>1, <1>2, <1>3, RanFacts, ImageOnly

\* The steps that leave the events of launches alone.
LEMMA EventsKept ==
    ASSUME launchEvents' = launchEvents, TypeOK
    PROVE  EventsGrow
<1>1. \A d \in Device : Len(launchEvents[d]) \in Nat
  BY DEF TypeOK, HistoryOK
<1> QED BY <1>1 DEF EventsGrow

\* A launch is added to the events of its device.
LEMMA AddGrows ==
    ASSUME BaseInv, NEW t \in Thread, AddLaunchEvent(t)
    PROVE  /\ EventsGrow
           /\ \A d \in Device \ {DeviceOf[t]} : launchEvents'[d] = launchEvents[d]
           /\ IF call[t].stub = None \/ stubInfo[call[t].stub] # None
              THEN /\ Len(launchEvents'[DeviceOf[t]]) = Len(launchEvents[DeviceOf[t]]) + 1
                   /\ LET event == launchEvents'[DeviceOf[t]][Len(launchEvents[DeviceOf[t]]) + 1]
                      IN  /\ event.launch = LaunchOf(t) /\ event.stub = call[t].stub
                          /\ event.args = call[t].args
                          /\ event.hdl = IF call[t].stub = None THEN call[t].hdl
                                         ELSE stubInfo[call[t].stub].hdl
              ELSE launchEvents' = launchEvents
<1> DEFINE c == call[t]
           known == c.stub = None \/ stubInfo[c.stub] # None
           hdl == IF c.stub = None THEN c.hdl ELSE stubInfo[c.stub].hdl
           event == [launch |-> LaunchOf(t), hdl |-> hdl, stub |-> c.stub, args |-> c.args,
                     pcStart |-> PcStart(Original(binaries[c.hdl]), hdl)]
<1>1. launchEvents' = IF ~known THEN launchEvents
                      ELSE [launchEvents EXCEPT ![DeviceOf[t]] = Append(@, event)]
  BY DEF AddLaunchEvent, GetDeviceContext
<1>2. event.launch = LaunchOf(t) /\ event.hdl = hdl /\ event.stub = c.stub /\ event.args = c.args
  OBVIOUS
<1>3. DeviceOf[t] \in Device /\ launchEvents \in [Device -> Seq(Event)]
  BY ThreadAssumption DEF BaseInv, TypeOK, HistoryOK
<1> HIDE DEF event, hdl
<1>4. CASE known
  <2> DEFINE es == launchEvents[DeviceOf[t]]
  <2>1. /\ launchEvents'[DeviceOf[t]] = Append(es, event)
        /\ \A d \in Device \ {DeviceOf[t]} : launchEvents'[d] = launchEvents[d]
    BY <1>1, <1>3, <1>4
  <2>2. es \in Seq(Event)
    BY <1>3
  <2>3. /\ Len(Append(es, event)) = Len(es) + 1 /\ Append(es, event)[Len(es) + 1] = event
        /\ \A i \in 1..Len(es) : Append(es, event)[i] = es[i]
    BY <2>2
  <2>4. \A d \in Device : Len(launchEvents[d]) \in Nat
    BY <1>3
  <2> HIDE DEF es
  <2>5. EventsGrow
    <3> SUFFICES ASSUME NEW d \in Device
                 PROVE  /\ Len(launchEvents[d]) <= Len(launchEvents'[d])
                        /\ \A i \in 1..Len(launchEvents[d]) :
                              /\ launchEvents'[d][i].launch = launchEvents[d][i].launch
                              /\ launchEvents'[d][i].hdl = launchEvents[d][i].hdl
                              /\ launchEvents'[d][i].stub = launchEvents[d][i].stub
                              /\ launchEvents'[d][i].args = launchEvents[d][i].args
      BY DEF EventsGrow
    <3>1. CASE d = DeviceOf[t]
      BY <3>1, <2>1, <2>3, <2>4 DEF es
    <3>2. CASE d # DeviceOf[t]
      BY <3>2, <2>1, <2>4
    <3> QED BY <3>1, <3>2
  <2> QED BY <1>2, <1>4, <2>1, <2>3, <2>5 DEF es, hdl
<1>5. CASE ~known
  <2>1. launchEvents' = launchEvents
    BY <1>1, <1>5
  <2>2. EventsGrow
    BY <2>1, EventsKept DEF BaseInv
  <2> QED BY <1>5, <2>1, <2>2
<1> QED BY <1>4, <1>5

\* Only the start address of an event is updated.
LEMMA UpdateGrows ==
    ASSUME BaseInv, NEW t \in Thread, UpdatePcStartAddrByDbi(t)
    PROVE  /\ EventsGrow
           /\ \A d \in Device : Len(launchEvents'[d]) = Len(launchEvents[d])
           /\ \A d \in Device \ {DeviceOf[t]} : launchEvents'[d] = launchEvents[d]
<1> DEFINE c == call[t]
           hdl == IF c.stub = None THEN c.hdl ELSE stubInfo[c.stub].hdl
           pc == PcStart(Task(t, c.key).image, hdl)
           es == launchEvents[DeviceOf[t]]
           new == [es EXCEPT ![c.launchId].pcStart = pc]
<1>1. \/ launchEvents' = [launchEvents EXCEPT ![DeviceOf[t]] = new]
      \/ launchEvents' = launchEvents
  BY DEF UpdatePcStartAddrByDbi, GetDeviceContext
<1>2. DeviceOf[t] \in Device /\ launchEvents \in [Device -> Seq(Event)]
  BY ThreadAssumption DEF BaseInv, TypeOK, HistoryOK
<1>3. c.launchId \in 1..Len(es)
  BY DEF UpdatePcStartAddrByDbi, BaseInv, Launching
<1> HIDE DEF pc
<1>4. /\ Len(new) = Len(es)
      /\ \A i \in 1..Len(es) : /\ new[i].launch = es[i].launch /\ new[i].hdl = es[i].hdl
                               /\ new[i].stub = es[i].stub /\ new[i].args = es[i].args
  <2>1. es \in Seq(Event)
    BY <1>2
  <2>2. es[c.launchId] \in Event
    BY <2>1, <1>3
  <2> DEFINE e == [es[c.launchId] EXCEPT !.pcStart = pc]
  <2>3. e.launch = es[c.launchId].launch /\ e.hdl = es[c.launchId].hdl
        /\ e.stub = es[c.launchId].stub /\ e.args = es[c.launchId].args
    BY <2>2 DEF Event
  <2>4. new = [es EXCEPT ![c.launchId] = e]
    OBVIOUS
  <2> HIDE DEF e, new, es
  <2> QED BY <2>1, <2>3, <2>4, <1>3
<1>5. \A d \in Device : Len(launchEvents[d]) \in Nat
  BY <1>2
<1>6. ASSUME launchEvents' = [launchEvents EXCEPT ![DeviceOf[t]] = new], NEW d \in Device
      PROVE  /\ Len(launchEvents'[d]) = Len(launchEvents[d])
             /\ \A i \in 1..Len(launchEvents[d]) :
                   /\ launchEvents'[d][i].launch = launchEvents[d][i].launch
                   /\ launchEvents'[d][i].hdl = launchEvents[d][i].hdl
                   /\ launchEvents'[d][i].stub = launchEvents[d][i].stub
                   /\ launchEvents'[d][i].args = launchEvents[d][i].args
             /\ d # DeviceOf[t] => launchEvents'[d] = launchEvents[d]
  <2> HIDE DEF new
  <2>1. launchEvents'[d] = IF d = DeviceOf[t] THEN new ELSE launchEvents[d]
    BY <1>2, <1>6
  <2> QED BY <2>1, <1>4
<1> HIDE DEF new
<1>7. CASE launchEvents' = [launchEvents EXCEPT ![DeviceOf[t]] = new]
  BY <1>5, <1>6, <1>7 DEF EventsGrow
<1>8. CASE launchEvents' = launchEvents
  BY <1>5, <1>8 DEF EventsGrow
<1> QED BY <1>1, <1>7, <1>8

\* The registry when a binary is registered.
LEMMA RegisterGrows ==
    ASSUME BaseInv, NEW t \in Thread, NEW h \in Handle, NEW c \in Code, DevBinaryRegister(t, h, c)
    PROVE  /\ RegistryGrows
           /\ Len(registerEvents') = Len(registerEvents) + 1
           /\ registerEvents'[Len(registerEvents) + 1].code = c
           /\ hdlToRegId'[h] = Len(registerEvents) + 1 /\ binaries'[h] = c
           /\ \A g \in Handle \ {h} : hdlToRegId'[g] = hdlToRegId[g] /\ binaries'[g] = binaries[g]
<1> DEFINE r == [code |-> c, image |-> Original(c)]
<1>1. /\ registerEvents' = Append(registerEvents, r) /\ r.code = c
      /\ hdlToRegId' = [hdlToRegId EXCEPT ![h] = Len(registerEvents) + 1]
      /\ binaries' = [binaries EXCEPT ![h] = c] /\ stubInfo' = stubInfo /\ binaries[h] = None
  BY DEF DevBinaryRegister, Registered
<1>2. /\ registerEvents \in Seq(Registration) /\ hdlToRegId \in [Handle -> Nat \cup {None}]
      /\ binaries \in [Handle -> Code \cup {None}]
  BY DEF BaseInv, TypeOK, RegistryOK, RuntimeOK
<1> HIDE DEF r
<1>3. /\ Len(registerEvents') = Len(registerEvents) + 1
      /\ registerEvents'[Len(registerEvents) + 1] = r
      /\ \A i \in 1..Len(registerEvents) : registerEvents'[i] = registerEvents[i]
      /\ Len(registerEvents) \in Nat
  BY <1>1, <1>2
<1>4. /\ hdlToRegId'[h] = Len(registerEvents) + 1 /\ binaries'[h] = c
      /\ \A g \in Handle \ {h} : hdlToRegId'[g] = hdlToRegId[g] /\ binaries'[g] = binaries[g]
  BY <1>1, <1>2
<1>5. RegistryGrows
  <2>1. \A g \in Handle : Numbered(g) => NumberedThen(g)
    BY <1>3, <1>4 DEF Numbered, NumberedThen
  <2> QED BY <1>1, <1>3, <1>4, <2>1 DEF RegistryGrows
<1> QED BY <1>1, <1>3, <1>4, <1>5

-----------------------------------------------------------------------------
(* The base invariant.                                                     *)

\* What was known is known with the registry as it is then.
LEMMA StillKnown ==
    ASSUME BaseInv, TypeOK', RegistryGrows, EventsGrow,
           \A h \in Handle : binaries'[h] # None /\ binaries[h] = None => NumberedThen(h),
           \A s \in Stub : stubs'[s] # None =>
              /\ stubs[s] # None \/ (s \notin Unseen => stubInfo'[s] # None)
              /\ binaries'[stubs'[s].hdl] # None,
           \A s \in Stub : stubs[s] # None /\ s \notin Unseen => stubInfo[s] # None,
           \A s \in Stub :
              stubInfo'[s] # None => stubInfo'[s] = stubInfo[s] \/ NumberedThen(stubInfo'[s].hdl),
           \A d \in Device : \A i \in (Len(launchEvents[d]) + 1)..Len(launchEvents'[d]) :
              LET event == launchEvents'[d][i]
              IN  NumberedThen(event.hdl) /\ (event.stub # None => stubInfo'[event.stub] # None)
    PROVE  HandlesKnown'
<1>1. \A h \in Handle : binaries'[h] # None => NumberedThen(h)
  BY DEF BaseInv, HandlesKnown, RegistryGrows
<1>2. \A s \in Stub : stubs'[s] # None /\ s \notin Unseen => stubInfo'[s] # None
  BY DEF RegistryGrows
<1>3. ASSUME NEW s \in Stub, stubInfo'[s] # None PROVE NumberedThen(stubInfo'[s].hdl)
  <2>1. CASE stubInfo'[s] = stubInfo[s]
    <3>1. stubInfo[s] # None /\ Numbered(stubInfo[s].hdl)
      BY <1>3, <2>1 DEF BaseInv, HandlesKnown
    <3>2. stubInfo[s].hdl \in Handle
      BY <3>1 DEF Numbered
    <3>3. NumberedThen(stubInfo[s].hdl)
      BY <3>1, <3>2 DEF RegistryGrows
    <3> QED BY <2>1, <3>3
  <2> QED BY <1>3, <2>1
<1>4. ASSUME NEW d \in Device, NEW i \in 1..Len(launchEvents'[d])
      PROVE  LET event == launchEvents'[d][i]
             IN  NumberedThen(event.hdl) /\ (event.stub # None => stubInfo'[event.stub] # None)
  <2>1. Len(launchEvents[d]) \in Nat /\ Len(launchEvents'[d]) \in Nat
    BY DEF BaseInv, TypeOK, HistoryOK
  <2>2. CASE i \in 1..Len(launchEvents[d])
    <3> DEFINE event == launchEvents[d][i]
               hdl == event.hdl
               stub == event.stub
    <3>1. Numbered(hdl) /\ (stub # None => stubInfo[stub] # None)
      BY <2>2 DEF BaseInv, HandlesKnown
    <3>2. launchEvents'[d][i].hdl = hdl /\ launchEvents'[d][i].stub = stub
      BY <2>2 DEF EventsGrow
    <3>3. launchEvents[d] \in Seq(Event)
      BY DEF BaseInv, TypeOK, HistoryOK
    <3>4. event \in Event
      BY <2>2, <3>3
    <3>5. stub \in Stub \cup {None} /\ hdl \in Handle
      BY <3>4 DEF Event
    <3> HIDE DEF hdl, stub
    <3>6. stub # None => stubInfo'[stub] # None
      BY <3>1, <3>5 DEF RegistryGrows
    <3>7. NumberedThen(launchEvents'[d][i].hdl)
      BY <3>1, <3>2, <3>5 DEF RegistryGrows
    <3> QED BY <3>2, <3>6, <3>7
  <2>3. CASE i \in (Len(launchEvents[d]) + 1)..Len(launchEvents'[d])
    BY <2>3
  <2> QED BY <2>1, <2>2, <2>3
<1>5. \A s \in Stub : stubs'[s] # None => binaries'[stubs'[s].hdl] # None
  OBVIOUS
<1> QED BY <1>1, <1>2, <1>3, <1>4, <1>5 DEF HandlesKnown, Numbered, NumberedThen

\* Numbers tell as before.
LEMMA StillTell ==
    ASSUME BaseInv, RegistryGrows, hdlToRegId' = hdlToRegId,
           \A h \in Handle : binaries'[h] # None => binaries'[h] = binaries[h]
    PROVE  NumbersTell'
<1>1. ASSUME NEW h \in Handle, binaries'[h] # None
      PROVE  registerEvents'[hdlToRegId'[h]].code = binaries'[h]
  <2>1. binaries[h] # None /\ binaries'[h] = binaries[h]
    BY <1>1
  <2>2. hdlToRegId[h] \in 1..Len(registerEvents) /\ registerEvents[hdlToRegId[h]].code = binaries[h]
    BY <2>1 DEF BaseInv, HandlesKnown, Numbered, NumbersTell
  <2> QED BY <2>1, <2>2 DEF RegistryGrows
<1> QED BY <1>1 DEF BaseInv, NumbersTell

\* A thread that does not move goes on as before.
LEMMA OthersLaunch ==
    ASSUME BaseInv, RegistryGrows, EventsGrow, TypeOK', NEW t \in Thread, call'[t] = call[t],
           taskPool'[t] = taskPool[t],
           \A h \in Handle : h = call[t].hdl /\ binaries[h] # None => binaries'[h] # None
    PROVE  Launching(t)'
<1> DEFINE c == call[t]
           d == DeviceOf[t]
<1>1. Launching(t) /\ c \in Call /\ d \in Device
  BY ThreadAssumption DEF BaseInv, TypeOK, CallOK
<1>2. Len(launchEvents[d]) \in Nat /\ Len(launchEvents'[d]) \in Nat
      /\ Len(launchEvents[d]) <= Len(launchEvents'[d])
  BY <1>1 DEF EventsGrow, BaseInv, TypeOK, HistoryOK
<1>3. c.pc # "idle" =>
          /\ c.hdl \in Handle /\ c.kernel \in Kernel /\ binaries'[c.hdl] # None
          /\ c.stub # None /\ Seen(c) => stubInfo'[c.stub] # None
  BY <1>1 DEF Launching, RegistryGrows, Call, Fields
<1>4. c.pc \in Recorded /\ Seen(c) => Len(launchEvents'[d]) > 0
  BY <1>1, <1>2 DEF Launching
<1>5. c.key # None =>
          /\ Seen(c) /\ c.todo # <<>> /\ c.launchId \in 1..Len(launchEvents'[d])
          /\ c.key = TaskKey(c, c.key.regId)
          /\ c.key \in DOMAIN taskPool'[t] /\ taskPool'[t][c.key].image # None
          /\ c.stub # None => taskPool'[t][c.key].bound # None
  <2> SUFFICES ASSUME c.key # None
               PROVE  /\ Seen(c) /\ c.todo # <<>> /\ c.launchId \in 1..Len(launchEvents'[d])
                      /\ c.key = TaskKey(c, c.key.regId)
                      /\ c.key \in DOMAIN taskPool'[t] /\ taskPool'[t][c.key].image # None
                      /\ c.stub # None => taskPool'[t][c.key].bound # None
    OBVIOUS
  <2>1. /\ Seen(c) /\ c.todo # <<>> /\ c.launchId \in 1..Len(launchEvents[d])
        /\ c.key = TaskKey(c, c.key.regId)
        /\ c.key \in DOMAIN taskPool[t] /\ taskPool[t][c.key].image # None
        /\ c.stub # None => taskPool[t][c.key].bound # None
    BY <1>1 DEF Launching
  <2>2. c.launchId \in 1..Len(launchEvents'[d])
    BY <1>2, <2>1
  <2> QED BY <2>1, <2>2
<1>6. /\ c.pc = "idle" => c = Idle
      /\ c.pc \in {"event", "archive", "task"} => c.key = None /\ ~c.ok
      /\ c.pc = "task" => c.todo # <<>>
      /\ c.pc = "update" => c.ok
      /\ c.ok => c.key # None
  BY <1>1 DEF Launching
<1>7. call'[t] = c
  OBVIOUS
<1> HIDE DEF c, d
<1> QED BY <1>3, <1>4, <1>5, <1>6, <1>7 DEF Launching, d

\* The base invariant when a binary or stub is registered, or a binary goes.
LEMMA BaseRegisters ==
    ASSUME BaseInv, NEW t \in Thread, NEW h \in Handle, NEW c \in Code, DevBinaryRegister(t, h, c)
    PROVE  BaseInv'
<1>1. TypeOK'
  BY RegistryTypes DEF RegistersOne
<1>2. /\ RegistryGrows
      /\ Len(registerEvents') = Len(registerEvents) + 1
      /\ registerEvents'[Len(registerEvents) + 1].code = c
      /\ hdlToRegId'[h] = Len(registerEvents) + 1 /\ binaries'[h] = c
      /\ \A g \in Handle \ {h} : hdlToRegId'[g] = hdlToRegId[g] /\ binaries'[g] = binaries[g]
  BY RegisterGrows
<1>3. binaries[h] = None /\ UNCHANGED <<stubs, stubInfo, launchEvents, taskPool, call>>
  BY DEF DevBinaryRegister, history, tasks
<1>4. EventsGrow
  BY <1>3, EventsKept DEF BaseInv
<1>5. Len(registerEvents) \in Nat
  BY DEF BaseInv, TypeOK, RegistryOK
<1>6. c # None
  BY NoneAssumption
<1>7. HandlesKnown'
  <2>1. \A g \in Handle : binaries'[g] # None /\ binaries[g] = None => NumberedThen(g)
    BY <1>2, <1>5 DEF NumberedThen
  <2>2. ASSUME NEW s \in Stub, stubs'[s] # None
        PROVE  /\ stubs[s] # None
               /\ binaries'[stubs'[s].hdl] # None
    <3>1. stubs[s] # None /\ stubs[s] \in StubFuncInfo /\ binaries[stubs[s].hdl] # None
      BY <1>3, <2>2 DEF BaseInv, TypeOK, RuntimeOK, HandlesKnown
    <3>2. stubs[s].hdl \in Handle \ {h}
      BY <1>3, <3>1 DEF StubFuncInfo
    <3> QED BY <1>2, <1>3, <3>1, <3>2
  <2>3. \A s \in Stub : stubs[s] # None /\ s \notin Unseen => stubInfo[s] # None
    BY DEF BaseInv, HandlesKnown
  <2>4. \A d \in Device : (Len(launchEvents[d]) + 1)..Len(launchEvents'[d]) = {}
    BY <1>3 DEF BaseInv, TypeOK, HistoryOK
  <2> QED BY <1>1, <1>2, <1>3, <1>4, <2>1, <2>2, <2>3, <2>4, StillKnown
<1>8. NumbersTell'
  <2>1. ASSUME NEW g \in Handle, binaries'[g] # None
        PROVE  registerEvents'[hdlToRegId'[g]].code = binaries'[g]
    <3>1. CASE g = h
      BY <3>1, <1>2
    <3>2. CASE g # h
      <4>1. binaries[g] # None /\ binaries'[g] = binaries[g] /\ hdlToRegId'[g] = hdlToRegId[g]
        BY <3>2, <2>1, <1>2
      <4>2. hdlToRegId[g] \in 1..Len(registerEvents)
            /\ registerEvents[hdlToRegId[g]].code = binaries[g]
        BY <4>1 DEF BaseInv, HandlesKnown, Numbered, NumbersTell
      <4> QED BY <4>1, <4>2, <1>2 DEF RegistryGrows
    <3> QED BY <3>1, <3>2
  <2>2. ASSUME NEW g \in Handle, NEW f \in Handle, binaries'[g] # None, binaries'[f] # None,
               hdlToRegId'[g] = hdlToRegId'[f]
        PROVE  g = f
    <3>1. \A e \in Handle \ {h} :
             binaries'[e] # None => hdlToRegId'[e] = hdlToRegId[e] /\ binaries[e] # None
                                    /\ hdlToRegId[e] \in 1..Len(registerEvents)
      BY <1>2 DEF BaseInv, HandlesKnown, Numbered
    <3>2. CASE g # h /\ f # h
      BY <3>1, <3>2, <2>2 DEF BaseInv, NumbersTell
    <3>3. CASE g = h /\ f # h
      BY <3>1, <3>3, <2>2, <1>2, <1>5
    <3>4. CASE g # h /\ f = h
      BY <3>1, <3>4, <2>2, <1>2, <1>5
    <3> QED BY <3>2, <3>3, <3>4
  <2> QED BY <2>1, <2>2 DEF NumbersTell
<1>9. ASSUME NEW u \in Thread PROVE Launching(u)'
  <2>1. \A g \in Handle : binaries[g] # None => binaries'[g] # None
    BY <1>2, <1>3
  <2> QED BY <1>1, <1>2, <1>3, <1>4, <2>1, OthersLaunch
<1> QED BY <1>1, <1>7, <1>8, <1>9 DEF BaseInv

\* And when one goes.
LEMMA BaseUnregisters ==
    ASSUME BaseInv, NEW t \in Thread, NEW h \in Handle, DevBinaryUnRegister(t, h)
    PROVE  BaseInv'
<1>1. TypeOK'
  BY RegistryTypes DEF Unregisters
<1>2. /\ UNCHANGED <<registerEvents, hdlToRegId, stubInfo, launchEvents, taskPool, call>>
      /\ binaries' = [binaries EXCEPT ![h] = None]
      /\ stubs' = [s \in Stub |-> IF stubs[s] # None /\ stubs[s].hdl = h THEN None ELSE stubs[s]]
      /\ \A u \in Thread : call[u].hdl # h
  BY DEF DevBinaryUnRegister, registry, history, tasks
<1>3. EventsGrow /\ RegistryGrows
  BY <1>2, EventsKept, ImageOnly DEF BaseInv
<1>4. /\ binaries'[h] = None /\ \A g \in Handle \ {h} : binaries'[g] = binaries[g]
  BY <1>2 DEF BaseInv, TypeOK, RuntimeOK
<1>5. HandlesKnown'
  <2>1. ASSUME NEW s \in Stub, stubs'[s] # None
        PROVE  stubs[s] # None /\ binaries'[stubs'[s].hdl] # None
    <3>1. stubs'[s] = stubs[s] /\ stubs[s] # None /\ stubs[s].hdl # h
      BY <1>2, <2>1
    <3>2. stubs[s].hdl \in Handle /\ binaries[stubs[s].hdl] # None
      BY <3>1 DEF BaseInv, TypeOK, RuntimeOK, HandlesKnown, StubFuncInfo
    <3> QED BY <3>1, <3>2, <1>4
  <2>2. \A s \in Stub : stubs[s] # None /\ s \notin Unseen => stubInfo[s] # None
    BY DEF BaseInv, HandlesKnown
  <2>3. \A d \in Device : (Len(launchEvents[d]) + 1)..Len(launchEvents'[d]) = {}
    BY <1>2 DEF BaseInv, TypeOK, HistoryOK
  <2>4. \A g \in Handle : binaries'[g] # None => binaries'[g] = binaries[g]
    BY <1>4
  <2> QED BY <1>1, <1>2, <1>3, <2>1, <2>2, <2>3, <2>4, StillKnown
<1>6. NumbersTell'
  BY <1>2, <1>3, <1>4, StillTell
<1>7. ASSUME NEW u \in Thread PROVE Launching(u)'
  <2>1. \A g \in Handle : g = call[u].hdl /\ binaries[g] # None => binaries'[g] # None
    BY <1>2, <1>4
  <2> QED BY <1>1, <1>2, <1>3, <2>1, OthersLaunch
<1> QED BY <1>1, <1>5, <1>6, <1>7 DEF BaseInv

\* And when a stub is bound.
LEMMA BaseBindsStub ==
    ASSUME BaseInv, NEW t \in Thread, NEW h \in Handle, NEW s \in Stub, NEW k \in Kernel,
           FunctionRegister(t, h, s, k)
    PROVE  BaseInv' /\ RegistryGrows
<1> DEFINE info == [hdl |-> h, kernel |-> k]
<1>1. TypeOK'
  BY RegistryTypes DEF BindsStub
<1>2. /\ UNCHANGED <<binaries, registerEvents, hdlToRegId, launchEvents, taskPool, call>>
      /\ stubs' = [stubs EXCEPT ![s] = info]
      /\ stubInfo' = IF s \in Unseen \/ stubInfo[s] # None THEN stubInfo
                     ELSE [stubInfo EXCEPT ![s] = info]
      /\ binaries[h] # None /\ info.hdl = h
  BY DEF FunctionRegister, history, tasks
<1>3. info \in StubFuncInfo /\ info # None
  BY NoneAssumption DEF StubFuncInfo
<1> HIDE DEF info
<1>4. /\ stubs'[s] = info /\ \A r \in Stub \ {s} : stubs'[r] = stubs[r] /\ stubInfo'[r] = stubInfo[r]
      /\ stubInfo[s] # None => stubInfo'[s] = stubInfo[s]
      /\ stubInfo'[s] = stubInfo[s] \/ stubInfo'[s] = info
      /\ s \notin Unseen => stubInfo'[s] # None
  BY <1>2, <1>3 DEF BaseInv, TypeOK, RegistryOK, RuntimeOK
<1>5. RegistryGrows
  <2>1. Len(registerEvents) \in Nat
    BY DEF BaseInv, TypeOK, RegistryOK
  <2>2. \A r \in Stub : stubInfo[r] # None => stubInfo'[r] = stubInfo[r]
    BY <1>4
  <2> QED BY <1>2, <2>1, <2>2 DEF RegistryGrows, Numbered, NumberedThen
<1>6. EventsGrow
  BY <1>2, EventsKept DEF BaseInv
<1>7. HandlesKnown'
  <2>1. ASSUME NEW r \in Stub, stubs'[r] # None
        PROVE  /\ stubs[r] # None \/ (r \notin Unseen => stubInfo'[r] # None)
               /\ binaries'[stubs'[r].hdl] # None
    <3>1. CASE r = s
      BY <3>1, <1>2, <1>4
    <3>2. CASE r # s
      BY <3>2, <2>1, <1>2, <1>4 DEF BaseInv, HandlesKnown
    <3> QED BY <3>1, <3>2
  <2>2. \A r \in Stub : stubs[r] # None /\ r \notin Unseen => stubInfo[r] # None
    BY DEF BaseInv, HandlesKnown
  <2>3. \A d \in Device : (Len(launchEvents[d]) + 1)..Len(launchEvents'[d]) = {}
    BY <1>2 DEF BaseInv, TypeOK, HistoryOK
  <2>4. ASSUME NEW r \in Stub, stubInfo'[r] # None
        PROVE  stubInfo'[r] = stubInfo[r] \/ NumberedThen(stubInfo'[r].hdl)
    <3>1. NumberedThen(h)
      BY <1>2 DEF BaseInv, HandlesKnown, Numbered, NumberedThen
    <3> QED BY <3>1, <1>2, <1>4
  <2>5. \A g \in Handle : ~(binaries'[g] # None /\ binaries[g] = None)
    BY <1>2
  <2> QED BY <1>1, <1>5, <1>6, <2>1, <2>2, <2>3, <2>4, <2>5, StillKnown
<1>8. NumbersTell'
  BY <1>2, <1>5, StillTell
<1>9. ASSUME NEW u \in Thread PROVE Launching(u)'
  BY <1>1, <1>2, <1>5, <1>6, OthersLaunch
<1> QED BY <1>1, <1>5, <1>7, <1>8, <1>9 DEF BaseInv

\* A step of a launch concerns its own thread only.
LEMMA BaseMoves ==
    ASSUME BaseInv, TypeOK', RegistryGrows, EventsGrow, NEW t \in Thread,
           UNCHANGED <<binaries, stubs, hdlToRegId, stubInfo>>,
           \A d \in Device : \A i \in (Len(launchEvents[d]) + 1)..Len(launchEvents'[d]) :
              LET event == launchEvents'[d][i]
              IN  NumberedThen(event.hdl) /\ (event.stub # None => stubInfo'[event.stub] # None),
           \A u \in Thread \ {t} : call'[u] = call[u] /\ taskPool'[u] = taskPool[u],
           Launching(t)'
    PROVE  BaseInv'
<1>1. HandlesKnown'
  <2>1. /\ \A h \in Handle : ~(binaries'[h] # None /\ binaries[h] = None)
        /\ \A s \in Stub : stubs'[s] # None => stubs[s] # None /\ binaries'[stubs'[s].hdl] # None
        /\ \A s \in Stub : stubs[s] # None /\ s \notin Unseen => stubInfo[s] # None
        /\ \A s \in Stub : stubInfo'[s] = stubInfo[s]
    BY DEF BaseInv, HandlesKnown
  <2> QED BY <2>1, StillKnown
<1>2. NumbersTell'
  BY StillTell
<1>3. ASSUME NEW u \in Thread PROVE Launching(u)'
  <2>1. CASE u = t
    BY <2>1
  <2>2. CASE u # t
    BY <2>2, OthersLaunch
  <2> QED BY <2>1, <2>2
<1> QED BY <1>1, <1>2, <1>3 DEF BaseInv

\* The events there are, when none is added.
LEMMA NoneAdded ==
    ASSUME TypeOK, \A d \in Device : Len(launchEvents'[d]) = Len(launchEvents[d])
    PROVE  \A d \in Device : (Len(launchEvents[d]) + 1)..Len(launchEvents'[d]) = {}
<1>1. \A d \in Device : Len(launchEvents[d]) \in Nat
  BY DEF TypeOK, HistoryOK
<1> QED BY <1>1

\* The base invariant while a launch is recorded.
LEMMA BaseRecords ==
    ASSUME BaseInv, NEW t \in Thread, Begins(t) \/ AddLaunchEvent(t) \/ ArchiveMemInfo(t)
    PROVE  BaseInv' /\ RegistryGrows /\ EventsGrow
<1>1. TypeOK' /\ call \in [Thread -> Call] /\ DeviceOf[t] \in Device
  BY LaunchTypes, ThreadAssumption DEF BaseInv, TypeOK, CallOK
<1>2. ASSUME NEW h \in Handle, NEW s \in Stub \cup {None}, NEW k \in Kernel, NEW a \in Buffer,
             NEW todo \in Todo, Launch(t, h, s, k, a, todo)
      PROVE  BaseInv' /\ RegistryGrows /\ EventsGrow
  <2>1. UNCHANGED <<binaries, stubs, registerEvents, hdlToRegId, stubInfo, launchEvents, taskPool>>
    BY <1>2 DEF Launch, runtime, registry, history, tasks
  <2>2. RegistryGrows /\ EventsGrow
    BY <2>1, ImageOnly, EventsKept DEF BaseInv
  <2> DEFINE c == [Idle EXCEPT !.pc = "event", !.stub = s, !.hdl = h, !.kernel = k, !.args = a,
                               !.todo = todo]
  <2>3. call'[t] = c /\ \A u \in Thread \ {t} : call'[u] = call[u]
    BY <1>1, <1>2 DEF Launch
  <2>4. c.pc = "event" /\ c.stub = s /\ c.hdl = h /\ c.kernel = k /\ c.key = None /\ c.ok = FALSE
    BY DEF Idle
  <2>5. binaries[h] # None
    <3>1. CASE ByHandle(h, s)
      BY <3>1 DEF ByHandle
    <3>2. CASE ByStub(h, s, k)
      <4>1. s \in Stub /\ stubs[s] = [hdl |-> h, kernel |-> k]
        BY <3>2 DEF ByStub
      <4>2. stubs[s] # None /\ stubs[s].hdl = h
        BY <4>1, NoneAssumption DEF StubFuncInfo
      <4> QED BY <4>1, <4>2 DEF BaseInv, HandlesKnown
    <3> QED BY <1>2, <3>1, <3>2 DEF Launch
  <2>6. s # None /\ s \notin Unseen => stubInfo[s] # None
    <3> SUFFICES ASSUME s # None, s \notin Unseen PROVE stubInfo[s] # None
      OBVIOUS
    <3>1. s \in Stub /\ stubs[s] = [hdl |-> h, kernel |-> k]
      BY <1>2 DEF Launch, ByStub, ByHandle
    <3>2. stubs[s] # None
      BY <3>1, NoneAssumption DEF StubFuncInfo
    <3> QED BY <3>1, <3>2 DEF BaseInv, HandlesKnown
  <2> HIDE DEF c
  <2>7. Launching(t)'
    BY <2>1, <2>3, <2>4, <2>5, <2>6 DEF Launching, Seen, Recorded
  <2>8. \A d \in Device : (Len(launchEvents[d]) + 1)..Len(launchEvents'[d]) = {}
    BY <2>1, NoneAdded DEF BaseInv
  <2> QED BY <1>1, <2>1, <2>2, <2>3, <2>7, <2>8, BaseMoves
<1>3. ASSUME AddLaunchEvent(t) PROVE BaseInv' /\ RegistryGrows /\ EventsGrow
  <2> DEFINE c == call[t]
             d == DeviceOf[t]
             known == c.stub = None \/ stubInfo[c.stub] # None
             hdl == IF c.stub = None THEN c.hdl ELSE stubInfo[c.stub].hdl
  <2>1. /\ UNCHANGED <<binaries, stubs, registerEvents, hdlToRegId, stubInfo, taskPool>>
        /\ c.pc = "event" /\ call' = [call EXCEPT ![t].pc = "archive"]
    BY <1>3 DEF AddLaunchEvent, runtime, registry, tasks
  <2>2. RegistryGrows /\ EventsGrow
    BY <1>3, <2>1, ImageOnly, AddGrows DEF BaseInv
  <2>3. /\ call'[t] = [c EXCEPT !.pc = "archive"] /\ \A u \in Thread \ {t} : call'[u] = call[u]
        /\ c \in Call
    BY <1>1, <2>1
  <2>4. /\ call'[t].pc = "archive" /\ call'[t].stub = c.stub /\ call'[t].hdl = c.hdl
        /\ call'[t].kernel = c.kernel /\ call'[t].key = c.key /\ call'[t].ok = c.ok
    BY <2>3 DEF Call, Fields
  <2>5. /\ c.hdl \in Handle /\ c.kernel \in Kernel /\ binaries[c.hdl] # None
        /\ c.stub # None /\ Seen(c) => stubInfo[c.stub] # None
        /\ c.key = None /\ ~c.ok
    BY <2>1 DEF BaseInv, Launching
  <2>6. Len(launchEvents[d]) \in Nat
    BY <1>1 DEF BaseInv, TypeOK, HistoryOK
  <2>7. Seen(c) => Len(launchEvents'[d]) > 0
    <3>1. Seen(c) => known
      BY <2>5
    <3>2. known => Len(launchEvents'[d]) = Len(launchEvents[d]) + 1
      BY <1>3, AddGrows
    <3> QED BY <3>1, <3>2, <2>6
  <2>8. Launching(t)'
    <3> HIDE DEF c, d
    <3>1. Seen(call'[t]) <=> Seen(c)
      BY <2>4 DEF Seen
    <3>2. Seen(call'[t]) => Len(launchEvents'[DeviceOf[t]]) > 0
      BY <3>1, <2>7 DEF d
    <3> QED BY <2>1, <2>4, <2>5, <3>1, <3>2 DEF Launching, Recorded
  <2>9. ASSUME NEW e \in Device, NEW i \in (Len(launchEvents[e]) + 1)..Len(launchEvents'[e])
        PROVE  LET event == launchEvents'[e][i]
               IN  NumberedThen(event.hdl) /\ (event.stub # None => stubInfo'[event.stub] # None)
    <3>1. Len(launchEvents[e]) \in Nat
      BY DEF BaseInv, TypeOK, HistoryOK
    <3>2. e = d /\ known /\ i = Len(launchEvents[d]) + 1
      <4>1. Len(launchEvents'[e]) > Len(launchEvents[e])
        BY <1>1, <2>9, <3>1 DEF TypeOK, HistoryOK
      <4>2. e = d
        BY <1>3, <4>1, <3>1, AddGrows
      <4>3. known
        BY <1>3, <4>1, <3>1, AddGrows
      <4>4. Len(launchEvents'[d]) = Len(launchEvents[d]) + 1
        BY <1>3, <4>3, AddGrows
      <4> QED BY <4>2, <4>3, <4>4, <2>9, <3>1
    <3>3. launchEvents'[e][i].stub = c.stub /\ launchEvents'[e][i].hdl = hdl
      BY <1>3, <3>2, AddGrows
    <3>4. Numbered(hdl)
      <4>1. CASE c.stub = None
        BY <2>5, <4>1 DEF BaseInv, HandlesKnown
      <4>2. CASE c.stub # None
        <5>1. c.stub \in Stub /\ stubInfo[c.stub] # None
          BY <2>3, <3>2, <4>2 DEF Call, Fields
        <5> QED BY <5>1, <4>2 DEF BaseInv, HandlesKnown
      <4> QED BY <4>1, <4>2
    <3>5. c.stub # None => stubInfo'[c.stub] # None
      BY <3>2, <2>1
    <3> HIDE DEF hdl
    <3>6. NumberedThen(hdl)
      BY <2>1, <3>4 DEF Numbered, NumberedThen
    <3> QED BY <3>3, <3>5, <3>6
  <2>10. \A u \in Thread \ {t} : call'[u] = call[u] /\ taskPool'[u] = taskPool[u]
    BY <2>1, <2>3
  <2>11. UNCHANGED <<binaries, stubs, hdlToRegId, stubInfo>>
    BY <2>1
  <2> QED BY ONLY BaseInv, <1>1, <2>2, <2>8, <2>9, <2>10, <2>11, BaseMoves
<1>4. ASSUME ArchiveMemInfo(t) PROVE BaseInv' /\ RegistryGrows /\ EventsGrow
  <2> DEFINE c == call[t]
             pc == IF c.todo = <<>> THEN "run" ELSE "task"
  <2>1. /\ UNCHANGED <<binaries, stubs, registerEvents, hdlToRegId, stubInfo, taskPool, launchEvents>>
        /\ c.pc = "archive"
        /\ call' = [call EXCEPT ![t] = [c EXCEPT !.launchId = GetLaunchId(t), !.pc = pc]]
    BY <1>4 DEF ArchiveMemInfo, runtime, registry, tasks
  <2>2. RegistryGrows /\ EventsGrow
    BY <2>1, ImageOnly, EventsKept DEF BaseInv
  <2>3. /\ call'[t] = [c EXCEPT !.launchId = GetLaunchId(t), !.pc = pc]
        /\ \A u \in Thread \ {t} : call'[u] = call[u]
        /\ c \in Call
    BY <1>1, <2>1
  <2>4. /\ call'[t].pc = pc /\ call'[t].stub = c.stub /\ call'[t].hdl = c.hdl
        /\ call'[t].kernel = c.kernel /\ call'[t].key = c.key /\ call'[t].ok = c.ok
        /\ call'[t].todo = c.todo
    BY <2>3 DEF Call, Fields
  <2>5. /\ c.hdl \in Handle /\ c.kernel \in Kernel /\ binaries[c.hdl] # None
        /\ c.stub # None /\ Seen(c) => stubInfo[c.stub] # None
        /\ c.key = None /\ ~c.ok
        /\ Seen(c) => Len(launchEvents[DeviceOf[t]]) > 0
    BY <2>1 DEF BaseInv, Launching, Recorded
  <2>6. Launching(t)'
    BY <2>1, <2>4, <2>5 DEF Launching, Seen, Recorded
  <2>7. \A d \in Device : (Len(launchEvents[d]) + 1)..Len(launchEvents'[d]) = {}
    BY <2>1, NoneAdded DEF BaseInv
  <2> QED BY <1>1, <2>1, <2>2, <2>3, <2>6, <2>7, BaseMoves
<1> QED BY <1>2, <1>3, <1>4 DEF Begins

\* The base invariant when a task runs.
LEMMA BaseTasks ==
    ASSUME BaseInv, NEW t \in Thread, RunDBITask(t)
    PROVE  BaseInv' /\ RegistryGrows /\ EventsGrow
<1> DEFINE c == call[t]
           d == DeviceOf[t]
<1>1. /\ UNCHANGED <<binaries, stubs, hdlToRegId, stubInfo, launchEvents>> /\ c.pc = "task"
  BY DEF RunDBITask, runtime, history
<1>2. TypeOK' /\ RegistryGrows
  BY TaskTypes, TaskGrows
<1>3. EventsGrow
  BY <1>1, EventsKept DEF BaseInv
<1>4. c \in Call /\ call \in [Thread -> Call] /\ taskPool \in [Thread -> Tables(Key, DBITask)]
  BY DEF BaseInv, TypeOK, CallOK, TasksOK
<1>5. /\ c.hdl \in Handle /\ c.kernel \in Kernel /\ binaries[c.hdl] # None
      /\ c.stub # None /\ Seen(c) => stubInfo[c.stub] # None
      /\ c.key = None /\ ~c.ok /\ c.todo # <<>>
      /\ Seen(c) => Len(launchEvents[d]) > 0
  BY <1>1 DEF BaseInv, Launching, Recorded
<1>6. \A e \in Device : (Len(launchEvents[e]) + 1)..Len(launchEvents'[e]) = {}
  BY <1>1, NoneAdded DEF BaseInv
<1>7. /\ \A u \in Thread \ {t} : call'[u] = call[u] /\ taskPool'[u] = taskPool[u]
      /\ Launching(t)'
  <2>1. CASE Skipped(t)
    <3>1. /\ call' = [call EXCEPT ![t] = [c EXCEPT !.pc = "run", !.ok = FALSE]]
          /\ taskPool' = taskPool
      BY <2>1 DEF Skipped
    <3>2. call'[t] = [c EXCEPT !.pc = "run", !.ok = FALSE]
          /\ \A u \in Thread \ {t} : call'[u] = call[u]
      BY <1>4, <3>1
    <3>3. /\ call'[t].pc = "run" /\ call'[t].stub = c.stub /\ call'[t].hdl = c.hdl
          /\ call'[t].kernel = c.kernel /\ call'[t].key = c.key /\ call'[t].ok = FALSE
          /\ call'[t].todo = c.todo
      BY <1>4, <3>2 DEF Call, Fields
    <3>4. Launching(t)'
      BY <1>1, <1>5, <3>3 DEF Launching, Seen, Recorded
    <3> QED BY <3>1, <3>2, <3>4
  <2>2. ASSUME NEW new, NEW replaced \in BOOLEAN, NEW ok \in BOOLEAN, Ran(t, new, replaced, ok),
               Seen(c)
        PROVE  /\ \A u \in Thread \ {t} : call'[u] = call[u] /\ taskPool'[u] = taskPool[u]
               /\ Launching(t)'
    <3> DEFINE key == KeyOf(t)
    <3>1. /\ GetLaunchId(t) \in 1..Len(launchEvents[d]) /\ key \in Key
      BY <1>1, <2>2, LastEventFacts
    <3>2. /\ taskPool' = [taskPool EXCEPT ![t] = With(taskPool[t], key, new)]
          /\ call' = [call EXCEPT ![t] = [c EXCEPT
                 !.pc = IF ok THEN "update" ELSE "run", !.launchId = GetLaunchId(t),
                 !.ok = ok, !.key = IF ok THEN key ELSE None]]
          /\ replaced => new.image # None
          /\ ok => replaced /\ (c.stub = None \/ new.bound # None)
      BY <2>2 DEF Ran
    <3>3. /\ call'[t] = [c EXCEPT
                 !.pc = IF ok THEN "update" ELSE "run", !.launchId = GetLaunchId(t),
                 !.ok = ok, !.key = IF ok THEN key ELSE None]
          /\ \A u \in Thread \ {t} : call'[u] = call[u]
      BY <1>4, <3>2
    <3>4. /\ taskPool'[t] = With(taskPool[t], key, new)
          /\ \A u \in Thread \ {t} : taskPool'[u] = taskPool[u]
      BY <1>4, <3>2
    <3>5. key \in DOMAIN taskPool'[t] /\ taskPool'[t][key] = new
      <4> HIDE DEF key
      <4> QED BY <3>4 DEF With
    <3>6. key = TaskKey(c, key.regId)
      BY DEF KeyOf, TaskKey
    <3>7. key # None
      BY <3>1, NoneAssumption
    <3> HIDE DEF key
    <3>8. /\ call'[t].pc = (IF ok THEN "update" ELSE "run") /\ call'[t].stub = c.stub
          /\ call'[t].hdl = c.hdl /\ call'[t].kernel = c.kernel
          /\ call'[t].key = (IF ok THEN key ELSE None) /\ call'[t].ok = ok
          /\ call'[t].todo = c.todo /\ call'[t].launchId = GetLaunchId(t)
      BY <1>4, <3>3 DEF Call, Fields
    <3>9. TaskKey(call'[t], key.regId) = TaskKey(c, key.regId)
      BY <3>8 DEF TaskKey
    <3>10. ASSUME ok
           PROVE  /\ key \in DOMAIN taskPool'[t] /\ taskPool'[t][key].image # None
                  /\ c.stub # None => taskPool'[t][key].bound # None
                  /\ GetLaunchId(t) \in 1..Len(launchEvents'[d])
      BY <3>1, <3>2, <3>5, <3>10, <1>1
    <3>11. Seen(call'[t])
      BY <3>8, <2>2 DEF Seen
    <3> HIDE DEF c
    <3>12. CASE ok
      <4>1. /\ call'[t].pc = "update" /\ call'[t].key = key /\ call'[t].ok
            /\ call'[t].launchId \in 1..Len(launchEvents'[DeviceOf[t]])
            /\ key = TaskKey(call'[t], key.regId)
        BY <3>6, <3>8, <3>9, <3>10, <3>12 DEF d
      <4> QED BY <1>1, <1>5, <2>2, <3>7, <3>8, <3>10, <3>11, <3>12, <4>1, <3>3, <3>4
              DEF Launching, Recorded
    <3>13. CASE ~ok
      BY <1>1, <1>5, <2>2, <3>8, <3>11, <3>13, <3>3, <3>4 DEF Launching, Recorded
    <3> QED BY <3>12, <3>13
  <2> QED BY <2>1, <2>2, RanFacts
<1> QED BY ONLY BaseInv, t \in Thread, <1>1, <1>2, <1>3, <1>6, <1>7, BaseMoves

\* And when its kernel runs.
LEMMA BaseRuns ==
    ASSUME BaseInv, NEW t \in Thread, UpdatePcStartAddrByDbi(t) \/ Runs(t)
    PROVE  BaseInv' /\ RegistryGrows /\ EventsGrow
<1> DEFINE c == call[t]
           d == DeviceOf[t]
<1>1. TypeOK' /\ c \in Call /\ call \in [Thread -> Call]
  BY RunTypes DEF BaseInv, TypeOK, CallOK
<1>2. UNCHANGED <<binaries, stubs, registerEvents, hdlToRegId, stubInfo, taskPool>>
  BY DEF UpdatePcStartAddrByDbi, Runs, Run, runtime, registry, tasks
<1>3. RegistryGrows
  BY <1>2, ImageOnly
<1>4. ASSUME UpdatePcStartAddrByDbi(t) PROVE BaseInv' /\ EventsGrow
  <2>1. PICK ok \in May("PcStart") : call' = [call EXCEPT ![t] = [c EXCEPT !.pc = "run", !.ok = ok]]
    BY <1>4 DEF UpdatePcStartAddrByDbi
  <2>2. ok \in BOOLEAN /\ c.pc = "update"
    BY <1>4 DEF May, UpdatePcStartAddrByDbi
  <2>3. /\ call'[t] = [c EXCEPT !.pc = "run", !.ok = ok]
        /\ \A u \in Thread \ {t} : call'[u] = call[u]
    BY <1>1, <2>1
  <2>4. /\ call'[t].pc = "run" /\ call'[t].stub = c.stub /\ call'[t].hdl = c.hdl
        /\ call'[t].kernel = c.kernel /\ call'[t].key = c.key /\ call'[t].ok = ok
        /\ call'[t].todo = c.todo /\ call'[t].launchId = c.launchId
    BY <1>1, <2>3 DEF Call, Fields
  <2>5. EventsGrow /\ \A e \in Device : Len(launchEvents'[e]) = Len(launchEvents[e])
    BY <1>4, UpdateGrows
  <2>6. d \in Device
    BY ThreadAssumption
  <2>7. /\ c.hdl \in Handle /\ c.kernel \in Kernel /\ binaries[c.hdl] # None
        /\ c.stub # None /\ Seen(c) => stubInfo[c.stub] # None
        /\ c.ok /\ c.key # None
        /\ Seen(c) /\ c.todo # <<>> /\ c.launchId \in 1..Len(launchEvents[d])
        /\ c.key = TaskKey(c, c.key.regId)
        /\ c.key \in DOMAIN taskPool[t] /\ taskPool[t][c.key].image # None
        /\ c.stub # None => taskPool[t][c.key].bound # None
        /\ Len(launchEvents[d]) > 0
    BY <2>2 DEF BaseInv, Launching, Recorded
  <2>8. c.key = TaskKey(call'[t], c.key.regId)
    BY <2>4, <2>7 DEF TaskKey
  <2>9. Len(launchEvents'[d]) = Len(launchEvents[d])
    BY <2>5, <2>6
  <2>10. Launching(t)'
    <3> HIDE DEF c
    <3> QED BY <1>2, <2>4, <2>7, <2>8, <2>9 DEF Launching, Seen, Recorded, d
  <2>11. \A e \in Device : (Len(launchEvents[e]) + 1)..Len(launchEvents'[e]) = {}
    BY <2>5, NoneAdded DEF BaseInv
  <2> QED BY <1>1, <1>2, <1>3, <2>3, <2>5, <2>10, <2>11, BaseMoves
<1>5. ASSUME NEW sink \in BOOLEAN, Run(t, sink) PROVE BaseInv' /\ EventsGrow
  <2> DEFINE next == IF Len(c.todo) > 1
                     THEN [c EXCEPT !.pc = "task", !.todo = Tail(@), !.key = None, !.ok = FALSE]
                     ELSE Idle
  <2>1. call' = [call EXCEPT ![t] = next] /\ c.pc = "run" /\ launchEvents' = launchEvents
    BY <1>5 DEF Run, history
  <2>2. /\ call'[t] = next /\ \A u \in Thread \ {t} : call'[u] = call[u]
    BY <1>1, <2>1
  <2>3. EventsGrow
    BY <2>1, EventsKept DEF BaseInv
  <2>4. /\ c.hdl \in Handle /\ c.kernel \in Kernel /\ binaries[c.hdl] # None
        /\ c.stub # None /\ Seen(c) => stubInfo[c.stub] # None
        /\ Seen(c) => Len(launchEvents[d]) > 0
    BY <2>1 DEF BaseInv, Launching, Recorded
  <2>5. Launching(t)'
    <3>1. CASE Len(c.todo) > 1
      <4>1. call'[t] = [c EXCEPT !.pc = "task", !.todo = Tail(c.todo), !.key = None, !.ok = FALSE]
        BY <2>2, <3>1
      <4>2. /\ call'[t].pc = "task" /\ call'[t].stub = c.stub /\ call'[t].hdl = c.hdl
            /\ call'[t].kernel = c.kernel /\ call'[t].key = None /\ call'[t].ok = FALSE
            /\ call'[t].todo = Tail(c.todo)
        BY <1>1, <4>1 DEF Call, Fields
      <4>3. Tail(c.todo) # <<>>
        <5>1. c.todo \in Seq(BIType)
          BY <1>1 DEF Call, Fields
        <5>2. Len(<<>>) = 0 /\ ~(0 > 1)
          OBVIOUS
        <5>3. c.todo # <<>>
          BY <3>1, <5>2, Zenon
        <5> QED BY <3>1, <5>1, <5>3, TodoFacts
      <4> QED BY <1>2, <2>1, <2>4, <4>2, <4>3 DEF Launching, Seen, Recorded
    <3>2. CASE ~(Len(c.todo) > 1)
      <4>1. call'[t] = Idle
        BY <2>2, <3>2
      <4> QED BY <4>1 DEF Launching, Seen, Recorded, Idle
    <3> QED BY <3>1, <3>2
  <2>6. \A e \in Device : (Len(launchEvents[e]) + 1)..Len(launchEvents'[e]) = {}
    BY <2>1, NoneAdded DEF BaseInv
  <2> QED BY <1>1, <1>2, <1>3, <2>2, <2>3, <2>5, <2>6, BaseMoves
<1> QED BY <1>3, <1>4, <1>5, TodoAssumption DEF Runs

\* The thread that listens touches no launch.
LEMMA BaseCallbacks ==
    ASSUME BaseInv,
           Beside \/ UNCHANGED vars
    PROVE  /\ BaseInv' /\ RegistryGrows /\ EventsGrow
           /\ UNCHANGED <<runtime, registry, launchEvents, tasks, call, nr>>
<1>1. UNCHANGED <<runtime, registry, launchEvents, tasks, call, nr>>
  BY DEF Beside, Dump, ListenCallbackTask, ReuseArgs, history, vars
<1>2. TypeOK'
  <2>1. CASE UNCHANGED vars
    <3>1. UNCHANGED <<dumps, listener, memInfoHistory, hostArgs>>
      BY <2>1 DEF vars, callbacks, history
    <3> QED BY <1>1, <3>1 DEF BaseInv, TypeOK, RuntimeOK, RegistryOK, HistoryOK, TasksOK, CallbacksOK,
                              CallOK, runtime, registry, tasks
  <2> QED BY <2>1, CallbackTypes DEF BaseInv
<1>3. RegistryGrows /\ EventsGrow
  BY <1>1, ImageOnly, EventsKept DEF BaseInv, registry
<1>4. HandlesKnown' /\ NumbersTell'
  BY <1>1 DEF BaseInv, HandlesKnown, NumbersTell, Numbered, runtime, registry
<1>5. ASSUME NEW u \in Thread PROVE Launching(u)'
  BY <1>1 DEF BaseInv, Launching, runtime, registry, tasks
<1> QED BY <1>1, <1>2, <1>3, <1>4, <1>5 DEF BaseInv

\* The base invariant is inductive.
LEMMA StepBase == BaseInv /\ [Next]_vars => BaseInv'
<1> SUFFICES ASSUME BaseInv, [Next]_vars PROVE BaseInv'
  OBVIOUS
<1>1. ASSUME NEW t \in Thread, RegistersOne(t) \/ Unregisters(t) \/ BindsStub(t) PROVE BaseInv'
  BY <1>1, BaseRegisters, BaseUnregisters, BaseBindsStub DEF RegistersOne, Unregisters, BindsStub
<1>2. ASSUME NEW t \in Thread, Begins(t) \/ AddLaunchEvent(t) \/ ArchiveMemInfo(t) PROVE BaseInv'
  BY <1>2, BaseRecords
<1>3. ASSUME NEW t \in Thread, RunDBITask(t) PROVE BaseInv'
  BY <1>3, BaseTasks
<1>4. ASSUME NEW t \in Thread, UpdatePcStartAddrByDbi(t) \/ Runs(t) PROVE BaseInv'
  BY <1>4, BaseRuns
<1>5. CASE Beside \/ UNCHANGED vars
  BY <1>5, BaseCallbacks
<1> QED BY <1>1, <1>2, <1>3, <1>4, <1>5, Steps

\* What is recorded of binaries, stubs, launches and tasks has the type it
\* should, and a binary is known by its number as long as it is registered,
\* whoever registers what and whatever fails (KernelContext.cpp:662-822).
THEOREM TypeCorrect == Spec => []TypeOK
<1>1. Spec => []BaseInv
  BY InitBase, StepBase, PTL DEF Spec
<1>2. BaseInv => TypeOK
  BY DEF BaseInv
<1> QED BY <1>1, <1>2, PTL

-----------------------------------------------------------------------------
(* The steps of a launch that has been recorded.                           *)

Moves(t) == ArchiveMemInfo(t) \/ RunDBITask(t) \/ UpdatePcStartAddrByDbi(t) \/ Runs(t)

\* The call of a thread goes on, with the key of a task that has just run or of
\* the one whose start address is updated.
GoesOn(t) ==
    LET c == call[t]
        n == call'[t]
    IN  /\ n.pc \in Recorded \ {"archive"}
        /\ n.stub = c.stub /\ n.hdl = c.hdl /\ n.kernel = c.kernel
        /\ n.todo = c.todo \/ (n.todo = Tail(c.todo) /\ c.todo # <<>> /\ n.key = None)
        /\ n.key # None =>
              \/ /\ UpdatePcStartAddrByDbi(t) /\ n.key = c.key /\ n.launchId = c.launchId
                 /\ n.todo = c.todo
              \/ /\ RunDBITask(t) /\ Seen(c) /\ n.todo = c.todo
                 /\ n.key = KeyOf(t) /\ n.launchId = GetLaunchId(t)

\* What such a step leaves alone.
LEMMA MoveFacts ==
    ASSUME BaseInv, NEW t \in Thread, Moves(t)
    PROVE  /\ BaseInv' /\ RegistryGrows /\ EventsGrow
           /\ UNCHANGED <<binaries, stubs, hdlToRegId, stubInfo, nr>>
           /\ \A d \in Device : Len(launchEvents'[d]) = Len(launchEvents[d])
           /\ \A u \in Thread \ {t} : call'[u] = call[u]
           /\ call[t].pc \in Recorded
           /\ call'[t] = Idle \/ GoesOn(t)
<1> DEFINE c == call[t]
<1>1. BaseInv' /\ RegistryGrows /\ EventsGrow
  BY BaseRecords, BaseTasks, BaseRuns DEF Moves
<1>2. UNCHANGED <<binaries, stubs, hdlToRegId, stubInfo, nr>>
  <2>1. CASE ArchiveMemInfo(t)
    BY <2>1 DEF ArchiveMemInfo, runtime, registry
  <2>2. CASE RunDBITask(t)
    BY <2>2 DEF RunDBITask, runtime
  <2>3. CASE UpdatePcStartAddrByDbi(t)
    BY <2>3 DEF UpdatePcStartAddrByDbi, runtime, registry
  <2>4. CASE Runs(t)
    BY <2>4 DEF Runs, Run, runtime, registry
  <2> QED BY <2>1, <2>2, <2>3, <2>4 DEF Moves
<1>3. \A d \in Device : Len(launchEvents'[d]) = Len(launchEvents[d])
  <2>1. CASE UpdatePcStartAddrByDbi(t)
    BY <2>1, UpdateGrows
  <2>2. CASE ~UpdatePcStartAddrByDbi(t)
    <3>1. launchEvents' = launchEvents
      BY <2>2 DEF Moves, ArchiveMemInfo, RunDBITask, Runs, Run, history
    <3> QED BY <3>1
  <2> QED BY <2>1, <2>2
<1>4. c \in Call /\ call \in [Thread -> Call]
  BY DEF BaseInv, TypeOK, CallOK
<1>5. ASSUME ArchiveMemInfo(t)
      PROVE  /\ \A u \in Thread \ {t} : call'[u] = call[u]
             /\ c.pc \in Recorded /\ GoesOn(t)
  <2> DEFINE n == [c EXCEPT !.launchId = GetLaunchId(t),
                            !.pc = IF c.todo = <<>> THEN "run" ELSE "task"]
  <2>1. call' = [call EXCEPT ![t] = n] /\ c.pc = "archive"
    BY <1>5 DEF ArchiveMemInfo
  <2>2. call'[t] = n /\ \A u \in Thread \ {t} : call'[u] = call[u]
    BY <1>4, <2>1
  <2>3. c.key = None
    BY <2>1 DEF BaseInv, Launching
  <2>4. /\ call'[t].pc \in {"run", "task"} /\ call'[t].stub = c.stub /\ call'[t].hdl = c.hdl
        /\ call'[t].kernel = c.kernel /\ call'[t].todo = c.todo /\ call'[t].key = None
    BY <1>4, <2>2, <2>3 DEF Call, Fields
  <2> QED BY <2>1, <2>2, <2>4 DEF GoesOn, Recorded
<1>6. ASSUME RunDBITask(t)
      PROVE  /\ \A u \in Thread \ {t} : call'[u] = call[u]
             /\ c.pc \in Recorded /\ GoesOn(t)
  <2>1. c.pc = "task" /\ c.key = None
    BY <1>6 DEF RunDBITask, BaseInv, Launching
  <2>2. ASSUME Skipped(t)
        PROVE  (\A u \in Thread \ {t} : call'[u] = call[u]) /\ GoesOn(t)
    <3> DEFINE n == [c EXCEPT !.pc = "run", !.ok = FALSE]
    <3>1. call'[t] = n /\ \A u \in Thread \ {t} : call'[u] = call[u]
      BY <1>4, <2>2 DEF Skipped
    <3>2. /\ call'[t].pc = "run" /\ call'[t].stub = c.stub /\ call'[t].hdl = c.hdl
          /\ call'[t].kernel = c.kernel /\ call'[t].todo = c.todo /\ call'[t].key = None
      BY <1>4, <2>1, <3>1 DEF Call, Fields
    <3> QED BY <3>1, <3>2 DEF GoesOn, Recorded
  <2>3. ASSUME NEW new, NEW replaced \in BOOLEAN, NEW ok \in BOOLEAN, Ran(t, new, replaced, ok),
               Seen(c)
        PROVE  (\A u \in Thread \ {t} : call'[u] = call[u]) /\ GoesOn(t)
    <3> DEFINE n == [c EXCEPT !.pc = IF ok THEN "update" ELSE "run", !.launchId = GetLaunchId(t),
                              !.ok = ok, !.key = IF ok THEN KeyOf(t) ELSE None]
    <3>1. call'[t] = n /\ \A u \in Thread \ {t} : call'[u] = call[u]
      BY <1>4, <2>3 DEF Ran
    <3>2. /\ call'[t].pc \in {"update", "run"} /\ call'[t].stub = c.stub /\ call'[t].hdl = c.hdl
          /\ call'[t].kernel = c.kernel /\ call'[t].todo = c.todo
          /\ call'[t].key # None =>
                call'[t].key = KeyOf(t) /\ call'[t].launchId = GetLaunchId(t)
      BY <1>4, <3>1 DEF Call, Fields
    <3> QED BY <1>6, <2>3, <3>1, <3>2 DEF GoesOn, Recorded
  <2> QED BY <1>6, <2>1, <2>2, <2>3, RanFacts DEF Recorded
<1>7. ASSUME UpdatePcStartAddrByDbi(t)
      PROVE  /\ \A u \in Thread \ {t} : call'[u] = call[u]
             /\ c.pc \in Recorded /\ GoesOn(t)
  <2>1. PICK ok \in May("PcStart") : call' = [call EXCEPT ![t] = [c EXCEPT !.pc = "run", !.ok = ok]]
    BY <1>7 DEF UpdatePcStartAddrByDbi
  <2>2. call'[t] = [c EXCEPT !.pc = "run", !.ok = ok] /\ \A u \in Thread \ {t} : call'[u] = call[u]
    BY <1>4, <2>1
  <2>3. /\ call'[t].pc = "run" /\ call'[t].stub = c.stub /\ call'[t].hdl = c.hdl
        /\ call'[t].kernel = c.kernel /\ call'[t].todo = c.todo /\ call'[t].key = c.key
        /\ call'[t].launchId = c.launchId
    BY <1>4, <2>2 DEF Call, Fields
  <2>4. c.pc = "update"
    BY <1>7 DEF UpdatePcStartAddrByDbi
  <2> QED BY <1>7, <2>2, <2>3, <2>4 DEF GoesOn, Recorded
<1>8. ASSUME NEW sink \in BOOLEAN, Run(t, sink)
      PROVE  /\ \A u \in Thread \ {t} : call'[u] = call[u]
             /\ c.pc \in Recorded /\ (call'[t] = Idle \/ GoesOn(t))
  <2> DEFINE n == [c EXCEPT !.pc = "task", !.todo = Tail(c.todo), !.key = None, !.ok = FALSE]
  <2>1. call' = [call EXCEPT ![t] = IF Len(c.todo) > 1 THEN n ELSE Idle] /\ c.pc = "run"
    BY <1>8 DEF Run
  <2>2. call'[t] = (IF Len(c.todo) > 1 THEN n ELSE Idle) /\ \A u \in Thread \ {t} : call'[u] = call[u]
    BY <1>4, <2>1
  <2>3. CASE Len(c.todo) > 1
    <3>1. Len(<<>>) = 0 /\ ~(0 > 1)
      OBVIOUS
    <3>2. c.todo # <<>>
      BY <2>3, <3>1, Zenon
    <3>3. /\ call'[t].pc = "task" /\ call'[t].stub = c.stub /\ call'[t].hdl = c.hdl
          /\ call'[t].kernel = c.kernel /\ call'[t].todo = Tail(c.todo) /\ call'[t].key = None
      BY <1>4, <2>2, <2>3 DEF Call, Fields
    <3> QED BY <2>1, <2>2, <3>2, <3>3 DEF GoesOn, Recorded
  <2>4. CASE ~(Len(c.todo) > 1)
    BY <2>1, <2>2, <2>4 DEF Recorded
  <2> QED BY <2>3, <2>4
<1> QED BY <1>1, <1>2, <1>3, <1>5, <1>6, <1>7, <1>8, TodoAssumption DEF Moves, Runs

-----------------------------------------------------------------------------
(* The last event of its device is a launch's own.                         *)

\* At the start no thread launches.
LEMMA InitLaunch == Init => LaunchInv
<1> SUFFICES ASSUME Init PROVE LaunchInv
  OBVIOUS
<1>1. \A t \in Thread : call[t] = Idle /\ Idle.pc = "idle" /\ Idle.stub = None /\ Idle.key = None
  BY DEF Init, Idle
<1>2. \A s \in Stub : stubs[s] = None
  BY DEF Init
<1> QED BY <1>1, <1>2 DEF LaunchInv, StubsTell, LastIsOwn, Recorded

\* The last event is still the thread's when the device got no other.
LEMMA StillLast ==
    ASSUME BaseInv, BaseInv', LaunchInv, RegistryGrows, EventsGrow, NEW t \in Thread,
           Len(launchEvents'[DeviceOf[t]]) = Len(launchEvents[DeviceOf[t]]),
           nr'[t] = nr[t],
           call'[t].pc \in Recorded => call[t].pc \in Recorded,
           call'[t].stub = call[t].stub /\ call'[t].hdl = call[t].hdl,
           call'[t].key # None =>
              /\ call'[t].pc \in Recorded
              /\ call'[t].launchId = GetLaunchId(t)
              /\ call'[t].key.regId = hdlToRegId[call[t].hdl]
    PROVE  LastIsOwn(t)'
<1> DEFINE c == call[t]
           n == call'[t]
           d == DeviceOf[t]
           last == Len(launchEvents[d])
<1>1. d \in Device /\ LastIsOwn(t) /\ launchEvents[d] \in Seq(Event)
  BY ThreadAssumption DEF LaunchInv, BaseInv, TypeOK, HistoryOK
<1>2. Seen(n) <=> Seen(c)
  BY DEF Seen
<1>3. ASSUME n.pc \in Recorded, Seen(n)
      PROVE  /\ launchEvents'[d][last].launch = <<t, nr'[t]>>
             /\ launchEvents'[d][last].hdl = n.hdl /\ launchEvents'[d][last].stub = n.stub
  <2>1. c.pc \in Recorded /\ Seen(c)
    BY <1>2, <1>3
  <2>2. last > 0
    BY <2>1 DEF BaseInv, Launching
  <2>3. last \in 1..last
    BY <1>1, <2>2
  <2>4. /\ launchEvents[d][last].launch = <<t, nr[t]>> /\ launchEvents[d][last].hdl = c.hdl
        /\ launchEvents[d][last].stub = c.stub
    BY <1>1, <2>1 DEF LastIsOwn, LastEvent, GetLaunchId, GetDeviceContext, LaunchOf
  <2>5. /\ launchEvents'[d][last].launch = launchEvents[d][last].launch
        /\ launchEvents'[d][last].hdl = launchEvents[d][last].hdl
        /\ launchEvents'[d][last].stub = launchEvents[d][last].stub
    BY <1>1, <2>3 DEF EventsGrow
  <2> QED BY <2>4, <2>5
<1>4. ASSUME n.key # None
      PROVE  n.launchId = Len(launchEvents'[d]) /\ n.key.regId = hdlToRegId'[n.hdl]
  <2>1. c.pc # "idle"
    BY <1>4 DEF Recorded
  <2>2. c.hdl \in Handle /\ binaries[c.hdl] # None
    BY <2>1 DEF BaseInv, Launching
  <2>3. hdlToRegId'[c.hdl] = hdlToRegId[c.hdl]
    BY <2>2 DEF RegistryGrows
  <2> QED BY <1>4, <2>3 DEF GetLaunchId, GetDeviceContext
<1>5. /\ LaunchOf(t)' = <<t, nr'[t]>>
      /\ GetLaunchId(t)' = last /\ LastEvent(t)' = launchEvents'[d][last]
  BY DEF LaunchOf, GetLaunchId, LastEvent, GetDeviceContext
<1> HIDE DEF d, last
<1>6. GetLaunchId(t)' = Len(launchEvents'[d])
  BY DEF GetLaunchId, GetDeviceContext, d
<1> QED BY <1>3, <1>4, <1>5, <1>6 DEF LastIsOwn

\* A step of another thread leaves the last event to this one.
LEMMA OthersLast ==
    ASSUME BaseInv, BaseInv', LaunchInv, RegistryGrows, EventsGrow, NEW t \in Thread,
           Len(launchEvents'[DeviceOf[t]]) = Len(launchEvents[DeviceOf[t]]),
           nr'[t] = nr[t], call'[t] = call[t]
    PROVE  LastIsOwn(t)'
<1>1. ASSUME call[t].key # None
      PROVE  /\ call[t].pc \in Recorded
             /\ call[t].launchId = GetLaunchId(t)
             /\ call[t].key.regId = hdlToRegId[call[t].hdl]
  <2>1. call[t].pc \notin {"idle", "event"}
    BY <1>1 DEF BaseInv, Launching, Idle
  <2>2. call[t].pc \in Recorded
    BY <2>1 DEF BaseInv, TypeOK, CallOK, Call, Fields, Recorded
  <2> QED BY <1>1, <2>2 DEF LaunchInv, LastIsOwn
<1> QED BY <1>1, StillLast

\* A move of a thread that has the last event.
LEMMA MovesLast ==
    ASSUME BaseInv, LaunchInv, NEW t \in Thread, Moves(t)
    PROVE  LaunchInv'
<1>1. /\ BaseInv' /\ RegistryGrows /\ EventsGrow
      /\ UNCHANGED <<binaries, stubs, hdlToRegId, stubInfo, nr>>
      /\ \A d \in Device : Len(launchEvents'[d]) = Len(launchEvents[d])
      /\ \A u \in Thread \ {t} : call'[u] = call[u]
      /\ call[t].pc \in Recorded
      /\ call'[t] = Idle \/ GoesOn(t)
  BY MoveFacts
<1>2. StubsTell'
  <2>1. call'[t].stub # None => call'[t].stub = call[t].stub /\ call'[t].hdl = call[t].hdl
                                /\ call'[t].kernel = call[t].kernel
    BY <1>1 DEF GoesOn, Idle
  <2>2. ASSUME NEW u \in Thread, call'[u].stub # None, Seen(call'[u])
        PROVE  stubInfo'[call'[u].stub] = [hdl |-> call'[u].hdl, kernel |-> call'[u].kernel]
    <3>1. call'[u].stub = call[u].stub /\ call'[u].hdl = call[u].hdl
          /\ call'[u].kernel = call[u].kernel
      BY <1>1, <2>1, <2>2
    <3> QED BY <1>1, <2>2, <3>1 DEF LaunchInv, StubsTell, Seen
  <2> QED BY <1>1, <2>2 DEF LaunchInv, StubsTell
<1>3. ASSUME NEW u \in Thread PROVE LastIsOwn(u)'
  <2>0. DeviceOf[u] \in Device
    BY ThreadAssumption
  <2>1. CASE u # t
    BY <1>1, <2>0, <2>1, OthersLast
  <2>2. CASE u = t /\ call'[t] = Idle
    BY <2>2 DEF LastIsOwn, Idle, Recorded
  <2>3. CASE u = t /\ GoesOn(t)
    <3>1. ASSUME call'[t].key # None
          PROVE  /\ call'[t].pc \in Recorded
                 /\ call'[t].launchId = GetLaunchId(t)
                 /\ call'[t].key.regId = hdlToRegId[call[t].hdl]
      <4>1. CASE UpdatePcStartAddrByDbi(t) /\ call'[t].key = call[t].key
                 /\ call'[t].launchId = call[t].launchId
        BY <2>3, <3>1, <4>1 DEF GoesOn, LaunchInv, LastIsOwn
      <4>2. CASE RunDBITask(t) /\ Seen(call[t]) /\ call'[t].key = KeyOf(t)
                 /\ call'[t].launchId = GetLaunchId(t)
        <5>1. LastEvent(t).hdl = call[t].hdl
          BY <1>1, <4>2 DEF LaunchInv, LastIsOwn
        <5>2. KeyOf(t).regId = hdlToRegId[LastEvent(t).hdl]
          BY DEF KeyOf, RegOf, TaskKey
        <5> QED BY <2>3, <4>2, <5>1, <5>2 DEF GoesOn
      <4> QED BY <2>3, <3>1, <4>1, <4>2 DEF GoesOn
    <3>2. call'[t].stub = call[t].stub /\ call'[t].hdl = call[t].hdl /\ nr'[t] = nr[t]
          /\ Len(launchEvents'[DeviceOf[t]]) = Len(launchEvents[DeviceOf[t]])
      BY <1>1, <2>0, <2>3 DEF GoesOn
    <3>3. LastIsOwn(t)'
      BY <1>1, <3>1, <3>2, StillLast
    <3> QED BY <2>3, <3>3
  <2> QED BY <1>1, <2>1, <2>2, <2>3
<1> QED BY <1>2, <1>3 DEF LaunchInv

\* A step of the registry: no launch moves.
Registry(t) == RegistersOne(t) \/ Unregisters(t) \/ BindsStub(t)

\* What it leaves alone, and what it may not take away.
LEMMA RegistryFacts ==
    ASSUME BaseInv, NEW t \in Thread, Registry(t)
    PROVE  /\ BaseInv' /\ RegistryGrows /\ EventsGrow
           /\ UNCHANGED <<launchEvents, memInfoHistory, tasks, dumps, call, nr>>
           /\ \A h \in Handle : binaries[h] # None /\ (\E u \in Thread : call[u].hdl = h) =>
                 binaries'[h] = binaries[h]
           /\ \A h \in Handle : binaries[h] # None /\ (\E d \in dumps : d.hdl = h) =>
                 binaries'[h] = binaries[h]
<1>1. ASSUME NEW h \in Handle, NEW c \in Code, DevBinaryRegister(t, h, c)
      PROVE  /\ UNCHANGED <<launchEvents, memInfoHistory, tasks, dumps, call, nr>>
             /\ \A g \in Handle : binaries[g] # None => binaries'[g] = binaries[g]
             /\ BaseInv' /\ RegistryGrows
  <2>1. \A g \in Handle : binaries[g] # None => binaries'[g] = binaries[g]
    BY <1>1 DEF DevBinaryRegister, BaseInv, TypeOK, RuntimeOK
  <2> QED BY <1>1, <2>1, BaseRegisters, RegisterGrows DEF DevBinaryRegister, history, callbacks
<1>2. ASSUME NEW h \in Handle, DevBinaryUnRegister(t, h)
      PROVE  /\ UNCHANGED <<launchEvents, memInfoHistory, tasks, dumps, call, nr>>
             /\ \A g \in Handle \ {h} : binaries'[g] = binaries[g]
             /\ \A u \in Thread : call[u].hdl # h
             /\ \A d \in dumps : d.hdl # h
             /\ BaseInv' /\ RegistryGrows
  <2>1. \A g \in Handle \ {h} : binaries'[g] = binaries[g]
    BY <1>2 DEF DevBinaryUnRegister, BaseInv, TypeOK, RuntimeOK
  <2>2. UNCHANGED <<registerEvents, hdlToRegId, stubInfo>>
    BY <1>2 DEF DevBinaryUnRegister, registry
  <2> QED BY <1>2, <2>1, <2>2, BaseUnregisters, ImageOnly DEF DevBinaryUnRegister, history, callbacks
<1>3. ASSUME NEW h \in Handle, NEW s \in Stub, NEW k \in Kernel, FunctionRegister(t, h, s, k)
      PROVE  /\ UNCHANGED <<binaries, launchEvents, memInfoHistory, tasks, dumps, call, nr>>
             /\ BaseInv' /\ RegistryGrows
  BY <1>3, BaseBindsStub DEF FunctionRegister, history, callbacks
<1>4. launchEvents' = launchEvents => EventsGrow
  BY EventsKept DEF BaseInv
<1> QED BY <1>1, <1>2, <1>3, <1>4 DEF Registry, RegistersOne, Unregisters, BindsStub

\* A registered stub means the same to both: it had not been registered before,
\* or for the same.
LEMMA RegistryLaunch ==
    ASSUME StubsTheSame, BaseInv, LaunchInv, NEW t \in Thread, Registry(t)
    PROVE  LaunchInv'
<1>1. /\ BaseInv' /\ RegistryGrows /\ EventsGrow
      /\ UNCHANGED <<launchEvents, call, nr>>
  BY RegistryFacts
<1>2. ASSUME NEW s \in Stub, stubs'[s] # None, s \notin Unseen
      PROVE  stubInfo'[s] = stubs'[s]
  <2>1. CASE stubs'[s] = stubs[s]
    <3>1. stubInfo[s] = stubs[s] /\ stubInfo[s] # None
      BY <1>2, <2>1 DEF LaunchInv, StubsTell
    <3> QED BY <1>1, <2>1, <3>1 DEF RegistryGrows
  <2>2. CASE RegistersOne(t)
    BY <2>1, <2>2 DEF RegistersOne, DevBinaryRegister
  <2>3. CASE Unregisters(t)
    <3>1. stubs'[s] = stubs[s]
      BY <1>2, <2>3 DEF Unregisters, DevBinaryUnRegister
    <3> QED BY <2>1, <3>1
  <2>4. ASSUME NEW h \in Handle, NEW r \in Stub, NEW k \in Kernel, FunctionRegister(t, h, r, k)
        PROVE  stubInfo'[s] = stubs'[s]
    <3> DEFINE info == [hdl |-> h, kernel |-> k]
    <3>1. /\ stubs' = [stubs EXCEPT ![r] = info] /\ (stubInfo[r] = None \/ stubInfo[r] = info)
          /\ stubInfo' = IF r \in Unseen \/ stubInfo[r] # None THEN stubInfo
                         ELSE [stubInfo EXCEPT ![r] = info]
      BY <2>4 DEF FunctionRegister, AgainAs, StubsTheSame
    <3>0. info # None
      BY NoneAssumption DEF StubFuncInfo
    <3> HIDE DEF info
    <3>2. CASE s = r
      BY <1>2, <3>0, <3>1, <3>2 DEF BaseInv, TypeOK, RuntimeOK, RegistryOK
    <3>3. CASE s # r
      <4>1. stubs'[s] = stubs[s]
        BY <3>1, <3>3 DEF BaseInv, TypeOK, RuntimeOK
      <4> QED BY <2>1, <4>1
    <3> QED BY <3>2, <3>3
  <2> QED BY <2>2, <2>3, <2>4 DEF Registry, BindsStub
<1>3. ASSUME NEW u \in Thread, call'[u].stub # None, Seen(call'[u])
      PROVE  stubInfo'[call'[u].stub] = [hdl |-> call'[u].hdl, kernel |-> call'[u].kernel]
  <2> DEFINE c == call[u]
  <2>1. call'[u] = c /\ c \in Call
    BY <1>1 DEF BaseInv, TypeOK, CallOK
  <2>2. stubInfo[c.stub] = [hdl |-> c.hdl, kernel |-> c.kernel] /\ c.stub \in Stub
    BY <1>3, <2>1 DEF LaunchInv, StubsTell, Call, Fields
  <2>3. stubInfo[c.stub] # None
    <3>1. c.pc # "idle"
      BY <1>3, <2>1 DEF BaseInv, Launching, Idle
    <3> QED BY <1>3, <2>1, <3>1 DEF BaseInv, Launching
  <2>4. stubInfo'[c.stub] = stubInfo[c.stub]
    BY <1>1, <2>2, <2>3 DEF RegistryGrows
  <2> QED BY <2>1, <2>2, <2>4
<1>4. ASSUME NEW u \in Thread PROVE LastIsOwn(u)'
  BY <1>1, OthersLast
<1> QED BY <1>2, <1>3, <1>4 DEF LaunchInv, StubsTell

\* A launch that begins, and what it leaves alone.
LEMMA BeginFacts ==
    ASSUME BaseInv, NEW t \in Thread, NEW h \in Handle, NEW s \in Stub \cup {None},
           NEW k \in Kernel, NEW a \in Buffer, NEW todo \in Todo,
           Launch(t, h, s, k, a, todo)
    PROVE  /\ BaseInv' /\ RegistryGrows /\ EventsGrow
           /\ UNCHANGED <<runtime, registry, history, tasks, callbacks>>
           /\ call[t].pc = "idle" /\ MayInstrument(t, h, todo)
           /\ s # None => stubs[s] = [hdl |-> h, kernel |-> k]
           /\ call'[t].pc = "event" /\ call'[t].stub = s /\ call'[t].hdl = h
           /\ call'[t].kernel = k /\ call'[t].todo = todo /\ call'[t].key = None
           /\ call'[t].ok = FALSE
           /\ \A u \in Thread \ {t} : call'[u] = call[u] /\ nr'[u] = nr[u]
<1>1. BaseInv' /\ RegistryGrows /\ EventsGrow
  BY BaseRecords DEF Begins
<1> DEFINE c == [Idle EXCEPT !.pc = "event", !.stub = s, !.hdl = h, !.kernel = k, !.args = a,
                             !.todo = todo]
<1>2. call' = [call EXCEPT ![t] = c] /\ nr' = [nr EXCEPT ![t] = @ + 1]
  BY DEF Launch
<1>3. /\ call'[t] = c
      /\ \A u \in Thread \ {t} : call'[u] = call[u] /\ nr'[u] = nr[u]
  BY <1>2 DEF BaseInv, TypeOK, CallOK
<1>4. c.pc = "event" /\ c.stub = s /\ c.hdl = h /\ c.kernel = k /\ c.todo = todo
      /\ c.key = None /\ c.ok = FALSE
  BY DEF Idle
<1> HIDE DEF c
<1> QED BY <1>1, <1>3, <1>4 DEF Launch, ByStub, ByHandle

\* It has no event yet.
LEMMA BeginsLaunch ==
    ASSUME BaseInv, LaunchInv, NEW t \in Thread, NEW h \in Handle, NEW s \in Stub \cup {None},
           NEW k \in Kernel, NEW a \in Buffer, NEW todo \in Todo,
           Launch(t, h, s, k, a, todo)
    PROVE  LaunchInv'
<1>1. /\ BaseInv' /\ RegistryGrows /\ EventsGrow
      /\ UNCHANGED <<stubs, stubInfo, launchEvents>>
      /\ s # None => stubs[s] = [hdl |-> h, kernel |-> k]
      /\ call'[t].pc = "event" /\ call'[t].stub = s /\ call'[t].hdl = h
      /\ call'[t].kernel = k /\ call'[t].key = None
      /\ \A u \in Thread \ {t} : call'[u] = call[u] /\ nr'[u] = nr[u]
  BY BeginFacts DEF runtime, registry, history
<1>2. StubsTell'
  <2>1. ASSUME s # None, s \notin Unseen
        PROVE  stubInfo[s] = [hdl |-> h, kernel |-> k]
    <3>1. s \in Stub /\ stubs[s] = [hdl |-> h, kernel |-> k]
      BY <1>1, <2>1
    <3>2. stubs[s] # None
      BY <3>1, NoneAssumption DEF StubFuncInfo
    <3> QED BY <2>1, <3>1, <3>2 DEF LaunchInv, StubsTell
  <2>2. ASSUME NEW u \in Thread, call'[u].stub # None, Seen(call'[u])
        PROVE  stubInfo'[call'[u].stub] = [hdl |-> call'[u].hdl, kernel |-> call'[u].kernel]
    <3>1. CASE u = t
      <4>1. s # None /\ s \notin Unseen
        BY <1>1, <2>2, <3>1 DEF Seen
      <4> QED BY <1>1, <2>1, <3>1, <4>1
    <3>2. CASE u # t
      BY <1>1, <2>2, <3>2 DEF LaunchInv, StubsTell
    <3> QED BY <3>1, <3>2
  <2> QED BY <1>1, <2>2 DEF LaunchInv, StubsTell
<1>3. ASSUME NEW u \in Thread PROVE LastIsOwn(u)'
  <2>1. CASE u = t
    BY <1>1, <2>1 DEF LastIsOwn, Recorded
  <2>2. CASE u # t
    BY <1>1, <2>2, OthersLast
  <2> QED BY <2>1, <2>2
<1> QED BY <1>2, <1>3 DEF LaunchInv

\* A launch whose stub was seen is added, and no other thread adds to its device.
LEMMA AddFacts ==
    ASSUME BaseInv, NEW t \in Thread, AddLaunchEvent(t)
    PROVE  /\ BaseInv' /\ RegistryGrows /\ EventsGrow
           /\ UNCHANGED <<runtime, registry, memInfoHistory, tasks, callbacks, nr>>
           /\ call[t].pc = "event" /\ call[t].key = None /\ ~call[t].ok
           /\ call'[t].pc = "archive" /\ call'[t].stub = call[t].stub /\ call'[t].hdl = call[t].hdl
           /\ call'[t].kernel = call[t].kernel /\ call'[t].todo = call[t].todo
           /\ call'[t].key = None /\ call'[t].ok = FALSE
           /\ \A u \in Thread \ {t} : call'[u] = call[u]
<1>1. BaseInv' /\ RegistryGrows /\ EventsGrow
  BY BaseRecords
<1>2. call' = [call EXCEPT ![t].pc = "archive"] /\ call[t].pc = "event"
      /\ UNCHANGED <<runtime, registry, memInfoHistory, tasks, callbacks, nr>>
  BY DEF AddLaunchEvent
<1>3. call[t] \in Call /\ call \in [Thread -> Call] /\ call[t].key = None /\ call[t].ok = FALSE
  BY <1>2 DEF BaseInv, TypeOK, CallOK, Launching, Call, Fields
<1>4. call'[t] = [call[t] EXCEPT !.pc = "archive"] /\ \A u \in Thread \ {t} : call'[u] = call[u]
  BY <1>2, <1>3
<1>5. /\ call'[t].pc = "archive" /\ call'[t].stub = call[t].stub /\ call'[t].hdl = call[t].hdl
      /\ call'[t].kernel = call[t].kernel /\ call'[t].todo = call[t].todo
      /\ call'[t].key = None /\ call'[t].ok = FALSE
  BY <1>3, <1>4 DEF Call, Fields
<1> QED BY <1>1, <1>2, <1>3, <1>4, <1>5

\* The event added names the handle the stub has for the runtime too.
LEMMA AddLaunch ==
    ASSUME OwnDevices, BaseInv, LaunchInv, NEW t \in Thread, AddLaunchEvent(t)
    PROVE  LaunchInv'
<1> DEFINE c == call[t]
           d == DeviceOf[t]
<1>1. /\ BaseInv' /\ RegistryGrows /\ EventsGrow
      /\ UNCHANGED <<stubs, stubInfo, nr>>
      /\ c.pc = "event"
      /\ call'[t].pc = "archive" /\ call'[t].stub = c.stub /\ call'[t].hdl = c.hdl
      /\ call'[t].kernel = c.kernel /\ call'[t].key = None
      /\ \A u \in Thread \ {t} : call'[u] = call[u]
  BY AddFacts DEF runtime, registry
<1>2. StubsTell'
  <2>1. ASSUME NEW u \in Thread, call'[u].stub # None, Seen(call'[u])
        PROVE  stubInfo'[call'[u].stub] = [hdl |-> call'[u].hdl, kernel |-> call'[u].kernel]
    <3>1. call'[u].stub = call[u].stub /\ call'[u].hdl = call[u].hdl
          /\ call'[u].kernel = call[u].kernel
      BY <1>1
    <3> QED BY <1>1, <2>1, <3>1 DEF LaunchInv, StubsTell, Seen
  <2> QED BY <1>1, <2>1 DEF LaunchInv, StubsTell
<1>3. LastIsOwn(t)'
  <2> DEFINE last == Len(launchEvents'[d])
  <2>1. ASSUME Seen(c)
        PROVE  /\ launchEvents'[d][last].launch = <<t, nr[t]>>
               /\ launchEvents'[d][last].hdl = c.hdl /\ launchEvents'[d][last].stub = c.stub
    <3>1. c.stub = None \/ stubInfo[c.stub] # None
      BY <1>1, <2>1 DEF BaseInv, Launching
    <3>2. c.stub # None => stubInfo[c.stub] = [hdl |-> c.hdl, kernel |-> c.kernel]
      BY <2>1 DEF LaunchInv, StubsTell
    <3>3. c.stub # None => stubInfo[c.stub].hdl = c.hdl
      BY <3>2
    <3>4. /\ last = Len(launchEvents[d]) + 1
          /\ LET event == launchEvents'[d][Len(launchEvents[d]) + 1]
             IN  /\ event.launch = LaunchOf(t) /\ event.stub = c.stub
                 /\ event.hdl = IF c.stub = None THEN c.hdl ELSE stubInfo[c.stub].hdl
      BY <3>1, AddGrows
    <3> HIDE DEF d, c
    <3>5. launchEvents'[d][last].launch = LaunchOf(t) /\ launchEvents'[d][last].stub = c.stub
      BY <3>4
    <3>6. launchEvents'[d][last].hdl = c.hdl
      BY <3>3, <3>4
    <3> QED BY <3>5, <3>6 DEF LaunchOf
  <2>2. Seen(call'[t]) <=> Seen(c)
    BY <1>1 DEF Seen
  <2>3. /\ LaunchOf(t)' = <<t, nr'[t]>>
        /\ LastEvent(t)' = launchEvents'[d][last]
    BY DEF LaunchOf, GetLaunchId, LastEvent, GetDeviceContext
  <2> HIDE DEF c, d, last
  <2> QED BY <1>1, <2>1, <2>2, <2>3 DEF LastIsOwn
<1>4. ASSUME NEW u \in Thread, u # t PROVE LastIsOwn(u)'
  <2>1. DeviceOf[u] \in Device \ {d}
    BY <1>4, ThreadAssumption DEF OwnDevices
  <2>2. launchEvents'[DeviceOf[u]] = launchEvents[DeviceOf[u]]
    BY <2>1, AddGrows
  <2> QED BY <1>1, <1>4, <2>2, OthersLast
<1> QED BY <1>2, <1>3, <1>4 DEF LaunchInv

\* The last event stays a launch's own.
LEMMA StepLaunch ==
    ASSUME OwnDevices, StubsTheSame
    PROVE  BaseInv /\ LaunchInv /\ [Next]_vars => LaunchInv'
<1> SUFFICES ASSUME BaseInv, LaunchInv, [Next]_vars PROVE LaunchInv'
  OBVIOUS
<1>1. ASSUME NEW t \in Thread, Registry(t) PROVE LaunchInv'
  BY <1>1, RegistryLaunch
<1>2. ASSUME NEW t \in Thread, Begins(t) PROVE LaunchInv'
  BY <1>2, BeginsLaunch DEF Begins
<1>3. ASSUME NEW t \in Thread, AddLaunchEvent(t) PROVE LaunchInv'
  BY <1>3, AddLaunch
<1>4. ASSUME NEW t \in Thread, Moves(t) PROVE LaunchInv'
  BY <1>4, MovesLast
<1>5. CASE Beside \/ UNCHANGED vars
  <2>1. UNCHANGED <<stubs, hdlToRegId, stubInfo, launchEvents, call, nr>>
    BY <1>5, BaseCallbacks DEF runtime, registry, history
  <2> QED BY <2>1 DEF LaunchInv, StubsTell, LastIsOwn, LastEvent, GetLaunchId, GetDeviceContext,
                      LaunchOf
<1> QED BY <1>1, <1>2, <1>3, <1>4, <1>5, Steps DEF Registry, Moves

-----------------------------------------------------------------------------
(* A task keeps what it made for its key.                                  *)

\* At the start there is no task.
LEMMA InitTask == ASSUME KeepsFromTheStart PROVE Init => TaskInv
<1> SUFFICES ASSUME Init PROVE TaskInv
  OBVIOUS
<1>1. ASSUME NEW t \in Thread
      PROVE  DOMAIN taskPool[t] = {} /\ keepOutputs[t] = FALSE /\ call[t].todo = <<>>
  <2>1. taskPool[t] = <<>> /\ keepOutputs[t] = FALSE /\ call[t].todo = <<>>
    BY DEF Init, Idle
  <2>2. DOMAIN <<>> = {}
    OBVIOUS
  <2> QED BY <2>1, <2>2, Zenon
<1>2. CountsFirst(<<>>) /\ CountsNever(<<>>)
  BY DEF CountsFirst, CountsNever
<1> QED BY <1>1, <1>2 DEF TaskInv, KeepsNow

\* A task tells as before while it is not run.
LEMMA StillTells ==
    ASSUME BaseInv, RegistryGrows, NEW t \in Thread, NEW key \in DOMAIN taskPool[t],
           TaskTells(t, key), taskPool'[t][key] = taskPool[t][key],
           keepOutputs'[t] => keepOutputs[t], outputs[t] \subseteq outputs'[t]
    PROVE  TaskTells(t, key)'
<1> DEFINE task == taskPool[t][key]
<1>1. key \in Key
  BY TaskFacts DEF BaseInv
<1>2. Len(registerEvents) \in Nat /\ Len(registerEvents') >= Len(registerEvents)
  BY DEF BaseInv, TypeOK, RegistryOK, RegistryGrows
<1>3. key.regId \in 1..Len(registerEvents)
      /\ registerEvents'[key.regId].code = registerEvents[key.regId].code
  BY DEF TaskTells, RegistryGrows
<1>4. key.regId \in 1..Len(registerEvents')
  BY <1>2, <1>3 DEF RegistryGrows
<1>5. task.bound # None => stubInfo'[key.stub] = stubInfo[key.stub] /\ stubInfo[key.stub] # None
  BY <1>1 DEF TaskTells, RegistryGrows, Key
<1>6. taskPool'[t][key] = task
  OBVIOUS
<1>7. /\ task.image # None =>
            /\ task.image = [code |-> registerEvents[key.regId].code, kernel |-> key.tilingKey,
                             type |-> key.type]
            /\ keepOutputs[t] => OutputDir(task.launchId, key.type) \in outputs[t]
      /\ task.bound # None =>
            /\ task.image # None /\ key.stub # None /\ stubInfo[key.stub] # None
            /\ task.bound = [handle |-> task.handle, kernel |-> stubInfo[key.stub].kernel]
  BY DEF TaskTells
<1> HIDE DEF task
<1> QED BY <1>3, <1>4, <1>5, <1>6, <1>7 DEF TaskTells

\* The tasks of a thread that runs none, but may begin, go on or end a launch.
LEMMA OthersTasks ==
    ASSUME BaseInv, BaseInv', RegistryGrows, TaskInv, NEW t \in Thread,
           taskPool'[t] = taskPool[t] /\ keepOutputs'[t] = keepOutputs[t]
              /\ outputs'[t] = outputs[t],
           KeepsNow(t)'
    PROVE  KeepsNow(t)' /\ \A key \in DOMAIN taskPool'[t] : TaskTells(t, key)'
<1>1. ASSUME NEW key \in DOMAIN taskPool[t] PROVE TaskTells(t, key)'
  BY <1>1, StillTells DEF TaskInv
<1> QED BY <1>1

\* A thread that has a task does not start to keep directories.
LEMMA KeepsBefore ==
    ASSUME BaseInv, TaskInv, NEW t \in Thread, call[t].pc = "task", Configure(t)
    PROVE  /\ DOMAIN taskPool[t] # {} => (keepOutputs'[t] => keepOutputs[t])
           /\ IF \A todo \in Todo : CountsFirst(todo) THEN keepOutputs'[t]
              ELSE ~keepOutputs'[t] /\ CountsNever(call[t].todo)
<1>1. keepOutputs'[t] = (keepOutputs[t] \/ Head(call[t].todo) = "BB_COUNT")
  BY ConfigureType DEF BaseInv
<1>2. KeepsNow(t) /\ call[t].todo # <<>> /\ call[t].todo \in Seq(BIType)
  BY DEF TaskInv, BaseInv, Launching, TypeOK, CallOK, Call, Fields
<1>3. CASE \A todo \in Todo : CountsFirst(todo)
  BY <1>1, <1>2, <1>3 DEF KeepsNow, CountsFirst
<1>4. CASE ~\A todo \in Todo : CountsFirst(todo)
  <2>1. ~keepOutputs[t] /\ CountsNever(call[t].todo)
    BY <1>2, <1>4 DEF KeepsNow
  <2>2. 1 \in 1..Len(call[t].todo) /\ Head(call[t].todo) = call[t].todo[1]
    BY <1>2
  <2>3. ~keepOutputs'[t]
    BY <1>1, <2>1, <2>2 DEF CountsNever
  <2> QED BY <1>4, <2>1, <2>3
<1> QED BY <1>3, <1>4

\* A task that has to make its image has none, and nothing is bound to it.
LEMMA NeededNone ==
    ASSUME KeepsFromTheStart, BaseInv, TaskInv, NEW t \in Thread, call[t].pc = "task",
           Configure(t), NEW key, key.type = Head(call[t].todo),
           NeedConvert(Task(t, key), key.type, t)
    PROVE  Task(t, key).image = None /\ Task(t, key).bound = None
<1>1. CASE key \notin DOMAIN taskPool[t]
  BY <1>1, TaskFacts DEF BaseInv, NewTask
<1>2. CASE key \in DOMAIN taskPool[t]
  <2> DEFINE task == taskPool[t][key]
  <2>1. Task(t, key) = task
    BY <1>2, TaskFacts DEF BaseInv
  <2>2. TaskTells(t, key)
    BY <1>2 DEF TaskInv
  <2>3. keepOutputs'[t] => keepOutputs[t]
    BY <1>2, KeepsBefore
  <2>4. task.image = None
    <3> SUFFICES ASSUME task.image # None PROVE FALSE
      OBVIOUS
    <3>1. keepOutputs'[t] /\ OutputDir(task.launchId, key.type) \notin outputs[t]
      BY <2>1 DEF NeedConvert
    <3> QED BY <2>2, <2>3, <3>1 DEF TaskTells
  <2>5. task.bound = None
    BY <2>2, <2>4 DEF TaskTells
  <2> QED BY <2>1, <2>4, <2>5
<1> QED BY <1>1, <1>2

\* The task of a key after it has run: what it made is of the key's binary, and
\* what is bound to it is its stub.
LEMMA RanTells ==
    ASSUME KeepsFromTheStart, BaseInv, BaseInv', LaunchInv, RegistryGrows, TaskInv, NEW t \in Thread,
           RunDBITask(t), Seen(call[t]), NEW new, NEW replaced \in BOOLEAN, NEW ok \in BOOLEAN,
           Ran(t, new, replaced, ok), NEW key, key = KeyOf(t), taskPool'[t][key] = new
    PROVE  TaskTells(t, key)'
<1> DEFINE c == call[t]
           old == Task(t, key)
           dir == OutputDir(GetLaunchId(t), Head(c.todo))
<1>1. c.pc = "task" /\ Configure(t) /\ c \in Call
  BY DEF RunDBITask, BaseInv, TypeOK, CallOK
<1>2. /\ RegOf(t) \in 1..Len(registerEvents) /\ key \in Key
      /\ LastEvent(t).stub # None =>
            /\ LastEvent(t).stub \in Stub /\ stubInfo[LastEvent(t).stub] # None
  BY <1>1, LastEventFacts
<1>3. /\ key.regId = RegOf(t) /\ key.stub = c.stub /\ key.type = Head(c.todo)
      /\ LastEvent(t).stub = c.stub
  <2>1. key.regId = RegOf(t) /\ key.stub = c.stub /\ key.type = Head(c.todo)
    BY DEF KeyOf, TaskKey
  <2>2. LastEvent(t).stub = c.stub
    BY <1>1 DEF LaunchInv, LastIsOwn, Recorded
  <2> QED BY <2>1, <2>2
<1>4. key.regId \in 1..Len(registerEvents') /\ RegOf(t) \in 1..Len(registerEvents)
      /\ registerEvents'[RegOf(t)].code = registerEvents[RegOf(t)].code
  <2>1. Len(registerEvents') = Len(registerEvents)
    BY TaskGrows
  <2> QED BY <1>2, <1>3, <2>1 DEF RegistryGrows
<1>5. NeedConvert(old, Head(c.todo), t) => old.image = None /\ old.bound = None
  BY <1>1, <1>3, NeededNone
<1>6. key \in DOMAIN taskPool[t] => TaskTells(t, key) /\ Task(t, key) = taskPool[t][key]
  BY TaskFacts DEF TaskInv, BaseInv
<1>7. key \notin DOMAIN taskPool[t] => old.image = None /\ old.bound = None
  BY TaskFacts DEF BaseInv, NewTask
<1>8. outputs'[t] = IF keepOutputs'[t] THEN outputs[t] \cup {dir} ELSE outputs[t]
  BY DEF Ran, BaseInv, TypeOK, TasksOK
<1>9. key \in DOMAIN taskPool[t] => (keepOutputs'[t] => keepOutputs[t])
  BY <1>1, KeepsBefore
\* The image.
<1>10. ASSUME new.image # None
       PROVE  /\ new.image = [code |-> registerEvents'[key.regId].code, kernel |-> key.tilingKey,
                              type |-> key.type]
              /\ keepOutputs'[t] => OutputDir(new.launchId, key.type) \in outputs'[t]
  <2>1. CASE new.image = old.image /\ new.handle = old.handle /\ new.launchId = old.launchId
    <3>1. key \in DOMAIN taskPool[t]
      BY <1>7, <1>10, <2>1
    <3>2. /\ old.image = [code |-> registerEvents[key.regId].code, kernel |-> key.tilingKey,
                          type |-> key.type]
          /\ keepOutputs[t] => OutputDir(old.launchId, key.type) \in outputs[t]
      BY <1>6, <1>10, <2>1, <3>1 DEF TaskTells
    <3> HIDE DEF old, dir
    <3> QED BY <1>3, <1>4, <1>8, <1>9, <2>1, <3>1, <3>2
  <2>2. CASE new.image = ImageOf(t) /\ new.launchId = GetLaunchId(t)
    <3>1. ImageOf(t) = [code |-> registerEvents[RegOf(t)].code, kernel |-> key.tilingKey,
                        type |-> Head(c.todo)]
      BY DEF ImageOf
    <3>2. keepOutputs'[t] => OutputDir(new.launchId, key.type) \in outputs'[t]
      BY <1>3, <1>8, <2>2
    <3> QED BY <1>3, <1>4, <2>2, <3>1, <3>2
  <2> QED BY <1>10, <2>1, <2>2 DEF Ran, Made
\* The stub.
<1>11. ASSUME new.bound # None
       PROVE  /\ new.image # None /\ key.stub # None /\ stubInfo'[key.stub] # None
              /\ new.bound = [handle |-> new.handle, kernel |-> stubInfo'[key.stub].kernel]
  <2>0. stubInfo' = stubInfo
    BY DEF RunDBITask
  <2>1. CASE new.bound = old.bound
    <3>1. key \in DOMAIN taskPool[t] /\ ~NeedConvert(old, Head(c.todo), t)
      BY <1>5, <1>7, <1>11, <2>1
    <3>2. new.image = old.image /\ new.handle = old.handle
      BY <3>1 DEF Ran, Made
    <3>3. /\ old.image # None /\ key.stub # None /\ stubInfo[key.stub] # None
          /\ old.bound = [handle |-> old.handle, kernel |-> stubInfo[key.stub].kernel]
      BY <1>6, <1>11, <2>1, <3>1 DEF TaskTells
    <3> HIDE DEF old
    <3> QED BY <2>0, <2>1, <3>2, <3>3
  <2>2. CASE /\ replaced /\ LastEvent(t).stub # None /\ stubInfo[LastEvent(t).stub] # None
             /\ new.bound = [handle |-> new.handle, kernel |-> stubInfo[LastEvent(t).stub].kernel]
    <3>1. new.image # None
      BY <2>2 DEF Ran
    <3> QED BY <1>3, <2>0, <2>2, <3>1
  <2> QED BY <2>1, <2>2 DEF Ran, Binds
<1> HIDE DEF old, dir
<1>12. /\ key.regId \in 1..Len(registerEvents')
       /\ LET task == taskPool'[t][key]
          IN  /\ task.image # None =>
                    /\ task.image = [code |-> registerEvents'[key.regId].code,
                                     kernel |-> key.tilingKey, type |-> key.type]
                    /\ keepOutputs'[t] => OutputDir(task.launchId, key.type) \in outputs'[t]
              /\ task.bound # None =>
                    /\ task.image # None /\ key.stub # None /\ stubInfo'[key.stub] # None
                    /\ task.bound = [handle |-> task.handle, kernel |-> stubInfo'[key.stub].kernel]
  BY <1>4, <1>10, <1>11
<1> QED BY <1>12 DEF TaskTells

\* A task runs.
LEMMA RanTask ==
    ASSUME KeepsFromTheStart, BaseInv, LaunchInv, TaskInv, NEW t \in Thread, RunDBITask(t)
    PROVE  KeepsNow(t)' /\ \A key \in DOMAIN taskPool'[t] : TaskTells(t, key)'
<1>1. /\ BaseInv' /\ RegistryGrows /\ (call'[t] = Idle \/ GoesOn(t))
  BY MoveFacts DEF Moves
<1>2. call[t].pc = "task" /\ Configure(t)
  BY DEF RunDBITask
<1>3. \/ taskPool'[t] = taskPool[t] /\ outputs'[t] = outputs[t] /\ Skipped(t)
      \/ \E new, replaced, ok : replaced \in BOOLEAN /\ ok \in BOOLEAN /\ Seen(call[t])
                                /\ Ran(t, new, replaced, ok)
  <2>1. Skipped(t) => taskPool'[t] = taskPool[t] /\ outputs'[t] = outputs[t]
    BY DEF Skipped
  <2> QED BY <2>1, RanFacts
<1>4. KeepsNow(t)'
  <2>1. call'[t].todo = call[t].todo
    <3>1. Skipped(t) => call'[t].todo = call[t].todo
      BY DEF Skipped, BaseInv, TypeOK, CallOK, Call, Fields
    <3>2. ASSUME NEW new, NEW replaced, NEW ok, Ran(t, new, replaced, ok)
          PROVE  call'[t].todo = call[t].todo
      BY <3>2 DEF Ran, BaseInv, TypeOK, CallOK, Call, Fields
    <3> QED BY <1>3, <3>1, <3>2
  <2> QED BY <1>2, <2>1, KeepsBefore DEF KeepsNow
<1>5. ASSUME NEW key \in DOMAIN taskPool[t], taskPool'[t][key] = taskPool[t][key],
             outputs[t] \subseteq outputs'[t]
      PROVE  TaskTells(t, key)'
  <2>1. keepOutputs'[t] => keepOutputs[t]
    BY <1>2, KeepsBefore
  <2> QED BY <1>1, <1>5, <2>1, StillTells DEF TaskInv
<1>6. CASE Skipped(t) /\ taskPool'[t] = taskPool[t] /\ outputs'[t] = outputs[t]
  BY <1>4, <1>5, <1>6
<1>7. ASSUME NEW new, NEW replaced \in BOOLEAN, NEW ok \in BOOLEAN, Seen(call[t]),
             Ran(t, new, replaced, ok)
      PROVE  \A key \in DOMAIN taskPool'[t] : TaskTells(t, key)'
  <2>1. PICK key : key = KeyOf(t)
    OBVIOUS
  <2>2. taskPool'[t] = With(taskPool[t], key, new) /\ outputs[t] \subseteq outputs'[t]
    BY <1>7, <2>1 DEF Ran, BaseInv, TypeOK, TasksOK
  <2>3. /\ DOMAIN taskPool'[t] = {key} \cup DOMAIN taskPool[t]
        /\ taskPool'[t][key] = new
        /\ \A k \in DOMAIN taskPool[t] : k # key => taskPool'[t][k] = taskPool[t][k]
    BY <2>2 DEF With
  <2>4. TaskTells(t, key)'
    BY <1>1, <1>7, <2>1, <2>3, RanTells
  <2>5. ASSUME NEW k \in DOMAIN taskPool'[t] PROVE TaskTells(t, k)'
    <3>1. CASE k = key
      BY <2>4, <3>1
    <3>2. CASE k # key
      BY <1>5, <2>2, <2>3, <3>2
    <3> QED BY <3>1, <3>2
  <2> QED BY <2>5
<1> QED BY <1>3, <1>4, <1>6, <1>7

\* The rest of a list of tasks counts no blocks if the list does not.
LEMMA TailNever ==
    ASSUME NEW todo \in Seq(BIType), todo # <<>>, CountsNever(todo)
    PROVE  CountsNever(Tail(todo))
<1>1. Len(Tail(todo)) = Len(todo) - 1 /\ Len(todo) \in Nat
  OBVIOUS
<1>2. ASSUME NEW i \in 1..Len(Tail(todo)) PROVE Tail(todo)[i] # "BB_COUNT"
  <2>1. Tail(todo)[i] = todo[i + 1] /\ i + 1 \in 1..Len(todo)
    BY <1>1
  <2> QED BY <2>1 DEF CountsNever
<1> QED BY <1>2 DEF CountsNever

\* A launch goes on without running a task.
LEMMA KeepsOn ==
    ASSUME BaseInv, TaskInv, NEW t \in Thread,
           ArchiveMemInfo(t) \/ UpdatePcStartAddrByDbi(t) \/ Runs(t)
    PROVE  KeepsNow(t)' /\ UNCHANGED tasks
<1> DEFINE c == call[t]
           n == call'[t]
<1>1. UNCHANGED tasks
  BY DEF ArchiveMemInfo, UpdatePcStartAddrByDbi, Runs, Run
<1>2. n = Idle \/ GoesOn(t)
  BY MoveFacts DEF Moves
<1>3. c \in Call /\ c.todo \in Seq(BIType)
  BY DEF BaseInv, TypeOK, CallOK, Call, Fields
<1>4. /\ n.todo = <<>> \/ n.todo = c.todo \/ (n.todo = Tail(c.todo) /\ c.todo # <<>>)
  BY <1>2 DEF GoesOn, Idle
<1>5. CASE \A todo \in Todo : CountsFirst(todo)
  <2>1. ASSUME ~keepOutputs[t]
        PROVE  /\ DOMAIN taskPool[t] = {} /\ CountsFirst(n.todo)
               /\ n.todo # <<>> => n.pc \in {"event", "archive", "task"}
    <3>1. /\ DOMAIN taskPool[t] = {} /\ CountsFirst(c.todo)
          /\ c.todo # <<>> => c.pc \in {"event", "archive", "task"}
      BY <1>5, <2>1 DEF TaskInv, KeepsNow
    <3>2. CASE c.todo = <<>>
      BY <1>4, <3>1, <3>2 DEF CountsFirst
    <3>3. CASE c.todo # <<>>
      <4>1. ArchiveMemInfo(t)
        BY <3>1, <3>3 DEF UpdatePcStartAddrByDbi, Runs, Run
      <4>2. n = [c EXCEPT !.launchId = GetLaunchId(t),
                          !.pc = IF c.todo = <<>> THEN "run" ELSE "task"]
        BY <4>1 DEF ArchiveMemInfo, BaseInv, TypeOK, CallOK
      <4>3. n.pc = "task" /\ n.todo = c.todo
        BY <1>3, <3>3, <4>2 DEF Call, Fields
      <4> QED BY <3>1, <4>3
    <3> QED BY <3>2, <3>3
  <2> QED BY <1>1, <1>5, <2>1 DEF KeepsNow, tasks
<1>6. CASE ~\A todo \in Todo : CountsFirst(todo)
  <2>1. ~keepOutputs[t] /\ CountsNever(c.todo)
    BY <1>6 DEF TaskInv, KeepsNow
  <2>2. CountsNever(<<>>)
    BY DEF CountsNever
  <2>3. CountsNever(n.todo)
    BY <1>3, <1>4, <2>1, <2>2, TailNever
  <2> QED BY <1>1, <1>6, <2>1, <2>3 DEF KeepsNow, tasks
<1> QED BY <1>1, <1>5, <1>6

\* A task keeps what it made.
LEMMA StepTask ==
    ASSUME KeepsFromTheStart
    PROVE  BaseInv /\ LaunchInv /\ TaskInv /\ [Next]_vars => TaskInv'
<1> SUFFICES ASSUME BaseInv, LaunchInv, TaskInv, [Next]_vars PROVE TaskInv'
  OBVIOUS
<1>1. ASSUME NEW t \in Thread, KeepsNow(t)', \A u \in Thread \ {t} : call'[u] = call[u],
             UNCHANGED tasks, BaseInv', RegistryGrows
      PROVE  TaskInv'
  <2>1. ASSUME NEW u \in Thread PROVE KeepsNow(u)'
    <3>1. CASE u = t
      BY <1>1, <3>1
    <3>2. CASE u # t
      BY <1>1, <3>2 DEF TaskInv, KeepsNow, tasks
    <3> QED BY <3>1, <3>2
  <2>2. ASSUME NEW u \in Thread
        PROVE  KeepsNow(u)' /\ \A key \in DOMAIN taskPool'[u] : TaskTells(u, key)'
    BY <1>1, <2>1, OthersTasks DEF tasks
  <2> QED BY <2>2 DEF TaskInv
<1>2. ASSUME NEW t \in Thread, Registry(t) PROVE TaskInv'
  <2>1. UNCHANGED <<tasks, call>> /\ BaseInv' /\ RegistryGrows
    BY <1>2, RegistryFacts
  <2>2. KeepsNow(t)'
    BY <2>1 DEF TaskInv, KeepsNow, tasks
  <2> QED BY <1>1, <2>1, <2>2
<1>3. ASSUME NEW t \in Thread, NEW h \in Handle, NEW s \in Stub \cup {None}, NEW k \in Kernel,
             NEW a \in Buffer, NEW todo \in Todo,
             Launch(t, h, s, k, a, todo)
      PROVE  TaskInv'
  <2>1. /\ UNCHANGED tasks /\ BaseInv' /\ RegistryGrows
        /\ \A u \in Thread \ {t} : call'[u] = call[u]
        /\ call'[t].pc = "event" /\ call'[t].todo = todo
    BY <1>3, BeginFacts
  <2>2. KeepsNow(t)'
    BY <2>1 DEF TaskInv, KeepsNow, tasks, KeepsFromTheStart
  <2> QED BY <1>1, <2>1, <2>2
<1>4. ASSUME NEW t \in Thread, AddLaunchEvent(t) PROVE TaskInv'
  <2>1. /\ UNCHANGED tasks /\ BaseInv' /\ RegistryGrows
        /\ \A u \in Thread \ {t} : call'[u] = call[u]
        /\ call'[t].pc = "archive" /\ call'[t].todo = call[t].todo
    BY <1>4, AddFacts
  <2>2. KeepsNow(t)'
    BY <2>1 DEF TaskInv, KeepsNow, tasks
  <2> QED BY <1>1, <2>1, <2>2
<1>5. ASSUME NEW t \in Thread, ArchiveMemInfo(t) \/ UpdatePcStartAddrByDbi(t) \/ Runs(t)
      PROVE  TaskInv'
  <2>1. BaseInv' /\ RegistryGrows /\ \A u \in Thread \ {t} : call'[u] = call[u]
    BY <1>5, MoveFacts DEF Moves
  <2> QED BY <1>1, <1>5, <2>1, KeepsOn
<1>6. ASSUME NEW t \in Thread, RunDBITask(t) PROVE TaskInv'
  <2>1. BaseInv' /\ RegistryGrows /\ \A u \in Thread \ {t} : call'[u] = call[u]
    BY <1>6, MoveFacts DEF Moves
  <2>2. ASSUME NEW u \in Thread \ {t}
        PROVE  /\ taskPool'[u] = taskPool[u] /\ outputs'[u] = outputs[u]
               /\ keepOutputs'[u] = keepOutputs[u]
    <3>1. Configure(t)
      BY <1>6 DEF RunDBITask
    <3>2. keepOutputs'[u] = keepOutputs[u]
      BY <3>1, ConfigureType DEF BaseInv
    <3>3. Skipped(t) => taskPool'[u] = taskPool[u] /\ outputs'[u] = outputs[u]
      BY DEF Skipped
    <3>4. ASSUME NEW new, NEW replaced, NEW ok, Ran(t, new, replaced, ok)
          PROVE  taskPool'[u] = taskPool[u] /\ outputs'[u] = outputs[u]
      BY <3>4 DEF Ran, BaseInv, TypeOK, TasksOK
    <3> QED BY <1>6, <3>2, <3>3, <3>4, RanFacts
  <2>3. ASSUME NEW u \in Thread
        PROVE  KeepsNow(u)' /\ \A key \in DOMAIN taskPool'[u] : TaskTells(u, key)'
    <3>1. CASE u = t
      BY <1>6, <3>1, RanTask
    <3>2. CASE u # t
      <4>1. KeepsNow(u)'
        BY <2>1, <2>2, <3>2 DEF TaskInv, KeepsNow
      <4> QED BY <2>1, <2>2, <3>2, <4>1, OthersTasks
    <3> QED BY <3>1, <3>2
  <2> QED BY <2>3 DEF TaskInv
<1>7. CASE Beside \/ UNCHANGED vars
  <2>1. UNCHANGED <<tasks, call, registerEvents, stubInfo>>
    BY <1>7, BaseCallbacks DEF registry
  <2> QED BY <2>1 DEF TaskInv, KeepsNow, TaskTells, tasks
<1> QED BY <1>2, <1>3, <1>4, <1>5, <1>6, <1>7, Steps DEF Registry, Begins

\* A copy that replaces a launch's kernel was made of the binary it launches for
\* the task at hand, and its stub stands for that kernel in the binary that is
\* registered now, for any threads, binaries, stubs and tasks: as long as each
\* thread has a device of its own, a stub always stands for one kernel, directories are
\* kept from the first task on and the address of the copy can be had
\* (DBITask.cpp:45-63, 210-289, 355-414).
THEOREM OwnKernel ==
    ASSUME OwnDevices, StubsTheSame, KeepsFromTheStart, "PcStart" \notin MayFail
    PROVE  Spec => []RunsItsOwnKernel
<1> DEFINE Okay == \A t \in Thread : call[t].key # None => call[t].ok
           Inv == BaseInv /\ LaunchInv /\ TaskInv /\ Okay
<1>1. Init => Okay
  BY DEF Init, Idle
<1>2. BaseInv /\ Okay /\ [Next]_vars => Okay'
  <2> SUFFICES ASSUME BaseInv, Okay, [Next]_vars PROVE Okay'
    OBVIOUS
  <2>1. ASSUME NEW t \in Thread, \A u \in Thread \ {t} : call'[u] = call[u],
               call'[t].key # None => call'[t].ok
        PROVE  Okay'
    <3>1. ASSUME NEW u \in Thread, call'[u].key # None PROVE call'[u].ok
      BY <2>1, <3>1
    <3> QED BY <3>1
  <2>2. ASSUME NEW t \in Thread, Registry(t) PROVE Okay'
    BY <2>2, RegistryFacts
  <2>3. ASSUME NEW t \in Thread, Begins(t) PROVE Okay'
    BY <2>1, <2>3, BeginFacts DEF Begins
  <2>4. ASSUME NEW t \in Thread, AddLaunchEvent(t) PROVE Okay'
    BY <2>1, <2>4, AddFacts
  <2>5. ASSUME NEW t \in Thread, Moves(t) PROVE Okay'
    <3>1. call'[t] = Idle \/ GoesOn(t)
      BY <2>5, MoveFacts
    <3>2. ASSUME call'[t].key # None PROVE call'[t].ok
      <4>1. CASE UpdatePcStartAddrByDbi(t)
        <5>1. PICK ok \in May("PcStart") :
                call' = [call EXCEPT ![t] = [call[t] EXCEPT !.pc = "run", !.ok = ok]]
          BY <4>1 DEF UpdatePcStartAddrByDbi
        <5>2. ok = TRUE
          BY DEF May
        <5> QED BY <5>1, <5>2 DEF BaseInv, TypeOK, CallOK, Call, Fields
      <4>2. CASE RunDBITask(t)
        <5>1. call[t].key = None /\ call[t] \in Call /\ call \in [Thread -> Call]
          BY <4>2 DEF RunDBITask, BaseInv, Launching, TypeOK, CallOK
        <5>2. ASSUME Skipped(t) PROVE FALSE
          <6>1. call' = [call EXCEPT ![t] = [call[t] EXCEPT !.pc = "run", !.ok = FALSE]]
            BY <5>2 DEF Skipped
          <6>2. call'[t] = [call[t] EXCEPT !.pc = "run", !.ok = FALSE]
            BY <5>1, <6>1
          <6>3. call'[t].key = call[t].key
            BY <5>1, <6>2 DEF Call, Fields
          <6> QED BY <3>2, <5>1, <6>3
        <5>3. PICK new, replaced, ok : ok \in BOOLEAN /\ Ran(t, new, replaced, ok)
          BY <4>2, <5>2, RanFacts
        <5>4. call'[t].ok = ok /\ call'[t].key = IF ok THEN KeyOf(t) ELSE None
          BY <5>1, <5>3 DEF Ran, Call, Fields
        <5> QED BY <3>2, <5>3, <5>4
      <4>3. CASE call'[t] = Idle
        BY <3>2, <4>3 DEF Idle
      <4> QED BY <3>1, <3>2, <4>1, <4>2, <4>3 DEF GoesOn
    <3>3. \A u \in Thread \ {t} : call'[u] = call[u]
      BY <2>5, MoveFacts
    <3> QED BY <2>1, <3>2, <3>3
  <2>6. CASE Beside \/ UNCHANGED vars
    BY <2>6, BaseCallbacks
  <2> QED BY <2>2, <2>3, <2>4, <2>5, <2>6, Steps DEF Registry, Moves
<1>3. Inv => RunsItsOwnKernel
  <2> SUFFICES ASSUME Inv, NEW t \in Thread, call[t].pc = "run", call[t].key # None
               PROVE  LET c == call[t]
                          task == Task(t, c.key)
                      IN  /\ c.ok
                          /\ task.image.code = binaries[c.hdl] /\ task.image.type = Head(c.todo)
                          /\ IF c.stub = None THEN task.image.kernel = c.kernel
                             ELSE task.bound = [handle |-> task.handle, kernel |-> c.kernel]
    BY DEF RunsItsOwnKernel
  <2> DEFINE c == call[t]
             key == c.key
             task == taskPool[t][key]
  <2>1. /\ Seen(c) /\ key = TaskKey(c, key.regId)
        /\ key \in DOMAIN taskPool[t] /\ task.image # None
        /\ c.stub # None => task.bound # None
        /\ c.hdl \in Handle /\ binaries[c.hdl] # None
    BY DEF BaseInv, Launching
  <2>2. /\ Task(t, key) = task
    BY <2>1, TaskFacts DEF BaseInv
  <2>3. /\ key.type = Head(c.todo) /\ key.stub = c.stub
        /\ key.tilingKey = IF c.stub = None THEN c.kernel ELSE None
    BY <2>1 DEF TaskKey
  <2>4. key.regId = hdlToRegId[c.hdl]
    BY DEF LaunchInv, LastIsOwn
  <2>5. registerEvents[key.regId].code = binaries[c.hdl]
    BY <2>1, <2>4 DEF BaseInv, NumbersTell
  <2>6. TaskTells(t, key)
    BY <2>1 DEF TaskInv
  <2>7. task.image = [code |-> registerEvents[key.regId].code, kernel |-> key.tilingKey,
                      type |-> key.type]
    BY <2>1, <2>6 DEF TaskTells
  <2>8. task.image.code = binaries[c.hdl] /\ task.image.type = Head(c.todo)
        /\ task.image.kernel = key.tilingKey
    BY <2>3, <2>5, <2>7
  <2>9. ASSUME c.stub # None
        PROVE  task.bound = [handle |-> task.handle, kernel |-> c.kernel]
    <3>1. task.bound = [handle |-> task.handle, kernel |-> stubInfo[c.stub].kernel]
      BY <2>1, <2>3, <2>6, <2>9 DEF TaskTells
    <3>2. stubInfo[c.stub] = [hdl |-> c.hdl, kernel |-> c.kernel]
      BY <2>1, <2>9 DEF LaunchInv, StubsTell
    <3>3. stubInfo[c.stub].kernel = c.kernel
      BY <3>2
    <3> QED BY <3>1, <3>3
  <2>10. c.ok
    OBVIOUS
  <2> HIDE DEF task
  <2> QED BY <2>2, <2>3, <2>8, <2>9, <2>10
<1>4. Init => Inv
  BY <1>1, InitBase, InitLaunch, InitTask
<1>5. Inv /\ [Next]_vars => Inv'
  BY <1>2, StepBase, StepLaunch, StepTask
<1> QED BY <1>3, <1>4, <1>5, PTL DEF Spec

-----------------------------------------------------------------------------
(* The symbols of a binary are those of the copy at hand.                  *)

\* At the start nothing is instrumented.
LEMMA InitCopy == Init => CopyInv
<1> SUFFICES ASSUME Init PROVE CopyInv
  OBVIOUS
<1>1. \A t \in Thread : call[t].todo = <<>> /\ call[t].key = None /\ call[t].pc = "idle"
  BY DEF Init, Idle
<1> QED BY <1>1 DEF CopyInv, Apart, CopyIsOwn

\* Threads stay apart as long as the one that moves takes up no other binary.
LEMMA StayApart ==
    ASSUME Apart, NEW t \in Thread, \A u \in Thread \ {t} : call'[u] = call[u],
           call'[t].todo # <<>> => call[t].todo # <<>> /\ call'[t].hdl = call[t].hdl
    PROVE  Apart'
<1>1. ASSUME NEW u \in Thread, NEW v \in Thread, u # v,
             call'[u].todo # <<>>, call'[v].todo # <<>>
      PROVE  call'[u].hdl # call'[v].hdl
  <2>1. \A w \in {u, v} : call[w].todo # <<>> /\ call'[w].hdl = call[w].hdl
    BY <1>1
  <2>2. call[u].hdl # call[v].hdl
    BY <1>1, <2>1 DEF Apart
  <2> QED BY <2>1, <2>2
<1> QED BY <1>1 DEF Apart

\* A launch begins to instrument a binary that no other thread instruments.
LEMMA BeginsApart ==
    ASSUME Shared = FALSE, BaseInv, Apart, NEW t \in Thread, NEW h \in Handle,
           NEW s \in Stub \cup {None}, NEW k \in Kernel, NEW a \in Buffer, NEW todo \in Todo,
           Launch(t, h, s, k, a, todo)
    PROVE  Apart'
<1>1. /\ MayInstrument(t, h, todo) /\ call'[t].todo = todo /\ call'[t].hdl = h
      /\ \A u \in Thread \ {t} : call'[u] = call[u]
  BY BeginFacts
<1>2. ASSUME NEW u \in Thread \ {t}, todo # <<>>, call[u].todo # <<>> PROVE call[u].hdl # h
  BY <1>1, <1>2 DEF MayInstrument
<1>3. ASSUME NEW u \in Thread, NEW v \in Thread, u # v,
             call'[u].todo # <<>>, call'[v].todo # <<>>
      PROVE  call'[u].hdl # call'[v].hdl
  <2>1. CASE u = t
    BY <1>1, <1>2, <1>3, <2>1
  <2>2. CASE v = t
    BY <1>1, <1>2, <1>3, <2>2
  <2>3. CASE u # t /\ v # t
    BY <1>1, <1>3, <2>3 DEF Apart
  <2> QED BY <2>1, <2>2, <2>3
<1> QED BY <1>3 DEF Apart

\* What a thread knows of its copy stays true as long as nothing it reads changes.
LEMMA CopyStays ==
    ASSUME BaseInv, NEW t \in Thread, CopyIsOwn(t), call'[t] = call[t],
           taskPool'[t] = taskPool[t], launchEvents'[DeviceOf[t]] = launchEvents[DeviceOf[t]],
           call[t].key # None =>
              /\ hdlToRegId'[call[t].hdl] = hdlToRegId[call[t].hdl]
              /\ registerEvents'[hdlToRegId[call[t].hdl]].image
                    = registerEvents[hdlToRegId[call[t].hdl]].image
    PROVE  CopyIsOwn(t)'
<1>1. LastEvent(t)' = LastEvent(t)
  BY DEF LastEvent, GetLaunchId, GetDeviceContext
<1> QED BY <1>1 DEF CopyIsOwn

\* Nor does a thread without a copy know anything.
LEMMA NoCopy ==
    ASSUME NEW t \in Thread, call'[t].key = None, ~call'[t].ok
    PROVE  CopyIsOwn(t)'
  BY DEF CopyIsOwn

\* The number of a launch's binary is known, and no two binaries that are
\* launched have the same.
LEMMA NumberFacts ==
    ASSUME BaseInv, NEW t \in Thread, call[t].pc # "idle"
    PROVE  /\ call[t].hdl \in Handle /\ binaries[call[t].hdl] # None
           /\ hdlToRegId[call[t].hdl] \in 1..Len(registerEvents)
           /\ \A u \in Thread :
                 call[u].pc # "idle" /\ call[u].hdl # call[t].hdl =>
                    hdlToRegId[call[u].hdl] # hdlToRegId[call[t].hdl]
<1>1. \A u \in Thread :
         call[u].pc # "idle" => call[u].hdl \in Handle /\ binaries[call[u].hdl] # None
  BY DEF BaseInv, Launching
<1>2. Numbered(call[t].hdl)
  BY <1>1 DEF BaseInv, HandlesKnown
<1> QED BY <1>1, <1>2 DEF Numbered, BaseInv, NumbersTell

\* A thread with the key of a task is launching.
LEMMA KeyFacts ==
    ASSUME BaseInv, NEW t \in Thread, call[t].key # None
    PROVE  call[t].pc # "idle" /\ call[t].todo # <<>> /\ Seen(call[t])
<1>1. Idle.key = None
  BY DEF Idle
<1> QED BY <1>1 DEF BaseInv, Launching

\* Registering leaves the images alone.
LEMMA RegistryKeeps ==
    ASSUME BaseInv, NEW t \in Thread, Registry(t)
    PROVE  \A i \in 1..Len(registerEvents) : registerEvents'[i] = registerEvents[i]
<1>1. registerEvents \in Seq(Registration)
  BY DEF BaseInv, TypeOK, RegistryOK
<1>2. ASSUME NEW h \in Handle, NEW c \in Code, DevBinaryRegister(t, h, c)
      PROVE  \A i \in 1..Len(registerEvents) : registerEvents'[i] = registerEvents[i]
  <2>1. registerEvents' = Append(registerEvents, [code |-> c, image |-> Original(c)])
    BY <1>2 DEF DevBinaryRegister
  <2> QED BY <1>1, <2>1
<1>3. CASE Unregisters(t) \/ BindsStub(t)
  BY <1>3 DEF Unregisters, BindsStub, DevBinaryUnRegister, FunctionRegister, registry
<1> QED BY <1>2, <1>3 DEF Registry, RegistersOne

\* A copy is another thread's as long as its registration keeps its image.
LEMMA RegistryCopy ==
    ASSUME BaseInv, CopyInv, NEW t \in Thread, Registry(t)
    PROVE  CopyInv'
<1>1. /\ RegistryGrows /\ UNCHANGED <<launchEvents, tasks, call>>
  BY RegistryFacts
<1>2. ASSUME NEW u \in Thread PROVE CopyIsOwn(u)'
  <2>1. ASSUME call[u].key # None
        PROVE  /\ hdlToRegId'[call[u].hdl] = hdlToRegId[call[u].hdl]
               /\ registerEvents'[hdlToRegId[call[u].hdl]].image
                     = registerEvents[hdlToRegId[call[u].hdl]].image
    <3>1. /\ call[u].hdl \in Handle /\ binaries[call[u].hdl] # None
          /\ hdlToRegId[call[u].hdl] \in 1..Len(registerEvents)
      BY <2>1, KeyFacts, NumberFacts
    <3>2. registerEvents'[hdlToRegId[call[u].hdl]] = registerEvents[hdlToRegId[call[u].hdl]]
      BY <3>1, RegistryKeeps
    <3> QED BY <1>1, <3>1, <3>2 DEF RegistryGrows
  <2>2. /\ call'[u] = call[u] /\ taskPool'[u] = taskPool[u]
        /\ launchEvents'[DeviceOf[u]] = launchEvents[DeviceOf[u]]
    BY <1>1 DEF tasks
  <2> QED BY <2>1, <2>2, CopyStays DEF CopyInv
<1> QED BY <1>1, <1>2 DEF CopyInv, Apart

\* A step of a thread that leaves registrations and tasks alone, and of the
\* events only touches those of its device.
LEMMA OthersCopy ==
    ASSUME OwnDevices, BaseInv, CopyInv, NEW t \in Thread,
           UNCHANGED <<registerEvents, hdlToRegId, taskPool>>,
           \A d \in Device \ {DeviceOf[t]} : launchEvents'[d] = launchEvents[d],
           \A u \in Thread \ {t} : call'[u] = call[u]
    PROVE  \A u \in Thread \ {t} : CopyIsOwn(u)'
<1> SUFFICES ASSUME NEW u \in Thread \ {t} PROVE CopyIsOwn(u)'
  OBVIOUS
<1>1. DeviceOf[u] \in Device \ {DeviceOf[t]}
  BY ThreadAssumption DEF OwnDevices
<1> QED BY <1>1, CopyStays DEF CopyInv

\* The event of a launch is added at its device.
LEMMA AddCopy ==
    ASSUME OwnDevices, BaseInv, CopyInv, NEW t \in Thread, AddLaunchEvent(t)
    PROVE  CopyInv'
<1>1. /\ UNCHANGED <<registry, tasks>>
      /\ call'[t].key = None /\ call'[t].ok = FALSE
      /\ call'[t].todo = call[t].todo /\ call'[t].hdl = call[t].hdl
      /\ \A u \in Thread \ {t} : call'[u] = call[u]
  BY AddFacts
<1>2. \A d \in Device \ {DeviceOf[t]} : launchEvents'[d] = launchEvents[d]
  BY AddGrows
<1>3. UNCHANGED <<registerEvents, hdlToRegId, taskPool>>
  BY <1>1 DEF registry, tasks
<1>4. \A u \in Thread \ {t} : CopyIsOwn(u)'
  BY <1>1, <1>2, <1>3, OthersCopy
<1>5. CopyIsOwn(t)'
  BY <1>1, NoCopy
<1>6. Apart'
  BY <1>1, StayApart DEF CopyInv
<1> QED BY <1>4, <1>5, <1>6 DEF CopyInv

\* A step of a thread that has no copy then and touches no registration.
LEMMA PlainCopy ==
    ASSUME OwnDevices, BaseInv, CopyInv, NEW t \in Thread, Moves(t),
           UNCHANGED <<registerEvents, taskPool, launchEvents>>, call'[t].key = None, ~call'[t].ok
    PROVE  CopyInv'
<1>1. /\ UNCHANGED hdlToRegId /\ \A u \in Thread \ {t} : call'[u] = call[u]
      /\ call'[t] = Idle \/ GoesOn(t)
  BY MoveFacts
<1>2. \A u \in Thread \ {t} : CopyIsOwn(u)'
  BY <1>1, OthersCopy
<1>3. CopyIsOwn(t)'
  BY NoCopy
<1>4. call'[t].todo # <<>> => call[t].todo # <<>> /\ call'[t].hdl = call[t].hdl
  <2>1. CASE call'[t] = Idle
    BY <2>1 DEF Idle
  <2>2. CASE GoesOn(t)
    BY <2>2 DEF GoesOn
  <2> QED BY <1>1, <2>1, <2>2
<1>5. Apart'
  BY <1>1, <1>4, StayApart DEF CopyInv
<1> QED BY <1>2, <1>3, <1>5 DEF CopyInv

\* What is archived and what has run has no copy.
LEMMA ArchiveRunCopy ==
    ASSUME OwnDevices, BaseInv, CopyInv, NEW t \in Thread, ArchiveMemInfo(t) \/ Runs(t)
    PROVE  CopyInv'
<1>1. Moves(t) /\ UNCHANGED <<registerEvents, taskPool, launchEvents>>
  BY DEF Moves, ArchiveMemInfo, Runs, Run, registry, tasks, history
<1>2. call[t] \in Call /\ call \in [Thread -> Call]
  BY DEF BaseInv, TypeOK, CallOK
<1>3. CASE ArchiveMemInfo(t)
  <2>1. call[t].key = None /\ ~call[t].ok
    BY <1>3 DEF ArchiveMemInfo, BaseInv, Launching
  <2>2. call'[t] = [call[t] EXCEPT !.launchId = GetLaunchId(t),
                                   !.pc = IF call[t].todo = <<>> THEN "run" ELSE "task"]
    BY <1>2, <1>3 DEF ArchiveMemInfo
  <2>3. call'[t].key = call[t].key /\ call'[t].ok = call[t].ok
    BY <1>2, <2>2 DEF Call, Fields
  <2> QED BY <1>1, <2>1, <2>3, PlainCopy
<1>4. CASE Runs(t)
  <2>1. call'[t] = Idle \/ call'[t] = [call[t] EXCEPT !.pc = "task", !.todo = Tail(@), !.key = None,
                                                      !.ok = FALSE]
    BY <1>2, <1>4 DEF Runs, Run
  <2>2. CASE call'[t] = Idle
    <3>1. call'[t].key = None /\ ~call'[t].ok
      BY <2>2 DEF Idle
    <3> QED BY <1>1, <3>1, PlainCopy
  <2>3. CASE call'[t] = [call[t] EXCEPT !.pc = "task", !.todo = Tail(@), !.key = None, !.ok = FALSE]
    <3>1. call'[t].key = None /\ call'[t].ok = FALSE
      BY <1>2, <2>3 DEF Call, Fields
    <3> QED BY <1>1, <3>1, PlainCopy
  <2> QED BY <2>1, <2>2, <2>3
<1> QED BY <1>3, <1>4

\* The start address that is recorded is that of the copy.
LEMMA UpdateCopy ==
    ASSUME OwnDevices, BaseInv, LaunchInv, CopyInv, NEW t \in Thread, UpdatePcStartAddrByDbi(t)
    PROVE  CopyInv'
<1> DEFINE c == call[t]
           d == DeviceOf[t]
           es == launchEvents[d]
           image == taskPool[t][c.key].image
<1>1. /\ UNCHANGED hdlToRegId /\ \A u \in Thread \ {t} : call'[u] = call[u]
  BY MoveFacts DEF Moves
<1>2. UNCHANGED <<registerEvents, taskPool>>
  BY DEF UpdatePcStartAddrByDbi, registry, tasks
<1>3. \A u \in Thread \ {t} : CopyIsOwn(u)'
  BY <1>1, <1>2, UpdateGrows, OthersCopy
<1>4. PICK ok \in BOOLEAN :
        /\ ok => launchEvents' = [launchEvents EXCEPT ![d] =
                    [@ EXCEPT ![c.launchId].pcStart =
                        PcStart(Task(t, c.key).image,
                                IF c.stub = None THEN c.hdl ELSE stubInfo[c.stub].hdl)]]
        /\ call' = [call EXCEPT ![t] = [c EXCEPT !.pc = "run", !.ok = ok]]
  BY DEF UpdatePcStartAddrByDbi, GetDeviceContext, May
<1>5. c \in Call /\ call \in [Thread -> Call]
  BY DEF BaseInv, TypeOK, CallOK
<1>6. /\ call'[t].key = c.key /\ call'[t].hdl = c.hdl /\ call'[t].todo = c.todo
      /\ call'[t].ok = ok
  <2>1. call'[t] = [c EXCEPT !.pc = "run", !.ok = ok]
    BY <1>4, <1>5
  <2> QED BY <1>5, <2>1 DEF Call, Fields
<1>7. /\ c.key # None /\ c.key \in DOMAIN taskPool[t] /\ Seen(c)
      /\ c.launchId \in 1..Len(es) /\ c.launchId = Len(es)
  BY DEF UpdatePcStartAddrByDbi, BaseInv, Launching, LaunchInv, LastIsOwn, GetLaunchId,
         GetDeviceContext
<1>8. registerEvents[hdlToRegId[c.hdl]].image = image
  BY <1>7 DEF CopyInv, CopyIsOwn
<1>9. ASSUME ok PROVE LastEvent(t)'.pcStart = [of |-> image, offset |-> image]
  <2>1. (IF c.stub = None THEN c.hdl ELSE stubInfo[c.stub].hdl) = c.hdl
    <3>1. ASSUME c.stub # None PROVE stubInfo[c.stub].hdl = c.hdl
      <4>1. stubInfo[c.stub] = [hdl |-> c.hdl, kernel |-> c.kernel]
        BY <1>7, <3>1 DEF LaunchInv, StubsTell
      <4> QED BY <4>1
    <3> QED BY <3>1
  <2>2. Task(t, c.key).image = image
    BY <1>7, TaskFacts DEF BaseInv
  <2>3. PcStart(image, c.hdl) = [of |-> image, offset |-> image]
    BY <1>8 DEF PcStart, KernelOffset, EventOf
  <2> DEFINE value == [of |-> image, offset |-> image]
  <2>4. launchEvents' = [launchEvents EXCEPT ![d] = [es EXCEPT ![c.launchId].pcStart = value]]
    BY <1>4, <1>9, <2>1, <2>2, <2>3
  <2>5. d \in Device /\ launchEvents \in [Device -> Seq(Event)]
    BY ThreadAssumption DEF BaseInv, TypeOK, HistoryOK
  <2> HIDE DEF value, es
  <2>6. launchEvents'[d] = [es EXCEPT ![c.launchId].pcStart = value]
    BY <2>4, <2>5
  <2>7. es \in Seq(Event)
    BY <2>5 DEF es
  <2>8. Len(launchEvents'[d]) = c.launchId
    BY <1>7, <2>6, <2>7
  <2>9. launchEvents'[d][c.launchId].pcStart = value
    <3>1. es[c.launchId] \in Event
      BY <1>7, <2>7
    <3>2. launchEvents'[d][c.launchId] = [es[c.launchId] EXCEPT !.pcStart = value]
      BY <1>7, <2>6, <2>7
    <3> QED BY <3>1, <3>2 DEF Event
  <2> QED BY <2>8, <2>9 DEF LastEvent, GetLaunchId, GetDeviceContext, value
<1> HIDE DEF image, c
<1>10. CopyIsOwn(t)'
  <2>1. /\ registerEvents'[hdlToRegId'[call'[t].hdl]].image = image
        /\ taskPool'[t][call'[t].key].image = image
    BY <1>1, <1>2, <1>6, <1>8 DEF image, c
  <2> QED BY <1>6, <1>9, <2>1 DEF CopyIsOwn
<1>11. Apart'
  BY <1>1, <1>6, StayApart DEF CopyInv, c
<1> QED BY <1>3, <1>10, <1>11 DEF CopyInv

\* A task that has run leaves the symbols of its image with its own number.
LEMMA RanCopy ==
    ASSUME BaseInv, LaunchInv, CopyInv, NEW t \in Thread, call[t].pc = "task", Seen(call[t]),
           UNCHANGED <<hdlToRegId, launchEvents>>,
           NEW new, NEW replaced \in BOOLEAN, NEW ok \in BOOLEAN, Ran(t, new, replaced, ok)
    PROVE  CopyInv'
<1> DEFINE c == call[t]
           m == RegOf(t)
           key == KeyOf(t)
<1>1. m \in 1..Len(registerEvents) /\ registerEvents \in Seq(Registration)
      /\ c \in Call /\ call \in [Thread -> Call]
  BY LastEventFacts DEF BaseInv, TypeOK, RegistryOK, CallOK
<1>2. m = hdlToRegId[c.hdl]
  BY DEF LaunchInv, LastIsOwn, Recorded, RegOf
<1>3. \/ ~replaced /\ registerEvents' = registerEvents
      \/ replaced /\ registerEvents' = [registerEvents EXCEPT ![m].image = new.image]
  BY DEF Ran
<1>4. /\ \A i \in 1..Len(registerEvents) : i # m => registerEvents'[i] = registerEvents[i]
      /\ replaced => registerEvents'[m].image = new.image
  <2>1. registerEvents[m] \in Registration
    BY <1>1
  <2>2. replaced => registerEvents'[m] = [registerEvents[m] EXCEPT !.image = new.image]
    BY <1>1, <1>3
  <2>3. [registerEvents[m] EXCEPT !.image = new.image].image = new.image
    BY <2>1 DEF Registration
  <2>4. \A i \in 1..Len(registerEvents) : i # m => registerEvents'[i] = registerEvents[i]
    BY <1>1, <1>3
  <2> QED BY <2>2, <2>3, <2>4
<1>5. call' = [call EXCEPT ![t] = [c EXCEPT
                 !.pc = IF ok THEN "update" ELSE "run", !.launchId = GetLaunchId(t),
                 !.ok = ok, !.key = IF ok THEN key ELSE None]]
      /\ taskPool' = [taskPool EXCEPT ![t] = With(taskPool[t], key, new)]
      /\ (ok => replaced)
  BY DEF Ran
<1> HIDE DEF m, key
<1>6. /\ \A u \in Thread \ {t} : call'[u] = call[u]
      /\ call'[t].pc = (IF ok THEN "update" ELSE "run") /\ call'[t].ok = ok
      /\ call'[t].key = (IF ok THEN key ELSE None)
      /\ call'[t].hdl = c.hdl /\ call'[t].todo = c.todo
  <2>1. call'[t] = [c EXCEPT !.pc = IF ok THEN "update" ELSE "run", !.launchId = GetLaunchId(t),
                             !.ok = ok, !.key = IF ok THEN key ELSE None]
        /\ \A u \in Thread \ {t} : call'[u] = call[u]
    BY <1>1, <1>5
  <2> QED BY <1>1, <2>1 DEF Call, Fields
<1>7. /\ \A u \in Thread \ {t} : taskPool'[u] = taskPool[u]
      /\ taskPool'[t][key] = new
  <2>1. taskPool'[t] = With(taskPool[t], key, new)
        /\ \A u \in Thread \ {t} : taskPool'[u] = taskPool[u]
    BY <1>5 DEF BaseInv, TypeOK, TasksOK
  <2>2. With(taskPool[t], key, new)[key] = new
    BY DEF With
  <2> QED BY <2>1, <2>2
<1>8. ASSUME NEW u \in Thread \ {t} PROVE CopyIsOwn(u)'
  <2>1. ASSUME call[u].key # None
        PROVE  /\ hdlToRegId[call[u].hdl] \in 1..Len(registerEvents)
               /\ hdlToRegId[call[u].hdl] # m
    <3>1. call[u].pc # "idle" /\ call[u].todo # <<>>
      BY <2>1, KeyFacts
    <3>2. c.todo # <<>> /\ c.pc # "idle"
      BY DEF BaseInv, Launching
    <3>3. call[u].hdl # c.hdl
      BY <3>1, <3>2 DEF CopyInv, Apart
    <3> QED BY <1>2, <3>1, <3>2, <3>3, NumberFacts
  <2>2. ASSUME call[u].key # None
        PROVE  registerEvents'[hdlToRegId[call[u].hdl]].image
                  = registerEvents[hdlToRegId[call[u].hdl]].image
    BY <1>4, <2>1, <2>2
  <2> QED BY <1>6, <1>7, <2>2, CopyStays DEF CopyInv
<1>9. CopyIsOwn(t)'
  <2>1. CASE ok
    <3>1. registerEvents'[hdlToRegId'[call'[t].hdl]].image = new.image
      BY <1>2, <1>4, <1>5, <1>6, <2>1
    <3>2. taskPool'[t][call'[t].key].image = new.image /\ call'[t].pc = "update"
      BY <1>6, <1>7, <2>1
    <3> QED BY <3>1, <3>2 DEF CopyIsOwn
  <2>2. CASE ~ok
    BY <1>6, <2>2, NoCopy
  <2> QED BY <2>1, <2>2
<1>10. Apart'
  BY <1>6, StayApart DEF CopyInv
<1> QED BY <1>8, <1>9, <1>10 DEF CopyInv

\* A task runs, or none does.
LEMMA TaskCopy ==
    ASSUME OwnDevices, BaseInv, LaunchInv, CopyInv, NEW t \in Thread, RunDBITask(t)
    PROVE  CopyInv'
<1>1. call[t].pc = "task" /\ UNCHANGED <<hdlToRegId, launchEvents>>
  BY DEF RunDBITask, history
<1>2. CASE Skipped(t)
  <2>1. call[t] \in Call /\ call \in [Thread -> Call] /\ call[t].key = None
    BY <1>1 DEF BaseInv, TypeOK, CallOK, Launching
  <2>2. call'[t] = [call[t] EXCEPT !.pc = "run", !.ok = FALSE]
        /\ UNCHANGED <<registerEvents, taskPool>>
    BY <1>2, <2>1 DEF Skipped
  <2>3. call'[t].key = None /\ call'[t].ok = FALSE
    BY <2>1, <2>2 DEF Call, Fields
  <2> QED BY <1>1, <2>2, <2>3, PlainCopy DEF Moves
<1> QED BY <1>1, <1>2, RanFacts, RanCopy

\* Each copy keeps its symbols.
LEMMA StepCopy ==
    ASSUME OwnDevices, Shared = FALSE
    PROVE  BaseInv /\ LaunchInv /\ CopyInv /\ [Next]_vars => CopyInv'
<1> SUFFICES ASSUME BaseInv, LaunchInv, CopyInv, [Next]_vars PROVE CopyInv'
  OBVIOUS
<1>1. ASSUME NEW t \in Thread, Registry(t) PROVE CopyInv'
  BY <1>1, RegistryCopy
<1>2. ASSUME NEW t \in Thread, Begins(t) PROVE CopyInv'
  <2>1. PICK h \in Handle, s \in Stub \cup {None}, k \in Kernel, a \in Buffer, todo \in Todo :
          Launch(t, h, s, k, a, todo)
    BY <1>2 DEF Begins
  <2>2. /\ UNCHANGED <<registry, history, tasks>> /\ call'[t].key = None /\ call'[t].ok = FALSE
        /\ \A u \in Thread \ {t} : call'[u] = call[u]
    BY <2>1, BeginFacts
  <2>3. UNCHANGED <<registerEvents, hdlToRegId, taskPool, launchEvents>>
    BY <2>2 DEF registry, history, tasks
  <2>4. \A u \in Thread \ {t} : CopyIsOwn(u)'
    BY <2>2, <2>3, OthersCopy
  <2>5. CopyIsOwn(t)'
    BY <2>2, NoCopy
  <2>6. Apart'
    BY <2>1, BeginsApart DEF CopyInv
  <2> QED BY <2>4, <2>5, <2>6 DEF CopyInv
<1>3. ASSUME NEW t \in Thread, AddLaunchEvent(t) PROVE CopyInv'
  BY <1>3, AddCopy
<1>4. ASSUME NEW t \in Thread, Moves(t) PROVE CopyInv'
  BY <1>4, ArchiveRunCopy, TaskCopy, UpdateCopy DEF Moves
<1>5. CASE Beside \/ UNCHANGED vars
  <2>1. UNCHANGED <<registerEvents, hdlToRegId, launchEvents, taskPool, call>>
    BY <1>5, BaseCallbacks DEF registry, history, tasks
  <2> QED BY <2>1 DEF CopyInv, Apart, CopyIsOwn, LastEvent, GetLaunchId, GetDeviceContext
<1> QED BY <1>1, <1>2, <1>3, <1>4, <1>5, Steps DEF Registry, Moves

\* The start address recorded for a launch that runs a copy is that of the copy
\* less the kernel's offset in the copy's own symbols, which the event's binary
\* still has, for any threads, binaries, stubs and tasks: as long as each thread
\* has a device of its own, a stub always stands for one kernel and no two threads
\* instrument one binary at once (KernelContext.cpp:522-612, 1091-1128).
THEOREM OwnPcStart ==
    ASSUME OwnDevices, StubsTheSame, Shared = FALSE
    PROVE  Spec => []PcStartIsItsOwn
<1> DEFINE Inv == BaseInv /\ LaunchInv /\ CopyInv
<1>1. Inv => PcStartIsItsOwn
  <2> SUFFICES ASSUME Inv, NEW t \in Thread, call[t].pc = "run", call[t].ok
               PROVE  LET c == call[t]
                          event == launchEvents[GetDeviceContext(t)][c.launchId]
                          image == Task(t, c.key).image
                      IN  /\ event.launch = LaunchOf(t)
                          /\ event.pcStart = [of |-> image, offset |-> image]
                          /\ EventOf(event.hdl).image = image
    BY DEF PcStartIsItsOwn
  <2> DEFINE c == call[t]
             image == taskPool[t][c.key].image
  <2>1. c.key # None /\ Seen(c) /\ c.key \in DOMAIN taskPool[t]
    BY DEF BaseInv, Launching
  <2>2. Task(t, c.key).image = image
    BY <2>1, TaskFacts DEF BaseInv
  <2>3. /\ launchEvents[GetDeviceContext(t)][c.launchId] = LastEvent(t)
        /\ LastEvent(t).launch = LaunchOf(t) /\ LastEvent(t).hdl = c.hdl
    BY <2>1 DEF LaunchInv, LastIsOwn, LastEvent, Recorded
  <2>4. LastEvent(t).pcStart = [of |-> image, offset |-> image]
    BY DEF CopyInv, CopyIsOwn
  <2>5. EventOf(c.hdl).image = image
    BY <2>1 DEF CopyInv, CopyIsOwn, EventOf
  <2> HIDE DEF image
  <2> QED BY <2>2, <2>3, <2>4, <2>5
<1>2. Init => Inv
  BY InitBase, InitLaunch, InitCopy
<1>3. Inv /\ [Next]_vars => Inv'
  BY StepBase, StepLaunch, StepCopy
<1> QED BY <1>1, <1>2, <1>3, PTL DEF Spec

-----------------------------------------------------------------------------
(* The memory history keeps step with the events.                          *)

\* At the start both are empty.
LEMMA InitDump == Init => DumpInv
<1> SUFFICES ASSUME Init PROVE DumpInv
  OBVIOUS
<1>1. ASSUME NEW t \in Thread PROVE InStep(t)
  <2>1. DeviceOf[t] \in Device
    BY ThreadAssumption
  <2>2. call[t].pc = "idle" /\ launchEvents[DeviceOf[t]] = <<>> /\ memInfoHistory[DeviceOf[t]] = <<>>
    BY <2>1 DEF Init, Idle
  <2> QED BY <2>2 DEF InStep, GetLaunchId, GetDeviceContext, Archived
<1>2. dumps = {}
  BY DEF Init
<1> QED BY <1>1, <1>2 DEF DumpInv

\* The memory history of a device is of the launches it was of.
SameMemory(d) ==
    /\ Len(memInfoHistory'[d]) = Len(memInfoHistory[d])
    /\ \A i \in 1..Len(memInfoHistory[d]) :
          memInfoHistory'[d][i].launch = memInfoHistory[d][i].launch

\* A thread stays in step as long as no launch is added or archived.
LEMMA StayInStep ==
    ASSUME Unseen = {}, BaseInv, NEW t \in Thread, InStep(t), nr'[t] = nr[t],
           Len(launchEvents'[DeviceOf[t]]) = Len(launchEvents[DeviceOf[t]]),
           SameMemory(DeviceOf[t]),
           call'[t].pc = "archive" <=> call[t].pc = "archive",
           call'[t].pc \in Archived => call[t].pc \in Archived
    PROVE  InStep(t)'
<1>1. GetLaunchId(t)' = GetLaunchId(t) /\ LaunchOf(t)' = LaunchOf(t)
  BY DEF GetLaunchId, GetDeviceContext, LaunchOf
<1>2. Len(launchEvents[DeviceOf[t]]) \in Nat
  BY ThreadAssumption DEF BaseInv, TypeOK, HistoryOK
<1>3. ASSUME call[t].pc \in Archived
      PROVE  GetLaunchId(t) \in 1..Len(memInfoHistory[DeviceOf[t]])
  <2>1. GetLaunchId(t) > 0
    BY <1>3 DEF BaseInv, Launching, Seen, Recorded, Archived, GetLaunchId, GetDeviceContext
  <2>2. Len(memInfoHistory[DeviceOf[t]]) = GetLaunchId(t)
    BY <1>3 DEF InStep, Archived
  <2> QED BY <1>2, <2>1, <2>2 DEF GetLaunchId, GetDeviceContext
<1> QED BY <1>1, <1>3 DEF InStep, SameMemory

\* What is awaited stays there.
LEMMA StayAwaited ==
    ASSUME BaseInv, BaseInv', EventsGrow, NEW d \in Dumped, Awaited(d),
           binaries'[d.hdl] = binaries[d.hdl],
           Len(memInfoHistory[d.device]) <= Len(memInfoHistory'[d.device]),
           \A i \in 1..Len(memInfoHistory[d.device]) :
              memInfoHistory'[d.device][i].launch = memInfoHistory[d.device][i].launch
    PROVE  Awaited(d)'
<1>1. d.device \in Device /\ d.launchId \in Nat
  BY DEF Dumped
<1>2. /\ Len(launchEvents[d.device]) \in Nat /\ Len(launchEvents'[d.device]) \in Nat
      /\ Len(memInfoHistory[d.device]) \in Nat /\ Len(memInfoHistory'[d.device]) \in Nat
  BY <1>1 DEF BaseInv, TypeOK, HistoryOK
<1>3. /\ Len(launchEvents[d.device]) <= Len(launchEvents'[d.device])
      /\ \A i \in 1..Len(launchEvents[d.device]) :
            /\ launchEvents'[d.device][i].launch = launchEvents[d.device][i].launch
            /\ launchEvents'[d.device][i].hdl = launchEvents[d.device][i].hdl
  BY <1>1 DEF EventsGrow
<1>4. /\ d.launchId \in 1..Len(launchEvents'[d.device])
      /\ d.launchId \in 1..Len(memInfoHistory'[d.device])
  BY <1>1, <1>2, <1>3 DEF Awaited
<1>5. /\ launchEvents'[d.device][d.launchId].launch = d.launch
      /\ launchEvents'[d.device][d.launchId].hdl = d.hdl
  BY <1>3 DEF Awaited
<1>6. memInfoHistory'[d.device][d.launchId].launch = d.launch /\ binaries'[d.hdl] # None
  BY DEF Awaited
<1> QED BY <1>4, <1>5, <1>6 DEF Awaited

\* A callback that is run changes the addresses of a launch, and not whose they
\* should be.
LEMMA BesideMemory ==
    ASSUME BaseInv, Beside \/ UNCHANGED vars
    PROVE  \A d \in Device : SameMemory(d)
<1>1. CASE UNCHANGED memInfoHistory
  BY <1>1 DEF SameMemory
<1>2. ASSUME NEW d \in dumps, UpdateNormalTaskArgsAddr(d),
             d.launchId \in DOMAIN memInfoHistory[d.device], NEW e \in Device
      PROVE  SameMemory(e)
  <2> DEFINE ms == memInfoHistory[d.device]
             m == [ms[d.launchId] EXCEPT !.addrs = DumpKernelArgs(d)]
             new == [ms EXCEPT ![d.launchId] = m]
  <2>1. d.device \in Device /\ memInfoHistory \in [Device -> Seq(Memory)]
    BY DEF BaseInv, TypeOK, CallbacksOK, HistoryOK, Dumped
  <2>2. memInfoHistory' = [memInfoHistory EXCEPT ![d.device] = new]
    BY <1>2 DEF UpdateNormalTaskArgsAddr
  <2>3. m.launch = ms[d.launchId].launch
    BY <1>2, <2>1 DEF Memory
  <2> HIDE DEF m
  <2>4. /\ Len(new) = Len(ms) /\ \A i \in 1..Len(ms) : new[i].launch = ms[i].launch
    BY <1>2, <2>1, <2>3
  <2> HIDE DEF new
  <2>5. memInfoHistory'[e] = IF e = d.device THEN new ELSE memInfoHistory[e]
    BY <2>1, <2>2
  <2> QED BY <2>4, <2>5 DEF SameMemory
<1> QED BY <1>1, <1>2 DEF Beside, Dump, ListenCallbackTask, ReuseArgs, history, vars

\* A step that changes no launch of the memory history, and adds neither an event
\* nor a callback.
LEMMA QuietDump ==
    ASSUME Unseen = {}, BaseInv, BaseInv', EventsGrow, DumpInv,
           \A d \in Device : SameMemory(d), nr' = nr, dumps' \subseteq dumps,
           \A d \in dumps : binaries'[d.hdl] = binaries[d.hdl],
           \A d \in Device : Len(launchEvents'[d]) = Len(launchEvents[d]),
           \A t \in Thread : /\ call'[t].pc = "archive" <=> call[t].pc = "archive"
                             /\ call'[t].pc \in Archived => call[t].pc \in Archived
    PROVE  DumpInv'
<1>1. ASSUME NEW t \in Thread PROVE InStep(t)'
  <2>1. DeviceOf[t] \in Device
    BY ThreadAssumption
  <2> QED BY <2>1, StayInStep DEF DumpInv
<1>2. \A d \in Device : Len(memInfoHistory[d]) \in Nat
  BY DEF BaseInv, TypeOK, HistoryOK
<1>3. ASSUME NEW d \in dumps PROVE Awaited(d)'
  <2>1. d \in Dumped /\ d.device \in Device
    BY DEF BaseInv, TypeOK, CallbacksOK, Dumped
  <2>2. SameMemory(d.device) /\ Len(memInfoHistory[d.device]) \in Nat
    BY <1>2, <2>1
  <2> QED BY <2>1, <2>2, StayAwaited DEF DumpInv, SameMemory
<1> QED BY <1>1, <1>3 DEF DumpInv

\* The event of a launch is there before its memory is archived.
LEMMA AddDump ==
    ASSUME OwnDevices, Unseen = {}, BaseInv, DumpInv, NEW t \in Thread, AddLaunchEvent(t)
    PROVE  DumpInv'
<1>1. /\ BaseInv' /\ EventsGrow
      /\ UNCHANGED <<runtime, memInfoHistory, callbacks, nr>>
      /\ call[t].pc = "event" /\ call'[t].pc = "archive"
      /\ \A u \in Thread \ {t} : call'[u] = call[u]
  BY AddFacts
<1>2. call[t].stub = None \/ stubInfo[call[t].stub] # None
  BY <1>1 DEF BaseInv, Launching, Seen
<1>3. /\ Len(launchEvents'[DeviceOf[t]]) = Len(launchEvents[DeviceOf[t]]) + 1
      /\ \A d \in Device \ {DeviceOf[t]} : launchEvents'[d] = launchEvents[d]
  BY <1>2, AddGrows
<1>4. InStep(t)'
  <2>1. DeviceOf[t] \in Device
    BY ThreadAssumption
  <2>2. Len(launchEvents[DeviceOf[t]]) \in Nat
    BY <2>1 DEF BaseInv, TypeOK, HistoryOK
  <2>3. Len(memInfoHistory[DeviceOf[t]]) = Len(launchEvents[DeviceOf[t]])
    BY <1>1 DEF DumpInv, InStep, GetLaunchId, GetDeviceContext
  <2>4. Len(memInfoHistory'[DeviceOf[t]]) = Len(launchEvents'[DeviceOf[t]]) - 1
    BY <1>1, <1>3, <2>2, <2>3
  <2> QED BY <1>1, <2>4 DEF InStep, GetLaunchId, GetDeviceContext, Archived
<1>5. ASSUME NEW u \in Thread \ {t} PROVE InStep(u)'
  <2>1. DeviceOf[u] \in Device \ {DeviceOf[t]}
    BY ThreadAssumption DEF OwnDevices
  <2>2. launchEvents'[DeviceOf[u]] = launchEvents[DeviceOf[u]] /\ UNCHANGED <<memInfoHistory, nr>>
    BY <1>1, <1>3, <2>1
  <2> QED BY <1>1, <2>2, StayInStep DEF DumpInv, SameMemory
<1>6. UNCHANGED <<binaries, memInfoHistory, dumps>>
  BY <1>1 DEF runtime, callbacks
<1>7. ASSUME NEW d \in dumps PROVE Awaited(d)'
  <2>1. d \in Dumped /\ d.device \in Device
    BY DEF BaseInv, TypeOK, CallbacksOK, Dumped
  <2>2. Len(memInfoHistory[d.device]) \in Nat
    BY <2>1 DEF BaseInv, TypeOK, HistoryOK
  <2>3. Len(memInfoHistory[d.device]) <= Len(memInfoHistory'[d.device])
    BY <1>6, <2>2
  <2> QED BY <1>1, <1>6, <2>1, <2>3, StayAwaited DEF DumpInv
<1> QED BY <1>4, <1>5, <1>6, <1>7 DEF DumpInv

\* The memory of a launch is archived at the number of its event.
LEMMA ArchiveDump ==
    ASSUME OwnDevices, Unseen = {}, BaseInv, DumpInv, NEW t \in Thread, ArchiveMemInfo(t)
    PROVE  DumpInv'
<1> DEFINE dev == DeviceOf[t]
           ms == memInfoHistory[dev]
           last == Len(launchEvents[dev])
           ls == [launch |-> LaunchOf(t), addrs |-> LaunchOf(t)]
<1>1. /\ BaseInv' /\ EventsGrow /\ UNCHANGED <<binaries, nr>>
      /\ \A u \in Thread \ {t} : call'[u] = call[u]
  BY MoveFacts DEF Moves
<1>2. /\ memInfoHistory' = [memInfoHistory EXCEPT ![dev] = Append(ms, ls)]
      /\ call[t].pc = "archive" /\ UNCHANGED <<launchEvents, dumps>>
      /\ call' = [call EXCEPT ![t] = [call[t] EXCEPT
                    !.launchId = GetLaunchId(t),
                    !.pc = IF call[t].todo = <<>> THEN "run" ELSE "task"]]
  BY DEF ArchiveMemInfo, GetDeviceContext, callbacks
<1>3. /\ dev \in Device /\ ms \in Seq(Memory) /\ launchEvents[dev] \in Seq(Event)
      /\ memInfoHistory \in [Device -> Seq(Memory)]
      /\ call[t] \in Call /\ call \in [Thread -> Call] /\ ls \in Memory
  BY ThreadAssumption DEF BaseInv, TypeOK, HistoryOK, CallOK, LaunchOf, Memory
<1>4. Len(ms) = last - 1
  BY <1>2 DEF DumpInv, InStep, GetLaunchId, GetDeviceContext
<1>5. /\ memInfoHistory'[dev] = Append(ms, ls)
      /\ \A d \in Device \ {dev} : memInfoHistory'[d] = memInfoHistory[d]
  BY <1>2, <1>3
<1>6. call'[t].pc # "archive"
  <2>1. call'[t] = [call[t] EXCEPT !.launchId = GetLaunchId(t),
                                   !.pc = IF call[t].todo = <<>> THEN "run" ELSE "task"]
    BY <1>2, <1>3
  <2>2. call'[t].pc = IF call[t].todo = <<>> THEN "run" ELSE "task"
    BY <1>3, <2>1 DEF Call, Fields
  <2> QED BY <2>2
<1> HIDE DEF ls, ms
<1>7. /\ Len(Append(ms, ls)) = Len(ms) + 1 /\ Append(ms, ls)[Len(ms) + 1] = ls
      /\ \A i \in 1..Len(ms) : Append(ms, ls)[i] = ms[i]
  BY <1>3 DEF ls, ms
<1>8. last \in Nat
  BY <1>3
<1> HIDE DEF last
<1>9. Len(memInfoHistory'[dev]) = last /\ memInfoHistory'[dev][last] = ls
  BY <1>4, <1>5, <1>7, <1>8
<1>10. InStep(t)'
  <2>1. GetLaunchId(t)' = last
    BY <1>2 DEF GetLaunchId, GetDeviceContext, last
  <2>2. ls.launch = LaunchOf(t)'
    BY <1>1 DEF LaunchOf, ls
  <2> QED BY <1>6, <1>9, <2>1, <2>2 DEF InStep
<1>11. ASSUME NEW u \in Thread \ {t} PROVE InStep(u)'
  <2>1. DeviceOf[u] \in Device \ {dev}
    BY ThreadAssumption DEF OwnDevices
  <2> QED BY <1>1, <1>2, <1>5, <2>1, StayInStep DEF DumpInv, SameMemory
<1>12. \A d \in Device : /\ Len(memInfoHistory[d]) <= Len(memInfoHistory'[d])
                         /\ \A i \in 1..Len(memInfoHistory[d]) :
                               memInfoHistory'[d][i] = memInfoHistory[d][i]
  <2> SUFFICES ASSUME NEW d \in Device
               PROVE  /\ Len(memInfoHistory[d]) <= Len(memInfoHistory'[d])
                      /\ \A i \in 1..Len(memInfoHistory[d]) :
                            memInfoHistory'[d][i] = memInfoHistory[d][i]
    OBVIOUS
  <2>1. Len(memInfoHistory[d]) \in Nat
    BY <1>3
  <2>2. CASE d = dev
    BY <1>5, <1>7, <2>1, <2>2 DEF ls, ms
  <2>3. CASE d # dev
    BY <1>5, <2>1, <2>3
  <2> QED BY <2>2, <2>3
<1>13. ASSUME NEW d \in dumps PROVE Awaited(d)'
  <2>1. d \in Dumped /\ d.device \in Device
    BY DEF BaseInv, TypeOK, CallbacksOK, Dumped
  <2> QED BY <1>1, <1>12, <2>1, StayAwaited DEF DumpInv
<1> QED BY <1>2, <1>10, <1>11, <1>13 DEF DumpInv

\* A task that runs or has run archives nothing.
LEMMA TaskDump ==
    ASSUME Unseen = {}, BaseInv, DumpInv, NEW t \in Thread,
           RunDBITask(t) \/ UpdatePcStartAddrByDbi(t)
    PROVE  DumpInv'
<1>1. /\ BaseInv' /\ EventsGrow /\ UNCHANGED <<binaries, nr>>
      /\ \A d \in Device : Len(launchEvents'[d]) = Len(launchEvents[d])
      /\ \A u \in Thread \ {t} : call'[u] = call[u]
      /\ call'[t] = Idle \/ GoesOn(t)
  BY MoveFacts DEF Moves
<1>2. UNCHANGED <<memInfoHistory, dumps>> /\ call[t].pc \in Archived
  BY DEF RunDBITask, UpdatePcStartAddrByDbi, history, callbacks, Archived
<1>3. call'[t].pc # "archive" /\ call[t].pc # "archive"
  BY <1>1, <1>2 DEF GoesOn, Idle, Archived
<1>4. \A u \in Thread : /\ call'[u].pc = "archive" <=> call[u].pc = "archive"
                        /\ call'[u].pc \in Archived => call[u].pc \in Archived
  BY <1>1, <1>2, <1>3
<1> QED BY <1>1, <1>2, <1>4, QuietDump DEF SameMemory

\* The callback that is put in the stream of a launch awaits what the launch
\* archived.
LEMMA RunDump ==
    ASSUME Unseen = {}, BaseInv, LaunchInv, DumpInv, NEW t \in Thread, Runs(t)
    PROVE  DumpInv'
<1> DEFINE dev == DeviceOf[t]
           last == Len(launchEvents[dev])
           new == [device |-> dev, launchId |-> last, launch |-> LaunchOf(t), hdl |-> call[t].hdl]
<1>1. /\ BaseInv' /\ EventsGrow /\ UNCHANGED <<binaries, nr>>
      /\ \A u \in Thread \ {t} : call'[u] = call[u]
      /\ call'[t] = Idle \/ GoesOn(t)
  BY MoveFacts DEF Moves
<1>2. /\ UNCHANGED <<memInfoHistory, launchEvents>> /\ call[t].pc = "run"
      /\ dumps' = dumps \/ dumps' = dumps \cup {new}
  BY DEF Runs, Run, LaunchDumpTask, GetDeviceContext, GetLaunchId, history, callbacks
<1>3. call'[t].pc # "archive"
  BY <1>1 DEF GoesOn, Idle
<1>4. ASSUME NEW u \in Thread PROVE InStep(u)'
  <2>1. call'[u].pc = "archive" <=> call[u].pc = "archive"
    BY <1>1, <1>2, <1>3
  <2>2. call'[u].pc \in Archived => call[u].pc \in Archived
    BY <1>1, <1>2 DEF Archived
  <2> QED BY <1>1, <1>2, <2>1, <2>2, StayInStep DEF DumpInv, SameMemory
<1>5. Awaited(new)
  <2>1. dev \in Device /\ last \in Nat /\ last > 0 /\ binaries[call[t].hdl] # None
    BY <1>2, ThreadAssumption DEF BaseInv, TypeOK, HistoryOK, Launching, Recorded, Seen
  <2>2. LastEvent(t).launch = LaunchOf(t) /\ LastEvent(t).hdl = call[t].hdl
    BY <1>2 DEF LaunchInv, LastIsOwn, Recorded, Seen
  <2>3. Len(memInfoHistory[dev]) = last /\ memInfoHistory[dev][last].launch = LaunchOf(t)
    BY <1>2 DEF DumpInv, InStep, Archived, GetLaunchId, GetDeviceContext
  <2>4. launchEvents[dev][last].launch = LaunchOf(t) /\ launchEvents[dev][last].hdl = call[t].hdl
    BY <2>2 DEF LastEvent, GetLaunchId, GetDeviceContext
  <2>5. last \in 1..Len(launchEvents[dev]) /\ last \in 1..Len(memInfoHistory[dev])
    BY <2>1, <2>3
  <2>6. /\ new.device = dev /\ new.launchId = last /\ new.launch = LaunchOf(t)
        /\ new.hdl = call[t].hdl
    OBVIOUS
  <2> HIDE DEF new
  <2> QED BY <2>1, <2>3, <2>4, <2>5, <2>6 DEF Awaited
<1> HIDE DEF new
<1>6. ASSUME NEW d \in dumps' PROVE Awaited(d)'
  <2>1. d \in dumps \/ d = new
    BY <1>2
  <2>2. Awaited(d)
    BY <1>5, <2>1 DEF DumpInv
  <2> QED BY <1>1, <1>2, <2>2 DEF Awaited
<1> QED BY <1>4, <1>6 DEF DumpInv

\* The history keeps step.
LEMMA StepDump ==
    ASSUME OwnDevices, Unseen = {}
    PROVE  BaseInv /\ LaunchInv /\ DumpInv /\ [Next]_vars => DumpInv'
<1> SUFFICES ASSUME BaseInv, LaunchInv, DumpInv, [Next]_vars PROVE DumpInv'
  OBVIOUS
<1>1. ASSUME NEW t \in Thread, Registry(t) PROVE DumpInv'
  <2>1. /\ BaseInv' /\ EventsGrow
        /\ UNCHANGED <<launchEvents, memInfoHistory, dumps, call, nr>>
        /\ \A h \in Handle : binaries[h] # None /\ (\E d \in dumps : d.hdl = h) =>
              binaries'[h] = binaries[h]
    BY <1>1, RegistryFacts
  <2>2. ASSUME NEW d \in dumps PROVE binaries'[d.hdl] = binaries[d.hdl]
    <3>1. d.hdl \in Handle /\ binaries[d.hdl] # None
      BY DEF DumpInv, Awaited, BaseInv, TypeOK, CallbacksOK, Dumped
    <3> QED BY <2>1, <3>1
  <2> QED BY <2>1, <2>2, QuietDump DEF SameMemory
<1>2. ASSUME NEW t \in Thread, Begins(t) PROVE DumpInv'
  <2>1. /\ BaseInv' /\ EventsGrow /\ UNCHANGED <<runtime, history, callbacks>>
        /\ call[t].pc = "idle" /\ call'[t].pc = "event"
        /\ \A u \in Thread \ {t} : call'[u] = call[u] /\ nr'[u] = nr[u]
    BY <1>2, BeginFacts DEF Begins
  <2>2. UNCHANGED <<binaries, launchEvents, memInfoHistory, dumps>>
    BY <2>1 DEF runtime, history, callbacks
  <2>3. ASSUME NEW u \in Thread PROVE InStep(u)'
    <3>1. CASE u = t
      <4>1. GetLaunchId(t)' = GetLaunchId(t)
        BY <2>2 DEF GetLaunchId, GetDeviceContext
      <4> QED BY <2>1, <2>2, <3>1, <4>1 DEF DumpInv, InStep, Archived
    <3>2. CASE u # t
      BY <2>1, <2>2, <3>2, StayInStep DEF DumpInv, SameMemory
    <3> QED BY <3>1, <3>2
  <2> QED BY <2>2, <2>3 DEF DumpInv, Awaited
<1>3. ASSUME NEW t \in Thread, AddLaunchEvent(t) PROVE DumpInv'
  BY <1>3, AddDump
<1>4. ASSUME NEW t \in Thread, Moves(t) PROVE DumpInv'
  BY <1>4, ArchiveDump, TaskDump, RunDump DEF Moves
<1>5. CASE Beside \/ UNCHANGED vars
  <2>1. /\ BaseInv' /\ EventsGrow /\ UNCHANGED <<runtime, launchEvents, call, nr>>
    BY <1>5, BaseCallbacks
  <2>2. UNCHANGED <<binaries, launchEvents, call, nr>>
    BY <2>1 DEF runtime
  <2>3. dumps' \subseteq dumps
    BY <1>5 DEF Beside, Dump, ListenCallbackTask, ReuseArgs, vars, callbacks
  <2> QED BY <1>5, <2>1, <2>2, <2>3, BesideMemory, QuietDump
<1> QED BY <1>1, <1>2, <1>3, <1>4, <1>5, Steps DEF Registry, Moves

\* No buffer holds anything yet.
LEMMA InitArgs == Init => ArgsInv
<1> SUFFICES ASSUME Init PROVE ArgsInv
  OBVIOUS
<1>1. \A d \in Device : launchEvents[d] = <<>> /\ Len(<<>>) = 0
  BY DEF Init
<1>2. \A t \in Thread : call[t].pc = "idle"
  BY DEF Init, Idle
<1>3. \A a \in Buffer : hostArgs[a] = None
  BY DEF Init
<1> QED BY <1>1, <1>2, <1>3 DEF ArgsInv, EventsPointTo

\* What holds of a launch and a pointer after a step.
BegunThen(launch) == launch \in Thread \X Nat /\ launch[2] <= nr'[launch[1]]
PointsThen(launch, args) == \A a \in Buffer : hostArgs'[a] = launch => args = a

\* A launch that has begun keeps its pointer when another begins, or a buffer is
\* written over.
LEMMA StillPoints ==
    ASSUME BaseInv, NEW launch, NEW args, Begun(launch), PointsTo(launch, args),
           NEW b \in Buffer, NEW other, other = None \/ ~Begun(other),
           hostArgs' = [hostArgs EXCEPT ![b] = other]
    PROVE  PointsThen(launch, args)
<1>1. other # launch
  BY NoneAssumption DEF Begun
<1>2. hostArgs \in [Buffer -> (Thread \X Nat) \cup {None}]
  BY DEF BaseInv, TypeOK, HistoryOK
<1> QED BY <1>1, <1>2 DEF PointsTo, PointsThen

\* And so do the events.
LEMMA EventsPoint ==
    ASSUME BaseInv, ArgsInv, launchEvents' = launchEvents,
           \A launch : Begun(launch) => BegunThen(launch),
           NEW b \in Buffer, NEW other, other = None \/ ~Begun(other),
           hostArgs' = [hostArgs EXCEPT ![b] = other]
    PROVE  EventsPointTo'
<1>1. ASSUME NEW d \in Device, NEW i \in 1..Len(launchEvents[d])
      PROVE  LET event == launchEvents[d][i]
             IN  BegunThen(event.launch) /\ PointsThen(event.launch, event.args)
  <2> DEFINE event == launchEvents[d][i]
  <2>1. Begun(event.launch) /\ PointsTo(event.launch, event.args)
    BY DEF ArgsInv, EventsPointTo
  <2> HIDE DEF event
  <2>2. PointsThen(event.launch, event.args)
    BY <2>1, StillPoints
  <2> QED BY <2>1, <2>2 DEF event
<1> QED BY <1>1 DEF EventsPointTo, Begun, BegunThen, PointsTo, PointsThen

\* The arguments of a launch are its own until they are written over.
LEMMA BeginArgs ==
    ASSUME BaseInv, ArgsInv, NEW t \in Thread, NEW h \in Handle, NEW s \in Stub \cup {None},
           NEW k \in Kernel, NEW a \in Buffer, NEW todo \in Todo, Launch(t, h, s, k, a, todo)
    PROVE  ArgsInv'
<1> DEFINE new == <<t, nr[t] + 1>>
<1>1. /\ hostArgs' = [hostArgs EXCEPT ![a] = new] /\ nr' = [nr EXCEPT ![t] = @ + 1]
      /\ launchEvents' = launchEvents
      /\ call' = [call EXCEPT ![t] = [Idle EXCEPT !.pc = "event", !.stub = s, !.hdl = h,
                                                  !.kernel = k, !.args = a, !.todo = todo]]
  BY DEF Launch, history
<1>2. /\ nr \in [Thread -> Nat] /\ call \in [Thread -> Call]
      /\ hostArgs \in [Buffer -> (Thread \X Nat) \cup {None}]
  BY DEF BaseInv, TypeOK, CallOK, HistoryOK
<1>3. /\ nr'[t] = nr[t] + 1 /\ \A u \in Thread \ {t} : nr'[u] = nr[u] /\ call'[u] = call[u]
      /\ call'[t].args = a
  BY <1>1, <1>2 DEF Idle
<1>4. ASSUME NEW launch, Begun(launch) PROVE BegunThen(launch)
  BY <1>2, <1>3, <1>4 DEF Begun, BegunThen
<1>5. ~Begun(new) /\ BegunThen(new)
  BY <1>2, <1>3 DEF Begun, BegunThen
<1>6. LaunchOf(t)' = new /\ \A u \in Thread \ {t} : LaunchOf(u)' = LaunchOf(u)
  BY <1>3 DEF LaunchOf
<1>7. ASSUME NEW u \in Thread PROVE Begun(LaunchOf(u))
  BY <1>2 DEF Begun, LaunchOf
<1> HIDE DEF new
<1>8. ASSUME NEW b \in Buffer PROVE hostArgs'[b] # None => BegunThen(hostArgs'[b])
  <2>1. CASE b = a
    BY <1>1, <1>2, <1>5, <2>1
  <2>2. CASE b # a
    BY <1>1, <1>2, <1>4, <2>2 DEF ArgsInv
  <2> QED BY <2>1, <2>2
<1>9. ASSUME NEW u \in Thread, call'[u].pc # "idle" PROVE PointsThen(LaunchOf(u)', call'[u].args)
  <2>1. CASE u = t
    <3>1. ASSUME NEW b \in Buffer, b # a PROVE hostArgs'[b] # new
      BY <1>1, <1>2, <1>5, <3>1, NoneAssumption DEF ArgsInv, BegunThen
    <3> QED BY <1>3, <1>6, <2>1, <3>1 DEF PointsThen
  <2>2. CASE u # t
    <3>1. call'[u] = call[u] /\ LaunchOf(u)' = LaunchOf(u) /\ Begun(LaunchOf(u))
      BY <1>3, <1>6, <1>7, <2>2
    <3>2. PointsTo(LaunchOf(u), call[u].args)
      BY <1>9, <3>1 DEF ArgsInv
    <3>3. PointsThen(LaunchOf(u), call[u].args)
      BY <1>1, <1>5, <3>1, <3>2, StillPoints
    <3> QED BY <3>1, <3>3
  <2> QED BY <2>1, <2>2
<1>10. EventsPointTo'
  BY <1>1, <1>4, <1>5, EventsPoint
<1> QED BY <1>8, <1>9, <1>10 DEF ArgsInv, Begun, BegunThen, PointsTo, PointsThen

\* An event has the pointer of its launch.
LEMMA AddArgs ==
    ASSUME BaseInv, ArgsInv, NEW t \in Thread, AddLaunchEvent(t)
    PROVE  ArgsInv'
<1> DEFINE dev == DeviceOf[t]
           known == call[t].stub = None \/ stubInfo[call[t].stub] # None
<1>1. /\ UNCHANGED <<hostArgs, nr>> /\ call[t].pc = "event"
      /\ call' = [call EXCEPT ![t].pc = "archive"]
  BY DEF AddLaunchEvent
<1>2. call \in [Thread -> Call] /\ nr \in [Thread -> Nat] /\ dev \in Device
  BY ThreadAssumption DEF BaseInv, TypeOK, CallOK
<1>3. \A u \in Thread : LaunchOf(u)' = LaunchOf(u) /\ Begun(LaunchOf(u))
  BY <1>1, <1>2 DEF LaunchOf, Begun
<1>4. ASSUME NEW u \in Thread, call'[u].pc # "idle" PROVE call[u].pc # "idle" /\ call'[u].args = call[u].args
  BY <1>1, <1>2, <1>4 DEF Call, Fields
<1>5. ASSUME NEW d \in Device, NEW i \in 1..Len(launchEvents'[d])
      PROVE  LET event == launchEvents'[d][i]
             IN  Begun(event.launch) /\ PointsTo(event.launch, event.args)
  <2>1. /\ EventsGrow /\ \A e \in Device \ {dev} : launchEvents'[e] = launchEvents[e]
        /\ known => /\ Len(launchEvents'[dev]) = Len(launchEvents[dev]) + 1
                    /\ LET event == launchEvents'[dev][Len(launchEvents[dev]) + 1]
                       IN  event.launch = LaunchOf(t) /\ event.args = call[t].args
        /\ ~known => launchEvents' = launchEvents
    BY AddGrows
  <2>2. Len(launchEvents[d]) \in Nat
    BY DEF BaseInv, TypeOK, HistoryOK
  <2>3. CASE i \in 1..Len(launchEvents[d])
    BY <2>1, <2>3 DEF EventsGrow, ArgsInv, EventsPointTo
  <2>4. CASE i \notin 1..Len(launchEvents[d])
    <3>1. known /\ d = dev
      BY <2>1, <2>4
    <3> HIDE DEF known
    <3>2. i = Len(launchEvents[dev]) + 1
      BY <2>1, <2>2, <2>4, <3>1
    <3>3. launchEvents'[d][i].launch = LaunchOf(t) /\ launchEvents'[d][i].args = call[t].args
      BY <2>1, <3>1, <3>2
    <3>4. PointsTo(LaunchOf(t), call[t].args) /\ Begun(LaunchOf(t))
      BY <1>1, <1>3 DEF ArgsInv
    <3> QED BY <3>3, <3>4
  <2> QED BY <2>3, <2>4
<1> QED BY <1>1, <1>3, <1>4, <1>5 DEF ArgsInv, EventsPointTo, Begun, PointsTo

\* The pointer stays with the call.
LEMMA MoveKeepsArgs ==
    ASSUME BaseInv, NEW t \in Thread, Moves(t), call'[t].pc # "idle"
    PROVE  call[t].pc # "idle" /\ call'[t].args = call[t].args
<1> DEFINE c == call[t]
<1>1. call \in [Thread -> Call] /\ c \in Call
  BY DEF BaseInv, TypeOK, CallOK
<1>2. c.pc # "idle"
  BY DEF Moves, Runs, ArchiveMemInfo, RunDBITask, UpdatePcStartAddrByDbi, Run
<1>3. CASE ArchiveMemInfo(t)
  BY <1>1, <1>3 DEF ArchiveMemInfo, Call, Fields
<1>4. CASE UpdatePcStartAddrByDbi(t)
  BY <1>1, <1>4 DEF UpdatePcStartAddrByDbi, Call, Fields
<1>5. ASSUME RunDBITask(t) PROVE call'[t].args = c.args
  <2>1. ASSUME Skipped(t) PROVE call'[t].args = c.args
    BY <1>1, <2>1 DEF Skipped, Call, Fields
  <2>2. ASSUME NEW new, NEW replaced \in BOOLEAN, NEW ok \in BOOLEAN, Ran(t, new, replaced, ok)
        PROVE  call'[t].args = c.args
    <3> DEFINE n == [c EXCEPT !.pc = IF ok THEN "update" ELSE "run", !.launchId = GetLaunchId(t),
                              !.ok = ok, !.key = IF ok THEN KeyOf(t) ELSE None]
    <3>1. call'[t] = n
      BY <1>1, <2>2 DEF Ran
    <3>2. n.args = c.args
      BY <1>1 DEF Call, Fields
    <3> QED BY <3>1, <3>2
  <2>3. \/ Skipped(t)
        \/ \E new, replaced, ok : ok \in BOOLEAN /\ replaced \in BOOLEAN /\ Ran(t, new, replaced, ok)
    BY <1>5, RanFacts
  <2> QED BY <2>1, <2>2, <2>3
<1>6. ASSUME NEW sink, Run(t, sink) PROVE call'[t].args = c.args
  <2>1. call' = [call EXCEPT ![t] =
                   IF Len(c.todo) > 1
                   THEN [c EXCEPT !.pc = "task", !.todo = Tail(@), !.key = None, !.ok = FALSE]
                   ELSE Idle]
    BY <1>6 DEF Run
  <2>2. call'[t] = IF Len(c.todo) > 1
                   THEN [c EXCEPT !.pc = "task", !.todo = Tail(@), !.key = None, !.ok = FALSE]
                   ELSE Idle
    BY <1>1, <2>1
  <2>3. Idle.pc = "idle"
    BY DEF Idle
  <2> QED BY <1>1, <2>2, <2>3 DEF Call, Fields
<1> QED BY <1>2, <1>3, <1>4, <1>5, <1>6 DEF Moves, Runs

\* A launch that goes on has the pointer it had.
LEMMA MoveArgs ==
    ASSUME BaseInv, ArgsInv, NEW t \in Thread, Moves(t)
    PROVE  ArgsInv'
<1>1. /\ EventsGrow /\ \A d \in Device : Len(launchEvents'[d]) = Len(launchEvents[d])
      /\ nr' = nr /\ \A u \in Thread \ {t} : call'[u] = call[u]
  BY MoveFacts
<1>2. hostArgs' = hostArgs
  BY DEF Moves, Runs, ArchiveMemInfo, RunDBITask, UpdatePcStartAddrByDbi, Run
<1>3. call'[t].pc # "idle" => call[t].pc # "idle" /\ call'[t].args = call[t].args
  BY MoveKeepsArgs
<1>4. \A u \in Thread : LaunchOf(u)' = LaunchOf(u)
  BY <1>1 DEF LaunchOf
<1> QED BY <1>1, <1>2, <1>3, <1>4 DEF ArgsInv, EventsPointTo, Begun, PointsTo, EventsGrow

\* Every step leaves an event with a pointer to nothing but its own arguments.
LEMMA StepArgs == BaseInv /\ ArgsInv /\ [Next]_vars => ArgsInv'
<1> SUFFICES ASSUME BaseInv, ArgsInv, [Next]_vars PROVE ArgsInv'
  OBVIOUS
<1>1. ASSUME UNCHANGED <<hostArgs, launchEvents, call, nr>> PROVE ArgsInv'
  BY <1>1 DEF ArgsInv, EventsPointTo, Begun, PointsTo, LaunchOf
<1>2. ASSUME NEW t \in Thread, Registry(t) PROVE ArgsInv'
  BY <1>1, <1>2 DEF Registry, RegistersOne, Unregisters, BindsStub, DevBinaryRegister,
                    DevBinaryUnRegister, FunctionRegister, history
<1>3. ASSUME NEW t \in Thread, Begins(t) PROVE ArgsInv'
  BY <1>3, BeginArgs DEF Begins
<1>4. ASSUME NEW t \in Thread, AddLaunchEvent(t) PROVE ArgsInv'
  BY <1>4, AddArgs
<1>5. ASSUME NEW t \in Thread, Moves(t) PROVE ArgsInv'
  BY <1>5, MoveArgs
<1>6. ASSUME NEW a \in Buffer, ReuseArgs(a) PROVE ArgsInv'
  <2>1. /\ hostArgs' = [hostArgs EXCEPT ![a] = None]
        /\ UNCHANGED <<launchEvents, call, nr>>
    BY <1>6 DEF ReuseArgs, history
  <2>2. hostArgs \in [Buffer -> (Thread \X Nat) \cup {None}]
    BY DEF BaseInv, TypeOK, HistoryOK
  <2>3. \A b \in Buffer : hostArgs'[b] = hostArgs[b] \/ hostArgs'[b] = None
    BY <2>1, <2>2
  <2>4. \A u \in Thread : LaunchOf(u) # None
    BY NoneAssumption DEF LaunchOf, BaseInv, TypeOK, CallOK
  <2>5. \A launch : Begun(launch) => BegunThen(launch)
    BY <2>1 DEF Begun, BegunThen
  <2>6. EventsPointTo'
    BY <2>1, <2>5, EventsPoint
  <2>7. ASSUME NEW u \in Thread, call[u].pc # "idle", NEW b \in Buffer, hostArgs'[b] = LaunchOf(u)
        PROVE  call[u].args = b
    BY <2>3, <2>4, <2>7 DEF ArgsInv, PointsTo
  <2>8. \A b \in Buffer : hostArgs'[b] # None => BegunThen(hostArgs'[b])
    BY <2>3, <2>5 DEF ArgsInv
  <2> QED BY <2>1, <2>6, <2>7, <2>8 DEF ArgsInv, Begun, BegunThen, PointsTo, LaunchOf
<1>7. CASE Beside \/ UNCHANGED vars
  <2>1. ASSUME NEW d \in dumps, Dump(d) PROVE ArgsInv'
    BY <1>1, <2>1 DEF Dump
  <2>2. ASSUME NEW d \in Device, ListenCallbackTask(d) PROVE ArgsInv'
    BY <1>1, <2>2 DEF ListenCallbackTask, history
  <2>3. CASE UNCHANGED vars
    BY <1>1, <2>3 DEF vars, history
  <2> QED BY <1>6, <1>7, <2>1, <2>2, <2>3 DEF Beside
<1> QED BY <1>2, <1>3, <1>4, <1>5, <1>7, Steps DEF Registry, Moves

\* A callback saves the binary and the memory of the launch it was put in the
\* stream for, and its inputs too if the application has left the arguments where
\* they were, for any threads, devices, binaries, stubs and buffers: as long as
\* each thread has a device of its own, a stub always stands for one kernel and
\* every stub was registered through a hook, without which the number of a
\* launch's event and that of its memory part (KernelContext.cpp:320-463,
\* KernelReplacement.cpp:124-204).
THEOREM OwnDump ==
    ASSUME OwnDevices, StubsTheSame, Unseen = {}
    PROVE  Spec => []DumpsItsOwnKernel
<1> DEFINE Inv == BaseInv /\ LaunchInv /\ DumpInv /\ ArgsInv
<1>1. Inv => DumpsItsOwnKernel
  <2> SUFFICES ASSUME Inv, NEW d \in dumps
               PROVE  /\ d.launchId \in DOMAIN launchEvents[d.device]
                      /\ launchEvents[d.device][d.launchId].launch = d.launch
                      /\ memInfoHistory[d.device][d.launchId].launch = d.launch
                      /\ SaveAicore(d) = binaries[d.hdl]
                      /\ KeepsArgs(d.launch) => DumpKernelArgs(d) = d.launch
    BY DEF DumpsItsOwnKernel
  <2>1. Awaited(d) /\ d.device \in Device /\ d.hdl \in Handle
    BY DEF DumpInv, BaseInv, TypeOK, CallbacksOK, Dumped
  <2>2. launchEvents[d.device] \in Seq(Event)
    BY <2>1 DEF BaseInv, TypeOK, HistoryOK
  <2>3. d.launchId \in DOMAIN launchEvents[d.device]
    BY <2>1, <2>2 DEF Awaited
  <2>4. registerEvents[hdlToRegId[d.hdl]].code = binaries[d.hdl]
    BY <2>1 DEF Awaited, BaseInv, NumbersTell
  <2>5. SaveAicore(d) = binaries[d.hdl]
    BY <2>1, <2>4 DEF Awaited, SaveAicore, EventOf
  <2>6. ASSUME NEW a \in Buffer, hostArgs[a] = d.launch PROVE DumpKernelArgs(d) = d.launch
    <3>1. launchEvents[d.device][d.launchId].args = a
      BY <2>1, <2>6 DEF Awaited, ArgsInv, EventsPointTo, PointsTo
    <3> QED BY <2>6, <3>1 DEF DumpKernelArgs
  <2> QED BY <2>1, <2>3, <2>5, <2>6 DEF Awaited, KeepsArgs
<1>2. Init => Inv
  BY InitBase, InitLaunch, InitDump, InitArgs
<1>3. Inv /\ [Next]_vars => Inv'
  BY StepBase, StepLaunch, StepDump, StepArgs
<1> QED BY <1>1, <1>2, <1>3, PTL DEF Spec
=============================================================================
