----------------------------- MODULE RtKernels -----------------------------
(***************************************************************************)
(* The kernels of the runtime layer: KernelContext follows the binaries    *)
(* and stubs the application registers and keeps the launches of each      *)
(* device, and DBITask gives a launch an instrumented binary.  The symbols *)
(* of a registered binary are overwritten by those of the copy that was    *)
(* last made of it, and the start address of a launch is the address of    *)
(* its kernel less the kernel's offset in those symbols.                   *)
(*                                                                         *)
(* An image is a binary, or a copy of it for a kernel and a task.  A start *)
(* address is a pair: the image that was asked for the address, and the    *)
(* one whose symbols gave the offset.                                      *)
(***************************************************************************)
EXTENDS Integers, Sequences

CONSTANTS Thread, Loader,       \* the threads, and those that register
          Device, DeviceOf,     \* the device each thread has set
          Code, Kernel,         \* binaries, and the kernels in them
          Handle, Stub,         \* the runtime's handles, the host's stubs
          Unseen,               \* stubs whose registration no hook saw
          Again,                \* stubs are registered again, for what they stood for
                                \* ("same") or for something else ("other")
          Buffer,               \* the application's memory for arguments
          Todo,                 \* the tasks a launch may be put through
          Shared,               \* threads instrument one binary at once
          Sink,                 \* whether launches are in streams of a model
          MayFail,              \* steps that may fail
          Registers, Launches,  \* bounds, of launches for each thread
          None

\* The kinds of task, the kernel a stub stands for, the key of a task and the
\* image it makes.
BIType == {"CUSTOMIZE", "BB_COUNT"}
StubFuncInfo == [hdl : Handle, kernel : Kernel]
Key == [regId : Nat, stub : Stub \cup {None}, tilingKey : Kernel \cup {None}, type : BIType]
Image == [code : Code, kernel : Kernel \cup {None}, type : BIType \cup {"none"}]

ASSUME ThreadAssumption == Loader \subseteq Thread /\ DeviceOf \in [Thread -> Device]
ASSUME TodoAssumption == Todo \subseteq Seq(BIType) /\ Sink \subseteq BOOLEAN
ASSUME NoneAssumption ==
    /\ None \notin Code \cup Kernel \cup Handle \cup Stub \cup Buffer
    /\ None \notin StubFuncInfo \cup Key \cup Image \cup [handle : Nat, kernel : Kernel]
    /\ None \notin Thread \X Nat

-----------------------------------------------------------------------------
VARIABLES binaries,       \* runtime: the code at each handle
          stubs,          \* runtime: the kernel each stub stands for
          registerEvents,
          hdlToRegId,
          stubInfo,       \* stubInfo_
          launchEvents,   \* of each device
          memInfoHistory, \* of each device: the launch, and whose addresses are there
          hostArgs,       \* application: the launch whose arguments a buffer holds
          taskPool,       \* DBITaskFactory::taskPool_ of each thread
          keepOutputs,    \* DBITaskConfig::keepTaskOutputs_ of each thread
          outputs,        \* the task directories of each thread
          dumps,          \* callbacks in the streams of sink launches
          listener,       \* listenThread_ of each device
          call, nr

runtime == <<binaries, stubs>>
registry == <<registerEvents, hdlToRegId, stubInfo>>
history == <<launchEvents, memInfoHistory>>
tasks == <<taskPool, keepOutputs, outputs>>
callbacks == <<dumps, listener>>
vars == <<runtime, registry, history, hostArgs, tasks, callbacks, call, nr>>

Original(code) == [code |-> code, kernel |-> None, type |-> "none"]
Idle == [pc |-> "idle", stub |-> None, hdl |-> None, kernel |-> None, args |-> None, todo |-> <<>>,
         launchId |-> 0, key |-> None, ok |-> FALSE]

Init ==
    /\ binaries = [h \in Handle |-> None] /\ stubs = [s \in Stub |-> None]
    /\ registerEvents = <<>> /\ hdlToRegId = [h \in Handle |-> None]
    /\ stubInfo = [s \in Stub |-> None]
    /\ launchEvents = [d \in Device |-> <<>>] /\ memInfoHistory = [d \in Device |-> <<>>]
    /\ hostArgs = [a \in Buffer |-> None]
    /\ taskPool = [t \in Thread |-> <<>>] /\ keepOutputs = [t \in Thread |-> FALSE]
    /\ outputs = [t \in Thread |-> {}]
    /\ dumps = {} /\ listener = [d \in Device |-> "none"]
    /\ call = [t \in Thread |-> Idle] /\ nr = [t \in Thread |-> 0]

With(f, x, value) == [y \in {x} \cup DOMAIN f |-> IF y = x THEN value ELSE f[y]]
May(what) == {TRUE} \cup IF what \in MayFail THEN {FALSE} ELSE {}
EventOf(hdl) == registerEvents[hdlToRegId[hdl]]

-----------------------------------------------------------------------------
(* Registration.                                                           *)

Registered_insert(h) == IF hdlToRegId[h] = None THEN Len(registerEvents) + 1 ELSE hdlToRegId[h]
Registered(h) == Len(registerEvents) + 1

\* rtDevBinaryRegister and rtRegisterAllKernel: AddHdlRegisterEvent in Post.
DevBinaryRegister(t, h, c) ==
    /\ t \in Loader /\ call[t].pc = "idle" /\ Len(registerEvents) < Registers
    /\ binaries[h] = None
    /\ binaries' = [binaries EXCEPT ![h] = c]
    /\ registerEvents' = Append(registerEvents, [code |-> c, image |-> Original(c)])
    /\ hdlToRegId' = [hdlToRegId EXCEPT ![h] = Registered(h)]
    /\ UNCHANGED <<stubs, stubInfo, history, hostArgs, tasks, callbacks, call, nr>>

\* The hook forgets nothing; no launch of the binary is under way.
DevBinaryUnRegister(t, h) ==
    /\ t \in Loader /\ call[t].pc = "idle" /\ binaries[h] # None
    /\ \A u \in Thread : call[u].hdl # h
    /\ \A d \in dumps : d.hdl # h
    /\ binaries' = [binaries EXCEPT ![h] = None]
    /\ stubs' = [s \in Stub |-> IF stubs[s] # None /\ stubs[s].hdl = h THEN None ELSE stubs[s]]
    /\ UNCHANGED <<registry, history, hostArgs, tasks, callbacks, call, nr>>

AgainAs(same) == IF same THEN "same" ELSE "other"

\* AddFuncRegisterEvent in Pre; insert leaves what is there already.
FunctionRegister(t, h, s, k) ==
    /\ t \in Loader /\ call[t].pc = "idle" /\ binaries[h] # None
    /\ stubs[s] = None
    /\ stubInfo[s] = None \/ AgainAs(stubInfo[s] = [hdl |-> h, kernel |-> k]) \in Again
    /\ stubs' = [stubs EXCEPT ![s] = [hdl |-> h, kernel |-> k]]
    /\ stubInfo' = IF s \in Unseen \/ stubInfo[s] # None THEN stubInfo
                   ELSE [stubInfo EXCEPT ![s] = [hdl |-> h, kernel |-> k]]
    /\ UNCHANGED <<binaries, registerEvents, hdlToRegId, history, hostArgs, tasks, callbacks, call, nr>>

-----------------------------------------------------------------------------
(* A launch is recorded.                                                   *)

MayInstrument(t, h, todo) ==
    \/ Shared \/ todo = <<>>
    \/ \A u \in Thread \ {t} : call[u].hdl = h => call[u].todo = <<>>

\* A launch names a stub, or a handle and a tiling key.
ByStub(h, s, k) == s # None /\ stubs[s] = [hdl |-> h, kernel |-> k]
ByHandle(h, s) == s = None /\ binaries[h] # None

\* The application writes the arguments where no launch under way has its own.
Launch(t, h, s, k, a, todo) ==
    /\ call[t].pc = "idle" /\ nr[t] < Launches[t]
    /\ ByStub(h, s, k) \/ ByHandle(h, s)
    /\ MayInstrument(t, h, todo) /\ \A u \in Thread : call[u].args # a
    /\ call' = [call EXCEPT ![t] = [Idle EXCEPT !.pc = "event", !.stub = s, !.hdl = h,
                                                !.kernel = k, !.args = a, !.todo = todo]]
    /\ hostArgs' = [hostArgs EXCEPT ![a] = <<t, nr[t] + 1>>]
    /\ nr' = [nr EXCEPT ![t] = @ + 1]
    /\ UNCHANGED <<runtime, registry, history, tasks, callbacks>>

LaunchOf(t) == <<t, nr[t]>>

\* When no launch uses it the application frees the buffer, or writes over it;
\* only a callback could read it now.
ReuseArgs(a) ==
    /\ \E d \in dumps : d.launch = hostArgs[a]
    /\ \A u \in Thread : call[u].args # a
    /\ hostArgs' = [hostArgs EXCEPT ![a] = None]
    /\ UNCHANGED <<runtime, registry, history, tasks, callbacks, call, nr>>

\* The context of the thread's current device.
GetDeviceContext(t) == DeviceOf[t]
KernelOffset(hdl) == EventOf(hdl).image
PcStart(image, hdl) == [of |-> image, offset |-> KernelOffset(hdl)]

\* A stub no hook saw leaves no event; an event names the handle its stub was
\* first registered with.  argsInfoCopy copies the pointer to the arguments.
AddLaunchEvent(t) ==
    LET c == call[t]
        known == c.stub = None \/ stubInfo[c.stub] # None
        hdl == IF c.stub = None THEN c.hdl ELSE stubInfo[c.stub].hdl
    IN  /\ c.pc = "event"
        /\ launchEvents' =
              IF ~known THEN launchEvents
              ELSE [launchEvents EXCEPT ![GetDeviceContext(t)] =
                       Append(@, [launch |-> LaunchOf(t), hdl |-> hdl, stub |-> c.stub, args |-> c.args,
                                  pcStart |-> PcStart(Original(binaries[c.hdl]), hdl)])]
        /\ call' = [call EXCEPT ![t].pc = "archive"]
        /\ UNCHANGED <<runtime, registry, memInfoHistory, hostArgs, tasks, callbacks, nr>>

GetLaunchId(t) == Len(launchEvents[GetDeviceContext(t)])
LastEvent(t) == launchEvents[GetDeviceContext(t)][GetLaunchId(t)]

\* The rest of InitParam: the number is the last of the device.
ArchiveMemInfo(t) ==
    /\ call[t].pc = "archive"
    /\ memInfoHistory' = [memInfoHistory EXCEPT ![GetDeviceContext(t)] =
                             Append(@, [launch |-> LaunchOf(t), addrs |-> LaunchOf(t)])]
    /\ call' = [call EXCEPT ![t] = [call[t] EXCEPT
                   !.launchId = GetLaunchId(t),
                   !.pc = IF call[t].todo = <<>> THEN "run" ELSE "task"]]
    /\ UNCHANGED <<runtime, registry, launchEvents, hostArgs, tasks, callbacks, nr>>

-----------------------------------------------------------------------------
(* The instrumented copy.                                                  *)

TaskKey_noRegId(c, regId) ==
    [regId |-> 0, stub |-> c.stub, tilingKey |-> IF c.stub = None THEN c.kernel ELSE None,
     type |-> Head(c.todo)]
TaskKey(c, regId) ==
    [regId |-> regId, stub |-> c.stub, tilingKey |-> IF c.stub = None THEN c.kernel ELSE None,
     type |-> Head(c.todo)]

\* handle: counts the binaries the task has registered; bound: the one its
\* stubFunc_ was registered with, and the kernel it then stood for.
NewTask == [handle |-> 0, image |-> None, launchId |-> 0, bound |-> None]
Task(t, key) == IF key \in DOMAIN taskPool[t] THEN taskPool[t][key] ELSE NewTask
OutputDir(launchId, type) == <<launchId, type>>

NeedConvert(task, type, t) ==
    \/ task.image = None
    \/ keepOutputs'[t] /\ OutputDir(task.launchId, type) \notin outputs[t]

\* KernelReplaceTask: the binary of the task before goes when a new one is
\* made, even if that cannot be registered.
Converted(task, image, launchId) ==
    {[task EXCEPT !.handle = @ + 1, !.image = image, !.launchId = launchId]}
        \cup (IF "Convert" \in MayFail THEN {task} ELSE {})
        \cup (IF "Register" \in MayFail THEN {[task EXCEPT !.image = None]} ELSE {})

\* registered_ stays with the task.
Bound(task, event) ==
    IF event.stub = None \/ task.bound # None THEN {task}
    ELSE {[task EXCEPT !.bound = [handle |-> task.handle, kernel |-> stubInfo[event.stub].kernel]]}
             \cup (IF "FunctionRegister" \in MayFail THEN {task} ELSE {})

\* SetDbiBinary, for a copy just made and for one used again.
SetDbiBinary_fresh(regId, image, again) ==
    IF again THEN registerEvents ELSE [registerEvents EXCEPT ![regId].image = image]
SetDbiBinary(regId, image, again) == [registerEvents EXCEPT ![regId].image = image]

\* DBITask::Run, for the last launch of the device, whoever recorded it.
RunTask(t) ==
    LET c == call[t]
        type == Head(c.todo)
        launchId == GetLaunchId(t)
        event == LastEvent(t)
        regId == hdlToRegId[event.hdl]
        key == TaskKey(c, regId)
        old == Task(t, key)
        image == [code |-> registerEvents[regId].code, kernel |-> key.tilingKey, type |-> type]
        again == ~NeedConvert(old, type, t)
    IN  \E made \in IF again THEN {old} ELSE Converted(old, image, launchId) :
        LET replaced == again \/ made.handle # old.handle
        IN  \E new \in IF replaced THEN Bound(made, event) ELSE {made} :
            LET ok == replaced /\ (c.stub = None \/ new.bound # None)
            IN  /\ taskPool' = [taskPool EXCEPT ![t] = With(@, key, new)]
                /\ outputs' = IF keepOutputs'[t]
                              THEN [outputs EXCEPT ![t] = @ \cup {OutputDir(launchId, type)}]
                              ELSE outputs
                /\ registerEvents' = IF replaced THEN SetDbiBinary(regId, new.image, again)
                                     ELSE registerEvents
                /\ call' = [call EXCEPT ![t] = [c EXCEPT
                               !.pc = IF ok THEN "update" ELSE "run", !.launchId = launchId,
                               !.ok = ok, !.key = IF ok THEN key ELSE None]]

\* The task's plugin does not match the kernel, or its binary is not known.
Skipped(t) ==
    /\ call' = [call EXCEPT ![t] = [call[t] EXCEPT !.pc = "run", !.ok = FALSE]]
    /\ UNCHANGED <<registerEvents, taskPool, outputs>>

IsEnabled == May("Match")

\* BBCountDumper has its tasks keep their directories, from then on.
Configure(t) ==
    keepOutputs' = IF Head(call[t].todo) = "BB_COUNT" THEN [keepOutputs EXCEPT ![t] = TRUE]
                   ELSE keepOutputs

RunByStub(t) ==
    /\ call[t].stub # None
    /\ \E enabled \in IsEnabled :
          IF enabled /\ call[t].stub \notin Unseen THEN RunTask(t) ELSE Skipped(t)
RunByHandle(t) ==
    /\ call[t].stub = None
    /\ \E enabled \in IsEnabled : IF enabled THEN RunTask(t) ELSE Skipped(t)

RunDBITask(t) ==
    /\ call[t].pc = "task" /\ Configure(t)
    /\ RunByStub(t) \/ RunByHandle(t)
    /\ UNCHANGED <<runtime, hdlToRegId, stubInfo, history, hostArgs, callbacks, nr>>

\* What it replaced stays replaced when the address cannot be had.
UpdatePcStartAddrByDbi(t) ==
    LET c == call[t]
        hdl == IF c.stub = None THEN c.hdl ELSE stubInfo[c.stub].hdl
    IN  /\ c.pc = "update"
        /\ \E ok \in May("PcStart") :
              /\ launchEvents' =
                    IF ok THEN [launchEvents EXCEPT ![GetDeviceContext(t)] =
                                   [@ EXCEPT ![c.launchId].pcStart =
                                       PcStart(Task(t, c.key).image, hdl)]]
                    ELSE launchEvents
              /\ call' = [call EXCEPT ![t] = [c EXCEPT !.pc = "run", !.ok = ok]]
        /\ UNCHANGED <<runtime, registry, memInfoHistory, hostArgs, tasks, callbacks, nr>>

-----------------------------------------------------------------------------
(* The kernel runs, and the next task starts from the application's.       *)

\* The first sink launch of a device starts the thread that listens.
SubscribeReport(d) == listener' = [listener EXCEPT ![d] = IF @ = "none" THEN "started" ELSE @]

\* After a sink launch KernelDumper puts a callback in its stream, if the stream
\* can be subscribed and takes it.
LaunchDumpTask(t) ==
    /\ SubscribeReport(GetDeviceContext(t))
    /\ \E taken \in May("Callback") :
          dumps' = IF taken
                   THEN dumps \cup {[device |-> GetDeviceContext(t), launchId |-> GetLaunchId(t),
                                     launch |-> LaunchOf(t), hdl |-> call[t].hdl]}
                   ELSE dumps

Run(t, sink) ==
    LET c == call[t]
    IN  /\ c.pc = "run"
        /\ sink => c.todo = <<>>
        /\ IF sink THEN LaunchDumpTask(t) ELSE UNCHANGED callbacks
        /\ call' = [call EXCEPT ![t] =
                       IF Len(c.todo) > 1
                       THEN [c EXCEPT !.pc = "task", !.todo = Tail(@), !.key = None, !.ok = FALSE]
                       ELSE Idle]
        /\ UNCHANGED <<runtime, registry, history, hostArgs, tasks, nr>>

\* A thread that cannot set its device ends, and is not started again.
ListenCallbackTask(d) ==
    /\ listener[d] = "started"
    /\ \E set \in May("SetDevice") :
          listener' = [listener EXCEPT ![d] = IF set THEN "listening" ELSE "gone"]
    /\ UNCHANGED <<runtime, registry, history, hostArgs, tasks, dumps, call, nr>>

SaveAicore(d) == EventOf(launchEvents[d.device][d.launchId].hdl).code

\* The addresses of the inputs are read through the pointer of the event, from
\* memory of the application, and written into the history.
DumpKernelArgs(d) == hostArgs[launchEvents[d.device][d.launchId].args]
UpdateNormalTaskArgsAddr(d) ==
    memInfoHistory' = [memInfoHistory EXCEPT ![d.device] =
                          [@ EXCEPT ![d.launchId].addrs = DumpKernelArgs(d)]]

\* The thread that listens runs the callback: KernelDumper::Dump and Save.
Dump(d) ==
    /\ d \in dumps /\ listener[d.device] = "listening"
    /\ dumps' = dumps \ {d}
    /\ \E saved \in May("Dump") :
          IF saved /\ d.launchId \in DOMAIN launchEvents[d.device] \cap DOMAIN memInfoHistory[d.device]
          THEN UpdateNormalTaskArgsAddr(d) ELSE UNCHANGED memInfoHistory
    /\ UNCHANGED <<runtime, registry, launchEvents, hostArgs, tasks, listener, call, nr>>

Next ==
    \/ \E t \in Thread :
          \/ \E h \in Handle, c \in Code : DevBinaryRegister(t, h, c)
          \/ \E h \in Handle : DevBinaryUnRegister(t, h)
          \/ \E h \in Handle, s \in Stub, k \in Kernel : FunctionRegister(t, h, s, k)
          \/ \E h \in Handle, s \in Stub \cup {None}, k \in Kernel, a \in Buffer, todo \in Todo :
                Launch(t, h, s, k, a, todo)
          \/ AddLaunchEvent(t) \/ ArchiveMemInfo(t)
          \/ RunDBITask(t) \/ UpdatePcStartAddrByDbi(t)
          \/ \E sink \in Sink : Run(t, sink)
    \/ \E a \in Buffer : ReuseArgs(a)
    \/ \E d \in dumps : Dump(d)
    \/ \E d \in Device : ListenCallbackTask(d)

Spec == Init /\ [][Next]_vars

-----------------------------------------------------------------------------
(* What must hold.                                                         *)

\* A copy that replaces a launch's kernel was made of the binary it launches
\* for the task at hand, its stub stands for that kernel in a binary that is
\* still registered, and its buffer was announced: RunDBITask did not fail
\* (DBITask.cpp:45-63, 210-289, 355-414).
RunsItsOwnKernel ==
    \A t \in Thread :
        LET c == call[t]
            task == Task(t, c.key)
        IN  c.pc = "run" /\ c.key # None =>
                /\ c.ok
                /\ task.image.code = binaries[c.hdl] /\ task.image.type = Head(c.todo)
                /\ IF c.stub = None THEN task.image.kernel = c.kernel
                   ELSE task.bound = [handle |-> task.handle, kernel |-> c.kernel]

\* The start address recorded for a launch that runs a copy is that copy's,
\* and so are the sections reported with it (KernelContext.cpp:522-612,
\* 1091-1128).
PcStartIsItsOwn ==
    \A t \in Thread :
        LET c == call[t]
            event == launchEvents[GetDeviceContext(t)][c.launchId]
            image == Task(t, c.key).image
        IN  c.pc = "run" /\ c.ok =>
                /\ event.launch = LaunchOf(t)
                /\ event.pcStart = [of |-> image, offset |-> image]
                /\ EventOf(event.hdl).image = image

\* A callback saves the binary and the memory of the launch it was put in the
\* stream for, at whatever time it is run and whatever was launched in between;
\* its inputs are those of that launch if the application has not yet freed or
\* written over the arguments, which the callback reads where the application
\* had them (KernelContext.cpp:320-463, KernelReplacement.cpp:124-204).
KeepsArgs(launch) == \E a \in Buffer : hostArgs[a] = launch
DumpsItsOwnKernel ==
    \A d \in dumps :
        /\ d.launchId \in DOMAIN launchEvents[d.device]
        /\ launchEvents[d.device][d.launchId].launch = d.launch
        /\ memInfoHistory[d.device][d.launchId].launch = d.launch
        /\ SaveAicore(d) = binaries[d.hdl]
        /\ KeepsArgs(d.launch) => DumpKernelArgs(d) = d.launch
=============================================================================
