-------------------------- MODULE AclKernelsProofs --------------------------
(***************************************************************************)
(* Proofs about AclKernels for any threads, devices, binaries, functions   *)
(* and handles.  That a launch runs a copy of its own kernel rests on the  *)
(* number of a registration: whatever still names a number, a context, a   *)
(* function, a call or a task of a thread, means the binary that was given *)
(* it.  That it counts its own blocks rests on the number of a launch: a   *)
(* thread's directories and files are of launches it has made, and the     *)
(* launch at hand has none until it makes them.                            *)
(***************************************************************************)
EXTENDS AclKernels, SequenceTheorems, TLAPS

-----------------------------------------------------------------------------
(* What the theorems assume of an application.                             *)

\* One thread loads, so that no two contexts are given one number
\* (RegisterManager.cpp:70-128 reads it before it takes the lock).
OneLoader == \A t, u \in Loader : t = u

\* Every binary gets a context and every function a name.
AllRegistered == "Init" \notin MayFail /\ "json" \notin Kinds /\ Unnamed = {}

\* No two threads launch on one device.
OwnDevices == \A t, u \in Thread : DeviceOf[t] = DeviceOf[u] => t = u

-----------------------------------------------------------------------------
(* Types.                                                                  *)

Function == [bin : BinHandle, name : Name]
Copy == [code : Code, name : Name \cup {None}, type : Type]
Key == [regId : Nat, name : Name \cup {None}, type : Type]
Task == [stub : Copy, launchId : Nat]
Dir == [launchId : Nat, type : Type]
File == [dir : Thread \X Nat, regId : Nat, count : Nat]

Tables(D, V) == UNION {[S -> V] : S \in SUBSET D}

Launching == {"append", "archive", "task", "replaced", "measure", "stub", "failed", "plain"}
Call == [pc : {"idle", "register"} \cup Launching, bin : BinHandle \cup {None},
         code : Code \cup {None}, kind : Kinds \cup {"file"}, regId : Nat,
         func : FuncHandle \cup {None}, ctx : FuncContext \cup {None}, launchId : Nat,
         todo : Todo, runs : Copy \cup {None}, map : Copy \cup {None}]

RegistryOK ==
    /\ binaries \in [BinHandle -> Code \cup {None}]
    /\ functions \in [FuncHandle -> Function \cup {None}]
    /\ regContexts \in [BinHandle -> RegContext \cup {None}] /\ currentRegId \in Nat
    /\ funcContexts \in [FuncHandle -> FuncContext \cup {None}]
FilesOK ==
    /\ taskPool \in [Thread -> Tables(Key, Task)] /\ keepOutputs \in [Thread -> BOOLEAN]
    /\ outputs \in [Thread -> Tables(Dir, Copy \cup {None})]
    /\ lastLaunchId \in Tables(Nat, Nat)
    /\ maps \in Tables(File, Copy \cup {None}) /\ extras \in Tables(File, Copy \cup {None})
HistoryOK ==
    /\ launches \in [Device -> Seq(Thread \X Nat)]
    /\ memInfoHistory \in [Device -> Seq(Thread \X Nat)]
InTask == {"task", "replaced", "measure", "stub", "failed"}
CallOK ==
    /\ call \in [Thread -> Call]
    /\ \A t \in Thread :
          /\ call[t].pc = "register" => call[t].code \in Code
          /\ call[t].pc \in Launching \ {"plain"} => call[t].ctx \in FuncContext
          /\ call[t].pc \in InTask => call[t].todo # <<>>
TypeOK ==
    /\ RegistryOK /\ FilesOK /\ HistoryOK /\ CallOK
    /\ nr \in [Thread -> [loads : Nat, launches : Nat]]

-----------------------------------------------------------------------------
(* A number stands for one registration.                                   *)

\* Who registers holds the next number.
Registering ==
    \A t \in Thread :
        IF call[t].pc = "register"
        THEN /\ t \in Loader /\ call[t].regId = currentRegId
             /\ call[t].bin \in BinHandle /\ call[t].code \in Code
             /\ binaries[call[t].bin] = call[t].code
        ELSE call[t].bin = None

\* What registry, functions and calls know of registrations.
Known(r) ==
    \/ \E h \in BinHandle : regContexts[h] = r
    \/ \E f \in FuncHandle : funcContexts[f] # None /\ funcContexts[f].reg = r
    \/ \E t \in Thread : call[t].ctx # None /\ call[t].ctx.reg = r

NumbersTell ==
    /\ \A r \in RegContext : Known(r) => r.regId < currentRegId
    /\ \A r, s \in RegContext : Known(r) /\ Known(s) /\ r.regId = s.regId => r = s

\* A task of a thread was made of the binary its key has the number of.
TasksTell ==
    \A t \in Thread : \A key \in DOMAIN taskPool[t] :
        /\ key.regId < currentRegId
        /\ taskPool[t][key].stub.name = key.name /\ taskPool[t][key].stub.type = key.type
        /\ \A r \in RegContext :
              Known(r) /\ r.regId = key.regId => taskPool[t][key].stub.code = r.code

\* What is loaded and not being registered is known for what it is.
Followed ==
    /\ \A h \in BinHandle :
          binaries[h] # None /\ (\A t \in Thread : call[t].bin # h) =>
              /\ regContexts[h] \in RegContext /\ regContexts[h].code = binaries[h]
              /\ regContexts[h].symbols = Name
    /\ \A f \in FuncHandle :
          functions[f] # None =>
              /\ funcContexts[f] \in FuncContext /\ binaries[functions[f].bin] # None
              /\ funcContexts[f].reg.code = binaries[functions[f].bin]
              /\ funcContexts[f].name = functions[f].name

\* A launch has the context of the function it was made with.
LaunchesOwn ==
    \A t \in Thread :
        LET c == call[t]
        IN  /\ c.pc \in Launching =>
                  /\ c.func \in FuncHandle /\ c.ctx \in FuncContext /\ functions[c.func] # None
                  /\ c.ctx.reg.code = binaries[functions[c.func].bin]
                  /\ c.ctx.name = functions[c.func].name
            /\ c.pc \in {"replaced", "measure", "stub"} => c.runs = Stub(c.ctx, Head(c.todo))
            /\ c.pc \in {"idle", "register"} => c.todo = <<>> /\ c.ctx = None

KernelInv == TypeOK /\ Registering /\ NumbersTell /\ TasksTell /\ Followed /\ LaunchesOwn

-----------------------------------------------------------------------------
(* A launch has files of its own.                                          *)

\* No two threads count blocks of one registration.
CountsApart ==
    \A t, u \in Thread :
        t # u /\ Counts(call[t].todo) /\ Counts(call[u].todo) => call[t].ctx.reg # call[u].ctx.reg

Numbered(t) ==
    /\ call[t].pc = "append" => call[t].launchId <= Len(launches[DeviceOf[t]])
    /\ call[t].pc \in Launching \ {"append"} => call[t].launchId < Len(launches[DeviceOf[t]])

\* The tasks the launch has yet to run.
ToRun(c) ==
    IF c.pc \in {"append", "archive", "task"} THEN Range(c.todo)
    ELSE IF c.pc \in {"replaced", "measure", "stub", "failed"} THEN Range(Tail(c.todo)) ELSE {}

\* Directories and tasks are of launches there were, none of a task to be run.
IsOld(t, launchId, type) ==
    /\ launchId < Len(launches[DeviceOf[t]])
    /\ launchId = call[t].launchId => type \notin ToRun(call[t])
DirsAreOld(t) ==
    /\ \A dir \in DOMAIN outputs[t] : IsOld(t, dir.launchId, dir.type)
    /\ \A key \in DOMAIN taskPool[t] : IsOld(t, taskPool[t][key].launchId, key.type)

\* The directory of a task holds what the task made.
TaskDir(t, key) == OutputDir(taskPool[t][key].launchId, key.type)
DirsAreOwn(t) ==
    \A key \in DOMAIN taskPool[t] :
        TaskDir(t, key) \in DOMAIN outputs[t] => outputs[t][TaskDir(t, key)] = taskPool[t][key].stub

\* And that of a counted launch what it runs.
CountDir(t) == OutputDir(call[t].launchId, "BB_COUNT")
CountDirIsOwn(t) ==
    CountReplaced(t) => CountDir(t) \in DOMAIN outputs[t] /\ outputs[t][CountDir(t)] = call[t].runs

\* The launch has no map yet.
Unmapped(c) ==
    c.pc \in Launching /\ Counts(c.todo) /\ ~(c.pc = "measure" \/ Counted(c))
MapsAreOld ==
    /\ \A file \in DOMAIN maps :
          /\ file.dir[2] < Len(launches[DeviceOf[file.dir[1]]])
          /\ Unmapped(call[file.dir[1]]) => file.dir[2] # call[file.dir[1]].launchId
    /\ \A file \in DOMAIN extras : file \in DOMAIN maps /\ maps[file] = extras[file]

\* The last file of the registration is that of the launch.
LastIsOwn(t) ==
    /\ call[t].pc = "measure" => Head(call[t].todo) = "BB_COUNT"
    /\ call[t].pc = "measure" \/ Counted(call[t]) =>
          LastFile(t) \in DOMAIN maps /\ maps[LastFile(t)] = call[t].runs
    /\ Counted(call[t]) => call[t].map = call[t].runs

FilesOf(t) == Numbered(t) /\ DirsAreOld(t) /\ DirsAreOwn(t) /\ CountDirIsOwn(t)
FileInv == CountsApart /\ (\A t \in Thread : FilesOf(t) /\ LastIsOwn(t)) /\ MapsAreOld

-----------------------------------------------------------------------------
(* The memory history keeps step with the launches.                        *)

InStepOf(t) ==
    LET c == call[t]
        made == Len(launches[DeviceOf[t]])
        saved == memInfoHistory[DeviceOf[t]]
    IN  /\ IF c.pc = "archive" THEN made = Len(saved) + 1 ELSE made = Len(saved)
        /\ c.pc \in {"append", "archive"} => c.launchId = Len(saved)
        /\ c.pc \in InTask => c.launchId < Len(saved) /\ saved[c.launchId + 1] = LaunchOf(t)
InStep == \A t \in Thread : InStepOf(t)

-----------------------------------------------------------------------------
(* Lemmas about the operators of the model.                                *)

\* The tasks of a launch come in one of four lists, and none comes twice.
LEMMA TodoFacts ==
    /\ Todo \subseteq Seq(Type)
    /\ \A todo \in Todo :
          /\ todo # <<>> => Head(todo) \in Type /\ Tail(todo) \in Todo
          /\ todo # <<>> => (Len(todo) > 1 <=> Tail(todo) # <<>>)
          /\ todo # <<>> => Head(todo) \in Range(todo) /\ Head(todo) \notin Range(Tail(todo))
          /\ todo # <<>> => Range(Tail(todo)) \subseteq Range(todo)
          /\ Range(todo) \subseteq Type
          /\ todo = <<>> => Range(todo) = {}
          /\ todo # <<>> /\ Head(todo) = "BB_COUNT" => Tail(todo) = <<>>
          /\ Counts(todo) => todo # <<>> /\ (Head(todo) = "BB_COUNT" \/ Counts(Tail(todo)))
<1>1. /\ Range(<<>>) = {}
      /\ Len(<<"CUSTOMIZE">>) = 1 /\ Len(<<"BB_COUNT">>) = 1 /\ Len(<<"CUSTOMIZE", "BB_COUNT">>) = 2
      /\ Head(<<"CUSTOMIZE">>) = "CUSTOMIZE" /\ Tail(<<"CUSTOMIZE">>) = <<>>
      /\ Head(<<"BB_COUNT">>) = "BB_COUNT" /\ Tail(<<"BB_COUNT">>) = <<>>
      /\ Head(<<"CUSTOMIZE", "BB_COUNT">>) = "CUSTOMIZE"
      /\ Tail(<<"CUSTOMIZE", "BB_COUNT">>) = <<"BB_COUNT">>
      /\ Range(<<"CUSTOMIZE">>) = {"CUSTOMIZE"} /\ Range(<<"BB_COUNT">>) = {"BB_COUNT"}
      /\ Range(<<"CUSTOMIZE", "BB_COUNT">>) = {"CUSTOMIZE", "BB_COUNT"}
      /\ <<"CUSTOMIZE">> # <<>> /\ <<"BB_COUNT">> # <<>> /\ <<"CUSTOMIZE", "BB_COUNT">> # <<>>
  BY DEF Range
<1>2. Todo \subseteq Seq(Type)
  BY DEF Todo, Type
<1>3. SUFFICES ASSUME NEW todo \in Todo
               PROVE  /\ todo # <<>> => Head(todo) \in Type /\ Tail(todo) \in Todo
                      /\ todo # <<>> => (Len(todo) > 1 <=> Tail(todo) # <<>>)
                      /\ todo # <<>> => Head(todo) \in Range(todo)
                                        /\ Head(todo) \notin Range(Tail(todo))
                      /\ todo # <<>> => Range(Tail(todo)) \subseteq Range(todo)
                      /\ Range(todo) \subseteq Type
                      /\ todo = <<>> => Range(todo) = {}
                      /\ todo # <<>> /\ Head(todo) = "BB_COUNT" => Tail(todo) = <<>>
                      /\ Counts(todo) => todo # <<>> /\ (Head(todo) = "BB_COUNT" \/ Counts(Tail(todo)))
  BY <1>2
<1>4. CASE todo = <<>>
  BY <1>1, <1>4 DEF Counts, Todo, Type
<1>5. CASE todo = <<"CUSTOMIZE">>
  <2>1. /\ todo # <<>> /\ Head(todo) = "CUSTOMIZE" /\ Tail(todo) = <<>>
        /\ (Len(todo) > 1 <=> Tail(todo) # <<>>)
        /\ Range(todo) = {"CUSTOMIZE"} /\ Range(Tail(todo)) = {}
    BY <1>1, <1>5
  <2>2. Tail(todo) \in Todo
    BY <2>1 DEF Todo
  <2> QED BY ONLY <2>1, <2>2 DEF Counts, Type
<1>6. CASE todo = <<"BB_COUNT">>
  <2>1. /\ todo # <<>> /\ Head(todo) = "BB_COUNT" /\ Tail(todo) = <<>>
        /\ (Len(todo) > 1 <=> Tail(todo) # <<>>)
        /\ Range(todo) = {"BB_COUNT"} /\ Range(Tail(todo)) = {}
    BY <1>1, <1>6
  <2>2. Tail(todo) \in Todo
    BY <2>1 DEF Todo
  <2> QED BY ONLY <2>1, <2>2 DEF Counts, Type
<1>7. CASE todo = <<"CUSTOMIZE", "BB_COUNT">>
  <2>1. /\ todo # <<>> /\ Head(todo) = "CUSTOMIZE" /\ Tail(todo) = <<"BB_COUNT">>
        /\ (Len(todo) > 1 <=> Tail(todo) # <<>>)
        /\ Range(todo) = {"CUSTOMIZE", "BB_COUNT"} /\ Range(Tail(todo)) = {"BB_COUNT"}
    BY <1>1, <1>7
  <2>2. Tail(todo) \in Todo
    BY <2>1 DEF Todo
  <2> QED BY ONLY <2>1, <2>2 DEF Counts, Type
<1> QED BY <1>4, <1>5, <1>6, <1>7 DEF Todo

\* What is in a table is of its types.
LEMMA TableFacts ==
    ASSUME NEW D, NEW V, NEW f \in Tables(D, V)
    PROVE  DOMAIN f \subseteq D /\ \A x \in DOMAIN f : f[x] \in V
  BY DEF Tables

\* And stays so.
LEMMA WithType ==
    ASSUME NEW D, NEW V, NEW f \in Tables(D, V), NEW x \in D, NEW v \in V
    PROVE  With(f, x, v) \in Tables(D, V)
<1> DEFINE S == {x} \cup DOMAIN f
<1>1. S \subseteq D
  BY TableFacts
<1>2. With(f, x, v) \in [S -> V]
  BY TableFacts DEF With
<1> QED BY <1>1, <1>2 DEF Tables

-----------------------------------------------------------------------------
(* Types.                                                                  *)

\* The copy of a context for a task, and what the library makes of it.
LEMMA StubType ==
    ASSUME NEW ctx \in FuncContext, NEW type \in Type
    PROVE  /\ Stub(ctx, type) \in Copy /\ TaskKey(ctx, type) \in Key
           /\ \A copy \in Clone(ctx, type) : copy = Stub(ctx, type) \/ copy = None
  BY DEF Stub, TaskKey, Clone, May, FuncContext, RegContext, Copy, Key

\* The types hold at the start.
LEMMA InitOK == Init => TypeOK
<1> SUFFICES ASSUME Init PROVE TypeOK
  OBVIOUS
<1>1. ASSUME NEW D, NEW V PROVE <<>> \in Tables(D, V)
  <2>1. <<>> \in [{} -> V]
    OBVIOUS
  <2> QED BY <2>1 DEF Tables
<1>2. Idle \in Call
  BY DEF Idle, Call, Todo
<1>3. RegistryOK
  BY DEF Init, RegistryOK
<1>4. FilesOK
  BY <1>1 DEF Init, FilesOK
<1>5. HistoryOK
  BY DEF Init, HistoryOK
<1>6. CallOK
  BY <1>2 DEF Init, CallOK, Idle, Launching, InTask
<1> QED BY <1>3, <1>4, <1>5, <1>6 DEF Init, TypeOK

\* The steps of a thread that have inputs.
Loading(t) == \E h \in BinHandle, c \in Code, kind \in Kinds : BinaryLoad(t, h, c, kind)
Gets(t) ==
    \E h \in BinHandle, n \in Name, f \in FuncHandle, byEntry \in BOOLEAN :
        GetFunction(t, h, n, byEntry, f)
Unloads(t) == \E h \in BinHandle : BinaryUnLoad(t, h)
Begins(t) == \E f \in FuncHandle, todo \in Todo : Launch(t, f, todo)

\* The steps of the system, one by one.
LEMMA Steps ==
    ASSUME Next
    PROVE  \E t \in Thread :
               \/ Loading(t) \/ CreateContext(t) \/ Gets(t) \/ Unloads(t)
               \/ Begins(t) \/ AppendContext(t) \/ ArchiveMemInfo(t)
               \/ RunDBITask(t)
               \/ SaveBlockMapFile(t) \/ GetMemSize(t) \/ Replace(t) \/ RunStub(t)
               \/ GenBBcountFile(t) \/ RunOrigin(t)
  BY DEF Next, Loading, Gets, Unloads, Begins

\* Loading.
LEMMA LoadTypes ==
    ASSUME TypeOK, NEW t \in Thread,
           Loading(t) \/ CreateContext(t) \/ Gets(t) \/ Unloads(t)
    PROVE  TypeOK'
<1>1. Idle \in Call /\ Idle.pc = "idle"
  BY DEF Idle, Call, Todo
<1>2. ASSUME NEW h \in BinHandle, NEW c \in Code, NEW kind \in Kinds, BinaryLoad(t, h, c, kind)
      PROVE  TypeOK'
  <2>1. CallOK'
    <3> DEFINE loaded == [Idle EXCEPT !.pc = "register", !.bin = h, !.code = c, !.kind = kind,
                                      !.regId = currentRegId]
    <3>1. loaded \in Call /\ loaded.pc = "register" /\ loaded.code \in Code
      BY DEF TypeOK, RegistryOK, Idle, Call, Todo
    <3>2. call' = [call EXCEPT ![t] = IF kind = "json" THEN Idle ELSE loaded]
      BY <1>2 DEF BinaryLoad
    <3> HIDE DEF loaded
    <3> QED BY <1>1, <3>1, <3>2 DEF TypeOK, CallOK, Launching, InTask
  <2>2. nr' \in [Thread -> [loads : Nat, launches : Nat]]
    BY <1>2 DEF TypeOK, BinaryLoad
  <2> QED BY <1>2, <2>1, <2>2 DEF TypeOK, RegistryOK, FilesOK, HistoryOK, BinaryLoad,
                                 registry, history, tasks, filed, counters
<1>3. CASE CreateContext(t)
  <2>1. CallOK'
    BY <1>1, <1>3 DEF TypeOK, CallOK, CreateContext, Launching, InTask
  <2>2. RegistryOK'
    <3>1. PICK info \in GetSymInfoFromBinary :
              IF info.ok
              THEN /\ currentRegId' = currentRegId + 1
                   /\ regContexts' = [regContexts EXCEPT ![call[t].bin] =
                                         RegisterContextInit(call[t].code, call[t].regId, info)]
              ELSE UNCHANGED <<currentRegId, regContexts>>
      BY <1>3 DEF CreateContext
    <3>2. info.symbols \in SUBSET Name
      BY DEF GetSymInfoFromBinary
    <3>3. RegisterContextInit(call[t].code, call[t].regId, info) \in RegContext
      BY <1>3, <3>2 DEF TypeOK, CallOK, CreateContext, RegisterContextInit, RegContext, Call
    <3> QED BY <1>3, <3>1, <3>3 DEF TypeOK, RegistryOK, CreateContext, library
  <2> QED BY <1>3, <2>1, <2>2 DEF TypeOK, FilesOK, HistoryOK, CreateContext, history, tasks,
                                 filed, counters
<1>4. ASSUME NEW h \in BinHandle, NEW n \in Name, NEW f \in FuncHandle, NEW byEntry \in BOOLEAN,
             GetFunction(t, h, n, byEntry, f)
      PROVE  TypeOK'
  <2>1. RegistryOK'
    BY <1>4, NoneAssumption DEF TypeOK, RegistryOK, GetFunction, GetKernelName, FuncContext,
                               RegContext, Function
  <2> QED BY <1>4, <2>1 DEF TypeOK, FilesOK, HistoryOK, CallOK, GetFunction, history, tasks,
                            filed, counters
<1>5. ASSUME NEW h \in BinHandle, BinaryUnLoad(t, h)
      PROVE  TypeOK'
  <2>1. RegistryOK'
    BY <1>5 DEF TypeOK, RegistryOK, BinaryUnLoad, registry
  <2> QED BY <1>5, <2>1 DEF TypeOK, FilesOK, HistoryOK, CallOK, BinaryUnLoad, registry, history,
                           tasks, filed, counters
<1> QED BY <1>2, <1>3, <1>4, <1>5 DEF Loading, Gets, Unloads

\* A call in a state it may be in.
CallIs(c) ==
    /\ c.pc = "register" => c.code \in Code
    /\ c.pc \in Launching \ {"plain"} => c.ctx \in FuncContext
    /\ c.pc \in InTask => c.todo # <<>>

\* One call changes.
LEMMA OneCall ==
    ASSUME CallOK, NEW t \in Thread, NEW c \in Call, CallIs(c), call' = [call EXCEPT ![t] = c]
    PROVE  CallOK'
  BY DEF CallOK, CallIs

\* A launch goes on.
LEMMA CallGoesOn ==
    ASSUME CallOK, NEW t \in Thread, call[t].pc \in Launching \ {"plain"},
           NEW pc \in Launching, pc \in InTask => call[t].todo # <<>>,
           call' = [call EXCEPT ![t] = [call[t] EXCEPT !.pc = pc]]
    PROVE  CallOK'
<1> DEFINE c == [call[t] EXCEPT !.pc = pc]
<1>1. c \in Call /\ CallIs(c)
  BY DEF CallOK, CallIs, Call, Launching
<1>2. call' = [call EXCEPT ![t] = c]
  OBVIOUS
<1> HIDE DEF c
<1> QED BY <1>1, <1>2, OneCall

\* Launching.
LEMMA LaunchTypes ==
    ASSUME TypeOK, NEW t \in Thread,
           Begins(t) \/ AppendContext(t) \/ ArchiveMemInfo(t)
    PROVE  TypeOK'
<1> USE ThreadAssumption
<1>1. ASSUME NEW f \in FuncHandle, NEW todo \in Todo, Launch(t, f, todo)
      PROVE  TypeOK'
  <2> DEFINE pc == IF funcContexts[f] = None THEN "plain" ELSE "append"
             number == Len(launches[DeviceOf[t]])
             begun == [Idle EXCEPT !.func = f, !.ctx = funcContexts[f], !.todo = todo,
                                   !.launchId = number, !.pc = pc]
  <2>1. begun \in Call /\ begun.pc \notin {"register"} \cup InTask
        /\ (begun.pc # "plain" => begun.ctx \in FuncContext)
    <3>1. /\ number \in Nat /\ funcContexts[f] \in FuncContext \cup {None}
          /\ pc \in {"plain", "append"} /\ (pc # "plain" => funcContexts[f] # None)
      BY DEF TypeOK, RegistryOK, HistoryOK
    <3> HIDE DEF pc, number
    <3> QED BY <3>1 DEF Idle, Call, Launching, InTask
  <2>2. call' = [call EXCEPT ![t] = begun]
    BY <1>1 DEF Launch
  <2> HIDE DEF begun
  <2>3. CallOK'
    BY <2>1, <2>2, OneCall DEF TypeOK, CallIs, Launching
  <2>4. nr' \in [Thread -> [loads : Nat, launches : Nat]]
    BY <1>1 DEF TypeOK, Launch
  <2> QED BY <1>1, <2>3, <2>4 DEF TypeOK, RegistryOK, FilesOK, HistoryOK, Launch, library, registry,
                                 history, tasks, filed, counters
<1>2. CASE AppendContext(t)
  <2>1. CallOK'
    <3>1. call' = [call EXCEPT ![t] = [call[t] EXCEPT !.pc = "archive"]]
      BY <1>2 DEF TypeOK, CallOK, AppendContext
    <3> QED BY <1>2, <3>1, CallGoesOn DEF TypeOK, AppendContext, Launching, InTask
  <2>2. launches' \in [Device -> Seq(Thread \X Nat)]
    BY <1>2 DEF TypeOK, HistoryOK, AppendContext, LaunchOf
  <2> QED BY <1>2, <2>1, <2>2 DEF TypeOK, RegistryOK, FilesOK, HistoryOK, AppendContext, library,
                                 registry, tasks, filed, counters
<1>3. CASE ArchiveMemInfo(t)
  <2>1. CallOK'
    <3> DEFINE next == IF call[t].todo = <<>> THEN "plain" ELSE "task"
    <3>1. call' = [call EXCEPT ![t] = [call[t] EXCEPT !.pc = next]]
      BY <1>3 DEF TypeOK, CallOK, ArchiveMemInfo
    <3> QED BY <1>3, <3>1, CallGoesOn DEF TypeOK, ArchiveMemInfo, Launching, InTask
  <2>2. memInfoHistory' \in [Device -> Seq(Thread \X Nat)]
    BY <1>3 DEF TypeOK, HistoryOK, ArchiveMemInfo, Archived, LaunchOf
  <2> QED BY <1>3, <2>1, <2>2 DEF TypeOK, RegistryOK, FilesOK, HistoryOK, ArchiveMemInfo, library,
                                 registry, tasks, filed, counters
<1> QED BY <1>1, <1>2, <1>3 DEF Begins

\* A task uses its copy again, makes a new one, or fails.
RunType(t) == Head(call[t].todo)
RunKey(t) == TaskKey(call[t].ctx, RunType(t))
RunDir(t) == OutputDir(call[t].launchId, RunType(t))
RunStubOf(t) == Stub(call[t].ctx, RunType(t))
Reused(t) ==
    LET kept == OutputDir(taskPool[t][RunKey(t)].launchId, RunType(t))
    IN  /\ RunKey(t) \in DOMAIN taskPool[t] /\ taskPool' = taskPool
        /\ keepOutputs'[t] => kept \in DOMAIN outputs[t]
        /\ outputs' = IF keepOutputs'[t] THEN [outputs EXCEPT ![t] = Linked(t, RunKey(t), call[t].launchId)]
                      ELSE outputs
        /\ call' = [call EXCEPT ![t].runs = taskPool[t][RunKey(t)].stub, ![t].pc = "replaced"]
Made(t) ==
    /\ taskPool' = [taskPool EXCEPT ![t] = With(@, RunKey(t),
                       [stub |-> RunStubOf(t), launchId |-> call[t].launchId])]
    /\ outputs' = IF keepOutputs'[t] THEN [outputs EXCEPT ![t] = With(@, RunDir(t), RunStubOf(t))]
                  ELSE outputs
    /\ call' = [call EXCEPT ![t].runs = RunStubOf(t), ![t].pc = "replaced"]
Unmade(t) ==
    /\ taskPool' = taskPool
    /\ \E left \in {RunStubOf(t), None} :
          outputs' = IF keepOutputs'[t] THEN [outputs EXCEPT ![t] = With(@, RunDir(t), left)]
                     ELSE outputs
    /\ call' = [call EXCEPT ![t].runs = None, ![t].pc = "failed"]

LEMMA TaskOutcomes ==
    ASSUME TypeOK, NEW t \in Thread, RunDBITask(t)
    PROVE  /\ call[t].pc = "task" /\ RunType(t) \in Type /\ RunKey(t) \in Key /\ RunDir(t) \in Dir
           /\ RunStubOf(t) \in Copy
           /\ InitDBITaskConfig(t, RunType(t))
           /\ Reused(t) \/ Made(t) \/ Unmade(t)
<1>1. call[t].pc = "task" /\ InitDBITaskConfig(t, RunType(t))
  BY DEF RunDBITask, RunType
<1>2. RunType(t) \in Type /\ call[t].ctx \in FuncContext /\ call[t].launchId \in Nat
  BY <1>1, TodoFacts DEF TypeOK, CallOK, Call, RunType, Launching, InTask
<1>3. RunKey(t) \in Key /\ RunStubOf(t) \in Copy /\ RunDir(t) \in Dir
  BY <1>2, StubType DEF RunKey, RunStubOf, RunDir, OutputDir, Dir
<1>4. RunKey(t).type = RunType(t)
  BY DEF RunKey, TaskKey
<1>5. ASSUME ~NeedConvert(t, RunKey(t)), ReuseConverted(t, RunKey(t), call[t].launchId)
      PROVE  Reused(t)
  BY <1>4, <1>5 DEF Reused, NeedConvert, HasTask, ReuseConverted
<1>6. ASSUME Convert(t, RunKey(t), call[t].ctx, call[t].launchId)
      PROVE  Made(t) \/ Unmade(t)
  <2> DEFINE key == RunKey(t)
  <2>1. PICK made \in May("Convert"), copy \in Clone(call[t].ctx, key.type) :
            LET runs == IF made THEN copy ELSE None
            IN  /\ taskPool' = IF runs # None
                               THEN [taskPool EXCEPT ![t] =
                                        Converted(t, key, call[t].ctx, call[t].launchId)]
                               ELSE taskPool
                /\ outputs' = IF keepOutputs'[t]
                              THEN [outputs EXCEPT ![t] = With(@,
                                       OutputDir(call[t].launchId, key.type),
                                       IF made THEN Stub(call[t].ctx, key.type) ELSE None)]
                              ELSE outputs
                /\ call' = [call EXCEPT ![t].runs = runs,
                                        ![t].pc = IF runs # None THEN "replaced" ELSE "failed"]
    BY <1>6 DEF Convert
  <2> HIDE DEF key
  <2>0. /\ key.type = RunType(t) /\ key = RunKey(t)
        /\ Stub(call[t].ctx, key.type) = RunStubOf(t)
        /\ OutputDir(call[t].launchId, key.type) = RunDir(t)
    BY <1>4 DEF RunStubOf, RunDir, key
  <2>2. copy = RunStubOf(t) \/ copy = None
    BY <1>2, <2>0, StubType DEF RunStubOf
  <2>3. Converted(t, key, call[t].ctx, call[t].launchId)
            = With(taskPool[t], RunKey(t), [stub |-> RunStubOf(t), launchId |-> call[t].launchId])
    BY <2>0 DEF Converted
  <2>4. CASE made /\ copy # None
    BY <2>0, <2>1, <2>2, <2>3, <2>4 DEF Made
  <2>5. CASE ~(made /\ copy # None)
    <3>1. taskPool' = taskPool /\ call' = [call EXCEPT ![t].runs = None, ![t].pc = "failed"]
      BY <2>1, <2>5
    <3>2. (IF made THEN RunStubOf(t) ELSE None) \in {RunStubOf(t), None}
      OBVIOUS
    <3> QED BY <2>0, <2>1, <3>1, <3>2 DEF Unmade
  <2> QED BY <2>4, <2>5
<1> QED BY <1>1, <1>2, <1>3, <1>5, <1>6 DEF RunDBITask, RunType, RunKey

\* Running a task.
LEMMA TaskTypes ==
    ASSUME TypeOK, NEW t \in Thread, RunDBITask(t)
    PROVE  TypeOK'
<1> DEFINE dir == OutputDir(taskPool[t][RunKey(t)].launchId, RunType(t))
<1>1. /\ call[t].pc = "task" /\ RunType(t) \in Type /\ RunKey(t) \in Key /\ RunDir(t) \in Dir
      /\ RunStubOf(t) \in Copy /\ call[t].launchId \in Nat
      /\ UNCHANGED <<library, registry, history, filed, nr>>
  BY TaskOutcomes DEF RunDBITask, TypeOK, CallOK, Call
<1>2. keepOutputs' \in [Thread -> BOOLEAN]
  BY TaskOutcomes DEF InitDBITaskConfig, TypeOK, FilesOK
<1>3. /\ taskPool[t] \in Tables(Key, Task)
      /\ outputs[t] \in Tables(Dir, Copy \cup {None})
  BY DEF TypeOK, FilesOK
<1>4. ASSUME NEW v \in Copy \cup {None}
      PROVE  With(outputs[t], RunDir(t), v) \in Tables(Dir, Copy \cup {None})
  BY <1>1, <1>3, <1>4, WithType
<1>5. ASSUME NEW runs \in Copy \cup {None}, NEW pc \in {"replaced", "failed"},
             call' = [call EXCEPT ![t].runs = runs, ![t].pc = pc]
      PROVE  CallOK'
  <2> DEFINE c == [call[t] EXCEPT !.runs = runs, !.pc = pc]
  <2>1. c \in Call /\ CallIs(c)
    BY <1>1 DEF TypeOK, CallOK, CallIs, Call, Launching, InTask
  <2>2. call' = [call EXCEPT ![t] = c]
    BY <1>5 DEF TypeOK, CallOK
  <2> HIDE DEF c
  <2> QED BY <2>1, <2>2, OneCall DEF TypeOK
<1>6. CASE Reused(t)
  <2>1. taskPool[t][RunKey(t)] \in Task
    BY <1>3, <1>6, TableFacts DEF Reused
  <2>2. CallOK'
    BY <1>5, <1>6, <2>1 DEF Reused, Task
  <2>3. RunKey(t).type = RunType(t)
    BY DEF RunKey, TaskKey
  <2>4. ASSUME keepOutputs'[t]
        PROVE  Linked(t, RunKey(t), call[t].launchId) \in Tables(Dir, Copy \cup {None})
    <3>1. outputs[t][dir] \in Copy \cup {None}
      BY <1>3, <1>6, <2>4, TableFacts DEF Reused
    <3> HIDE DEF dir
    <3>2. Linked(t, RunKey(t), call[t].launchId) = IF RunDir(t) \in DOMAIN outputs[t] THEN outputs[t]
                                            ELSE With(outputs[t], RunDir(t), outputs[t][dir])
      BY <2>3 DEF Linked, RunDir, dir
    <3> QED BY <1>3, <1>4, <3>1, <3>2
  <2>5. outputs' \in [Thread -> Tables(Dir, Copy \cup {None})]
    BY <1>6, <2>4 DEF Reused, TypeOK, FilesOK
  <2> QED BY <1>1, <1>2, <1>6, <2>2, <2>5 DEF Reused, TypeOK, RegistryOK, FilesOK, HistoryOK,
                                             library, registry, history, filed, counters
<1>7. CASE Made(t)
  <2>1. With(taskPool[t], RunKey(t), [stub |-> RunStubOf(t), launchId |-> call[t].launchId])
            \in Tables(Key, Task)
    BY <1>1, <1>3, WithType DEF Task
  <2>2. taskPool' \in [Thread -> Tables(Key, Task)]
    BY <1>7, <2>1 DEF Made, TypeOK, FilesOK
  <2>3. outputs' \in [Thread -> Tables(Dir, Copy \cup {None})]
    BY <1>1, <1>4, <1>7 DEF Made, TypeOK, FilesOK
  <2>4. CallOK'
    BY <1>1, <1>5, <1>7 DEF Made
  <2> QED BY <1>1, <1>2, <2>2, <2>3, <2>4 DEF TypeOK, RegistryOK, FilesOK, HistoryOK,
                                             library, registry, history, filed, counters
<1>8. CASE Unmade(t)
  <2>1. outputs' \in [Thread -> Tables(Dir, Copy \cup {None})]
    BY <1>1, <1>4, <1>8 DEF Unmade, TypeOK, FilesOK
  <2>2. CallOK'
    BY <1>5, <1>8 DEF Unmade
  <2> QED BY <1>1, <1>2, <1>8, <2>1, <2>2 DEF Unmade, TypeOK, RegistryOK, FilesOK, HistoryOK,
                                             library, registry, history, filed, counters
<1> QED BY <1>6, <1>7, <1>8, TaskOutcomes

\* Running a copy, with its files, and the application's kernel.
LEMMA RunTypes ==
    ASSUME TypeOK, NEW t \in Thread,
           SaveBlockMapFile(t) \/ GetMemSize(t) \/ Replace(t) \/ RunStub(t) \/ GenBBcountFile(t)
               \/ RunOrigin(t)
    PROVE  TypeOK'
<1>0. Idle \in Call /\ CallIs(Idle) /\ CallOK
  BY DEF Idle, Call, CallIs, Todo, Launching, InTask, TypeOK
<1>1. CASE SaveBlockMapFile(t)
  <2> DEFINE regId == call[t].ctx.reg.regId
             dir == OutputDir(call[t].launchId, "BB_COUNT")
             file == MapFile(t, regId, FiledCount(regId))
  <2>1. call[t].pc = "replaced" /\ call[t].ctx \in FuncContext /\ call[t].launchId \in Nat
    BY <1>1 DEF SaveBlockMapFile, CountReplaced, TypeOK, CallOK, Call, Launching
  <2>2. regId \in Nat /\ NextCount(regId) \in Nat
    BY <2>1, TableFacts DEF FuncContext, RegContext, NextCount, TypeOK, FilesOK
  <2>3. file \in File
    BY <2>1, <2>2 DEF MapFile, FiledCount, File
  <2>4. CallOK'
    <3>1. call' = [call EXCEPT ![t] = [call[t] EXCEPT !.pc = "measure"]]
      BY <1>0, <1>1 DEF SaveBlockMapFile, CallOK
    <3> QED BY <1>0, <2>1, <3>1, CallGoesOn DEF CallOK, Launching, InTask
  <2>5. lastLaunchId' \in Tables(Nat, Nat) /\ maps' \in Tables(File, Copy \cup {None})
    <3>1. CASE dir \in DOMAIN outputs[t]
      <4>1. outputs[t][dir] \in Copy \cup {None}
        BY <3>1, TableFacts DEF TypeOK, FilesOK
      <4>2. lastLaunchId' = With(lastLaunchId, regId, NextCount(regId))
            /\ maps' = With(maps, file, outputs[t][dir])
        BY <1>1, <3>1 DEF SaveBlockMapFile
      <4> HIDE DEF file, regId
      <4> QED BY <2>2, <2>3, <4>1, <4>2, WithType DEF TypeOK, FilesOK
    <3>2. CASE dir \notin DOMAIN outputs[t]
      BY <1>1, <3>2 DEF SaveBlockMapFile, counters, TypeOK, FilesOK
    <3> QED BY <3>1, <3>2
  <2> QED BY <1>1, <2>4, <2>5 DEF SaveBlockMapFile, TypeOK, RegistryOK, FilesOK, HistoryOK,
                                 library, registry, history, tasks
<1>2. CASE GetMemSize(t)
  <2> DEFINE map == IF LastFile(t) \in DOMAIN maps THEN maps[LastFile(t)] ELSE None
             c == [call[t] EXCEPT !.pc = "stub", !.map = map]
  <2>1. map \in Copy \cup {None}
    BY TableFacts DEF TypeOK, FilesOK
  <2>2. call' = [call EXCEPT ![t] = c]
    BY <1>0, <1>2 DEF GetMemSize, CallOK
  <2> HIDE DEF map
  <2>3. c \in Call /\ CallIs(c)
    BY <1>0, <1>2, <2>1 DEF GetMemSize, CallOK, CallIs, Call, Launching, InTask
  <2> HIDE DEF c
  <2>4. CallOK'
    BY <1>0, <2>2, <2>3, OneCall
  <2> QED BY <1>2, <2>4 DEF GetMemSize, TypeOK, RegistryOK, FilesOK, HistoryOK,
                           library, registry, history, tasks, filed, counters
<1>3. CASE Replace(t)
  <2>1. CallOK'
    <3>1. call' = [call EXCEPT ![t] = [call[t] EXCEPT !.pc = "stub"]]
      BY <1>0, <1>3 DEF Replace, CallOK
    <3> QED BY <1>0, <1>3, <3>1, CallGoesOn DEF Replace, CallOK, Launching, InTask
  <2> QED BY <1>3, <2>1 DEF Replace, TypeOK, RegistryOK, FilesOK, HistoryOK,
                           library, registry, history, tasks, filed, counters
<1>4. CASE RunStub(t)
  <2> DEFINE pc == IF Len(call[t].todo) > 1 THEN "task" ELSE "plain"
             rest == Tail(call[t].todo)
             c == [call[t] EXCEPT !.todo = rest, !.runs = None, !.map = None, !.pc = pc]
  <2>1. call' = [call EXCEPT ![t] = c]
    BY <1>0, <1>4 DEF RunStub, CallOK, Call
  <2>2. /\ call[t].todo # <<>> /\ call[t].todo \in Todo /\ call[t].ctx \in FuncContext
    BY <1>0, <1>4 DEF RunStub, CallOK, Call, Launching, InTask
  <2>3. /\ rest \in Todo /\ pc \in {"task", "plain"}
        /\ (pc = "task" => rest # <<>>)
    BY <2>2, TodoFacts
  <2> HIDE DEF pc, rest
  <2>4. c \in Call /\ CallIs(c)
    BY <1>0, <2>2, <2>3 DEF CallOK, CallIs, Call, Launching, InTask
  <2> HIDE DEF c
  <2>5. CallOK'
    BY <1>0, <2>1, <2>4, OneCall
  <2> QED BY <1>4, <2>5 DEF RunStub, TypeOK, RegistryOK, FilesOK, HistoryOK,
                           library, registry, history, tasks, filed, counters
<1>5. CASE GenBBcountFile(t)
  <2>1. CallOK'
    BY <1>0, <1>5, OneCall DEF GenBBcountFile
  <2>2. extras' \in Tables(File, Copy \cup {None})
    <3>1. CASE CopiesCounters(t)
      <4>1. LastFile(t) \in File /\ call[t].runs \in Copy \cup {None}
        <5>1. call[t].ctx \in FuncContext /\ call[t].launchId \in Nat
              /\ call[t].runs \in Copy \cup {None}
          BY <1>0, <1>5 DEF GenBBcountFile, Counted, CallOK, Call, Launching
        <5>2. call[t].ctx.reg.regId \in Nat
          BY <5>1 DEF FuncContext, RegContext
        <5> QED BY <5>1, <5>2, TableFacts DEF LastFile, MapFile, File, TypeOK, FilesOK
      <4> QED BY <1>5, <3>1, <4>1, WithType DEF GenBBcountFile, TypeOK, FilesOK
    <3> QED BY <1>5, <3>1 DEF GenBBcountFile, TypeOK, FilesOK
  <2> QED BY <1>5, <2>1, <2>2 DEF GenBBcountFile, TypeOK, RegistryOK, FilesOK, HistoryOK,
                           library, registry, history, tasks, counters
<1>6. CASE RunOrigin(t)
  <2>1. CallOK'
    BY <1>0, <1>6, OneCall DEF RunOrigin
  <2> QED BY <1>6, <2>1 DEF RunOrigin, TypeOK, RegistryOK, FilesOK, HistoryOK,
                           library, registry, history, tasks, filed, counters
<1> QED BY <1>1, <1>2, <1>3, <1>4, <1>5, <1>6

\* Every step keeps the types.
LEMMA StepOK == TypeOK /\ [Next]_vars => TypeOK'
<1> SUFFICES ASSUME TypeOK, [Next]_vars PROVE TypeOK'
  OBVIOUS
<1>1. CASE UNCHANGED vars
  BY <1>1 DEF vars, library, registry, history, tasks, filed, counters, TypeOK, RegistryOK, FilesOK,
              HistoryOK, CallOK
<1>2. CASE Next
  BY <1>2, Steps, LoadTypes, LaunchTypes, TaskTypes, RunTypes
<1> QED BY <1>1, <1>2

\* Handles, contexts, tasks and files are what the code keeps
\* (RegisterManager.h:29-67, DBITask.h:70-140, BBCountDumper.h:24-60).
THEOREM TypeCorrect == Spec => []TypeOK
BY InitOK, StepOK, PTL DEF Spec

-----------------------------------------------------------------------------
(* Who changes what.                                                       *)

\* A launch of the thread goes on, or ends.
GoesOn(t) ==
    /\ call[t].pc \in Launching /\ call'[t].pc \in Launching
    /\ call'[t].bin = call[t].bin /\ call'[t].func = call[t].func /\ call'[t].ctx = call[t].ctx
    /\ call'[t].launchId = call[t].launchId
    /\ \A u \in Thread \ {t} : call'[u] = call[u]
    /\ UNCHANGED <<library, registry, nr>>
Ends(t) ==
    /\ call[t].pc \in Launching /\ call' = [call EXCEPT ![t] = Idle]
    /\ UNCHANGED <<library, registry, history, tasks, counters, nr>>

\* Once it has begun a launch only goes on or ends.
LEMMA Courses ==
    ASSUME TypeOK, NEW t \in Thread
    PROVE  /\ AppendContext(t) => GoesOn(t) /\ call'[t] = [call[t] EXCEPT !.pc = "archive"]
           /\ ArchiveMemInfo(t) =>
                 /\ GoesOn(t)
                 /\ call'[t] = [call[t] EXCEPT !.pc = IF call[t].todo = <<>> THEN "plain" ELSE "task"]
           /\ RunDBITask(t) => GoesOn(t) /\ call'[t].todo = call[t].todo
           /\ SaveBlockMapFile(t) => GoesOn(t) /\ call'[t] = [call[t] EXCEPT !.pc = "measure"]
           /\ GetMemSize(t) => GoesOn(t) /\ call'[t].pc = "stub" /\ call'[t].runs = call[t].runs
                                        /\ call'[t].todo = call[t].todo
           /\ Replace(t) => GoesOn(t) /\ call'[t] = [call[t] EXCEPT !.pc = "stub"]
           /\ RunStub(t) => /\ GoesOn(t) /\ call'[t].todo = Tail(call[t].todo)
                            /\ call'[t].pc = IF Len(call[t].todo) > 1 THEN "task" ELSE "plain"
           /\ GenBBcountFile(t) \/ RunOrigin(t) => Ends(t)
<1> USE DEF TypeOK, CallOK, GoesOn, Launching, filed
<1>1. call \in [Thread -> Call]
  OBVIOUS
<1>2. ASSUME AppendContext(t)
      PROVE  GoesOn(t) /\ call'[t] = [call[t] EXCEPT !.pc = "archive"]
  BY <1>1, <1>2 DEF AppendContext, Call
<1>3. ASSUME ArchiveMemInfo(t)
      PROVE  /\ GoesOn(t)
             /\ call'[t] = [call[t] EXCEPT !.pc = IF call[t].todo = <<>> THEN "plain" ELSE "task"]
  BY <1>1, <1>3 DEF ArchiveMemInfo, Call
<1>4. ASSUME RunDBITask(t)
      PROVE  GoesOn(t) /\ call'[t].todo = call[t].todo
  <2>1. ASSUME NEW runs, NEW pc \in {"replaced", "failed"},
               call' = [call EXCEPT ![t].runs = runs, ![t].pc = pc]
        PROVE  GoesOn(t) /\ call'[t].todo = call[t].todo
    BY <1>1, <1>4, <2>1 DEF Call, RunDBITask
  <2> HIDE DEF GoesOn
  <2> QED BY <1>4, <2>1, TaskOutcomes DEF Reused, Made, Unmade
<1>5. ASSUME SaveBlockMapFile(t)
      PROVE  GoesOn(t) /\ call'[t] = [call[t] EXCEPT !.pc = "measure"]
  BY <1>1, <1>5 DEF SaveBlockMapFile, CountReplaced, Call
<1>6. ASSUME GetMemSize(t)
      PROVE  GoesOn(t) /\ call'[t].pc = "stub" /\ call'[t].runs = call[t].runs
                      /\ call'[t].todo = call[t].todo
  <2>1. PICK map : call' = [call EXCEPT ![t].pc = "stub", ![t].map = map]
    BY <1>6 DEF GetMemSize
  <2> QED BY <1>1, <1>6, <2>1 DEF GetMemSize, Call
<1>7. ASSUME Replace(t)
      PROVE  GoesOn(t) /\ call'[t] = [call[t] EXCEPT !.pc = "stub"]
  BY <1>1, <1>7 DEF Replace, Call
<1>8. ASSUME RunStub(t)
      PROVE  /\ GoesOn(t) /\ call'[t].todo = Tail(call[t].todo)
             /\ call'[t].pc = IF Len(call[t].todo) > 1 THEN "task" ELSE "plain"
  BY <1>1, <1>8 DEF RunStub, Call
<1>9. ASSUME GenBBcountFile(t) \/ RunOrigin(t)
      PROVE  Ends(t)
  BY <1>9 DEF GenBBcountFile, RunOrigin, Ends, Counted
<1> QED BY <1>2, <1>3, <1>4, <1>5, <1>6, <1>7, <1>8, <1>9

\* A launch begins idle, with the context its function has.
LEMMA Beginning ==
    ASSUME TypeOK, NEW t \in Thread, Begins(t)
    PROVE  \E f \in FuncHandle, todo \in Todo :
               /\ call[t].pc = "idle" /\ functions[f] # None
               /\ MayCount(t, funcContexts[f], todo)
               /\ call'[t].pc = (IF funcContexts[f] = None THEN "plain" ELSE "append")
               /\ call'[t].bin = None /\ call'[t].func = f /\ call'[t].ctx = funcContexts[f]
               /\ call'[t].todo = todo /\ call'[t].launchId = Len(launches[DeviceOf[t]])
               /\ \A u \in Thread \ {t} : call'[u] = call[u]
               /\ UNCHANGED <<library, registry, history, tasks, filed>>
<1>1. PICK f \in FuncHandle, todo \in Todo : Launch(t, f, todo)
  BY DEF Begins
<1>2. /\ call'[t].pc = (IF funcContexts[f] = None THEN "plain" ELSE "append")
      /\ call'[t].bin = None /\ call'[t].func = f /\ call'[t].ctx = funcContexts[f]
      /\ call'[t].todo = todo /\ call'[t].launchId = Len(launches[DeviceOf[t]])
      /\ \A u \in Thread \ {t} : call'[u] = call[u]
  BY <1>1 DEF Launch, Idle, TypeOK, CallOK
<1>3. call[t].pc = "idle" /\ functions[f] # None /\ MayCount(t, funcContexts[f], todo)
      /\ UNCHANGED <<library, registry, history, tasks, filed>>
  BY <1>1 DEF Launch
<1> QED BY <1>2, <1>3

-----------------------------------------------------------------------------
(* A launch runs a copy of its own kernel.                                 *)

\* Nobody registers while the one who loads is idle.
LEMMA LoaderIsAlone ==
    ASSUME OneLoader, TypeOK, Registering, NEW t \in Loader
    PROVE  /\ \A u \in Thread \ {t} : call[u].pc # "register" /\ call[u].bin = None
           /\ call[t].pc = "idle" => \A u \in Thread : call[u].bin = None
  BY ThreadAssumption DEF OneLoader, Registering

\* In a launch, and when it ends, nothing registers or is known anew.
LEMMA QuietSteps ==
    ASSUME TypeOK, Registering, NEW t \in Thread, Begins(t) \/ GoesOn(t) \/ Ends(t)
    PROVE  /\ UNCHANGED <<library, registry>>
           /\ \A u \in Thread : call'[u].bin = call[u].bin
           /\ Registering'
           /\ \A r \in RegContext : Known(r)' => Known(r)
<1>1. ASSUME Begins(t)
      PROVE  /\ UNCHANGED <<library, registry>>
             /\ call[t].pc = "idle" /\ call'[t].pc \in Launching /\ call'[t].bin = None
             /\ \E f \in FuncHandle : call'[t].ctx = funcContexts[f]
             /\ \A u \in Thread \ {t} : call'[u] = call[u]
  BY <1>1, Beginning DEF Launching
<1>2. ASSUME GoesOn(t)
      PROVE  /\ UNCHANGED <<library, registry>>
             /\ call[t].pc \in Launching /\ call'[t].pc \in Launching
             /\ call'[t].bin = call[t].bin /\ call'[t].ctx = call[t].ctx
             /\ \A u \in Thread \ {t} : call'[u] = call[u]
  BY <1>2 DEF GoesOn
<1>3. ASSUME Ends(t)
      PROVE  /\ UNCHANGED <<library, registry>>
             /\ call[t].pc \in Launching /\ call'[t].pc = "idle" /\ call'[t].bin = None
             /\ call'[t].ctx = None /\ \A u \in Thread \ {t} : call'[u] = call[u]
  BY <1>3 DEF Ends, Idle, TypeOK, CallOK
<1>4. UNCHANGED <<binaries, functions, regContexts, currentRegId, funcContexts>>
  BY <1>1, <1>2, <1>3 DEF library, registry
<1>5. call[t].pc # "register" => call[t].bin = None
  BY DEF Registering
<1>6. /\ call[t].pc # "register" /\ call'[t].pc # "register" /\ call'[t].bin = None
      /\ \A u \in Thread \ {t} : call'[u] = call[u]
  BY <1>1, <1>2, <1>3, <1>5 DEF Launching
<1>7. Registering'
  BY <1>4, <1>6 DEF Registering
<1>8. ASSUME NEW r \in RegContext, Known(r)' PROVE Known(r)
  <2>1. ASSUME call'[t].ctx # None, call'[t].ctx.reg = r PROVE Known(r)
    BY <1>1, <1>2, <1>3, <2>1 DEF Known
  <2> QED BY <1>4, <1>6, <1>8, <2>1 DEF Known
<1> QED BY <1>1, <1>2, <1>3, <1>5, <1>6, <1>7, <1>8

\* Loading.
LEMMA LoadRegistering ==
    ASSUME OneLoader, TypeOK, Registering, NEW t \in Thread,
           Loading(t) \/ CreateContext(t) \/ Gets(t) \/ Unloads(t)
    PROVE  Registering'
<1> USE DEF TypeOK, CallOK, RegistryOK
<1>1. ASSUME NEW h \in BinHandle, NEW c \in Code, NEW kind \in Kinds, BinaryLoad(t, h, c, kind)
      PROVE  Registering'
  <2>1. t \in Loader /\ call[t].pc = "idle" /\ binaries[h] = None
        /\ UNCHANGED currentRegId
    BY <1>1 DEF BinaryLoad, registry
  <2>2. /\ call' = [call EXCEPT ![t] = IF kind = "json" THEN Idle
                                   ELSE [Idle EXCEPT !.pc = "register", !.bin = h, !.code = c,
                                                     !.kind = kind, !.regId = currentRegId]]
        /\ binaries' = [binaries EXCEPT ![h] = c]
    BY <1>1 DEF BinaryLoad
  <2>3. /\ \A u \in Thread \ {t} : call'[u] = call[u] /\ call[u].pc # "register" /\ call[u].bin = None
        /\ binaries'[h] = c
    BY <2>1, <2>2, LoaderIsAlone
  <2>4. IF kind = "json" THEN call'[t].pc = "idle" /\ call'[t].bin = None
        ELSE /\ call'[t].pc = "register" /\ call'[t].bin = h /\ call'[t].code = c
             /\ call'[t].regId = currentRegId
    BY <2>2 DEF Idle
  <2> QED BY <2>1, <2>3, <2>4 DEF Registering
<1>2. ASSUME CreateContext(t) PROVE Registering'
  <2>1. call[t].pc = "register" /\ call' = [call EXCEPT ![t] = Idle] /\ t \in Loader
    BY <1>2 DEF CreateContext, Registering
  <2>2. \A u \in Thread \ {t} : call'[u] = call[u] /\ call[u].pc # "register" /\ call[u].bin = None
    BY <2>1, LoaderIsAlone
  <2>3. call'[t].pc = "idle" /\ call'[t].bin = None
    BY <2>1 DEF Idle
  <2> QED BY <2>2, <2>3 DEF Registering
<1>3. ASSUME Gets(t) PROVE Registering'
  BY <1>3 DEF Gets, GetFunction, Registering
<1>4. ASSUME NEW h \in BinHandle, BinaryUnLoad(t, h) PROVE Registering'
  <2>1. /\ UNCHANGED <<call, currentRegId>> /\ \A u \in Thread : call[u].bin # h
        /\ binaries' = [binaries EXCEPT ![h] = None]
    BY <1>4 DEF BinaryUnLoad, registry
  <2> QED BY <2>1 DEF Registering
<1> QED BY <1>1, <1>2, <1>3, <1>4 DEF Loading, Unloads

\* What becomes known while something is loaded: the registration, if one is made.
LEMMA LoadKnown ==
    ASSUME OneLoader, AllRegistered, TypeOK, Registering, NEW t \in Thread
    PROVE  /\ Loading(t) \/ Gets(t) \/ Unloads(t) =>
                 /\ UNCHANGED <<currentRegId, taskPool>>
                 /\ \A r \in RegContext : Known(r)' => Known(r)
           /\ CreateContext(t) =>
                 LET made == [code |-> call[t].code, regId |-> currentRegId, symbols |-> Name]
                 IN  /\ currentRegId' = currentRegId + 1 /\ UNCHANGED taskPool
                     /\ regContexts' = [regContexts EXCEPT ![call[t].bin] = made]
                     /\ made \in RegContext
                     /\ \A r \in RegContext : Known(r)' => Known(r) \/ r = made
<1> USE DEF TypeOK, CallOK, RegistryOK
<1>1. ASSUME NEW h \in BinHandle, NEW c \in Code, NEW kind \in Kinds, BinaryLoad(t, h, c, kind)
      PROVE  /\ UNCHANGED <<currentRegId, taskPool>>
             /\ \A r \in RegContext : Known(r)' => Known(r)
  <2>1. UNCHANGED <<regContexts, currentRegId, funcContexts, taskPool>>
    BY <1>1 DEF BinaryLoad, registry, tasks
  <2>2. call'[t].ctx = None /\ \A u \in Thread \ {t} : call'[u] = call[u]
    BY <1>1 DEF BinaryLoad, Idle
  <2> QED BY <2>1, <2>2 DEF Known
<1>2. ASSUME Gets(t)
      PROVE  /\ UNCHANGED <<currentRegId, taskPool>>
             /\ \A r \in RegContext : Known(r)' => Known(r)
  <2>1. PICK h \in BinHandle, n \in Name, f \in FuncHandle, byEntry \in BOOLEAN :
            GetFunction(t, h, n, byEntry, f)
    BY <1>2 DEF Gets
  <2>2. UNCHANGED <<regContexts, currentRegId, call, taskPool>>
    BY <2>1 DEF GetFunction, tasks
  <2>3. funcContexts' = funcContexts
        \/ \E name : funcContexts' = [funcContexts EXCEPT ![f] = [reg |-> regContexts[h], name |-> name]]
    BY <2>1 DEF GetFunction
  <2>4. ASSUME NEW r \in RegContext, NEW g \in FuncHandle, funcContexts'[g] # None,
               funcContexts'[g].reg = r
        PROVE  Known(r)
    <3>1. funcContexts'[g] = funcContexts[g] \/ funcContexts'[g].reg = regContexts[h]
      BY <2>3
    <3> QED BY <2>4, <3>1 DEF Known
  <2>5. ASSUME NEW r \in RegContext, Known(r)' PROVE Known(r)
    BY <2>2, <2>4, <2>5 DEF Known
  <2> QED BY <2>2, <2>5
<1>3. ASSUME Unloads(t)
      PROVE  /\ UNCHANGED <<currentRegId, taskPool>>
             /\ \A r \in RegContext : Known(r)' => Known(r)
  BY <1>3 DEF Unloads, BinaryUnLoad, registry, tasks, Known
<1>4. ASSUME CreateContext(t)
      PROVE  LET made == [code |-> call[t].code, regId |-> currentRegId, symbols |-> Name]
             IN  /\ currentRegId' = currentRegId + 1 /\ UNCHANGED taskPool
                 /\ regContexts' = [regContexts EXCEPT ![call[t].bin] = made]
                 /\ made \in RegContext
                 /\ \A r \in RegContext : Known(r)' => Known(r) \/ r = made
  <2> DEFINE made == [code |-> call[t].code, regId |-> currentRegId, symbols |-> Name]
  <2>1. PICK info \in GetSymInfoFromBinary :
            IF info.ok
            THEN /\ currentRegId' = currentRegId + 1
                 /\ regContexts' = [regContexts EXCEPT ![call[t].bin] =
                                       RegisterContextInit(call[t].code, call[t].regId, info)]
            ELSE UNCHANGED <<currentRegId, regContexts>>
    BY <1>4 DEF CreateContext
  <2>2. info.ok /\ info.symbols = Name
    BY DEF GetSymInfoFromBinary, May, AllRegistered
  <2>3. call[t].pc = "register" /\ call[t].regId = currentRegId /\ call[t].code \in Code
        /\ call' = [call EXCEPT ![t] = Idle] /\ UNCHANGED <<funcContexts, taskPool>>
    BY <1>4 DEF CreateContext, Registering, tasks
  <2>4. /\ currentRegId' = currentRegId + 1
        /\ regContexts' = [regContexts EXCEPT ![call[t].bin] = made]
    BY <2>1, <2>2, <2>3 DEF RegisterContextInit
  <2>5. made \in RegContext
    BY <2>3 DEF RegContext
  <2>6. call'[t].ctx = None /\ \A u \in Thread \ {t} : call'[u] = call[u]
    BY <2>3 DEF Idle
  <2> HIDE DEF made
  <2>7. ASSUME NEW r \in RegContext, Known(r)' PROVE Known(r) \/ r = made
    BY <2>3, <2>4, <2>6, <2>7 DEF Known
  <2> QED BY <2>3, <2>4, <2>5, <2>7 DEF made
<1> QED BY <1>1, <1>2, <1>3, <1>4 DEF Loading

\* The numbers of registrations still tell them apart.
LEMMA StepNumbers ==
    ASSUME OneLoader, AllRegistered, TypeOK, Registering, NumbersTell, NEW t \in Thread,
           \/ Loading(t) \/ CreateContext(t) \/ Gets(t) \/ Unloads(t)
           \/ Begins(t) \/ GoesOn(t) \/ Ends(t)
    PROVE  NumbersTell'
<1>1. CASE CreateContext(t)
  <2> DEFINE made == [code |-> call[t].code, regId |-> currentRegId, symbols |-> Name]
  <2>1. /\ currentRegId' = currentRegId + 1 /\ made.regId = currentRegId
        /\ \A r \in RegContext : Known(r)' => Known(r) \/ r = made
    BY <1>1, LoadKnown
  <2> HIDE DEF made
  <2>2. currentRegId \in Nat /\ \A r \in RegContext : r.regId \in Nat
    BY DEF TypeOK, RegistryOK, RegContext
  <2> QED BY <2>1, <2>2 DEF NumbersTell
<1>2. ASSUME UNCHANGED currentRegId, \A r \in RegContext : Known(r)' => Known(r)
      PROVE  NumbersTell'
  BY <1>2 DEF NumbersTell
<1>3. CASE Loading(t) \/ Gets(t) \/ Unloads(t)
  BY <1>2, <1>3, LoadKnown
<1>4. CASE Begins(t) \/ GoesOn(t) \/ Ends(t)
  BY <1>2, <1>4, QuietSteps DEF registry
<1> QED BY <1>1, <1>3, <1>4

\* What is in the tables of a thread.
LEMMA PoolFacts ==
    ASSUME TypeOK, NEW t \in Thread
    PROVE  /\ \A key \in DOMAIN taskPool[t] :
                 /\ key \in Key /\ key.regId \in Nat /\ taskPool[t][key] \in Task
                 /\ taskPool[t][key].stub \in Copy /\ taskPool[t][key].launchId \in Nat
           /\ \A dir \in DOMAIN outputs[t] : dir \in Dir /\ outputs[t][dir] \in Copy \cup {None}
<1>1. taskPool[t] \in Tables(Key, Task) /\ outputs[t] \in Tables(Dir, Copy \cup {None})
  BY DEF TypeOK, FilesOK
<1>2. /\ \A key \in DOMAIN taskPool[t] : key \in Key /\ taskPool[t][key] \in Task
      /\ \A dir \in DOMAIN outputs[t] : dir \in Dir /\ outputs[t][dir] \in Copy \cup {None}
  BY <1>1, TableFacts
<1>3. /\ \A key \in Key : key.regId \in Nat
      /\ \A task \in Task : task.stub \in Copy /\ task.launchId \in Nat
  BY DEF Key, Task
<1> QED BY <1>2, <1>3

\* A task is of the registration the launch is of.
LEMMA TaskIsOwn ==
    ASSUME TypeOK, NumbersTell, TasksTell, NEW t \in Thread, call[t].pc = "task"
    PROVE  /\ call[t].ctx.reg \in RegContext /\ Known(call[t].ctx.reg)
           /\ RunKey(t).regId < currentRegId
           /\ RunKey(t) \in DOMAIN taskPool[t] => taskPool[t][RunKey(t)].stub = RunStubOf(t)
<1> DEFINE ctx == call[t].ctx
<1>1. ctx \in FuncContext /\ ctx # None
  BY NoneAssumption DEF TypeOK, CallOK, Launching
<1>2. ctx.reg \in RegContext /\ Known(ctx.reg)
  BY <1>1 DEF FuncContext, Known
<1>3. RunKey(t).regId = ctx.reg.regId /\ RunKey(t).name = ctx.name /\ RunKey(t).type = RunType(t)
  BY DEF RunKey, TaskKey
<1>4. ASSUME RunKey(t) \in DOMAIN taskPool[t]
      PROVE  taskPool[t][RunKey(t)].stub = RunStubOf(t)
  <2> DEFINE stub == taskPool[t][RunKey(t)].stub
  <2>1. stub \in Copy
    BY <1>4, PoolFacts
  <2>2. stub.name = ctx.name /\ stub.type = RunType(t) /\ stub.code = ctx.reg.code
    BY <1>2, <1>3, <1>4 DEF TasksTell
  <2> HIDE DEF stub
  <2> QED BY <2>1, <2>2 DEF Copy, RunStubOf, Stub, stub
<1> QED BY <1>2, <1>3, <1>4 DEF NumbersTell

\* The tasks of the threads are still of the registrations their keys name.
LEMMA StepTasks ==
    ASSUME OneLoader, AllRegistered, TypeOK, Registering, NumbersTell, TasksTell, NEW t \in Thread,
           \/ Loading(t) \/ CreateContext(t) \/ Gets(t) \/ Unloads(t)
           \/ Begins(t) \/ GoesOn(t) \/ Ends(t),
           RunDBITask(t) \/ UNCHANGED taskPool
    PROVE  TasksTell'
<1>0. /\ currentRegId \in Nat /\ currentRegId' \in Nat /\ currentRegId <= currentRegId'
      /\ \A r \in RegContext : Known(r)' => Known(r) \/ r.regId = currentRegId
      /\ \A u \in Thread : \A key \in DOMAIN taskPool[u] : key.regId \in Nat
  <2>1. currentRegId \in Nat /\ \A u \in Thread : \A key \in DOMAIN taskPool[u] : key.regId \in Nat
    BY PoolFacts DEF TypeOK, RegistryOK
  <2>2. CASE CreateContext(t)
    <3> DEFINE made == [code |-> call[t].code, regId |-> currentRegId, symbols |-> Name]
    <3>1. /\ currentRegId' = currentRegId + 1 /\ made.regId = currentRegId
          /\ \A r \in RegContext : Known(r)' => Known(r) \/ r = made
      BY <2>2, LoadKnown
    <3> HIDE DEF made
    <3> QED BY <2>1, <3>1
  <2>3. CASE Loading(t) \/ Gets(t) \/ Unloads(t)
    <3>1. UNCHANGED currentRegId /\ \A r \in RegContext : Known(r)' => Known(r)
      BY <2>3, LoadKnown
    <3> QED BY <2>1, <3>1
  <2>4. CASE Begins(t) \/ GoesOn(t) \/ Ends(t)
    <3>1. UNCHANGED currentRegId /\ \A r \in RegContext : Known(r)' => Known(r)
      BY <2>4, QuietSteps DEF registry
    <3> QED BY <2>1, <3>1
  <2> QED BY <2>1, <2>2, <2>3, <2>4
<1>1. ASSUME NEW u \in Thread, NEW key \in DOMAIN taskPool[u], taskPool'[u][key] = taskPool[u][key]
      PROVE  /\ key.regId < currentRegId'
             /\ taskPool'[u][key].stub.name = key.name /\ taskPool'[u][key].stub.type = key.type
             /\ \A r \in RegContext :
                   Known(r)' /\ r.regId = key.regId => taskPool'[u][key].stub.code = r.code
  BY <1>0, <1>1 DEF TasksTell
<1>2. CASE UNCHANGED taskPool
  BY <1>1, <1>2 DEF TasksTell
<1>3. CASE RunDBITask(t)
  <2>1. CASE Made(t)
    <3> DEFINE task == [stub |-> RunStubOf(t), launchId |-> call[t].launchId]
    <3>1. /\ \A u \in Thread \ {t} : taskPool'[u] = taskPool[u]
          /\ taskPool'[t] = With(taskPool[t], RunKey(t), task)
      BY <2>1 DEF Made, TypeOK, FilesOK
    <3>5. task.stub = RunStubOf(t)
      OBVIOUS
    <3> HIDE DEF task
    <3>2. /\ DOMAIN taskPool'[t] = {RunKey(t)} \cup DOMAIN taskPool[t]
          /\ taskPool'[t][RunKey(t)] = task
          /\ \A key \in DOMAIN taskPool[t] : key # RunKey(t) => taskPool'[t][key] = taskPool[t][key]
      BY <3>1 DEF With
    <3>3. /\ RunKey(t).regId < currentRegId
          /\ RunStubOf(t).name = RunKey(t).name /\ RunStubOf(t).type = RunKey(t).type
          /\ \A r \in RegContext : Known(r) /\ r.regId = RunKey(t).regId => RunStubOf(t).code = r.code
          /\ RunKey(t).regId \in Nat
      <4>1. /\ call[t].ctx.reg \in RegContext /\ Known(call[t].ctx.reg)
            /\ RunKey(t).regId < currentRegId
        BY <1>3, TaskIsOwn, TaskOutcomes
      <4>2. RunKey(t).regId = call[t].ctx.reg.regId /\ RunKey(t).name = call[t].ctx.name
            /\ RunKey(t).type = RunType(t) /\ RunStubOf(t).code = call[t].ctx.reg.code
            /\ RunStubOf(t).name = call[t].ctx.name /\ RunStubOf(t).type = RunType(t)
        BY DEF RunKey, TaskKey, RunStubOf, Stub
      <4>3. RunKey(t).regId \in Nat
        BY <1>3, TaskOutcomes DEF Key
      <4> QED BY <4>1, <4>2, <4>3 DEF NumbersTell
    <3>4. /\ RunKey(t).regId < currentRegId'
          /\ \A r \in RegContext :
                Known(r)' /\ r.regId = RunKey(t).regId => RunStubOf(t).code = r.code
      BY <1>0, <3>3
    <3> SUFFICES ASSUME NEW u \in Thread, NEW key \in DOMAIN taskPool'[u]
                 PROVE  /\ key.regId < currentRegId'
                        /\ taskPool'[u][key].stub.name = key.name
                        /\ taskPool'[u][key].stub.type = key.type
                        /\ \A r \in RegContext :
                              Known(r)' /\ r.regId = key.regId => taskPool'[u][key].stub.code = r.code
      BY DEF TasksTell
    <3>6. CASE u = t /\ key = RunKey(t)
      BY <3>2, <3>3, <3>4, <3>5, <3>6
    <3>7. CASE ~(u = t /\ key = RunKey(t))
      BY <1>1, <3>1, <3>2, <3>7
    <3> QED BY <3>6, <3>7
  <2>2. CASE Reused(t) \/ Unmade(t)
    BY <1>2, <2>2 DEF Reused, Unmade
  <2> QED BY <1>3, <2>1, <2>2, TaskOutcomes
<1> QED BY <1>2, <1>3

\* What is loaded is still known for what it is.
LEMMA StepFollowed ==
    ASSUME OneLoader, AllRegistered, TypeOK, Registering, Followed, NEW t \in Thread,
           \/ Loading(t) \/ CreateContext(t) \/ Gets(t) \/ Unloads(t)
           \/ Begins(t) \/ GoesOn(t) \/ Ends(t)
    PROVE  Followed'
<1>0. /\ regContexts \in [BinHandle -> RegContext \cup {None}]
      /\ binaries \in [BinHandle -> Code \cup {None}]
      /\ funcContexts \in [FuncHandle -> FuncContext \cup {None}]
      /\ functions \in [FuncHandle -> Function \cup {None}]
      /\ \A f \in FuncHandle : functions[f] # None => functions[f].bin \in BinHandle
      /\ None \notin BinHandle /\ None \notin RegContext /\ None \notin FuncContext
      /\ None \notin Code
  <2>1. /\ regContexts \in [BinHandle -> RegContext \cup {None}]
        /\ binaries \in [BinHandle -> Code \cup {None}]
        /\ funcContexts \in [FuncHandle -> FuncContext \cup {None}]
        /\ functions \in [FuncHandle -> Function \cup {None}]
    BY DEF TypeOK, RegistryOK
  <2>2. \A f \in FuncHandle : functions[f] # None => functions[f].bin \in BinHandle
    BY <2>1 DEF Function
  <2> QED BY <2>1, <2>2, NoneAssumption
<1>1. ASSUME NEW h \in BinHandle, NEW c \in Code, NEW kind \in Kinds, BinaryLoad(t, h, c, kind)
      PROVE  Followed'
  <2>1. /\ binaries[h] = None /\ binaries' = [binaries EXCEPT ![h] = c]
        /\ UNCHANGED <<functions, regContexts, funcContexts>>
        /\ \A u \in Thread : call[u].bin = None
    BY <1>1, LoaderIsAlone DEF BinaryLoad, registry
  <2>2. call'[t].bin = h
    <3>1. kind # "json"
      BY DEF AllRegistered
    <3> QED BY <1>1, <3>1 DEF BinaryLoad, TypeOK, CallOK, Idle
  <2> QED BY <1>0, <2>1, <2>2 DEF Followed
<1>2. CASE CreateContext(t)
  <2> DEFINE made == [code |-> call[t].code, regId |-> currentRegId, symbols |-> Name]
             b == call[t].bin
  <2>1. /\ regContexts' = [regContexts EXCEPT ![b] = made] /\ made \in RegContext
        /\ made.code = call[t].code /\ made.symbols = Name
    BY <1>2, LoadKnown
  <2>2. b \in BinHandle /\ binaries[b] = call[t].code
    BY <1>2 DEF CreateContext, Registering
  <2>3. UNCHANGED <<binaries, functions, funcContexts>>
        /\ \A u \in Thread \ {t} : call'[u] = call[u]
    BY <1>2 DEF CreateContext, library
  <2> HIDE DEF made, b
  <2>4. ASSUME NEW h \in BinHandle, binaries'[h] # None, \A u \in Thread : call'[u].bin # h
        PROVE  /\ regContexts'[h] \in RegContext /\ regContexts'[h].code = binaries'[h]
               /\ regContexts'[h].symbols = Name
    <3>1. CASE h = b
      BY <1>0, <2>1, <2>2, <2>3, <3>1
    <3>2. CASE h # b
      <4>1. regContexts'[h] = regContexts[h] /\ binaries'[h] = binaries[h]
        BY <1>0, <2>1, <2>3, <3>2
      <4>2. \A u \in Thread : call[u].bin # h
        BY <2>3, <2>4, <3>2 DEF b
      <4> QED BY <2>3, <2>4, <4>1, <4>2 DEF Followed
    <3> QED BY <3>1, <3>2
  <2> QED BY <2>3, <2>4 DEF Followed
<1>3. ASSUME NEW h \in BinHandle, NEW n \in Name, NEW f \in FuncHandle, NEW byEntry \in BOOLEAN,
             GetFunction(t, h, n, byEntry, f)
      PROVE  Followed'
  <2>1. /\ \A u \in Thread : call[u].bin = None
        /\ binaries[h] # None /\ functions' = [functions EXCEPT ![f] = [bin |-> h, name |-> n]]
        /\ UNCHANGED <<binaries, regContexts, call>>
    BY <1>3, LoaderIsAlone DEF GetFunction
  <2>2. /\ regContexts[h] \in RegContext /\ regContexts[h].code = binaries[h]
        /\ regContexts[h].symbols = Name
    BY <1>0, <2>1 DEF Followed
  <2>3. funcContexts' = [funcContexts EXCEPT ![f] = [reg |-> regContexts[h], name |-> n]]
    <3>1. GetKernelName(regContexts[h], n) = n
      BY <2>2 DEF GetKernelName, AllRegistered
    <3> QED BY <1>0, <1>3, <2>2, <3>1 DEF GetFunction
  <2>4. ASSUME NEW g \in FuncHandle, functions'[g] # None
        PROVE  /\ funcContexts'[g] \in FuncContext /\ binaries'[functions'[g].bin] # None
               /\ funcContexts'[g].reg.code = binaries'[functions'[g].bin]
               /\ funcContexts'[g].name = functions'[g].name
    <3>1. CASE g = f
      <4>1. functions'[g] = [bin |-> h, name |-> n]
            /\ funcContexts'[g] = [reg |-> regContexts[h], name |-> n]
        BY <1>0, <2>1, <2>3, <3>1
      <4> QED BY <2>1, <2>2, <4>1 DEF FuncContext
    <3>2. CASE g # f
      <4>1. functions'[g] = functions[g] /\ funcContexts'[g] = funcContexts[g]
        BY <1>0, <2>1, <2>3, <3>2
      <4> QED BY <2>1, <2>4, <4>1 DEF Followed
    <3> QED BY <3>1, <3>2
  <2> QED BY <2>1, <2>4 DEF Followed
<1>4. ASSUME NEW h \in BinHandle, BinaryUnLoad(t, h)
      PROVE  Followed'
  <2>1. /\ UNCHANGED <<regContexts, funcContexts, call>>
        /\ binaries' = [binaries EXCEPT ![h] = None]
        /\ functions' = [f \in FuncHandle |-> IF functions[f] # None /\ functions[f].bin = h
                                              THEN None ELSE functions[f]]
    BY <1>4 DEF BinaryUnLoad, registry
  <2> QED BY <1>0, <2>1 DEF Followed
<1>5. CASE Begins(t) \/ GoesOn(t) \/ Ends(t)
  <2>1. UNCHANGED <<library, registry>> /\ \A u \in Thread : call'[u].bin = call[u].bin
    BY <1>5, QuietSteps
  <2>2. UNCHANGED <<binaries, functions, regContexts, funcContexts>>
    BY <2>1 DEF library, registry
  <2> QED BY <2>1, <2>2 DEF Followed
<1> QED BY <1>1, <1>2, <1>3, <1>4, <1>5 DEF Loading, Gets, Unloads

\* The steps in which a launch goes on.
GoingOn(t) ==
    \/ AppendContext(t) \/ ArchiveMemInfo(t) \/ RunDBITask(t) \/ SaveBlockMapFile(t)
    \/ GetMemSize(t) \/ Replace(t) \/ RunStub(t)

\* The copy a launch has is of its context and its task.
LEMMA CopyIsOwn ==
    ASSUME TypeOK, NumbersTell, TasksTell, LaunchesOwn, NEW t \in Thread, GoingOn(t)
    PROVE  /\ GoesOn(t)
           /\ call'[t].pc \in {"replaced", "measure", "stub"} =>
                 call'[t].runs = Stub(call'[t].ctx, Head(call'[t].todo))
<1>1. GoesOn(t) /\ call'[t].ctx = call[t].ctx
  BY Courses DEF GoingOn, GoesOn
<1>0. call[t] \in Call
  BY DEF TypeOK, CallOK
<1>2. CASE AppendContext(t) \/ ArchiveMemInfo(t) \/ RunStub(t)
  <2>1. CASE AppendContext(t)
    <3>1. call'[t] = [call[t] EXCEPT !.pc = "archive"]
      BY <2>1, Courses
    <3>2. call'[t].pc = "archive"
      BY <1>0, <3>1 DEF Call
    <3> QED BY <1>1, <3>2
  <2>2. CASE ArchiveMemInfo(t)
    <3>1. call'[t] = [call[t] EXCEPT !.pc = IF call[t].todo = <<>> THEN "plain" ELSE "task"]
      BY <2>2, Courses
    <3>2. call'[t].pc \in {"task", "plain"}
      BY <1>0, <3>1 DEF Call
    <3> QED BY <1>1, <3>2
  <2>3. CASE RunStub(t)
    BY <1>1, <2>3, Courses
  <2> QED BY <1>2, <2>1, <2>2, <2>3
<1>3. CASE RunDBITask(t)
  <2>1. call[t].pc = "task" /\ call'[t].todo = call[t].todo
    BY <1>3, Courses, TaskOutcomes
  <2>2. CASE Reused(t)
    <3>1. call'[t].runs = taskPool[t][RunKey(t)].stub /\ RunKey(t) \in DOMAIN taskPool[t]
      BY <2>2 DEF Reused, TypeOK, CallOK, Call
    <3>2. call'[t].runs = RunStubOf(t)
      BY <2>1, <3>1, TaskIsOwn
    <3> QED BY <1>1, <2>1, <3>2 DEF RunStubOf, RunType
  <2>3. CASE Made(t)
    <3>1. call'[t].runs = RunStubOf(t)
      BY <2>3 DEF Made, TypeOK, CallOK, Call
    <3> QED BY <1>1, <2>1, <3>1 DEF RunStubOf, RunType
  <2>4. CASE Unmade(t)
    <3>1. call'[t].pc = "failed"
      BY <2>4 DEF Unmade, TypeOK, CallOK, Call
    <3> QED BY <1>1, <3>1
  <2> QED BY <1>3, <2>2, <2>3, <2>4, TaskOutcomes
<1>4. CASE SaveBlockMapFile(t) \/ GetMemSize(t) \/ Replace(t)
  <2>1. call[t].pc \in {"replaced", "measure"}
    BY <1>4 DEF SaveBlockMapFile, CountReplaced, GetMemSize, Replace
  <2>2. call'[t].runs = call[t].runs /\ call'[t].todo = call[t].todo
    <3>1. CASE GetMemSize(t)
      BY <3>1, Courses
    <3>2. CASE SaveBlockMapFile(t)
      <4>1. call'[t] = [call[t] EXCEPT !.pc = "measure"]
        BY <3>2, Courses
      <4> QED BY <1>0, <4>1 DEF Call
    <3>3. CASE Replace(t)
      <4>1. call'[t] = [call[t] EXCEPT !.pc = "stub"]
        BY <3>3, Courses
      <4> QED BY <1>0, <4>1 DEF Call
    <3> QED BY <1>4, <3>1, <3>2, <3>3
  <2>3. call[t].runs = Stub(call[t].ctx, Head(call[t].todo))
    BY <2>1 DEF LaunchesOwn
  <2> QED BY <1>1, <2>2, <2>3
<1> QED BY <1>2, <1>3, <1>4 DEF GoingOn

\* Launches still have the contexts of their functions, and copies of their own.
LEMMA StepLaunches ==
    ASSUME OneLoader, TypeOK, Registering, NumbersTell, TasksTell, Followed,
           LaunchesOwn, NEW t \in Thread,
           \/ Loading(t) \/ CreateContext(t) \/ Gets(t) \/ Unloads(t)
           \/ Begins(t) \/ GoingOn(t) \/ Ends(t)
    PROVE  LaunchesOwn'
<1>0. /\ binaries \in [BinHandle -> Code \cup {None}]
      /\ functions \in [FuncHandle -> Function \cup {None}]
      /\ \A f \in FuncHandle : functions[f] # None => functions[f].bin \in BinHandle
      /\ None \notin FuncHandle /\ None \notin FuncContext
      /\ Idle.todo = <<>> /\ Idle.ctx = None /\ Idle.pc = "idle"
  <2>1. /\ binaries \in [BinHandle -> Code \cup {None}]
        /\ functions \in [FuncHandle -> Function \cup {None}]
    BY DEF TypeOK, RegistryOK
  <2>2. \A f \in FuncHandle : functions[f] # None => functions[f].bin \in BinHandle
    BY <2>1 DEF Function
  <2> QED BY <2>1, <2>2, NoneAssumption DEF Idle
<1>1. ASSUME NEW h \in BinHandle, NEW c \in Code, NEW kind \in Kinds, BinaryLoad(t, h, c, kind)
      PROVE  LaunchesOwn'
  <2>1. /\ binaries[h] = None /\ binaries' = [binaries EXCEPT ![h] = c] /\ UNCHANGED functions
        /\ \A u \in Thread \ {t} : call'[u] = call[u]
    BY <1>1 DEF BinaryLoad
  <2>2. call'[t].pc \in {"idle", "register"} /\ call'[t].todo = <<>> /\ call'[t].ctx = None
    BY <1>1 DEF BinaryLoad, TypeOK, CallOK, Idle
  <2>3. \A f \in FuncHandle : functions[f] # None =>
            binaries'[functions[f].bin] = binaries[functions[f].bin]
    BY <1>0, <2>1 DEF Followed
  <2> QED BY <2>1, <2>2, <2>3 DEF LaunchesOwn, Launching
<1>2. CASE CreateContext(t)
  <2>1. /\ UNCHANGED <<binaries, functions>> /\ call'[t] = Idle
        /\ \A u \in Thread \ {t} : call'[u] = call[u]
    BY <1>2 DEF CreateContext, library, TypeOK, CallOK
  <2>2. call'[t].pc = "idle" /\ call'[t].todo = <<>> /\ call'[t].ctx = None
    BY <2>1 DEF Idle
  <2> QED BY <2>1, <2>2 DEF LaunchesOwn, Launching
<1>3. ASSUME NEW h \in BinHandle, NEW n \in Name, NEW f \in FuncHandle, NEW byEntry \in BOOLEAN,
             GetFunction(t, h, n, byEntry, f)
      PROVE  LaunchesOwn'
  <2>1. /\ functions[f] = None /\ UNCHANGED <<binaries, call>>
        /\ \A g \in FuncHandle : g # f => functions'[g] = functions[g]
    BY <1>0, <1>3 DEF GetFunction
  <2> QED BY <2>1 DEF LaunchesOwn
<1>4. ASSUME NEW h \in BinHandle, BinaryUnLoad(t, h)
      PROVE  LaunchesOwn'
  <2>1. /\ binaries' = [binaries EXCEPT ![h] = None] /\ UNCHANGED call
        /\ functions' = [f \in FuncHandle |-> IF functions[f] # None /\ functions[f].bin = h
                                              THEN None ELSE functions[f]]
        /\ \A u \in Thread : call[u].func # None => functions[call[u].func].bin # h
    BY <1>4 DEF BinaryUnLoad
  <2>2. \A u \in Thread :
            call[u].pc \in Launching =>
                /\ functions'[call[u].func] = functions[call[u].func]
                /\ binaries'[functions[call[u].func].bin] = binaries[functions[call[u].func].bin]
    BY <1>0, <2>1 DEF LaunchesOwn
  <2> QED BY <2>1, <2>2 DEF LaunchesOwn
<1>5. CASE Begins(t)
  <2>1. PICK f \in FuncHandle :
            /\ functions[f] # None
            /\ call'[t].pc = (IF funcContexts[f] = None THEN "plain" ELSE "append")
            /\ call'[t].func = f /\ call'[t].ctx = funcContexts[f]
            /\ \A u \in Thread \ {t} : call'[u] = call[u]
            /\ UNCHANGED library
    BY <1>5, Beginning
  <2>2. UNCHANGED <<binaries, functions>>
    BY <2>1 DEF library
  <2>3. /\ funcContexts[f] \in FuncContext
        /\ funcContexts[f].reg.code = binaries[functions[f].bin]
        /\ funcContexts[f].name = functions[f].name
    BY <2>1 DEF Followed
  <2>4. call'[t].pc = "append"
    BY <1>0, <2>1, <2>3
  <2> QED BY <2>1, <2>2, <2>3, <2>4 DEF LaunchesOwn, Launching
<1>6. CASE GoingOn(t)
  <2>1. /\ GoesOn(t)
        /\ call'[t].pc \in {"replaced", "measure", "stub"} =>
              call'[t].runs = Stub(call'[t].ctx, Head(call'[t].todo))
    BY <1>6, CopyIsOwn
  <2>2. /\ call[t].pc \in Launching /\ call'[t].pc \in Launching
        /\ call'[t].func = call[t].func /\ call'[t].ctx = call[t].ctx
        /\ \A u \in Thread \ {t} : call'[u] = call[u]
        /\ UNCHANGED <<binaries, functions>>
    BY <2>1 DEF GoesOn, library
  <2> QED BY <2>1, <2>2 DEF LaunchesOwn, Launching
<1>7. CASE Ends(t)
  <2>1. /\ UNCHANGED <<binaries, functions>> /\ call'[t] = Idle
        /\ \A u \in Thread \ {t} : call'[u] = call[u]
    BY <1>7 DEF Ends, library, TypeOK, CallOK
  <2>2. call'[t].pc = "idle" /\ call'[t].todo = <<>> /\ call'[t].ctx = None
    BY <2>1 DEF Idle
  <2> QED BY <2>1, <2>2 DEF LaunchesOwn, Launching
<1> QED BY <1>1, <1>2, <1>3, <1>4, <1>5, <1>6, <1>7 DEF Loading, Gets, Unloads

\* The invariant holds at the start, and every step keeps it.
LEMMA InitKernel == Init => KernelInv
<1> SUFFICES ASSUME Init PROVE KernelInv
  OBVIOUS
<1>1. TypeOK
  BY InitOK
<1>2. \A t \in Thread : /\ call[t].pc = "idle" /\ call[t].bin = None /\ call[t].ctx = None
                        /\ call[t].todo = <<>> /\ DOMAIN taskPool[t] = {}
  BY DEF Init, Idle
<1>3. /\ \A h \in BinHandle : regContexts[h] = None /\ binaries[h] = None
      /\ \A f \in FuncHandle : funcContexts[f] = None /\ functions[f] = None
  BY DEF Init
<1>4. \A r \in RegContext : ~Known(r)
  BY <1>2, <1>3, NoneAssumption DEF Known
<1>5. Registering /\ LaunchesOwn
  BY <1>2 DEF Registering, LaunchesOwn, Launching
<1>6. NumbersTell /\ TasksTell
  BY <1>2, <1>4 DEF NumbersTell, TasksTell
<1>7. Followed
  BY <1>3 DEF Followed
<1> QED BY <1>1, <1>5, <1>6, <1>7 DEF KernelInv

\* Every step keeps the invariant.
LEMMA StepKernel ==
    ASSUME OneLoader, AllRegistered
    PROVE  KernelInv /\ [Next]_vars => KernelInv'
<1> SUFFICES ASSUME KernelInv, [Next]_vars PROVE KernelInv'
  OBVIOUS
<1>0. TypeOK'
  BY StepOK DEF KernelInv
<1>1. CASE UNCHANGED vars
  <2>1. UNCHANGED <<binaries, functions, regContexts, currentRegId, funcContexts, taskPool, call>>
    BY <1>1 DEF vars, library, registry, tasks
  <2>2. \A r \in RegContext : Known(r)' => Known(r)
    BY <2>1 DEF Known
  <2> QED BY <1>0, <2>1, <2>2 DEF KernelInv, Registering, NumbersTell, TasksTell, Followed, LaunchesOwn
<1>2. CASE Next
  <2>0. TypeOK /\ Registering /\ NumbersTell /\ TasksTell /\ Followed /\ LaunchesOwn
    BY DEF KernelInv
  <2>1. PICK t \in Thread :
            \/ Loading(t) \/ CreateContext(t) \/ Gets(t) \/ Unloads(t)
            \/ Begins(t) \/ GoingOn(t) \/ GenBBcountFile(t) \/ RunOrigin(t)
    BY <1>2, Steps DEF GoingOn
  <2>2. /\ GoingOn(t) => GoesOn(t)
        /\ GenBBcountFile(t) \/ RunOrigin(t) => Ends(t)
    BY <2>0, CopyIsOwn, Courses
  <2>3. /\ \/ Loading(t) \/ CreateContext(t) \/ Gets(t) \/ Unloads(t)
           \/ Begins(t) \/ GoingOn(t) \/ Ends(t)
        /\ \/ Loading(t) \/ CreateContext(t) \/ Gets(t) \/ Unloads(t)
           \/ Begins(t) \/ GoesOn(t) \/ Ends(t)
    BY <2>1, <2>2
  <2>4. RunDBITask(t) \/ UNCHANGED taskPool
    <3>1. Loading(t) \/ CreateContext(t) \/ Gets(t) \/ Unloads(t) => UNCHANGED taskPool
      BY DEF Loading, BinaryLoad, CreateContext, Gets, GetFunction, Unloads, BinaryUnLoad, tasks
    <3>2. Begins(t) => UNCHANGED taskPool
      BY DEF Begins, Launch, tasks
    <3>3. GoingOn(t) /\ ~RunDBITask(t) => UNCHANGED taskPool
      BY DEF GoingOn, AppendContext, ArchiveMemInfo, SaveBlockMapFile, GetMemSize, Replace, RunStub, tasks
    <3>4. Ends(t) => UNCHANGED taskPool
      BY DEF Ends, tasks
    <3> QED BY <2>3, <3>1, <3>2, <3>3, <3>4
  <2>5. Registering'
    BY <2>0, <2>3, LoadRegistering, QuietSteps
  <2>6. NumbersTell'
    BY <2>0, <2>3, StepNumbers
  <2>7. TasksTell'
    BY <2>0, <2>3, <2>4, StepTasks
  <2>8. Followed'
    BY <2>0, <2>3, StepFollowed
  <2>9. LaunchesOwn'
    BY <2>0, <2>3, StepLaunches
  <2> QED BY <1>0, <2>5, <2>6, <2>7, <2>8, <2>9 DEF KernelInv
<1> QED BY <1>1, <1>2

\* When one thread loads, and everything it loads is registered, a launch runs a
\* copy of the function it launches, made for the task that runs it, whatever was
\* at its handles before and whatever the other threads launch
\* (DBITask.cpp:45-63, 94-119, RegisterManager.cpp:70-128).
THEOREM OwnKernel ==
    ASSUME OneLoader, AllRegistered
    PROVE  Spec => []RunsItsOwnKernel
<1>1. KernelInv => RunsItsOwnKernel
  <2> SUFFICES ASSUME KernelInv, NEW t \in Thread, call[t].pc = "stub"
               PROVE  call[t].runs = [Original(call[t].func) EXCEPT !.type = Head(call[t].todo)]
    BY DEF RunsItsOwnKernel
  <2>1. /\ call[t].ctx.reg.code = binaries[functions[call[t].func].bin]
        /\ call[t].ctx.name = functions[call[t].func].name
        /\ call[t].runs = Stub(call[t].ctx, Head(call[t].todo))
    BY DEF KernelInv, LaunchesOwn, Launching
  <2> QED BY <2>1 DEF Stub, Original
<1>2. Spec => []KernelInv
  BY InitKernel, StepKernel, PTL DEF Spec
<1> QED BY <1>1, <1>2, PTL

-----------------------------------------------------------------------------
(* A launch saves its own memory.                                          *)

\* The steps of the tasks of a launch.
TaskStep(t) ==
    RunDBITask(t) \/ SaveBlockMapFile(t) \/ GetMemSize(t) \/ Replace(t) \/ RunStub(t)

\* They leave the history alone.
LEMMA TaskSteps ==
    ASSUME TypeOK, NEW t \in Thread, TaskStep(t)
    PROVE  /\ GoesOn(t) /\ UNCHANGED history
           /\ call[t].pc \in InTask /\ call'[t].pc \in InTask \cup {"plain"}
<1>0. call[t] \in Call
  BY DEF TypeOK, CallOK
<1>1. CASE RunDBITask(t)
  <2>1. call[t].pc = "task" /\ UNCHANGED history /\ GoesOn(t)
    BY <1>1, Courses DEF RunDBITask
  <2>2. ASSUME Reused(t) PROVE call'[t].pc = "replaced"
    BY <2>2 DEF Reused, TypeOK, CallOK, Call
  <2>3. ASSUME Made(t) PROVE call'[t].pc = "replaced"
    BY <2>3 DEF Made, TypeOK, CallOK, Call
  <2>4. ASSUME Unmade(t) PROVE call'[t].pc = "failed"
    BY <2>4 DEF Unmade, TypeOK, CallOK, Call
  <2> QED BY <1>1, <2>1, <2>2, <2>3, <2>4, TaskOutcomes DEF InTask
<1>2. CASE SaveBlockMapFile(t)
  <2>1. call'[t] = [call[t] EXCEPT !.pc = "measure"] /\ GoesOn(t)
    BY <1>2, Courses
  <2> QED BY <1>0, <1>2, <2>1 DEF SaveBlockMapFile, CountReplaced, InTask, Call
<1>3. CASE GetMemSize(t)
  <2>1. call'[t].pc = "stub" /\ GoesOn(t)
    BY <1>3, Courses
  <2> QED BY <1>3, <2>1 DEF GetMemSize, InTask
<1>4. CASE Replace(t)
  <2>1. call'[t] = [call[t] EXCEPT !.pc = "stub"] /\ GoesOn(t)
    BY <1>4, Courses
  <2> QED BY <1>0, <1>4, <2>1 DEF Replace, InTask, Call
<1>5. CASE RunStub(t)
  <2>1. call'[t].pc \in {"task", "plain"} /\ GoesOn(t)
    BY <1>5, Courses
  <2> QED BY <1>5, <2>1 DEF RunStub, InTask
<1> QED BY <1>1, <1>2, <1>3, <1>4, <1>5 DEF TaskStep

\* A step of one thread leaves the others in step.
LEMMA OthersInStep ==
    ASSUME OwnDevices, NEW t \in Thread, NEW u \in Thread, u # t, InStepOf(u),
           call'[u] = call[u], nr'[u] = nr[u],
           \A d \in Device \ {DeviceOf[t]} :
               launches'[d] = launches[d] /\ memInfoHistory'[d] = memInfoHistory[d]
    PROVE  InStepOf(u)'
<1>1. DeviceOf[u] \in Device \ {DeviceOf[t]}
  BY ThreadAssumption DEF OwnDevices
<1>2. /\ launches'[DeviceOf[u]] = launches[DeviceOf[u]]
      /\ memInfoHistory'[DeviceOf[u]] = memInfoHistory[DeviceOf[u]]
  BY <1>1
<1> QED BY <1>2 DEF InStepOf, LaunchOf

\* Nor does it leave its own.
LEMMA StepInStep ==
    ASSUME OwnDevices, TypeOK, InStep, [Next]_vars
    PROVE  InStep'
<1>1. CASE UNCHANGED vars
  BY <1>1 DEF vars, history, InStep, InStepOf, LaunchOf
<1>2. CASE Next
  <2>1. PICK t \in Thread :
            \/ Loading(t) \/ CreateContext(t) \/ Gets(t) \/ Unloads(t)
            \/ Begins(t) \/ AppendContext(t) \/ ArchiveMemInfo(t) \/ TaskStep(t)
            \/ GenBBcountFile(t) \/ RunOrigin(t)
    BY <1>2, Steps DEF TaskStep
  <2> DEFINE d == DeviceOf[t]
  <2>2. /\ d \in Device /\ call[t] \in Call /\ InStepOf(t)
        /\ launches[d] \in Seq(Thread \X Nat) /\ memInfoHistory[d] \in Seq(Thread \X Nat)
        /\ LaunchOf(t) \in Thread \X Nat
    BY ThreadAssumption DEF TypeOK, HistoryOK, CallOK, InStep, LaunchOf
  <2>9. /\ Len(launches[d]) \in Nat /\ Len(memInfoHistory[d]) \in Nat /\ call[t].launchId \in Nat
        /\ IF call[t].pc = "archive" THEN Len(launches[d]) = Len(memInfoHistory[d]) + 1
           ELSE Len(launches[d]) = Len(memInfoHistory[d])
        /\ call[t].pc \in {"append", "archive"} => call[t].launchId = Len(memInfoHistory[d])
        /\ call[t].pc \in InTask =>
              /\ call[t].launchId < Len(memInfoHistory[d])
              /\ memInfoHistory[d][call[t].launchId + 1] = LaunchOf(t)
    BY <2>2 DEF InStepOf, Call
  <2> DEFINE Alone ==
                 \A u \in Thread \ {t} :
                     /\ call'[u] = call[u] /\ nr'[u] = nr[u]
                     /\ \A e \in Device \ {DeviceOf[t]} :
                            launches'[e] = launches[e] /\ memInfoHistory'[e] = memInfoHistory[e]
  <2> SUFFICES Alone /\ InStepOf(t)'
    BY OthersInStep DEF InStep
  <2>3. CASE Loading(t) \/ CreateContext(t) \/ Gets(t) \/ Unloads(t)
    <3> DEFINE Waits == \/ call[t].pc # "archive" /\ call'[t].pc \in {"idle", "register"}
                        \/ call'[t] = call[t] /\ UNCHANGED nr
    <3>1. UNCHANGED history /\ \A u \in Thread \ {t} : call'[u] = call[u] /\ nr'[u] = nr[u]
      BY <2>3 DEF Loading, BinaryLoad, CreateContext, Gets, GetFunction, Unloads, BinaryUnLoad,
                  TypeOK, CallOK
    <3>2. ASSUME Loading(t) PROVE Waits
      <4>1. call[t].pc = "idle" /\ call'[t].pc \in {"idle", "register"}
        BY <3>2 DEF Loading, BinaryLoad, TypeOK, CallOK, Idle
      <4> QED BY <4>1
    <3>3. ASSUME CreateContext(t) PROVE Waits
      <4>1. call[t].pc = "register" /\ call'[t].pc = "idle"
        BY <3>3 DEF CreateContext, TypeOK, CallOK, Idle
      <4> QED BY <4>1
    <3>4. ASSUME Gets(t) \/ Unloads(t) PROVE Waits
      <4>1. UNCHANGED <<call, nr>>
        BY <3>4 DEF Gets, GetFunction, Unloads, BinaryUnLoad
      <4> QED BY <4>1
    <3>5. Waits
      BY <2>3, <3>2, <3>3, <3>4
    <3>6. Alone
      BY <3>1 DEF history
    <3> HIDE DEF Alone
    <3> QED BY <2>2, <3>1, <3>5, <3>6 DEF history, InStepOf, InTask, LaunchOf
  <2>4. CASE Begins(t)
    <3>1. /\ call[t].pc = "idle" /\ call'[t].pc \in {"plain", "append"}
          /\ call'[t].launchId = Len(launches[d]) /\ UNCHANGED history
          /\ \A u \in Thread \ {t} : call'[u] = call[u]
      BY <2>4, Beginning
    <3>2. \A u \in Thread \ {t} : nr'[u] = nr[u]
      BY <2>4 DEF Begins, Launch, TypeOK
    <3>3. Alone
      BY <3>1, <3>2 DEF history
    <3> HIDE DEF Alone
    <3> QED BY <2>2, <3>1, <3>3 DEF history, InStepOf, InTask
  <2>5. CASE AppendContext(t)
    <3>1. call'[t] = [call[t] EXCEPT !.pc = "archive"] /\ GoesOn(t)
      BY <2>5, Courses
    <3>2. /\ call[t].pc = "append" /\ launches' = [launches EXCEPT ![d] = Append(@, LaunchOf(t))]
          /\ UNCHANGED memInfoHistory
      BY <2>5 DEF AppendContext
    <3>3. call'[t].pc = "archive" /\ call'[t].launchId = call[t].launchId
      BY <2>2, <3>1 DEF Call
    <3>4. Len(launches'[d]) = Len(launches[d]) + 1
      BY <2>2, <3>2 DEF TypeOK, HistoryOK
    <3>5. Alone
      BY <3>1, <3>2 DEF GoesOn, TypeOK, HistoryOK
    <3>6. Len(launches[d]) = Len(memInfoHistory[d]) /\ call[t].launchId = Len(memInfoHistory[d])
      BY <2>9, <3>2
    <3>7. Len(memInfoHistory[d]) \in Nat
      BY <2>9
    <3> HIDE DEF Alone
    <3> QED BY <3>2, <3>3, <3>4, <3>5, <3>6, <3>7 DEF InStepOf, InTask
  <2>6. CASE ArchiveMemInfo(t)
    <3>1. /\ call'[t] = [call[t] EXCEPT !.pc = IF call[t].todo = <<>> THEN "plain" ELSE "task"]
          /\ GoesOn(t)
      BY <2>6, Courses
    <3>2. /\ call[t].pc = "archive"
          /\ memInfoHistory' = [memInfoHistory EXCEPT ![d] = Append(@, LaunchOf(t))]
          /\ UNCHANGED launches
      BY <2>6 DEF ArchiveMemInfo, Archived, TypeOK, HistoryOK
    <3>3. call'[t].pc \in {"plain", "task"} /\ call'[t].launchId = call[t].launchId
      BY <2>2, <3>1 DEF Call
    <3> DEFINE saved == memInfoHistory[d]
    <3>4. memInfoHistory'[d] = Append(saved, LaunchOf(t))
      BY <2>2, <3>2 DEF TypeOK, HistoryOK
    <3>5. /\ Len(memInfoHistory'[d]) = Len(saved) + 1 /\ Len(saved) \in Nat
          /\ memInfoHistory'[d][Len(saved) + 1] = LaunchOf(t)
      BY <2>2, <3>4
    <3>6. Alone /\ LaunchOf(t)' = LaunchOf(t)
      BY <3>1, <3>2 DEF GoesOn, TypeOK, HistoryOK, LaunchOf
    <3> HIDE DEF Alone
    <3>7. /\ Len(launches[d]) = Len(saved) + 1 /\ call[t].launchId = Len(saved)
      BY <2>9, <3>2
    <3>8. call'[t].pc \notin {"append", "archive"} /\ UNCHANGED launches
      BY <3>2, <3>3
    <3> QED BY <3>3, <3>5, <3>6, <3>7, <3>8 DEF InStepOf
  <2>7. CASE TaskStep(t)
    <3>1. /\ GoesOn(t) /\ UNCHANGED history
          /\ call[t].pc \in InTask /\ call'[t].pc \in InTask \cup {"plain"}
      BY <2>7, TaskSteps
    <3>2. Alone /\ call'[t].launchId = call[t].launchId /\ LaunchOf(t)' = LaunchOf(t)
      BY <3>1 DEF GoesOn, history, LaunchOf
    <3>3. /\ Len(launches[d]) = Len(memInfoHistory[d]) /\ call[t].launchId < Len(memInfoHistory[d])
          /\ memInfoHistory[d][call[t].launchId + 1] = LaunchOf(t)
      BY <2>9, <3>1 DEF InTask
    <3>4. UNCHANGED <<launches, memInfoHistory>>
          /\ call'[t].pc \notin {"append", "archive"}
      BY <3>1 DEF history, InTask
    <3> HIDE DEF Alone
    <3> QED BY <2>9, <3>2, <3>3, <3>4 DEF InStepOf
  <2>8. CASE GenBBcountFile(t) \/ RunOrigin(t)
    <3>1. Ends(t)
      BY <2>8, Courses
    <3>2. call[t].pc # "archive"
      BY <2>8 DEF GenBBcountFile, Counted, RunOrigin
    <3>3. Alone /\ call'[t].pc = "idle" /\ UNCHANGED history
      BY <3>1 DEF Ends, Idle, TypeOK, CallOK, history
    <3> HIDE DEF Alone
    <3> QED BY <2>2, <3>2, <3>3 DEF InStepOf, InTask, history
  <2> QED BY <2>1, <2>3, <2>4, <2>5, <2>6, <2>7, <2>8
<1> QED BY <1>1, <1>2

\* When no two threads launch on one device, the memory a launch saves with its
\* context is its own: the number it was given is that of its entry in the history
\* (LaunchContext.cpp:57-90, LaunchManager.cpp:39-62).
THEOREM OwnMemory ==
    ASSUME OwnDevices
    PROVE  Spec => []SavesItsOwnMemory
<1>1. Init => InStep
  <2> SUFFICES ASSUME Init, NEW t \in Thread PROVE InStepOf(t)
    BY DEF InStep
  <2>1. DeviceOf[t] \in Device
    BY ThreadAssumption
  <2>2. call[t].pc = "idle" /\ launches[DeviceOf[t]] = <<>> /\ memInfoHistory[DeviceOf[t]] = <<>>
    BY <2>1 DEF Init, Idle
  <2> QED BY <2>2 DEF InStepOf, InTask
<1>2. TypeOK /\ InStep /\ [Next]_vars => InStep'
  BY StepInStep
<1>3. TypeOK /\ InStep => SavesItsOwnMemory
  BY DEF SavesItsOwnMemory, Save, InStep, InStepOf, InTask
<1> QED BY <1>1, <1>2, <1>3, TypeCorrect, PTL DEF Spec

-----------------------------------------------------------------------------
(* A launch counts its own blocks.                                         *)

\* The steps of a launch that run no task, nor begin or end it.
Proceeds(t) ==
    \/ AppendContext(t) \/ ArchiveMemInfo(t) \/ SaveBlockMapFile(t)
    \/ GetMemSize(t) \/ Replace(t) \/ RunStub(t)

\* The steps after which a thread is in no launch.
Rests(t) ==
    \/ Loading(t) \/ CreateContext(t) \/ Gets(t) \/ Unloads(t)
    \/ GenBBcountFile(t) \/ RunOrigin(t)

\* They leave nothing to be run, and files and tasks as they are.
LEMMA Resting ==
    ASSUME TypeOK, NEW t \in Thread, Rests(t)
    PROVE  /\ call'[t].pc \in {"idle", "register"}
           /\ UNCHANGED <<launches, taskPool, outputs, lastLaunchId, maps>>
           /\ \A u \in Thread \ {t} : call'[u] = call[u]
<1>1. CASE Loading(t)
  BY <1>1 DEF Loading, BinaryLoad, Idle, TypeOK, CallOK, history, tasks, filed, counters
<1>2. CASE CreateContext(t)
  BY <1>2 DEF CreateContext, Idle, TypeOK, CallOK, history, tasks, filed, counters
<1>3. CASE Gets(t) \/ Unloads(t)
  BY <1>3 DEF Gets, GetFunction, Unloads, BinaryUnLoad, history, tasks, filed, counters
<1>4. CASE GenBBcountFile(t) \/ RunOrigin(t)
  <2>1. Ends(t)
    BY <1>4, Courses
  <2> QED BY <2>1 DEF Ends, Idle, TypeOK, CallOK, history, tasks, counters
<1> QED BY <1>1, <1>2, <1>3, <1>4 DEF Rests

\* What a launch has yet to do grows less as it proceeds.
LEMMA Proceeding ==
    ASSUME TypeOK, NEW t \in Thread, LastIsOwn(t), Proceeds(t)
    PROVE  /\ GoesOn(t) /\ UNCHANGED <<taskPool, outputs, extras>>
           /\ ToRun(call'[t]) \subseteq ToRun(call[t])
           /\ Unmapped(call'[t]) => Unmapped(call[t])
           /\ Counts(call'[t].todo) => Counts(call[t].todo)
           /\ call'[t].pc \in Launching \ {"append", "replaced"}
           /\ ~SaveBlockMapFile(t) => UNCHANGED <<lastLaunchId, maps>> /\ call'[t].pc # "measure"
           /\ Counted(call'[t]) => GetMemSize(t)
<1>0. call[t] \in Call
  BY DEF TypeOK, CallOK
<1>1. GoesOn(t)
  BY Courses DEF Proceeds
<1> USE <1>0, <1>1 DEF tasks, filed, counters
<1>2. CASE AppendContext(t)
  <2>1. /\ call'[t] = [call[t] EXCEPT !.pc = "archive"] /\ call[t].pc = "append"
        /\ UNCHANGED <<tasks, filed>>
    BY <1>2, Courses DEF AppendContext
  <2>2. call'[t].pc = "archive" /\ call'[t].todo = call[t].todo
    BY <2>1 DEF Call
  <2> QED BY <2>1, <2>2 DEF ToRun, Unmapped, Counted, Launching
<1>3. CASE ArchiveMemInfo(t)
  <2>1. /\ call'[t] = [call[t] EXCEPT !.pc = IF call[t].todo = <<>> THEN "plain" ELSE "task"]
        /\ call[t].pc = "archive" /\ UNCHANGED <<tasks, filed>>
    BY <1>3, Courses DEF ArchiveMemInfo
  <2>2. call'[t].pc \in {"plain", "task"} /\ call'[t].todo = call[t].todo
    BY <2>1 DEF Call
  <2> QED BY <2>1, <2>2 DEF ToRun, Unmapped, Counted, Launching
<1>4. CASE SaveBlockMapFile(t)
  <2>1. /\ call'[t] = [call[t] EXCEPT !.pc = "measure"] /\ call[t].pc = "replaced"
        /\ UNCHANGED <<tasks, extras>>
    BY <1>4, Courses DEF SaveBlockMapFile, CountReplaced
  <2>2. call'[t].pc = "measure" /\ call'[t].todo = call[t].todo
    BY <2>1 DEF Call
  <2> QED BY <1>4, <2>1, <2>2 DEF ToRun, Unmapped, Counted, Launching
<1>5. CASE GetMemSize(t)
  <2>1. /\ call'[t].pc = "stub" /\ call'[t].todo = call[t].todo /\ call[t].pc = "measure"
        /\ UNCHANGED <<tasks, filed>>
    BY <1>5, Courses DEF GetMemSize
  <2>2. Head(call[t].todo) = "BB_COUNT"
    BY <2>1 DEF LastIsOwn
  <2> QED BY <1>5, <2>1, <2>2 DEF ToRun, Unmapped, Counted, Launching
<1>6. CASE Replace(t)
  <2>1. /\ call'[t] = [call[t] EXCEPT !.pc = "stub"] /\ call[t].pc = "replaced"
        /\ Head(call[t].todo) = "CUSTOMIZE" /\ UNCHANGED <<tasks, filed>>
    BY <1>6, Courses DEF Replace
  <2>2. call'[t].pc = "stub" /\ call'[t].todo = call[t].todo
    BY <2>1 DEF Call
  <2> QED BY <2>1, <2>2 DEF ToRun, Unmapped, Counted, Launching
<1>7. CASE RunStub(t)
  <2>1. /\ call'[t].pc \in {"task", "plain"} /\ call'[t].todo = Tail(call[t].todo)
        /\ call[t].pc \in {"stub", "failed"} /\ ~Counted(call[t]) /\ UNCHANGED <<tasks, filed>>
    BY <1>7, Courses DEF RunStub
  <2>2. Range(Tail(call[t].todo)) \subseteq Range(call[t].todo)
    <3>1. call[t].todo \in Todo /\ call[t].todo # <<>>
      BY <2>1 DEF Call, TypeOK, CallOK, InTask
    <3> QED BY <3>1, TodoFacts
  <2>3. Counts(call'[t].todo) => Counts(call[t].todo)
    BY <2>1, <2>2 DEF Counts
  <2> QED BY <2>1, <2>3 DEF ToRun, Unmapped, Counted, Launching
<1> QED BY <1>2, <1>3, <1>4, <1>5, <1>6, <1>7 DEF Proceeds

\* One of these is every step of a thread.
LEMMA StepsOfThreads ==
    ASSUME Next
    PROVE  \E t \in Thread : Rests(t) \/ Begins(t) \/ RunDBITask(t) \/ Proceeds(t)
  BY Steps DEF Rests, Proceeds

\* No launch is forgotten.
LEMMA Growth ==
    ASSUME TypeOK, NEW t \in Thread, Rests(t) \/ Begins(t) \/ RunDBITask(t) \/ Proceeds(t),
           NEW u \in Thread
    PROVE  /\ Len(launches[DeviceOf[u]]) \in Nat /\ Len(launches'[DeviceOf[u]]) \in Nat
           /\ Len(launches[DeviceOf[u]]) <= Len(launches'[DeviceOf[u]])
           /\ AppendContext(t) => Len(launches[DeviceOf[t]]) < Len(launches'[DeviceOf[t]])
<1>0. /\ \A d \in Device : launches[d] \in Seq(Thread \X Nat)
      /\ DeviceOf[t] \in Device /\ DeviceOf[u] \in Device
  BY ThreadAssumption DEF TypeOK, HistoryOK
<1>1. CASE AppendContext(t)
  <2>1. launches' = [launches EXCEPT ![DeviceOf[t]] = Append(@, LaunchOf(t))]
        /\ LaunchOf(t) \in Thread \X Nat
    BY <1>1 DEF AppendContext, LaunchOf, TypeOK
  <2>2. \A d \in Device : launches'[d] = IF d = DeviceOf[t] THEN Append(launches[d], LaunchOf(t))
                                         ELSE launches[d]
    BY <2>1 DEF TypeOK, HistoryOK
  <2>3. \A s \in Seq(Thread \X Nat) :
            Len(s) \in Nat /\ Len(Append(s, LaunchOf(t))) = Len(s) + 1
    BY <2>1
  <2>4. /\ launches'[DeviceOf[t]] = Append(launches[DeviceOf[t]], LaunchOf(t))
        /\ launches'[DeviceOf[u]] \in {launches[DeviceOf[u]], Append(launches[DeviceOf[u]], LaunchOf(t))}
    BY <1>0, <2>2
  <2>5. Len(launches'[DeviceOf[t]]) = Len(launches[DeviceOf[t]]) + 1
    BY <1>0, <2>3, <2>4
  <2>6. /\ Len(launches[DeviceOf[u]]) \in Nat /\ Len(launches[DeviceOf[t]]) \in Nat
        /\ \/ Len(launches'[DeviceOf[u]]) = Len(launches[DeviceOf[u]])
           \/ Len(launches'[DeviceOf[u]]) = Len(launches[DeviceOf[u]]) + 1
    <3>1. launches[DeviceOf[u]] \in Seq(Thread \X Nat)
          /\ launches[DeviceOf[t]] \in Seq(Thread \X Nat)
      BY <1>0
    <3> QED BY <2>3, <2>4, <3>1
  <2> QED BY <2>5, <2>6
<1>2. CASE ~AppendContext(t)
  <2>1. Rests(t) => UNCHANGED launches
    BY Resting
  <2>2. Begins(t) => UNCHANGED launches
    BY DEF Begins, Launch, history
  <2>3. RunDBITask(t) => UNCHANGED launches
    BY DEF RunDBITask, history
  <2>4. Proceeds(t) => UNCHANGED launches
    BY <1>2 DEF Proceeds, ArchiveMemInfo, SaveBlockMapFile, GetMemSize, Replace, RunStub, history
  <2>5. UNCHANGED launches
    BY <2>1, <2>2, <2>3, <2>4
  <2> QED BY <1>0, <1>2, <2>5
<1> QED BY <1>1, <1>2

\* No two threads come to count blocks of one registration.
LEMMA StepApart ==
    ASSUME Shared = FALSE, TypeOK, KernelInv', CountsApart, NEW t \in Thread, LastIsOwn(t),
           Rests(t) \/ Begins(t) \/ RunDBITask(t) \/ Proceeds(t)
    PROVE  CountsApart'
<1>1. ASSUME \A u \in Thread : Counts(call'[u].todo) => Counts(call[u].todo) /\ call'[u].ctx = call[u].ctx
      PROVE  CountsApart'
  BY <1>1 DEF CountsApart
<1>2. CASE Rests(t)
  <2>1. call'[t].todo = <<>> /\ \A u \in Thread \ {t} : call'[u] = call[u]
    BY <1>2, Resting DEF KernelInv, LaunchesOwn
  <2>2. ~Counts(<<>>)
    BY DEF Counts, Range
  <2> QED BY <1>1, <2>1, <2>2
<1>3. CASE Begins(t)
  <2>1. PICK f \in FuncHandle, todo \in Todo :
            /\ MayCount(t, funcContexts[f], todo)
            /\ call'[t].pc = (IF funcContexts[f] = None THEN "plain" ELSE "append")
            /\ call'[t].ctx = funcContexts[f] /\ call'[t].todo = todo
            /\ \A u \in Thread \ {t} : call'[u] = call[u]
    BY <1>3, Beginning
  <2>2. call'[t].ctx \in FuncContext
    <3>1. call'[t].pc \in Launching
      BY <2>1 DEF Launching
    <3> QED BY <3>1 DEF KernelInv, LaunchesOwn
  <2>3. funcContexts[f] # None
    BY <2>1, <2>2, NoneAssumption
  <2>4. ASSUME NEW u \in Thread \ {t}, Counts(call[u].todo), Counts(todo)
        PROVE  call[u].ctx.reg # funcContexts[f].reg
    BY <2>1, <2>3, <2>4 DEF MayCount
  <2> QED BY <2>1, <2>4 DEF CountsApart
<1>4. CASE RunDBITask(t)
  <2>1. GoesOn(t) /\ call'[t].todo = call[t].todo
    BY <1>4, Courses
  <2> QED BY <1>1, <2>1 DEF GoesOn
<1>5. CASE Proceeds(t)
  <2>1. GoesOn(t) /\ (Counts(call'[t].todo) => Counts(call[t].todo))
    BY <1>5, Proceeding
  <2> QED BY <1>1, <2>1 DEF GoesOn
<1> QED BY <1>2, <1>3, <1>4, <1>5

\* The files of a thread stay what they are while another takes a step.
LEMMA OthersFiles ==
    ASSUME TypeOK, NEW t \in Thread, Rests(t) \/ Begins(t) \/ RunDBITask(t) \/ Proceeds(t),
           NEW u \in Thread \ {t}, FilesOf(u), LastIsOwn(t)
    PROVE  FilesOf(u)'
<1>1. call'[u] = call[u]
  BY Resting, Beginning, Proceeding, Courses DEF GoesOn
<1>2. taskPool'[u] = taskPool[u] /\ outputs'[u] = outputs[u]
  <2>1. CASE RunDBITask(t)
    <3>0. /\ taskPool \in [Thread -> Tables(Key, Task)] /\ u # t
          /\ outputs \in [Thread -> Tables(Dir, Copy \cup {None})]
      BY DEF TypeOK, FilesOK
    <3>1. CASE Reused(t)
      BY <3>0, <3>1 DEF Reused
    <3>2. CASE Made(t)
      BY <3>0, <3>2 DEF Made
    <3>3. CASE Unmade(t)
      BY <3>0, <3>3 DEF Unmade
    <3> QED BY <2>1, <3>1, <3>2, <3>3, TaskOutcomes
  <2>2. CASE Begins(t)
    BY <2>2 DEF Begins, Launch, tasks
  <2>3. CASE Rests(t) \/ Proceeds(t)
    BY <2>3, Resting, Proceeding
  <2> QED BY <2>1, <2>2, <2>3
<1>3. /\ Len(launches[DeviceOf[u]]) \in Nat /\ Len(launches'[DeviceOf[u]]) \in Nat
      /\ Len(launches[DeviceOf[u]]) <= Len(launches'[DeviceOf[u]])
  BY Growth
<1>4. /\ call[u].launchId \in Nat /\ \A dir \in DOMAIN outputs[u] : dir.launchId \in Nat
      /\ \A key \in DOMAIN taskPool[u] : taskPool[u][key].launchId \in Nat
  BY PoolFacts DEF TypeOK, CallOK, Call, Dir
<1>5. Numbered(u)'
  BY <1>1, <1>3, <1>4 DEF FilesOf, Numbered
<1>6. ASSUME NEW n \in Nat, NEW type, IsOld(u, n, type)
      PROVE  IsOld(u, n, type)'
  BY <1>1, <1>3, <1>6 DEF IsOld
<1>7. DirsAreOld(u)'
  BY <1>2, <1>4, <1>6 DEF FilesOf, DirsAreOld
<1>8. DirsAreOwn(u)' /\ CountDirIsOwn(u)'
  BY <1>1, <1>2 DEF FilesOf, DirsAreOwn, TaskDir, CountDirIsOwn, CountDir, CountReplaced
<1> QED BY <1>5, <1>7, <1>8 DEF FilesOf

\* A task that is run leaves its directory, and itself, with the number of the launch.
LEMMA TaskFiles ==
    ASSUME TypeOK, NumbersTell, TasksTell, NEW t \in Thread, FilesOf(t), RunDBITask(t)
    PROVE  FilesOf(t)'
<1> DEFINE n == call[t].launchId
           type == RunType(t)
           dirs == outputs[t]
           pool == taskPool[t]
           made == [stub |-> RunStubOf(t), launchId |-> n]
<1>1. /\ call[t].pc = "task" /\ call[t].todo \in Todo /\ call[t].todo # <<>> /\ n \in Nat
      /\ RunKey(t) \in Key /\ RunKey(t).type = type /\ type \in Type
      /\ RunDir(t).launchId = n /\ RunDir(t).type = type
      /\ RunDir(t) = OutputDir(n, type)
      /\ InitDBITaskConfig(t, type)
      /\ made.launchId = n /\ made.stub = RunStubOf(t)
  <2>1. call[t].pc = "task" /\ RunKey(t) \in Key /\ type \in Type /\ InitDBITaskConfig(t, type)
    BY TaskOutcomes
  <2> QED BY <2>1 DEF TypeOK, CallOK, Call, InTask, RunKey, TaskKey, RunDir, OutputDir
<1>2. /\ call'[t].launchId = n /\ call'[t].todo = call[t].todo /\ GoesOn(t)
      /\ call'[t].pc \in {"replaced", "failed"} /\ UNCHANGED launches
      /\ Reused(t) \/ Made(t) => call'[t].pc = "replaced"
      /\ Reused(t) => call'[t].runs = pool[RunKey(t)].stub
      /\ Made(t) => call'[t].runs = RunStubOf(t)
      /\ Unmade(t) => call'[t].pc = "failed"
  <2>1. GoesOn(t) /\ call'[t].launchId = n /\ call'[t].todo = call[t].todo /\ UNCHANGED launches
    BY Courses DEF GoesOn, RunDBITask, history
  <2>2. Reused(t) => call'[t].runs = pool[RunKey(t)].stub /\ call'[t].pc = "replaced"
    BY DEF Reused, TypeOK, CallOK, Call
  <2>3. Made(t) => call'[t].runs = RunStubOf(t) /\ call'[t].pc = "replaced"
    BY DEF Made, TypeOK, CallOK, Call
  <2>4. Unmade(t) => call'[t].pc = "failed"
    BY DEF Unmade, TypeOK, CallOK, Call
  <2> QED BY <2>1, <2>2, <2>3, <2>4, TaskOutcomes
<1>3. /\ ToRun(call[t]) = Range(call[t].todo) /\ type \in ToRun(call[t])
      /\ ToRun(call'[t]) \subseteq ToRun(call[t]) /\ type \notin ToRun(call'[t])
  <2>1. /\ type \in Range(call[t].todo) /\ type \notin Range(Tail(call[t].todo))
        /\ Range(Tail(call[t].todo)) \subseteq Range(call[t].todo)
    BY <1>1, TodoFacts DEF RunType
  <2> QED BY <1>1, <1>2, <2>1 DEF ToRun
<1>4. n < Len(launches[DeviceOf[t]])
  BY <1>1 DEF FilesOf, Numbered, Launching
<1>5. /\ RunDir(t) \notin DOMAIN dirs
      /\ \A key \in DOMAIN pool : TaskDir(t, key) # RunDir(t)
  <2>1. RunDir(t) \notin DOMAIN dirs
    BY <1>1, <1>3 DEF FilesOf, DirsAreOld, IsOld
  <2>2. ASSUME NEW key \in DOMAIN pool, TaskDir(t, key) = RunDir(t) PROVE FALSE
    <3>1. pool[key].launchId = n /\ key.type = type
      BY <1>1, <2>2 DEF TaskDir, OutputDir
    <3> QED BY <1>3, <3>1 DEF FilesOf, DirsAreOld, IsOld
  <2> QED BY <2>1, <2>2
<1> DEFINE Old(m, s) == /\ m < Len(launches'[DeviceOf[t]])
                        /\ m = call'[t].launchId => s \notin ToRun(call'[t])
<1>6. \A m, s : IsOld(t, m, s) => Old(m, s)
  BY <1>2, <1>3 DEF IsOld
<1>7. Old(n, type)
  BY <1>2, <1>3, <1>4
<1>8. /\ Reused(t) \/ Unmade(t) => taskPool'[t] = pool
      /\ Made(t) => taskPool'[t] = With(pool, RunKey(t), made)
  BY DEF Reused, Unmade, Made, TypeOK, FilesOK
<1>9. /\ ~keepOutputs'[t] => outputs'[t] = dirs
      /\ keepOutputs'[t] /\ Reused(t) =>
            /\ TaskDir(t, RunKey(t)) \in DOMAIN dirs /\ RunKey(t) \in DOMAIN pool
            /\ outputs'[t] = With(dirs, RunDir(t), dirs[TaskDir(t, RunKey(t))])
      /\ keepOutputs'[t] /\ Made(t) => outputs'[t] = With(dirs, RunDir(t), RunStubOf(t))
      /\ keepOutputs'[t] /\ Unmade(t) => \E left : outputs'[t] = With(dirs, RunDir(t), left)
  <2>0. outputs \in [Thread -> Tables(Dir, Copy \cup {None})]
    BY DEF TypeOK, FilesOK
  <2>1. ASSUME Reused(t)
        PROVE  /\ ~keepOutputs'[t] => outputs'[t] = dirs
               /\ keepOutputs'[t] =>
                     /\ TaskDir(t, RunKey(t)) \in DOMAIN dirs /\ RunKey(t) \in DOMAIN pool
                     /\ outputs'[t] = With(dirs, RunDir(t), dirs[TaskDir(t, RunKey(t))])
    <3>1. TaskDir(t, RunKey(t)) = OutputDir(pool[RunKey(t)].launchId, type)
      BY <1>1 DEF TaskDir
    <3>2. Linked(t, RunKey(t), n) = With(dirs, RunDir(t), dirs[TaskDir(t, RunKey(t))])
      BY <1>1, <1>5, <3>1 DEF Linked
    <3>3. /\ keepOutputs'[t] => TaskDir(t, RunKey(t)) \in DOMAIN dirs
          /\ RunKey(t) \in DOMAIN pool
          /\ outputs' = IF keepOutputs'[t] THEN [outputs EXCEPT ![t] = Linked(t, RunKey(t), n)]
                        ELSE outputs
      BY <2>1, <3>1 DEF Reused
    <3> QED BY <2>0, <3>2, <3>3
  <2>2. ASSUME Made(t)
        PROVE  /\ ~keepOutputs'[t] => outputs'[t] = dirs
               /\ keepOutputs'[t] => outputs'[t] = With(dirs, RunDir(t), RunStubOf(t))
    BY <2>0, <2>2 DEF Made
  <2>3. ASSUME Unmade(t)
        PROVE  /\ ~keepOutputs'[t] => outputs'[t] = dirs
               /\ keepOutputs'[t] => \E left : outputs'[t] = With(dirs, RunDir(t), left)
    BY <2>0, <2>3 DEF Unmade
  <2> QED BY <2>1, <2>2, <2>3, TaskOutcomes
<1> HIDE DEF n, type, dirs, pool, made, Old
<1>10. /\ DOMAIN outputs'[t] \subseteq {RunDir(t)} \cup DOMAIN dirs
       /\ \A dir \in DOMAIN dirs : dir \in DOMAIN outputs'[t] /\ outputs'[t][dir] = dirs[dir]
       /\ keepOutputs'[t] => RunDir(t) \in DOMAIN outputs'[t]
       /\ keepOutputs'[t] /\ Made(t) => outputs'[t][RunDir(t)] = RunStubOf(t)
       /\ keepOutputs'[t] /\ Reused(t) =>
             outputs'[t][RunDir(t)] = dirs[TaskDir(t, RunKey(t))]
       /\ ~keepOutputs'[t] => RunDir(t) \notin DOMAIN outputs'[t]
  <2>1. CASE ~keepOutputs'[t]
    BY <1>5, <1>9, <2>1
  <2>2. ASSUME keepOutputs'[t], NEW v, outputs'[t] = With(dirs, RunDir(t), v)
        PROVE  /\ DOMAIN outputs'[t] \subseteq {RunDir(t)} \cup DOMAIN dirs
               /\ \A dir \in DOMAIN dirs :
                     dir \in DOMAIN outputs'[t] /\ outputs'[t][dir] = dirs[dir]
               /\ RunDir(t) \in DOMAIN outputs'[t] /\ outputs'[t][RunDir(t)] = v
    BY <1>5, <2>2 DEF With
  <2>3. keepOutputs'[t] /\ Made(t) => outputs'[t][RunDir(t)] = RunStubOf(t)
    BY <1>9, <2>2
  <2>4. keepOutputs'[t] /\ Reused(t) => outputs'[t][RunDir(t)] = dirs[TaskDir(t, RunKey(t))]
    BY <1>9, <2>2
  <2>5. CASE keepOutputs'[t]
    <3>1. \E v : outputs'[t] = With(dirs, RunDir(t), v)
      BY <1>9, <2>5, TaskOutcomes
    <3> QED BY <2>2, <2>3, <2>4, <2>5, <3>1
  <2> QED BY <2>1, <2>5
<1>11. /\ RunKey(t) \in DOMAIN pool \/ Made(t) => RunKey(t).type = type
       /\ Made(t) => /\ DOMAIN taskPool'[t] = {RunKey(t)} \cup DOMAIN pool
                     /\ taskPool'[t][RunKey(t)] = made
                     /\ \A key \in DOMAIN pool : key # RunKey(t) => taskPool'[t][key] = pool[key]
  BY <1>1, <1>8 DEF With
<1>12. ASSUME NEW key \in DOMAIN pool, taskPool'[t][key] = pool[key]
       PROVE  /\ Old(taskPool'[t][key].launchId, key.type)
              /\ TaskDir(t, key)' \in DOMAIN outputs'[t] =>
                    outputs'[t][TaskDir(t, key)'] = taskPool'[t][key].stub
  <2>1. IsOld(t, taskPool[t][key].launchId, key.type)
    BY DEF FilesOf, DirsAreOld, pool
  <2>2. TaskDir(t, key)' = TaskDir(t, key)
    BY <1>12 DEF TaskDir, pool
  <2>3. TaskDir(t, key)' \in DOMAIN outputs'[t] =>
            TaskDir(t, key) \in DOMAIN dirs /\ outputs'[t][TaskDir(t, key)'] = dirs[TaskDir(t, key)]
    BY <1>5, <1>10, <2>2
  <2> QED BY <1>6, <1>12, <2>1, <2>3 DEF FilesOf, DirsAreOwn, pool, dirs
<1>13. DirsAreOld(t)'
  <2>1. ASSUME NEW dir \in DOMAIN outputs'[t]
        PROVE  Old(dir.launchId, dir.type)
    <3>1. CASE dir = RunDir(t)
      BY <1>1, <1>7, <3>1
    <3>2. CASE dir # RunDir(t)
      BY <1>6, <1>10, <3>2 DEF FilesOf, DirsAreOld, dirs
    <3> QED BY <3>1, <3>2
  <2>2. ASSUME NEW key \in DOMAIN taskPool'[t]
        PROVE  Old(taskPool'[t][key].launchId, key.type)
    <3>1. CASE Made(t) /\ key = RunKey(t)
      BY <1>1, <1>7, <1>11, <3>1
    <3>2. CASE Made(t) /\ key # RunKey(t)
      BY <1>11, <1>12, <3>2
    <3>3. CASE Reused(t) \/ Unmade(t)
      BY <1>8, <1>12, <3>3
    <3> QED BY <3>1, <3>2, <3>3, TaskOutcomes
  <2> QED BY <2>1, <2>2 DEF DirsAreOld, IsOld, Old
<1>14. DirsAreOwn(t)'
  <2> SUFFICES ASSUME NEW key \in DOMAIN taskPool'[t], TaskDir(t, key)' \in DOMAIN outputs'[t]
               PROVE  outputs'[t][TaskDir(t, key)'] = taskPool'[t][key].stub
    BY DEF DirsAreOwn
  <2>1. CASE Made(t) /\ key = RunKey(t)
    <3>1. TaskDir(t, key)' = RunDir(t)
      BY <1>1, <1>11, <2>1 DEF TaskDir
    <3> QED BY <1>1, <1>10, <1>11, <2>1, <3>1
  <2>2. CASE Made(t) /\ key # RunKey(t)
    BY <1>11, <1>12, <2>2
  <2>3. CASE Reused(t) \/ Unmade(t)
    BY <1>8, <1>12, <2>3
  <2> QED BY <2>1, <2>2, <2>3, TaskOutcomes
<1>15. CountDirIsOwn(t)'
  <2> SUFFICES ASSUME CountReplaced(t)'
               PROVE  CountDir(t)' \in DOMAIN outputs'[t] /\ outputs'[t][CountDir(t)'] = call'[t].runs
    BY DEF CountDirIsOwn
  <2>1. type = "BB_COUNT" /\ ~Unmade(t)
    BY <1>2 DEF CountReplaced, type, RunType
  <2>2. keepOutputs'[t] /\ CountDir(t)' = RunDir(t)
    BY <1>1, <1>2, <2>1 DEF InitDBITaskConfig, CountDir, TypeOK, FilesOK
  <2>3. CASE Reused(t)
    <3>1. dirs[TaskDir(t, RunKey(t))] = pool[RunKey(t)].stub
      BY <1>9, <2>2, <2>3 DEF FilesOf, DirsAreOwn, dirs, pool
    <3> QED BY <1>2, <1>10, <2>2, <2>3, <3>1
  <2>4. CASE Made(t)
    BY <1>2, <1>10, <2>2, <2>4
  <2> QED BY <2>1, <2>3, <2>4, TaskOutcomes
<1>16. Numbered(t)'
  BY <1>2, <1>4 DEF Numbered, n
<1> QED BY <1>13, <1>14, <1>15, <1>16 DEF FilesOf

\* So do its own, whatever it does.
LEMMA OwnFiles ==
    ASSUME KernelInv, KernelInv', NEW t \in Thread, FilesOf(t), LastIsOwn(t),
           Rests(t) \/ Begins(t) \/ RunDBITask(t) \/ Proceeds(t)
    PROVE  FilesOf(t)'
<1>0. TypeOK /\ NumbersTell /\ TasksTell
  BY DEF KernelInv
<1>1. /\ Len(launches[DeviceOf[t]]) \in Nat /\ Len(launches'[DeviceOf[t]]) \in Nat
      /\ Len(launches[DeviceOf[t]]) <= Len(launches'[DeviceOf[t]])
      /\ AppendContext(t) => Len(launches[DeviceOf[t]]) < Len(launches'[DeviceOf[t]])
      /\ call[t].launchId \in Nat /\ \A dir \in DOMAIN outputs[t] : dir.launchId \in Nat
      /\ \A key \in DOMAIN taskPool[t] : taskPool[t][key].launchId \in Nat
  BY <1>0, Growth, PoolFacts DEF TypeOK, CallOK, Call, Dir
<1>2. ASSUME UNCHANGED <<taskPool, outputs>>,
             \/ ToRun(call'[t]) = {}
             \/ call'[t].launchId = Len(launches[DeviceOf[t]])
             \/ call'[t].launchId = call[t].launchId /\ ToRun(call'[t]) \subseteq ToRun(call[t])
      PROVE  DirsAreOld(t)' /\ DirsAreOwn(t)'
  <2>1. ASSUME NEW n \in Nat, NEW type, IsOld(t, n, type)
        PROVE  IsOld(t, n, type)'
    BY <1>1, <1>2, <2>1 DEF IsOld
  <2>2. DirsAreOld(t)'
    BY <1>1, <1>2, <2>1 DEF FilesOf, DirsAreOld
  <2>3. DirsAreOwn(t)'
    BY <1>2 DEF FilesOf, DirsAreOwn, TaskDir
  <2> QED BY <2>2, <2>3
<1>3. CASE Rests(t)
  <2>1. call'[t].pc \in {"idle", "register"} /\ UNCHANGED <<taskPool, outputs>>
    BY <1>0, <1>3, Resting
  <2>2. ToRun(call'[t]) = {} /\ Numbered(t)' /\ CountDirIsOwn(t)'
    BY <2>1 DEF ToRun, Numbered, Launching, CountDirIsOwn, CountReplaced
  <2> QED BY <1>2, <2>1, <2>2 DEF FilesOf
<1>4. CASE Begins(t)
  <2>1. /\ call'[t].launchId = Len(launches[DeviceOf[t]]) /\ UNCHANGED <<taskPool, outputs>>
        /\ \E f \in FuncHandle :
              /\ call'[t].pc = (IF funcContexts[f] = None THEN "plain" ELSE "append")
              /\ call'[t].ctx = funcContexts[f]
    BY <1>0, <1>4, Beginning DEF tasks
  <2>2. call'[t].pc \in Launching /\ call'[t].ctx # None
    <3>1. call'[t].pc \in Launching
      BY <2>1 DEF Launching
    <3> QED BY <3>1, NoneAssumption DEF KernelInv, LaunchesOwn
  <2>3. call'[t].pc = "append"
    BY <2>1, <2>2
  <2>4. Numbered(t)' /\ CountDirIsOwn(t)'
    BY <1>1, <2>1, <2>3 DEF Numbered, CountDirIsOwn, CountReplaced
  <2> QED BY <1>2, <2>1, <2>4 DEF FilesOf
<1>5. CASE RunDBITask(t)
  BY <1>0, <1>5, TaskFiles
<1>6. CASE Proceeds(t)
  <2>1. /\ UNCHANGED <<taskPool, outputs>> /\ ToRun(call'[t]) \subseteq ToRun(call[t])
        /\ call'[t].pc \in Launching \ {"append", "replaced"} /\ call[t].pc \in Launching
        /\ call'[t].launchId = call[t].launchId
    BY <1>0, <1>6, Proceeding DEF GoesOn
  <2>2. AppendContext(t) \/ call[t].pc # "append"
    BY <1>6 DEF Proceeds, ArchiveMemInfo, SaveBlockMapFile, CountReplaced, GetMemSize, Replace, RunStub
  <2>3. AppendContext(t) => call[t].pc = "append"
    BY DEF AppendContext
  <2>4. Numbered(t)' /\ CountDirIsOwn(t)'
    BY <1>1, <2>1, <2>2, <2>3 DEF FilesOf, Numbered, CountDirIsOwn, CountReplaced
  <2> QED BY <1>2, <2>1, <2>4 DEF FilesOf
<1> QED BY <1>3, <1>4, <1>5, <1>6

\* What the last file of a launch is, and where a new one goes.
LEMMA FileFacts ==
    ASSUME TypeOK, MapsAreOld
    PROVE  /\ \A file \in DOMAIN maps :
                 /\ file.dir \in Thread \X Nat /\ file.dir[1] \in Thread /\ file.dir[2] \in Nat
           /\ \A file \in DOMAIN extras : file \in DOMAIN maps /\ maps[file] = extras[file]
<1>1. maps \in Tables(File, Copy \cup {None})
  BY DEF TypeOK, FilesOK
<1>2. \A file \in DOMAIN maps : file \in File
  BY <1>1, TableFacts
<1> QED BY <1>2 DEF File, MapsAreOld

SavedFile(t) == MapFile(t, call[t].ctx.reg.regId, NextCount(call[t].ctx.reg.regId))

\* The map that is filed is that of what the launch runs, and the launch had none.
LEMMA Saving ==
    ASSUME TypeOK, NEW t \in Thread, FilesOf(t), MapsAreOld, SaveBlockMapFile(t)
    PROVE  /\ maps' = With(maps, SavedFile(t), call[t].runs) /\ SavedFile(t) \notin DOMAIN maps
           /\ lastLaunchId' = With(lastLaunchId, call[t].ctx.reg.regId,
                                   NextCount(call[t].ctx.reg.regId))
           /\ UNCHANGED extras /\ GoesOn(t)
           /\ SavedFile(t).dir[1] = t /\ SavedFile(t).dir[2] = call[t].launchId
           /\ Head(call[t].todo) = "BB_COUNT" /\ Counts(call[t].todo)
           /\ call'[t].pc = "measure" /\ call'[t].todo = call[t].todo
           /\ call'[t].runs = call[t].runs
<1>1. /\ GoesOn(t) /\ call'[t] = [call[t] EXCEPT !.pc = "measure"] /\ call[t] \in Call
  BY Courses DEF TypeOK, CallOK
<1>2. call'[t].pc = "measure" /\ call'[t].todo = call[t].todo /\ call'[t].runs = call[t].runs
  BY <1>1 DEF Call
<1>3. /\ CountReplaced(t) /\ call[t].pc = "replaced" /\ Head(call[t].todo) = "BB_COUNT"
      /\ UNCHANGED extras
  BY DEF SaveBlockMapFile, CountReplaced
<1>4. Counts(call[t].todo)
  <2>1. call[t].todo \in Todo /\ call[t].todo # <<>>
    BY <1>1, <1>3 DEF Call, TypeOK, CallOK, InTask
  <2> QED BY <1>3, <2>1, TodoFacts DEF Counts
<1>5. CountDir(t) \in DOMAIN outputs[t] /\ outputs[t][CountDir(t)] = call[t].runs
  BY <1>3 DEF FilesOf, CountDirIsOwn
<1>6. /\ lastLaunchId' = With(lastLaunchId, call[t].ctx.reg.regId, NextCount(call[t].ctx.reg.regId))
      /\ maps' = With(maps, SavedFile(t), call[t].runs)
  BY <1>5 DEF SaveBlockMapFile, SavedFile, FiledCount, CountDir
<1>7. SavedFile(t).dir[1] = t /\ SavedFile(t).dir[2] = call[t].launchId
  BY DEF SavedFile, MapFile
<1>8. SavedFile(t) \notin DOMAIN maps
  <2>1. Unmapped(call[t])
    BY <1>3, <1>4 DEF Unmapped, Counted, Launching
  <2> QED BY <1>7, <2>1 DEF MapsAreOld
<1> QED BY <1>1, <1>2, <1>3, <1>4, <1>6, <1>7, <1>8

\* The maps are still of launches there were, and the counts of their maps.
LEMMA StepMaps ==
    ASSUME KernelInv, KernelInv', MapsAreOld, NEW t \in Thread, FilesOf(t), LastIsOwn(t),
           Rests(t) \/ Begins(t) \/ RunDBITask(t) \/ Proceeds(t)
    PROVE  MapsAreOld'
<1>0. TypeOK
  BY DEF KernelInv
<1>1. \A u \in Thread : Len(launches[DeviceOf[u]]) <= Len(launches'[DeviceOf[u]])
                        /\ Len(launches[DeviceOf[u]]) \in Nat /\ Len(launches'[DeviceOf[u]]) \in Nat
  BY <1>0, Growth
<1>2. \A u \in Thread \ {t} : call'[u] = call[u]
  BY <1>0, Resting, Beginning, Proceeding, Courses DEF GoesOn
<1>3. \/ ~Unmapped(call'[t])
      \/ call'[t].launchId = Len(launches[DeviceOf[t]])
      \/ call'[t].launchId = call[t].launchId /\ Unmapped(call[t])
  <2>1. CASE Rests(t)
    BY <1>0, <2>1, Resting DEF Unmapped, Launching
  <2>2. CASE Begins(t)
    BY <1>0, <2>2, Beginning
  <2>3. CASE RunDBITask(t)
    <3>1. GoesOn(t) /\ call'[t].todo = call[t].todo /\ call[t].pc = "task"
      BY <1>0, <2>3, Courses, TaskOutcomes
    <3> QED BY <3>1 DEF GoesOn, Unmapped, Counted
  <2>4. CASE Proceeds(t)
    BY <1>0, <2>4, Proceeding DEF GoesOn
  <2> QED BY <2>1, <2>2, <2>3, <2>4
<1>4. ASSUME NEW file \in DOMAIN maps
      PROVE  /\ file.dir[2] < Len(launches'[DeviceOf[file.dir[1]]])
             /\ Unmapped(call'[file.dir[1]]) => file.dir[2] # call'[file.dir[1]].launchId
  <2>1. /\ file.dir[1] \in Thread /\ file.dir[2] \in Nat
        /\ file.dir[2] < Len(launches[DeviceOf[file.dir[1]]])
        /\ Unmapped(call[file.dir[1]]) => file.dir[2] # call[file.dir[1]].launchId
    BY <1>0, FileFacts DEF MapsAreOld
  <2>2. ASSUME NEW u \in Thread, NEW n \in Nat, n < Len(launches[DeviceOf[u]]),
               Unmapped(call[u]) => n # call[u].launchId
        PROVE  n < Len(launches'[DeviceOf[u]]) /\ (Unmapped(call'[u]) => n # call'[u].launchId)
    BY <1>1, <1>2, <1>3, <2>2
  <2> QED BY <2>1, <2>2
<1>5. CASE UNCHANGED <<maps, extras>>
  BY <1>4, <1>5 DEF MapsAreOld
<1>6. CASE SaveBlockMapFile(t)
  <2> DEFINE new == SavedFile(t)
  <2>1. /\ maps' = With(maps, new, call[t].runs) /\ new \notin DOMAIN maps /\ UNCHANGED extras
        /\ new.dir[1] = t /\ new.dir[2] = call[t].launchId /\ call'[t].pc = "measure"
    BY <1>0, <1>6, Saving
  <2> HIDE DEF new
  <2>2. DOMAIN maps' = {new} \cup DOMAIN maps /\ \A file \in DOMAIN maps : maps'[file] = maps[file]
    BY <2>1 DEF With
  <2>3. call[t].launchId < Len(launches'[DeviceOf[t]]) /\ ~Unmapped(call'[t])
    <3>1. call[t].launchId < Len(launches[DeviceOf[t]]) /\ call[t].launchId \in Nat
      BY <1>0, <1>6 DEF SaveBlockMapFile, CountReplaced, FilesOf, Numbered, Launching, TypeOK, CallOK, Call
    <3> QED BY <1>1, <2>1, <3>1 DEF Unmapped
  <2> QED BY <1>0, <1>4, <2>1, <2>2, <2>3, FileFacts DEF MapsAreOld
<1>7. CASE GenBBcountFile(t)
  <2> DEFINE last == LastFile(t)
  <2>1. /\ UNCHANGED maps
        /\ extras' = extras \/ extras' = With(extras, last, call[t].runs)
        /\ last \in DOMAIN maps /\ maps[last] = call[t].runs
    BY <1>7 DEF GenBBcountFile, counters, LastIsOwn
  <2> HIDE DEF last
  <2>2. \A file \in DOMAIN extras' : file \in DOMAIN maps /\ maps[file] = extras'[file]
    BY <1>0, <2>1, FileFacts DEF With
  <2> QED BY <1>4, <2>1, <2>2 DEF MapsAreOld
<1>8. ~SaveBlockMapFile(t) /\ ~GenBBcountFile(t) => UNCHANGED <<maps, extras>>
  <2>1. Loading(t) \/ CreateContext(t) \/ Gets(t) \/ Unloads(t) \/ RunOrigin(t)
            => UNCHANGED <<maps, extras>>
    BY DEF Loading, BinaryLoad, CreateContext, Gets, GetFunction, Unloads, BinaryUnLoad, RunOrigin,
           filed, counters
  <2>2. Begins(t) \/ RunDBITask(t) => UNCHANGED <<maps, extras>>
    BY DEF Begins, Launch, RunDBITask, filed, counters
  <2>3. Proceeds(t) /\ ~SaveBlockMapFile(t) => UNCHANGED <<maps, extras>>
    BY <1>0, Proceeding
  <2> QED BY <2>1, <2>2, <2>3 DEF Rests
<1> QED BY <1>5, <1>6, <1>7, <1>8

\* Saving the map of one launch leaves the last file of another's registration.
LEMMA SavingApart ==
    ASSUME KernelInv, CountsApart, MapsAreOld, NEW t \in Thread, FilesOf(t), SaveBlockMapFile(t),
           NEW u \in Thread \ {t}, LastIsOwn(u)
    PROVE  LastIsOwn(u)'
<1>0. TypeOK /\ NumbersTell /\ call'[u] = call[u] /\ u # t
  BY Courses DEF KernelInv, GoesOn
<1>1. CASE ~(call[u].pc = "measure" \/ Counted(call[u]))
  BY <1>0, <1>1 DEF LastIsOwn, Counted
<1>2. CASE call[u].pc = "measure" \/ Counted(call[u])
  <2> DEFINE reg == call[t].ctx.reg
             mine == call[u].ctx.reg
  <2>1. Counts(call[t].todo) /\ call[t].pc \in Launching /\ call[u].pc \in Launching
    BY <1>0, <1>2, Saving DEF Counted, Launching, SaveBlockMapFile, CountReplaced
  <2>2. Counts(call[u].todo)
    <3>1. Head(call[u].todo) = "BB_COUNT"
      BY <1>2 DEF LastIsOwn, Counted
    <3>2. call[u].todo \in Todo /\ call[u].todo # <<>>
      BY <1>0, <1>2 DEF Call, TypeOK, CallOK, InTask, Counted
    <3> QED BY <3>1, <3>2, TodoFacts DEF Counts
  <2>3. reg # mine
    BY <1>0, <2>1, <2>2 DEF CountsApart
  <2>4. /\ reg \in RegContext /\ mine \in RegContext /\ Known(reg) /\ Known(mine)
    <3>1. call[t].ctx \in FuncContext /\ call[u].ctx \in FuncContext
      BY <2>1 DEF KernelInv, LaunchesOwn
    <3> QED BY <3>1, NoneAssumption DEF FuncContext, Known
  <2>5. reg.regId # mine.regId
    BY <1>0, <2>3, <2>4 DEF NumbersTell
  <2>6. /\ mine.regId \in DOMAIN lastLaunchId' <=> mine.regId \in DOMAIN lastLaunchId
        /\ mine.regId \in DOMAIN lastLaunchId => lastLaunchId'[mine.regId] = lastLaunchId[mine.regId]
    <3>1. lastLaunchId' = With(lastLaunchId, reg.regId, NextCount(reg.regId))
      BY <1>0, Saving
    <3> HIDE DEF reg, mine
    <3> QED BY <2>5, <3>1 DEF With
  <2>7. LastFile(u)' = LastFile(u)
    BY <1>0, <2>6 DEF LastFile, MapFile
  <2>8. LastFile(u) \in DOMAIN maps /\ maps[LastFile(u)] = call[u].runs
    BY <1>2 DEF LastIsOwn
  <2>9. LastFile(u) \in DOMAIN maps' /\ maps'[LastFile(u)] = maps[LastFile(u)]
    <3> DEFINE new == SavedFile(t)  last == LastFile(u)
    <3>1. maps' = With(maps, new, call[t].runs) /\ new \notin DOMAIN maps
      BY <1>0, Saving
    <3> HIDE DEF new, last
    <3>2. last \in DOMAIN maps
      BY <2>8 DEF last
    <3>3. last \in DOMAIN maps' /\ maps'[last] = maps[last]
      BY <3>1, <3>2 DEF With
    <3> QED BY <3>3 DEF last
  <2> QED BY <1>0, <2>7, <2>8, <2>9 DEF LastIsOwn, Counted
<1> QED BY <1>1, <1>2

\* A launch in the middle of its count still has its file.
LEMMA StepLast ==
    ASSUME KernelInv, CountsApart, MapsAreOld, NEW t \in Thread, FilesOf(t),
           \A u \in Thread : LastIsOwn(u),
           Rests(t) \/ Begins(t) \/ RunDBITask(t) \/ Proceeds(t),
           NEW u \in Thread
    PROVE  LastIsOwn(u)'
<1>0. TypeOK
  BY DEF KernelInv
<1>1. ~SaveBlockMapFile(t) => UNCHANGED <<lastLaunchId, maps>>
  <2>1. Begins(t) \/ RunDBITask(t) => UNCHANGED <<lastLaunchId, maps>>
    BY DEF Begins, Launch, RunDBITask, filed, counters
  <2> QED BY <1>0, <2>1, Resting, Proceeding
<1>2. CASE u # t
  <2>1. call'[u] = call[u]
    BY <1>0, <1>2, Resting, Beginning, Proceeding, Courses DEF GoesOn
  <2>2. CASE ~SaveBlockMapFile(t)
    <3>1. LastFile(u)' = LastFile(u)
      BY <1>1, <2>1, <2>2 DEF LastFile, MapFile
    <3> QED BY <1>1, <2>1, <2>2, <3>1 DEF LastIsOwn, Counted
  <2> QED BY <1>2, <2>2, SavingApart
<1>3. CASE u = t /\ SaveBlockMapFile(t)
  <2>1. /\ maps' = With(maps, SavedFile(t), call[t].runs)
        /\ lastLaunchId' = With(lastLaunchId, call[t].ctx.reg.regId,
                                NextCount(call[t].ctx.reg.regId))
        /\ Head(call[t].todo) = "BB_COUNT" /\ call'[t].pc = "measure"
        /\ call'[t].todo = call[t].todo /\ call'[t].runs = call[t].runs
        /\ call'[t].ctx = call[t].ctx /\ call'[t].launchId = call[t].launchId
    BY <1>0, <1>3, Saving DEF GoesOn
  <2>2. /\ call[t].ctx.reg.regId \in DOMAIN lastLaunchId'
        /\ lastLaunchId'[call[t].ctx.reg.regId] = NextCount(call[t].ctx.reg.regId)
    <3> DEFINE id == call[t].ctx.reg.regId  next == NextCount(id)
    <3>1. lastLaunchId' = With(lastLaunchId, id, next)
      BY <2>1
    <3> HIDE DEF id, next
    <3>2. id \in DOMAIN lastLaunchId' /\ lastLaunchId'[id] = next
      BY <3>1 DEF With
    <3> QED BY <3>2 DEF id, next
  <2>3. LastFile(t)' = SavedFile(t)
    BY <2>1, <2>2 DEF LastFile, SavedFile, MapFile
  <2>4. SavedFile(t) \in DOMAIN maps' /\ maps'[SavedFile(t)] = call[t].runs
    <3> DEFINE new == SavedFile(t)
    <3>1. maps' = With(maps, new, call[t].runs)
      BY <2>1
    <3> HIDE DEF new
    <3>2. new \in DOMAIN maps' /\ maps'[new] = call[t].runs
      BY <3>1 DEF With
    <3> QED BY <3>2 DEF new
  <2> QED BY <1>3, <2>1, <2>3, <2>4 DEF LastIsOwn, Counted
<1>4. CASE u = t /\ GetMemSize(t)
  <2>1. /\ LastFile(t) \in DOMAIN maps /\ maps[LastFile(t)] = call[t].runs
        /\ call[t].pc = "measure"
    BY <1>4 DEF LastIsOwn, GetMemSize
  <2>2. /\ GoesOn(t) /\ call'[t].pc = "stub" /\ call'[t].runs = call[t].runs
        /\ call'[t].map = maps[LastFile(t)] /\ UNCHANGED <<lastLaunchId, maps>>
    <3>1. call'[t].map = maps[LastFile(t)] /\ UNCHANGED <<lastLaunchId, maps>>
      BY <1>0, <1>4, <2>1 DEF GetMemSize, TypeOK, CallOK, Call, filed, counters
    <3> QED BY <1>0, <1>4, <3>1, Courses
  <2>3. LastFile(t)' = LastFile(t)
    BY <2>2 DEF LastFile, MapFile, GoesOn
  <2> QED BY <1>4, <2>1, <2>2, <2>3 DEF LastIsOwn
<1>5. CASE u = t /\ ~SaveBlockMapFile(t) /\ ~GetMemSize(t)
  <2>1. call'[t].pc # "measure" /\ ~Counted(call'[t])
    <3>1. CASE Rests(t)
      BY <1>0, <3>1, Resting DEF Counted
    <3>2. CASE Begins(t)
      <4>1. call'[t].pc \in {"plain", "append"}
        BY <1>0, <3>2, Beginning
      <4> QED BY <4>1 DEF Counted
    <3>3. CASE RunDBITask(t)
      <4>1. CASE Reused(t) \/ Made(t)
        <5>1. call'[t].pc = "replaced"
          BY <1>0, <4>1 DEF Reused, Made, TypeOK, CallOK, Call
        <5> QED BY <5>1 DEF Counted
      <4>2. CASE Unmade(t)
        <5>1. call'[t].pc = "failed"
          BY <1>0, <4>2 DEF Unmade, TypeOK, CallOK, Call
        <5> QED BY <5>1 DEF Counted
      <4> QED BY <1>0, <3>3, <4>1, <4>2, TaskOutcomes
    <3>4. CASE Proceeds(t)
      BY <1>0, <1>5, <3>4, Proceeding
    <3> QED BY <3>1, <3>2, <3>3, <3>4
  <2> QED BY <1>5, <2>1 DEF LastIsOwn
<1> QED BY <1>2, <1>3, <1>4, <1>5

\* When the blocks of one binary are counted by one thread at a time, one thread
\* loads, and everything it loads is registered, the counters of a launch are sized
\* by the map of its own kernel and are filed under the name of the map that tells
\* what they count (BBCountDumper.cpp:50-121, 205-232).
THEOREM OwnBlocks ==
    ASSUME OneLoader, AllRegistered, Shared = FALSE
    PROVE  Spec => []CountsItsOwnBlocks
<1>1. Init => FileInv
  <2> SUFFICES ASSUME Init PROVE FileInv
    OBVIOUS
  <2>1. \A t \in Thread : /\ call[t].pc = "idle" /\ call[t].todo = <<>>
                          /\ DOMAIN taskPool[t] = {} /\ DOMAIN outputs[t] = {}
    BY DEF Init, Idle
  <2>2. ~Counts(<<>>)
    BY DEF Counts, Range
  <2>3. \A t \in Thread : FilesOf(t) /\ LastIsOwn(t)
    BY <2>1 DEF FilesOf, Numbered, Launching, DirsAreOld, DirsAreOwn, CountDirIsOwn, CountReplaced,
                LastIsOwn, Counted
  <2>4. DOMAIN maps = {} /\ DOMAIN extras = {}
    BY DEF Init
  <2> QED BY <2>1, <2>2, <2>3, <2>4 DEF FileInv, CountsApart, MapsAreOld
<1>2. KernelInv /\ KernelInv' /\ FileInv /\ [Next]_vars => FileInv'
  <2> SUFFICES ASSUME KernelInv, KernelInv', FileInv, [Next]_vars PROVE FileInv'
    OBVIOUS
  <2>1. CASE UNCHANGED vars
    BY <2>1 DEF vars, history, tasks, filed, counters, FileInv, CountsApart, FilesOf, Numbered,
                DirsAreOld, IsOld, DirsAreOwn, TaskDir, CountDirIsOwn, CountReplaced, CountDir,
                MapsAreOld, LastIsOwn, LastFile, MapFile
  <2>2. CASE Next
    <3>1. PICK t \in Thread : Rests(t) \/ Begins(t) \/ RunDBITask(t) \/ Proceeds(t)
      BY <2>2, StepsOfThreads
    <3>2. /\ TypeOK /\ CountsApart /\ MapsAreOld
          /\ \A u \in Thread : FilesOf(u) /\ LastIsOwn(u)
      BY DEF KernelInv, FileInv
    <3>3. CountsApart'
      BY <3>1, <3>2, StepApart
    <3>4. \A u \in Thread : FilesOf(u)'
      BY <3>1, <3>2, OwnFiles, OthersFiles
    <3>5. MapsAreOld'
      BY <3>1, <3>2, StepMaps
    <3>6. \A u \in Thread : LastIsOwn(u)'
      BY <3>1, <3>2, StepLast
    <3> QED BY <3>3, <3>4, <3>5, <3>6 DEF FileInv
  <2> QED BY <2>1, <2>2
<1>3. FileInv => CountsItsOwnBlocks
  BY DEF FileInv, CountsItsOwnBlocks, LastIsOwn, MapsAreOld
<1>4. Spec => []KernelInv
  BY InitKernel, StepKernel, PTL DEF Spec
<1> QED BY <1>1, <1>2, <1>3, <1>4, PTL DEF Spec
=============================================================================
