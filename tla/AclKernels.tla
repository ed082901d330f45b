---------------------------- MODULE AclKernels ----------------------------
(***************************************************************************)
(* The kernels of the acl layer from their registration to an instrumented *)
(* launch: RegisterManager and FuncManager follow what the application     *)
(* loads, LaunchManager numbers the launches of a device, DBITask gives a  *)
(* launch an instrumented copy of its function, which a thread keeps and   *)
(* uses again, and BBCountDumper files the basic-block map of each copy.   *)
(*                                                                         *)
(* The library may give the handle of a binary or a function that is gone  *)
(* to a new one; no hook sees a binary go.  A copy is a value of its own   *)
(* here: what it was made of, and for which task.                          *)
(***************************************************************************)
EXTENDS Integers, Sequences, FiniteSets, SequencesExt, Functions

CONSTANTS Thread, Loader,         \* the threads, and those that load binaries
          Device, DeviceOf,       \* the device each thread has set
          Code, Name,             \* binaries, and the functions in them
          BinHandle, FuncHandle,  \* the handles the library gives out
          Unnamed,                \* functions whose symbol has no known suffix
          Kinds,                  \* the interfaces binaries are loaded through
          MayFail,                \* steps that may fail
          Shared,                 \* threads count blocks of one binary at once
          Loads, Launches,        \* bounds
          None

ASSUME ThreadAssumption == Loader \subseteq Thread /\ DeviceOf \in [Thread -> Device]

RegContext == [code : Code, regId : Nat, symbols : SUBSET Name]
FuncContext == [reg : RegContext, name : Name \cup {None}]
ASSUME NoneAssumption ==
    None \notin Code \cup Name \cup BinHandle \cup FuncHandle \cup RegContext \cup FuncContext

-----------------------------------------------------------------------------
VARIABLES binaries,      \* library: the code at each binary handle
          functions,     \* library: the function at each function handle
          regContexts,   \* RegisterManager::contexts_
          currentRegId,
          funcContexts,  \* FuncManager::contexts_
          launches,      \* LaunchManager::contexts_ of each device
          memInfoHistory,
          taskPool,      \* DBITaskFactory::taskPool_ of each thread
          keepOutputs,   \* DBITaskConfig::keepTaskOutputs_ of each thread
          outputs,       \* the task directories of each thread
          lastLaunchId,  \* BBCountDumper::lastLaunchId_
          maps,          \* the block maps that were filed
          extras,        \* the counts that were filed, by the names of their maps
          call, nr

library == <<binaries, functions>>
registry == <<regContexts, currentRegId, funcContexts>>
history == <<launches, memInfoHistory>>
tasks == <<taskPool, keepOutputs, outputs>>
counters == <<lastLaunchId, maps>>
filed == <<counters, extras>>
vars == <<library, registry, history, tasks, filed, call, nr>>

Type == {"CUSTOMIZE", "BB_COUNT"}
Stub(ctx, type) == [code |-> ctx.reg.code, name |-> ctx.name, type |-> type]
Original(f) == [code |-> binaries[functions[f].bin], name |-> functions[f].name, type |-> "none"]

Idle == [pc |-> "idle", bin |-> None, code |-> None, kind |-> "file", regId |-> 0, func |-> None,
         ctx |-> None, launchId |-> 0, todo |-> <<>>, runs |-> None, map |-> None]

Init ==
    /\ binaries = [h \in BinHandle |-> None] /\ functions = [f \in FuncHandle |-> None]
    /\ regContexts = [h \in BinHandle |-> None] /\ currentRegId = 0
    /\ funcContexts = [f \in FuncHandle |-> None]
    /\ launches = [d \in Device |-> <<>>] /\ memInfoHistory = [d \in Device |-> <<>>]
    /\ taskPool = [t \in Thread |-> <<>>] /\ keepOutputs = [t \in Thread |-> FALSE]
    /\ outputs = [t \in Thread |-> <<>>]
    /\ lastLaunchId = <<>> /\ maps = <<>> /\ extras = <<>>
    /\ call = [t \in Thread |-> Idle] /\ nr = [t \in Thread |-> [loads |-> 0, launches |-> 0]]

May(what) == {TRUE} \cup IF what \in MayFail THEN {FALSE} ELSE {}
\* The table f with value at x.
With(f, x, value) == [y \in {x} \cup DOMAIN f |-> IF y = x THEN value ELSE f[y]]

-----------------------------------------------------------------------------
(* Loading.                                                                *)

\* aclrtBinaryLoad, ...FromFile or ...FromData succeeds, and Post takes the
\* next id; a file with the suffix .json is left alone.
BinaryLoad(t, h, c, kind) ==
    /\ t \in Loader /\ call[t].pc = "idle" /\ nr[t].loads < Loads
    /\ binaries[h] = None
    /\ kind = "data" => \A u \in Thread : call[u].pc = "register" => call[u].kind # "data"
    /\ binaries' = [binaries EXCEPT ![h] = c]
    /\ call' = [call EXCEPT ![t] = IF kind = "json" THEN Idle
                                   ELSE [Idle EXCEPT !.pc = "register", !.bin = h, !.code = c,
                                                     !.kind = kind, !.regId = currentRegId]]
    /\ nr' = [nr EXCEPT ![t].loads = @ + 1]
    /\ UNCHANGED <<functions, registry, history, tasks, filed>>

\* What llvm-objdump lists; it may fail to run.
GetSymInfoFromBinary ==
    {[ok |-> ok, symbols |-> IF ok THEN Name ELSE {}] : ok \in May("Init")}

RegisterContextInit(code, regId, info) ==
    [code |-> code, regId |-> regId, symbols |-> info.symbols]

\* RegisterManager::CreateContext once the binary is parsed.
CreateContext(t) ==
    /\ call[t].pc = "register"
    /\ \E info \in GetSymInfoFromBinary :
          IF info.ok
          THEN /\ currentRegId' = currentRegId + 1
               /\ regContexts' = [regContexts EXCEPT ![call[t].bin] =
                                     RegisterContextInit(call[t].code, call[t].regId, info)]
          ELSE UNCHANGED <<currentRegId, regContexts>>
    /\ call' = [call EXCEPT ![t] = Idle]
    /\ UNCHANGED <<library, funcContexts, history, tasks, filed, nr>>

\* The name of the function with a tiling key, looked up by its suffix.
GetKernelName(reg, n) == IF n \in reg.symbols \ Unnamed THEN n ELSE None

\* aclrtBinaryGetFunction and ...ByEntry.
GetFunction(t, h, n, byEntry, f) ==
    /\ t \in Loader /\ call[t].pc = "idle"
    /\ binaries[h] # None /\ functions[f] = None
    /\ \A g \in FuncHandle : functions[g] # [bin |-> h, name |-> n]
    /\ functions' = [functions EXCEPT ![f] = [bin |-> h, name |-> n]]
    /\ funcContexts' =
          IF regContexts[h] = None THEN funcContexts
          ELSE [funcContexts EXCEPT ![f] =
                   [reg |-> regContexts[h],
                    name |-> IF byEntry THEN GetKernelName(regContexts[h], n) ELSE n]]
    /\ UNCHANGED <<binaries, regContexts, currentRegId, history, tasks, filed, call, nr>>

\* No hook: the application unloads a binary none of its launches uses.
BinaryUnLoad(t, h) ==
    /\ t \in Loader /\ call[t].pc = "idle" /\ binaries[h] # None
    /\ \A u \in Thread :
          /\ call[u].func # None => functions[call[u].func].bin # h
          /\ call[u].bin # h
    /\ binaries' = [binaries EXCEPT ![h] = None]
    /\ functions' = [f \in FuncHandle |-> IF functions[f] # None /\ functions[f].bin = h
                                          THEN None ELSE functions[f]]
    /\ UNCHANGED <<registry, history, tasks, filed, call, nr>>

-----------------------------------------------------------------------------
(* A launch: its number, its context, its entry in the memory history.     *)

\* The blocks of one binary are counted by one thread at a time, unless the
\* application does otherwise.
Counts(todo) == "BB_COUNT" \in Range(todo)
MayCount(t, ctx, todo) ==
    \/ Shared \/ ~Counts(todo) \/ ctx = None
    \/ \A u \in Thread \ {t} : Counts(call[u].todo) => call[u].ctx.reg # ctx.reg

Launch(t, f, todo) ==
    /\ call[t].pc = "idle" /\ nr[t].launches < Launches
    /\ functions[f] # None
    /\ MayCount(t, funcContexts[f], todo)
    /\ call' = [call EXCEPT ![t] =
                   [Idle EXCEPT !.func = f, !.ctx = funcContexts[f], !.todo = todo,
                                !.launchId = Len(launches[DeviceOf[t]]),
                                !.pc = IF funcContexts[f] = None THEN "plain" ELSE "append"]]
    /\ nr' = [nr EXCEPT ![t].launches = @ + 1]
    /\ UNCHANGED <<library, registry, history, tasks, filed>>

LaunchOf(t) == <<t, nr[t].launches>>
AppendContext(t) ==
    /\ call[t].pc = "append"
    /\ launches' = [launches EXCEPT ![DeviceOf[t]] = Append(@, LaunchOf(t))]
    /\ call' = [call EXCEPT ![t].pc = "archive"]
    /\ UNCHANGED <<library, registry, memInfoHistory, tasks, filed, nr>>

Archived_instrumented(t) ==
    IF call[t].todo = <<>> THEN memInfoHistory[DeviceOf[t]]
    ELSE Append(memInfoHistory[DeviceOf[t]], LaunchOf(t))
Archived(t) == Append(memInfoHistory[DeviceOf[t]], LaunchOf(t))
ArchiveMemInfo(t) ==
    /\ call[t].pc = "archive"
    /\ memInfoHistory' = [memInfoHistory EXCEPT ![DeviceOf[t]] = Archived(t)]
    /\ call' = [call EXCEPT ![t].pc = IF call[t].todo = <<>> THEN "plain" ELSE "task"]
    /\ UNCHANGED <<library, registry, launches, tasks, filed, nr>>

\* The memory LaunchContext::Save writes, or nothing for a number that is not in
\* the history of the device.
Save(t) ==
    LET saved == memInfoHistory[DeviceOf[t]]
    IN  IF call[t].launchId < Len(saved) THEN saved[call[t].launchId + 1] ELSE None

-----------------------------------------------------------------------------
(* The instrumented copy.                                                  *)

TaskKey_nameOnly(ctx, type) == [regId |-> 0, name |-> ctx.name, type |-> type]
TaskKey(ctx, type) == [regId |-> ctx.reg.regId, name |-> ctx.name, type |-> type]
OutputDir(launchId, type) == [launchId |-> launchId, type |-> type]

HasTask(t, key) == key \in DOMAIN taskPool[t]
NeedConvert(t, key) ==
    \/ ~HasTask(t, key)
    \/ /\ keepOutputs'[t]
       /\ OutputDir(taskPool[t][key].launchId, key.type) \notin DOMAIN outputs[t]

\* What is there already is not linked over.
Linked(t, key, launchId) ==
    LET dir == OutputDir(launchId, key.type)
    IN  IF dir \in DOMAIN outputs[t] THEN outputs[t]
        ELSE With(outputs[t], dir, outputs[t][OutputDir(taskPool[t][key].launchId, key.type)])

ReuseConverted(t, key, launchId) ==
    /\ outputs' = IF keepOutputs'[t] THEN [outputs EXCEPT ![t] = Linked(t, key, launchId)]
                  ELSE outputs
    /\ call' = [call EXCEPT ![t].runs = taskPool[t][key].stub, ![t].pc = "replaced"]
    /\ UNCHANGED taskPool

\* The task keeps what it made, and the launch it made it in.
Converted(t, key, ctx, launchId) ==
    With(taskPool[t], key, [stub |-> Stub(ctx, key.type), launchId |-> launchId])

\* RegisterContext::Clone loads the copy the way the application loaded the
\* binary, from its file or from data; the copy keeps the id of the binary.
Clone(ctx, type) ==
    {IF loaded THEN Stub(ctx, type) ELSE None : loaded \in May("Clone")}

\* A directory that is not kept goes when Run returns; one that is kept holds
\* what was made, also if it could not be loaded.
Convert(t, key, ctx, launchId) ==
    \E made \in May("Convert"), copy \in Clone(ctx, key.type) :
        LET runs == IF made THEN copy ELSE None
        IN  /\ taskPool' = IF runs # None
                           THEN [taskPool EXCEPT ![t] = Converted(t, key, ctx, launchId)]
                           ELSE taskPool
            /\ outputs' = IF keepOutputs'[t]
                          THEN [outputs EXCEPT ![t] = With(@, OutputDir(launchId, key.type),
                                   IF made THEN Stub(ctx, key.type) ELSE None)]
                          ELSE outputs
            /\ call' = [call EXCEPT ![t].runs = runs,
                                    ![t].pc = IF runs # None THEN "replaced" ELSE "failed"]

\* InitDBITaskConfig of BBCountDumper: from then on the thread keeps the
\* directories of all its tasks.
InitDBITaskConfig(t, type) ==
    keepOutputs' = IF type = "BB_COUNT" THEN [keepOutputs EXCEPT ![t] = TRUE] ELSE keepOutputs

RunDBITask(t) ==
    LET type == Head(call[t].todo)
        key == TaskKey(call[t].ctx, type)
    IN  /\ call[t].pc = "task"
        /\ InitDBITaskConfig(t, type)
        /\ IF NeedConvert(t, key) THEN Convert(t, key, call[t].ctx, call[t].launchId)
           ELSE ReuseConverted(t, key, call[t].launchId)
        /\ UNCHANGED <<library, registry, history, filed, nr>>

-----------------------------------------------------------------------------
(* The block map of a counted launch.                                      *)

MapFile(t, regId, count) == [dir |-> <<t, call[t].launchId>>, regId |-> regId, count |-> count]
NextCount(regId) == IF regId \in DOMAIN lastLaunchId THEN lastLaunchId[regId] + 1 ELSE 0

FiledCount_before(regId) == IF regId \in DOMAIN lastLaunchId THEN lastLaunchId[regId] ELSE 0
FiledCount(regId) == NextCount(regId)

\* BBCountDumper::Replace has run the task.
CountReplaced(t) == call[t].pc = "replaced" /\ Head(call[t].todo) = "BB_COUNT"

\* SaveBlockMapFile copies it out of the task's directory, if it is there.
SaveBlockMapFile(t) ==
    LET regId == call[t].ctx.reg.regId
        dir == OutputDir(call[t].launchId, "BB_COUNT")
    IN  /\ CountReplaced(t)
        /\ IF dir \in DOMAIN outputs[t]
           THEN /\ lastLaunchId' = With(lastLaunchId, regId, NextCount(regId))
                /\ maps' = With(maps, MapFile(t, regId, FiledCount(regId)), outputs[t][dir])
           ELSE UNCHANGED counters
        /\ call' = [call EXCEPT ![t].pc = "measure"]
        /\ UNCHANGED <<library, registry, history, tasks, extras, nr>>

\* The file of the last count, read back without the lock.
LastFile(t) ==
    LET regId == call[t].ctx.reg.regId
    IN  MapFile(t, regId, IF regId \in DOMAIN lastLaunchId THEN lastLaunchId[regId] ELSE 0)

GetMemSize(t) ==
    /\ call[t].pc = "measure"
    /\ call' = [call EXCEPT ![t].pc = "stub",
                            ![t].map = IF LastFile(t) \in DOMAIN maps THEN maps[LastFile(t)]
                                       ELSE None]
    /\ UNCHANGED <<library, registry, history, tasks, filed, nr>>

\* InstrProfData runs the copy and waits for it.
Replace(t) ==
    /\ call[t].pc = "replaced" /\ Head(call[t].todo) = "CUSTOMIZE"
    /\ call' = [call EXCEPT ![t].pc = "stub"]
    /\ UNCHANGED <<library, registry, history, tasks, filed, nr>>

\* The next task starts from the application's function again.
Counted(c) == c.pc = "stub" /\ Head(c.todo) = "BB_COUNT"
RunStub(t) ==
    /\ call[t].pc \in {"stub", "failed"} /\ ~Counted(call[t])
    /\ call' = [call EXCEPT ![t] =
                   [call[t] EXCEPT !.todo = Tail(@), !.runs = None, !.map = None,
                             !.pc = IF Len(call[t].todo) > 1 THEN "task" ELSE "plain"]]
    /\ UNCHANGED <<library, registry, history, tasks, filed, nr>>

\* A counted copy runs in place of the application's launch, and is waited for.
\* GenExtraAndReturnName copies the counters from the device, if there are any
\* for the size that was read, and files them under the last count.
CopiesCounters(t) == call[t].map # None
GenBBcountFile(t) ==
    /\ Counted(call[t])
    /\ extras' = IF CopiesCounters(t) THEN With(extras, LastFile(t), call[t].runs) ELSE extras
    /\ call' = [call EXCEPT ![t] = Idle]
    /\ UNCHANGED <<library, registry, history, tasks, counters, nr>>

\* The application's launch itself.
RunOrigin(t) ==
    /\ call[t].pc = "plain"
    /\ call' = [call EXCEPT ![t] = Idle]
    /\ UNCHANGED <<library, registry, history, tasks, filed, nr>>

Todo == {<<>>, <<"CUSTOMIZE">>, <<"BB_COUNT">>, <<"CUSTOMIZE", "BB_COUNT">>}
Next ==
    \E t \in Thread :
        \/ \E h \in BinHandle, c \in Code, kind \in Kinds : BinaryLoad(t, h, c, kind)
        \/ CreateContext(t)
        \/ \E h \in BinHandle, n \in Name, f \in FuncHandle, byEntry \in BOOLEAN :
              GetFunction(t, h, n, byEntry, f)
        \/ \E h \in BinHandle : BinaryUnLoad(t, h)
        \/ \E f \in FuncHandle, todo \in Todo : Launch(t, f, todo)
        \/ AppendContext(t) \/ ArchiveMemInfo(t)
        \/ RunDBITask(t) \/ SaveBlockMapFile(t) \/ GetMemSize(t)
        \/ Replace(t) \/ RunStub(t) \/ GenBBcountFile(t) \/ RunOrigin(t)

Spec == Init /\ [][Next]_vars

-----------------------------------------------------------------------------
(* What must hold.                                                         *)

\* The copy a launch runs was made of the function the application launches,
\* for the task that runs it, whatever was at its handles before
\* (DBITask.cpp:45-63, 94-119, RegisterManager.cpp:70-128).
RunsItsOwnKernel ==
    \A t \in Thread :
        call[t].pc = "stub" =>
            call[t].runs = [Original(call[t].func) EXCEPT !.type = Head(call[t].todo)]

\* The counters of a launch are sized by the map of its own kernel, and what is
\* filed of them is filed under the name of the map that tells what they count
\* (BBCountDumper.cpp:50-121, 205-232).
CountsItsOwnBlocks ==
    /\ \A t \in Thread : Counted(call[t]) => call[t].map = call[t].runs
    /\ \A file \in DOMAIN extras : file \in DOMAIN maps /\ maps[file] = extras[file]

\* The memory a launch saves with its context is its own
\* (LaunchContext.cpp:57-90, LaunchManager.cpp:39-62).
SavesItsOwnMemory ==
    \A t \in Thread : call[t].pc = "task" => Save(t) = LaunchOf(t)
=============================================================================
