---------------------------- MODULE MemoryHooks ----------------------------
(***************************************************************************)
(* The sanitizer's memory hooks: what the tool is told of the memory the   *)
(* application allocates, frees, copies and shares with other processes.   *)
(* The functions of the acl layer call those of the rt layer, and both are *)
(* hooked; each thread keeps the acl functions it is in on a stack         *)
(* (core/HijackedLayerManager.cpp), and an rt hook called beneath the acl  *)
(* function that masks it stays silent.  The tool's own calls go through   *)
(* the Origin wrappers, which push the function and report nothing.        *)
(*                                                                         *)
(* A report reaches the tool in the order it is sent (LocalDevice, modelled*)
(* in CommServer); the answers to an IPC report change nothing (Interact). *)
(***************************************************************************)
EXTENDS Integers, Sequences, FiniteSets, SequencesExt

CONSTANTS Thread,
          Device, Virtual, Window,  \* addresses: of malloc, of map, of imported memory
          Key,                    \* names of shared memory
          MayFail,                \* functions whose driver call may fail
          Calls,                  \* bound on the calls of a thread
          NoAddr

Addr == Device \cup Virtual \cup Window
ASSUME AddressAssumption ==
    /\ Device \cap Virtual = {} /\ Window \cap (Device \cup Virtual) = {}
    /\ NoAddr \notin Addr \cup Key

-----------------------------------------------------------------------------
(* The hooks.  pre: what Pre reports; post: what Post reports, only after  *)
(* a success when it checks; caches: MemoryManage is told as well; api:    *)
(* "acl" functions are pushed on the stack; does: what the driver does.    *)

None == [name |-> "none", api |-> "rt", does |-> "nothing", pre |-> "none", post |-> "none",
         checks |-> TRUE, caches |-> FALSE]

rtMalloc == [None EXCEPT !.name = "rtMalloc", !.does = "malloc", !.post = "MALLOC", !.caches = TRUE]
rtFree == [None EXCEPT !.name = "rtFree", !.does = "free", !.pre = "FREE", !.caches = TRUE]
rtMapMem == [None EXCEPT !.name = "rtMapMem", !.does = "map", !.post = "MALLOC", !.checks = FALSE]
rtUnmapMem == [None EXCEPT !.name = "rtUnmapMem", !.does = "free", !.pre = "FREE"]
rtMemset == [None EXCEPT !.name = "rtMemset", !.does = "access", !.pre = "STORE"]
rtMemcpy == [None EXCEPT !.name = "rtMemcpy", !.does = "access", !.pre = "COPY"]
rtIpcSetMemoryName == [None EXCEPT !.name = "rtIpcSetMemoryName", !.does = "export", !.post = "SET"]
rtIpcOpenMemory == [None EXCEPT !.name = "rtIpcOpenMemory", !.does = "import", !.post = "MAP"]
rtIpcDestroyMemoryName ==
    [None EXCEPT !.name = "rtIpcDestroyMemoryName", !.does = "destroy", !.post = "DESTROY"]
rtIpcCloseMemory == [None EXCEPT !.name = "rtIpcCloseMemory", !.does = "close", !.post = "UNMAP"]

aclrtMallocImpl == [rtMalloc EXCEPT !.name = "aclrtMallocImpl", !.api = "acl"]
aclrtMallocWithCfgImpl == [rtMalloc EXCEPT !.name = "aclrtMallocWithCfgImpl", !.api = "unguarded"]
aclrtFreeImpl_post ==
    [rtFree EXCEPT !.name = "aclrtFreeImpl", !.api = "acl", !.pre = "none", !.post = "FREE"]
aclrtFreeImpl == [rtFree EXCEPT !.name = "aclrtFreeImpl", !.api = "acl"]
aclrtMapMemImpl == [rtMapMem EXCEPT !.name = "aclrtMapMemImpl", !.api = "acl", !.checks = TRUE]
aclrtUnmapMemImpl == [rtUnmapMem EXCEPT !.name = "aclrtUnmapMemImpl", !.api = "acl"]
aclrtMemsetImpl == [rtMemset EXCEPT !.name = "aclrtMemsetImpl", !.api = "acl"]
aclrtMemcpyImpl == [rtMemcpy EXCEPT !.name = "aclrtMemcpyImpl", !.api = "acl"]
aclrtIpcMemGetExportKeyImpl ==
    [rtIpcSetMemoryName EXCEPT !.name = "aclrtIpcMemGetExportKeyImpl", !.api = "acl", !.post = "aclSET"]
aclrtIpcMemImportByKeyImpl ==
    [rtIpcOpenMemory EXCEPT !.name = "aclrtIpcMemImportByKeyImpl", !.api = "acl",
                            !.post = "aclMAP", !.checks = FALSE]
aclrtIpcMemCloseImpl ==
    [None EXCEPT !.name = "aclrtIpcMemCloseImpl", !.api = "acl", !.does = "closeKey",
                 !.post = "aclCLOSE", !.checks = FALSE]

RtHook == {rtMalloc, rtFree, rtMapMem, rtUnmapMem, rtMemset, rtMemcpy, rtIpcSetMemoryName,
           rtIpcOpenMemory, rtIpcDestroyMemoryName, rtIpcCloseMemory}
AclHook == {aclrtMallocImpl, aclrtMallocWithCfgImpl, aclrtFreeImpl, aclrtMapMemImpl,
            aclrtUnmapMemImpl, aclrtMemsetImpl, aclrtMemcpyImpl, aclrtIpcMemGetExportKeyImpl,
            aclrtIpcMemImportByKeyImpl, aclrtIpcMemCloseImpl}
Hook == RtHook \cup AclHook
\* What the tool calls for itself while a hook of the application runs.
OwnCall == {[None EXCEPT !.name = h.name, !.api = "acl", !.does = h.does] :
               h \in {aclrtMallocImpl, aclrtFreeImpl, aclrtMemsetImpl, aclrtMemcpyImpl}}

AclToRuntimeMap ==
    [aclrtMallocImpl |-> {"rtMalloc"}, aclrtFreeImpl |-> {"rtFree"},
     aclrtMemsetImpl |-> {"rtMemset"}, aclrtMemcpyImpl |-> {"rtMemcpy"},
     aclrtMapMemImpl |-> {"rtMapMem"}, aclrtUnmapMemImpl |-> {"rtUnmapMem"},
     aclrtIpcMemGetExportKeyImpl |-> {"rtIpcSetMemoryName"},
     aclrtIpcMemImportByKeyImpl |-> {"rtIpcOpenMemory"},
     aclrtIpcMemCloseImpl |-> {"rtIpcDestroyMemoryName", "rtIpcCloseMemory"}]

-----------------------------------------------------------------------------
VARIABLES layers,   \* HijackedLayerManager::layers_ of each thread
          call,     \* the call each thread is in
          heap,     \* whose each address is: "free", "app" or "tool"
          shares,   \* the shared memory the application holds
          ipcMemInfoMap,
          allocated,    \* what the tool takes for allocated
          cached,       \* what MemoryManage takes for allocated
          known,        \* the shared memory the tool knows of
          overtaken,    \* keys opened where a close is yet to be told of
          nr            \* calls so far of each thread

vars == <<layers, call, heap, shares, ipcMemInfoMap, allocated, cached, known, overtaken, nr>>

Actor == {"SHARER", "SHAREE"}
Info(k, actor, a) == [key |-> k, actor |-> actor, addr |-> a]
Idle == [outer |-> None, inner |-> None, pc |-> "idle", addr |-> NoAddr, key |-> NoAddr,
         kind |-> "", own |-> FALSE, masked |-> FALSE, ok |-> TRUE, sent |-> 0]

Init ==
    /\ layers = [t \in Thread |-> <<>>] /\ call = [t \in Thread |-> Idle]
    /\ heap = [a \in Addr |-> "free"]
    /\ shares = {} /\ ipcMemInfoMap = <<>> /\ known = {} /\ overtaken = {}
    /\ allocated = {} /\ cached = {} /\ nr = [t \in Thread |-> 0]

\* HijackedLayerManager.
ParentInCallStack_anyThread(t, f) ==
    \E u \in Thread : \E g \in Range(layers[u]) :
        g \in DOMAIN AclToRuntimeMap /\ f \in AclToRuntimeMap[g]
ParentInCallStack(t, f) ==
    \E g \in Range(layers[t]) : g \in DOMAIN AclToRuntimeMap /\ f \in AclToRuntimeMap[g]

\* The rt function an acl function calls; a key is closed by its kind.
Beneath(h, key) ==
    CASE h.name = "aclrtIpcMemCloseImpl" ->
            IF \E s \in shares : s.info.key = key /\ s.info.actor = "SHARER"
            THEN rtIpcDestroyMemoryName ELSE rtIpcCloseMemory
      [] h.api = "acl" /\ h.name # "aclrtIpcMemCloseImpl" ->
            CHOOSE r \in RtHook : r.name \in AclToRuntimeMap[h.name]
      [] OTHER -> None

-----------------------------------------------------------------------------
(* Reports.                                                                *)

\* A copy stores to a device and loads from one; a memset stores where
\* IsMemoryOnDevice holds.
Stores(kind) == kind \in {"HOST_TO_DEVICE", "DEVICE_TO_DEVICE"}
Loads(kind) == kind \in {"DEVICE_TO_HOST", "DEVICE_TO_DEVICE"}
Accesses(kind) == {d \in {"STORE", "LOAD"} : IF d = "STORE" THEN Stores(kind) ELSE Loads(kind)}

Reported(c, n) == [c EXCEPT !.sent = @ + n]

FreeReported(h, c) ==
    /\ allocated' = allocated \ {c.addr}
    /\ cached' = IF h.caches THEN cached \ {c.addr} ELSE cached

MallocReported(h, c) ==
    /\ allocated' = allocated \cup {c.addr}
    /\ cached' = IF h.caches THEN cached \cup {c.addr} ELSE cached

\* Pre of h with the frame becoming c.
Pre(t, h, c) ==
    CASE h.pre = "FREE" -> FreeReported(h, c) /\ call' = [call EXCEPT ![t] = Reported(c, 1)]
      [] h.pre \in {"STORE", "COPY"} ->
            /\ UNCHANGED <<allocated, cached>>
            /\ call' = [call EXCEPT ![t] = Reported(c, Cardinality(Accesses(c.kind)))]
      [] OTHER -> UNCHANGED <<allocated, cached>> /\ call' = [call EXCEPT ![t] = c]

\* map::insert and erase.
Inserted(k, s) == IF k \in DOMAIN ipcMemInfoMap THEN ipcMemInfoMap
                  ELSE [x \in DOMAIN ipcMemInfoMap \cup {k} |->
                           IF x = k THEN s ELSE ipcMemInfoMap[x]]
Erased_not(k) == ipcMemInfoMap
Erased(k) == [x \in DOMAIN ipcMemInfoMap \ {k} |-> ipcMemInfoMap[x]]

SetInfo(k, a) == known' = known \cup {Info(k, "SHARER", a)}
MapInfo(k, a) == known' = known \cup {Info(k, "SHAREE", a)}
DestroyInfo(k) == known' = {s \in known : ~(s.key = k /\ s.actor = "SHARER")}
UnmapInfo(a) == known' = {s \in known : ~(s.addr = a /\ s.actor = "SHAREE")}

\* aclrtIpcMemCloseImpl: by the role kept for the key.
CloseReported(k) ==
    IF k \in DOMAIN ipcMemInfoMap
    THEN /\ ipcMemInfoMap' = Erased(k)
         /\ IF ipcMemInfoMap[k].actor = "SHARER" THEN DestroyInfo(k)
            ELSE UnmapInfo(ipcMemInfoMap[k].addr)
    ELSE UNCHANGED <<ipcMemInfoMap, known>>

\* Post of h in frame c, which becomes next.
Post(t, h, c, next) ==
    LET silent == h.post = "none" \/ (h.checks /\ ~c.ok) IN
    /\ call' = [call EXCEPT ![t] = IF silent THEN next ELSE Reported(next, 1)]
    /\ CASE silent -> UNCHANGED <<allocated, cached, known, ipcMemInfoMap>>
         [] ~silent /\ h.post = "MALLOC" -> MallocReported(h, c) /\ UNCHANGED <<known, ipcMemInfoMap>>
         [] ~silent /\ h.post = "FREE" -> FreeReported(h, c) /\ UNCHANGED <<known, ipcMemInfoMap>>
         [] ~silent /\ h.post \in {"SET", "aclSET"} ->
               /\ SetInfo(c.key, c.addr)
               /\ ipcMemInfoMap' = IF h.post = "SET" THEN ipcMemInfoMap
                                   ELSE Inserted(c.key, [actor |-> "SHARER", addr |-> c.addr])
               /\ UNCHANGED <<allocated, cached>>
         [] ~silent /\ h.post \in {"MAP", "aclMAP"} ->
               /\ MapInfo(c.key, c.addr)
               /\ ipcMemInfoMap' = IF h.post = "MAP" THEN ipcMemInfoMap
                                   ELSE Inserted(c.key, [actor |-> "SHAREE", addr |-> c.addr])
               /\ UNCHANGED <<allocated, cached>>
         [] ~silent /\ h.post = "DESTROY" ->
               DestroyInfo(c.key) /\ UNCHANGED <<allocated, cached, ipcMemInfoMap>>
         [] ~silent /\ h.post = "UNMAP" ->
               UnmapInfo(c.addr) /\ UNCHANGED <<allocated, cached, ipcMemInfoMap>>
         [] ~silent /\ h.post = "aclCLOSE" -> CloseReported(c.key) /\ UNCHANGED <<allocated, cached>>

-----------------------------------------------------------------------------
(* A call: into the acl hook, the rt hook beneath, the driver, and back.   *)

Busy(t) == call[t].pc # "idle"
Does(c) == IF c.inner # None THEN c.inner.does ELSE c.outer.does
Outermost(c) == IF c.outer # None THEN c.outer ELSE c.inner
Unused(x) == \A t \in Thread : Busy(t) => call[t].addr # x /\ call[t].key # x
Shared(a) == \E s \in shares : s.info.addr = a
Freed(S) == {a \in S : heap[a] = "free"}

\* What the application may ask of h: it frees and shares what it has, and
\* closes what it shares by the layer that opened it.
Asked(h, own) ==
    LET who == IF own THEN "tool" ELSE "app"
        mine(S) == {a \in S : heap[a] = who /\ Unused(a) /\ ~Shared(a)}
        opened(actors) == {s.info : s \in {x \in shares : /\ x.api = h.api
                                                        /\ x.info.actor \in actors
                                                        /\ Unused(x.info.key)}}
    IN CASE h.does = "malloc" -> {<<NoAddr, NoAddr, "">>}
         [] h.does = "map" ->
               {<<a, NoAddr, "">> : a \in {x \in Virtual : heap[x] = "free" /\ Unused(x)}}
         [] h.does = "free" ->
               {<<a, NoAddr, "">> : a \in mine(IF h.caches \/ own THEN Device ELSE Virtual)}
         [] h.does = "access" ->
               {<<NoAddr, NoAddr, kind>> :
                    kind \in IF h.pre = "STORE" THEN {"HOST_TO_HOST", "HOST_TO_DEVICE"}
                             ELSE {"HOST_TO_HOST", "HOST_TO_DEVICE", "DEVICE_TO_HOST",
                                   "DEVICE_TO_DEVICE"}}
         [] h.does = "export" -> {<<a, NoAddr, "">> : a \in mine(Device)}
         [] h.does = "import" ->
               {<<NoAddr, k, "">> : k \in {x \in Key : /\ Unused(x)
                                                     /\ \A s \in shares : s.info.key # x}}
         [] h.does = "closeKey" -> {<<i.addr, i.key, "">> : i \in opened(Actor)}
         [] h.does = "destroy" -> {<<i.addr, i.key, "">> : i \in opened({"SHARER"})}
         [] h.does = "close" -> {<<i.addr, i.key, "">> : i \in opened({"SHAREE"})}

Frame(x, own) == [Idle EXCEPT !.addr = x[1], !.key = x[2], !.kind = x[3], !.own = own]

CallAcl(t, h, own) ==
    /\ ~Busy(t) /\ nr[t] < Calls /\ nr' = [nr EXCEPT ![t] = @ + 1]
    /\ layers' = IF h.api = "acl" THEN [layers EXCEPT ![t] = <<h.name>> \o @] ELSE layers
    /\ \E x \in Asked(h, own) :
          Pre(t, h, [Frame(x, own) EXCEPT !.outer = h, !.pc = "beneath"])
    /\ UNCHANGED <<heap, shares, ipcMemInfoMap, known, overtaken>>

\* The wrapper of an rt function, with frame c.
EnterRt(t, h, c) ==
    LET masked == ParentInCallStack(t, h.name)
        next == [c EXCEPT !.inner = h, !.pc = "driver", !.masked = masked]
    IN IF masked THEN Pre(t, None, next) ELSE Pre(t, h, next)

CallRt(t, h) ==
    /\ ~Busy(t) /\ nr[t] < Calls /\ nr' = [nr EXCEPT ![t] = @ + 1]
    /\ \E x \in Asked(h, FALSE) : EnterRt(t, h, Frame(x, FALSE))
    /\ UNCHANGED <<layers, heap, shares, ipcMemInfoMap, known, overtaken>>

Descend(t) ==
    /\ call[t].pc = "beneath"
    /\ EnterRt(t, Beneath(call[t].outer, call[t].key), call[t])
    /\ UNCHANGED <<layers, heap, shares, ipcMemInfoMap, known, overtaken, nr>>

Becomes(t, c) == call' = [call EXCEPT ![t] = [c EXCEPT !.pc = "rtPost"]]

DriverFails(t) ==
    LET c == call[t] IN
    /\ c.pc = "driver"
    /\ \/ ~c.own /\ Outermost(c).name \in MayFail
       \/ Does(c) = "malloc" /\ Freed(Device) = {}
       \/ Does(c) = "export" /\ {k \in Key : Unused(k) /\ \A s \in shares : s.info.key # k} = {}
    /\ Becomes(t, [c EXCEPT !.ok = FALSE])
    /\ UNCHANGED <<layers, heap, shares, ipcMemInfoMap, allocated, cached, known, overtaken, nr>>

\* A thread closed the window at a and has not told the tool.
Untold(a) ==
    \E t \in Thread :
        call[t].addr = a /\ Does(call[t]) = "close" /\ call[t].pc \in {"rtPost", "aclPost"}

Shares(c, actor, k, a) == shares \cup {[api |-> Outermost(c).api, info |-> Info(k, actor, a)]}

Driver(t) ==
    LET c == call[t]
        give(a, who) == heap' = [heap EXCEPT ![a] = who]
    IN
    /\ c.pc = "driver"
    /\ CASE Does(c) = "malloc" ->
               \E a \in Freed(Device) :
                  give(a, IF c.own THEN "tool" ELSE "app")
                  /\ Becomes(t, [c EXCEPT !.addr = a]) /\ UNCHANGED shares
         [] Does(c) = "map" -> give(c.addr, "app") /\ Becomes(t, c) /\ UNCHANGED shares
         [] Does(c) = "free" -> give(c.addr, "free") /\ Becomes(t, c) /\ UNCHANGED shares
         [] Does(c) = "access" -> Becomes(t, c) /\ UNCHANGED <<heap, shares>>
         [] Does(c) = "export" ->
               \E k \in Key :
                  /\ Unused(k) /\ \A s \in shares : s.info.key # k
                  /\ shares' = Shares(c, "SHARER", k, c.addr)
                  /\ Becomes(t, [c EXCEPT !.key = k]) /\ UNCHANGED heap
         [] Does(c) = "import" ->
               \E a \in Freed(Window) :
                  /\ give(a, "shared") /\ shares' = Shares(c, "SHAREE", c.key, a)
                  /\ overtaken' = IF Untold(a) THEN overtaken \cup {c.key} ELSE overtaken \ {c.key}
                  /\ Becomes(t, [c EXCEPT !.addr = a])
         [] Does(c) \in {"destroy", "close"} ->
               /\ shares' = {s \in shares : s.info.key # c.key}
               /\ heap' = IF Does(c) = "close" THEN [heap EXCEPT ![c.addr] = "free"] ELSE heap
               /\ Becomes(t, c)
    /\ Does(c) # "import" => UNCHANGED overtaken
    /\ UNCHANGED <<layers, ipcMemInfoMap, allocated, cached, known, nr>>

LeaveRt(t) ==
    LET c == call[t]
        next == [c EXCEPT !.pc = IF c.outer = None THEN "returned" ELSE "aclPost"]
    IN
    /\ c.pc = "rtPost"
    /\ Post(t, IF c.masked THEN None ELSE c.inner, c, next)
    /\ UNCHANGED <<layers, heap, shares, overtaken, nr>>

LeaveAcl(t) ==
    /\ call[t].pc = "aclPost"
    /\ Post(t, call[t].outer, call[t], [call[t] EXCEPT !.pc = "returned"])
    /\ UNCHANGED <<layers, heap, shares, overtaken, nr>>

\* LayerGuard::~LayerGuard.
Return(t) ==
    /\ call[t].pc = "returned" /\ call' = [call EXCEPT ![t] = Idle]
    /\ layers' = IF call[t].outer.api = "acl" THEN [layers EXCEPT ![t] = Tail(@)] ELSE layers
    /\ UNCHANGED <<heap, shares, ipcMemInfoMap, allocated, cached, known, overtaken, nr>>

Next == \E t \in Thread :
    \/ \E h \in AclHook : CallAcl(t, h, FALSE)
    \/ \E h \in OwnCall : CallAcl(t, h, TRUE)
    \/ \E h \in RtHook : CallRt(t, h)
    \/ Descend(t) \/ DriverFails(t) \/ Driver(t) \/ LeaveRt(t) \/ LeaveAcl(t) \/ Return(t)

Spec == Init /\ [][Next]_vars

-----------------------------------------------------------------------------
(* Properties.                                                             *)

Due(c) ==
    CASE c.own -> 0
      [] ~c.own /\ Does(c) = "free" -> 1
      [] ~c.own /\ Does(c) = "access" ->
            CASE c.kind = "DEVICE_TO_DEVICE" -> 2 [] c.kind = "HOST_TO_HOST" -> 0 [] OTHER -> 1
      [] OTHER -> IF c.ok THEN 1 ELSE 0

\* Each operation of the application is reported once, whichever layer it
\* calls and whatever other threads are calling, a failed one that gave
\* nothing is not, and the tool's own calls never are.
ReportedOnce ==
    \A t \in Thread : call[t].pc = "returned" => call[t].sent = Due(call[t])

\* A thread that has yet to free a, or to report that it was given a.
Unsettled(a) ==
    \E t \in Thread :
        /\ call[t].addr = a
        /\ \/ Does(call[t]) = "free" /\ call[t].pc \in {"beneath", "driver"}
           \/ Does(call[t]) \in {"malloc", "map"} /\ call[t].pc \in {"rtPost", "aclPost"}

\* The tool and MemoryManage take for allocated what the application holds,
\* although one thread's free and another's allocation of the same address
\* overlap: a free is told before the driver may give the address again.
ToolFollowsHeap ==
    \A a \in Device \cup Virtual : ~Unsettled(a) =>
        /\ a \in allocated <=> heap[a] = "app"
        /\ a \in Device => (a \in cached <=> heap[a] = "app")

\* The tool knows each shared memory by its key, its role and its address
\* while no call on the key is on its way, also when a key that was closed
\* is used again.  A close is told by its address and only after the driver
\* has given that up, so a key opened there in between may be lost.
ToolFollowsShares ==
    \A k \in Key : Unused(k) /\ k \notin overtaken =>
        {s \in known : s.key = k} = {i \in {s.info : s \in shares} : i.key = k}

=============================================================================
