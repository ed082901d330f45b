------------------------- MODULE MemoryHooksProofs -------------------------
(***************************************************************************)
(* Proofs about MemoryHooks, for any threads, addresses and keys.  What a  *)
(* call has reported depends on the thread alone: on the hook the          *)
(* application called, on the hook beneath it and on the one name that the *)
(* thread's stack holds meanwhile (ShapeOf).  What the tool believes of an *)
(* address or a key needs that at most one thread is in the middle of a    *)
(* change of it, and what is true until that thread has reported.          *)
(***************************************************************************)
EXTENDS MemoryHooks, FiniteSetTheorems, TLAPS

Kinds == {"HOST_TO_HOST", "HOST_TO_DEVICE", "DEVICE_TO_HOST", "DEVICE_TO_DEVICE"}
Description == {None} \cup Hook \cup OwnCall
Names == {h.name : h \in Description}
Frames == [outer : Description, inner : Description,
           pc : {"idle", "beneath", "driver", "rtPost", "aclPost", "returned"},
           addr : Addr \cup {NoAddr}, key : Key \cup {NoAddr}, kind : Kinds \cup {""},
           own : BOOLEAN, masked : BOOLEAN, ok : BOOLEAN, sent : Nat]
Infos == [key : Key, actor : Actor, addr : Addr]

TypeOK ==
    /\ layers \in [Thread -> Seq(Names)] /\ call \in [Thread -> Frames]
    /\ heap \in [Addr -> {"free", "app", "tool", "shared"}]
    /\ shares \subseteq [api : {"acl", "rt"}, info : Infos]
    /\ known \subseteq [key : Key, actor : Actor, addr : Addr \cup {NoAddr}]
    /\ DOMAIN ipcMemInfoMap \subseteq Key
    /\ allocated \subseteq Addr /\ cached \subseteq Addr /\ overtaken \subseteq Key
    /\ nr \in [Thread -> Nat]

-----------------------------------------------------------------------------
(* What a call has reported, and what it may hold.                         *)

PreCount(h, kind) == IF h.pre = "FREE" THEN 1
                     ELSE IF h.pre \in {"STORE", "COPY"} THEN Cardinality(Accesses(kind)) ELSE 0
PostCount(h, ok) == IF h.post = "none" \/ (h.checks /\ ~ok) THEN 0 ELSE 1

Job(c) == Outermost(c).does
Opens == {"import", "export"}
Closes == {"closeKey", "destroy", "close"}
Begun == {"beneath", "driver"}
Made == {"rtPost", "aclPost"}

\* A call of the runtime's hook, and one of acl's: the hook beneath does the same.
Direct(c) ==
    /\ c.outer = None /\ c.inner \in RtHook /\ ~c.own /\ ~c.masked
    /\ c.pc \in {"driver", "rtPost", "returned"}
Through(c) ==
    /\ c.outer \in IF c.own THEN OwnCall ELSE AclHook
    /\ c.pc = "beneath" \/ c.outer.api # "acl" => c.inner = None
    /\ c.pc # "beneath" /\ c.outer.api = "acl" =>
          /\ c.inner \in RtHook /\ c.masked
          /\ IF c.outer.does = "closeKey" THEN c.inner.does \in {"destroy", "close"}
             ELSE c.inner.does = c.outer.does

\* The address, the key and the kind of a copy, by what the call is for.
Holds(c) ==
    /\ Job(c) = "malloc" => IF c.pc \in Begun \/ ~c.ok THEN c.addr = NoAddr ELSE c.addr \in Device
    /\ Job(c) = "map" => c.addr \in Virtual /\ ~c.own
    /\ Job(c) = "free" => c.addr \in IF Outermost(c).caches \/ c.own THEN Device ELSE Virtual
    /\ Job(c) = "access" /\ ~c.own => c.kind \in Kinds
    /\ Outermost(c).pre = "STORE" => c.kind \in {"HOST_TO_HOST", "HOST_TO_DEVICE"}
    /\ Job(c) = "import" => c.key \in Key /\ (c.pc \notin Begun /\ c.ok => c.addr \in Window)
    /\ Job(c) = "export" =>
          /\ c.addr \in Device
          /\ IF c.pc \in Begun \/ ~c.ok THEN c.key = NoAddr ELSE c.key \in Key
    /\ Job(c) \in Closes => c.key \in Key /\ c.addr \in Addr
    /\ Job(c) \notin Closes \cup Opens => c.key = NoAddr

ShapeOf(c, stack) ==
    /\ c.pc = "idle" => c = Idle /\ stack = <<>>
    /\ c.pc # "idle" =>
          /\ stack = IF c.outer.api = "acl" THEN <<c.outer.name>> ELSE <<>>
          /\ Direct(c) \/ Through(c)
          /\ Holds(c)
          /\ c.ok \/ /\ c.pc \notin Begun
                     /\ \/ ~c.own /\ Outermost(c).name \in MayFail
                        \/ Job(c) \in {"malloc", "export"}
          /\ c.sent = IF c.own THEN 0
                      ELSE PreCount(Outermost(c), c.kind) +
                           IF c.pc = "returned" THEN PostCount(Outermost(c), c.ok) ELSE 0

Shapes == \A t \in Thread : ShapeOf(call[t], layers[t])

-----------------------------------------------------------------------------
(* Addresses.                                                              *)

Freeing(c, a) == c.addr = a /\ c.pc \in Begun /\ Job(c) = "free"
Given(c, a) == c.addr = a /\ c.pc \in Made /\ Job(c) = "malloc"
Mapping(c, a) == c.addr = a /\ c.pc \in Begun \cup Made /\ Job(c) = "map"
On(c, a) == Freeing(c, a) \/ Given(c, a) \/ Mapping(c, a)

Who(c) == IF c.own THEN "tool" ELSE "app"
Untaken(a) == a \notin allocated /\ (a \in Device => a \notin cached)

\* What a call in the middle of a change of a leaves to be told.
Between(c, a) ==
    /\ Untaken(a)
    /\ heap[a] = IF Mapping(c, a) /\ (c.pc \in Begun \/ ~c.ok) THEN "free" ELSE Who(c)

Settled(a) ==
    /\ a \in allocated <=> heap[a] = "app"
    /\ a \in Device => (a \in cached <=> heap[a] = "app")

AddressOK(a) ==
    /\ \A t, u \in Thread : On(call[t], a) /\ On(call[u], a) => t = u
    /\ \A t \in Thread : On(call[t], a) => Between(call[t], a)
    /\ (\A t \in Thread : ~On(call[t], a)) => Settled(a)

AddressesOK == \A a \in Device \cup Virtual : AddressOK(a)

-----------------------------------------------------------------------------
(* Keys.                                                                   *)

Known(k) == {s \in known : s.key = k}
Real(k) == {i \in {s.info : s \in shares} : i.key = k}
Unshared(k) == \A s \in shares : s.info.key # k

SharesOK ==
    /\ \A s \in shares :
          /\ s.info.actor = "SHARER" => s.info.addr \in Device
          /\ s.info.actor = "SHAREE" => s.info.addr \in Window /\ heap[s.info.addr] = "shared"
    /\ \A s, r \in shares :
          \/ s = r
          \/ s.info.key # r.info.key /\ (s.info.actor = "SHAREE" /\ r.info.actor = "SHAREE" =>
                                            s.info.addr # r.info.addr)

OneOnKey == \A t, u \in Thread : call[t].key = call[u].key /\ call[t].key # NoAddr => t = u

\* The role of the share a call opens or closes.
Role(c) == IF Does(c) \in {"export", "destroy"} THEN "SHARER" ELSE "SHAREE"
Opened(c) == c.pc \in Made /\ c.ok /\ Job(c) \in Opens
Closed(c) == c.pc \in Made /\ c.ok /\ Job(c) \in Closes

\* The share that a call is about, before and after the driver.
ShareOK(c) ==
    /\ Job(c) = "import" /\ c.pc \in Begun => Unshared(c.key)
    /\ Job(c) \in Closes /\ c.pc \in Begun =>
          \E s \in shares :
             /\ s.info.key = c.key /\ s.info.addr = c.addr /\ s.api = Outermost(c).api
             /\ Does(c) # "closeKey" => s.info.actor = Role(c)
    /\ Opened(c) => [api |-> Outermost(c).api, info |-> Info(c.key, Role(c), c.addr)] \in shares
    /\ Closed(c) => Unshared(c.key) /\ (Role(c) = "SHAREE" => c.addr \in Window)

\* At most one call is on a key, and the share it closes is there until it does.
Sharing == SharesOK /\ OneOnKey /\ \A t \in Thread : call[t].pc # "idle" => ShareOK(call[t])

\* What is told of a key that nobody is in the middle of opening or closing.
ToldOK(k) ==
    /\ Known(k) \subseteq Real(k) /\ (k \notin overtaken => Known(k) = Real(k))
    /\ k \in DOMAIN ipcMemInfoMap <=> \E s \in shares : s.info.key = k /\ s.api = "acl"
    /\ \A s \in shares : s.info.key = k /\ s.api = "acl" =>
          ipcMemInfoMap[k] = [actor |-> s.info.actor, addr |-> s.info.addr]

Middle(c, k) == c.key = k /\ (Opened(c) \/ Closed(c))

MiddleOK(c) ==
    /\ Opened(c) => Known(c.key) = {} /\ c.key \notin DOMAIN ipcMemInfoMap
    /\ Closed(c) =>
          /\ Known(c.key) \subseteq {Info(c.key, Role(c), c.addr)}
          /\ c.key \in DOMAIN ipcMemInfoMap <=> Outermost(c).api = "acl"
          /\ c.key \in DOMAIN ipcMemInfoMap =>
                ipcMemInfoMap[c.key] = [actor |-> Role(c), addr |-> c.addr]
          /\ \A s \in shares : Role(c) = "SHAREE" /\ s.info.addr = c.addr => s.info.key \in overtaken

KeysOK ==
    /\ \A t \in Thread : call[t].pc # "idle" => MiddleOK(call[t])
    /\ \A k \in Key : (\A t \in Thread : ~Middle(call[t], k)) => ToldOK(k)

Base == TypeOK /\ Shapes

-----------------------------------------------------------------------------
(* The hooks.                                                              *)

Unchecked == {"rtMapMem", "aclrtIpcMemImportByKeyImpl", "aclrtIpcMemCloseImpl"}

Frees == {"rtFree", "rtUnmapMem", "aclrtFreeImpl", "aclrtUnmapMemImpl"}

\* What a hook reports, by what its function does.
ReportsOf(h) ==
    /\ h.does \in {"malloc", "map"} => h.pre = "none" /\ h.post = "MALLOC"
    /\ h.does = "free" => h.pre = "FREE" /\ h.post = "none"
    /\ h.does = "access" => h.pre \in {"STORE", "COPY"} /\ h.post = "none"
    /\ h.does = "free" => h.name \in Frees
    /\ h.does = "map" => h.name \in {"rtMapMem", "aclrtMapMemImpl"}
    /\ h.does \in Opens \cup Closes => h.pre = "none" /\ h.post # "none"
    /\ h.caches <=> h.does = "malloc" \/ h.name \in {"rtFree", "aclrtFreeImpl"}
    /\ h.checks <=> h.name \notin Unchecked
    /\ h.does \in {"malloc", "free", "access", "export", "destroy", "close"} => h.checks
    /\ h.does \in {"malloc", "map", "free", "access"} \cup Opens \cup Closes

\* The name of a hook that masks another says what both do.
NamesJob(h) ==
    \/ h.name = "aclrtMallocImpl" /\ h.does = "malloc"
    \/ h.name \in {"aclrtFreeImpl", "aclrtUnmapMemImpl"} /\ h.does = "free"
    \/ h.name \in {"aclrtMemsetImpl", "aclrtMemcpyImpl"} /\ h.does = "access"
    \/ h.name = "aclrtMapMemImpl" /\ h.does = "map"
    \/ h.name = "aclrtIpcMemGetExportKeyImpl" /\ h.does = "export"
    \/ h.name = "aclrtIpcMemImportByKeyImpl" /\ h.does = "import"
    \/ h.name = "aclrtIpcMemCloseImpl" /\ h.does = "closeKey"

\* A hook of the runtime, of which there are ten, told apart by name.
RtHookOK(h) ==
    /\ ReportsOf(h) /\ h.api = "rt" /\ h.name # "none" /\ h.does # "closeKey"
    /\ h.does = "export" => h.post = "SET"
    /\ h.does = "import" => h.post = "MAP"
    /\ h.does = "destroy" => h.post = "DESTROY"
    /\ h.does = "close" => h.post = "UNMAP"
    /\ h.name = "rtMalloc" => h.does = "malloc"
    /\ h.name \in {"rtFree", "rtUnmapMem"} => h.does = "free"
    /\ h.name = "rtMapMem" => h.does = "map"
    /\ h.name \in {"rtMemset", "rtMemcpy"} => h.does = "access"
    /\ h.name = "rtIpcSetMemoryName" => h.does = "export"
    /\ h.name = "rtIpcOpenMemory" => h.does = "import"

\* A hook of acl, of which there are ten as well.
AclHookOK(h) ==
    /\ ReportsOf(h) /\ h.name # "none"
    /\ h.does \notin {"destroy", "close"}
    /\ h.does = "export" => h.post = "aclSET"
    /\ h.does = "import" => h.post = "aclMAP"
    /\ h.does = "closeKey" => h.post = "aclCLOSE"
    /\ h.name = "aclrtIpcMemCloseImpl" <=> h.does = "closeKey"
    /\ \/ h.api = "unguarded" /\ h.does = "malloc"
       \/ h.api = "acl" /\ NamesJob(h)

\* A call of the tool's own is of one of four functions and reports nothing.
OwnCallOK(h) ==
    /\ h.api = "acl" /\ h.pre = "none" /\ h.post = "none" /\ ~h.caches /\ h.checks
    /\ h.name # "none" /\ h.does \in {"malloc", "free", "access"} /\ NamesJob(h)

\* What is known of a hook of the runtime.
LEMMA RtHooks ==
  ASSUME NEW h \in RtHook
  PROVE  RtHookOK(h) /\ h # None
<1> USE DEF RtHookOK, ReportsOf, NamesJob, Unchecked, Frees, Opens, Closes, None
<1>1. CASE h = rtMalloc BY <1>1 DEF rtMalloc
<1>2. CASE h = rtFree BY <1>2 DEF rtFree
<1>3. CASE h = rtMapMem BY <1>3 DEF rtMapMem
<1>4. CASE h = rtUnmapMem BY <1>4 DEF rtUnmapMem
<1>5. CASE h = rtMemset BY <1>5 DEF rtMemset
<1>6. CASE h = rtMemcpy BY <1>6 DEF rtMemcpy
<1>7. CASE h = rtIpcSetMemoryName BY <1>7 DEF rtIpcSetMemoryName
<1>8. CASE h = rtIpcOpenMemory BY <1>8 DEF rtIpcOpenMemory
<1>9. CASE h = rtIpcDestroyMemoryName BY <1>9 DEF rtIpcDestroyMemoryName
<1>10. CASE h = rtIpcCloseMemory BY <1>10 DEF rtIpcCloseMemory
<1>11. QED BY <1>1, <1>2, <1>3, <1>4, <1>5, <1>6, <1>7, <1>8, <1>9, <1>10 DEF RtHook

\* What is known of a hook of acl.
LEMMA AclHooks ==
  ASSUME NEW h \in AclHook
  PROVE  AclHookOK(h) /\ h # None
<1> USE DEF AclHookOK, ReportsOf, NamesJob, Unchecked, Frees, Opens, Closes, None
<1>1. CASE h = aclrtMallocImpl BY <1>1 DEF aclrtMallocImpl, rtMalloc
<1>2. CASE h = aclrtMallocWithCfgImpl BY <1>2 DEF aclrtMallocWithCfgImpl, rtMalloc
<1>3. CASE h = aclrtFreeImpl BY <1>3 DEF aclrtFreeImpl, rtFree
<1>4. CASE h = aclrtMapMemImpl BY <1>4 DEF aclrtMapMemImpl, rtMapMem
<1>5. CASE h = aclrtUnmapMemImpl BY <1>5 DEF aclrtUnmapMemImpl, rtUnmapMem
<1>6. CASE h = aclrtMemsetImpl BY <1>6 DEF aclrtMemsetImpl, rtMemset
<1>7. CASE h = aclrtMemcpyImpl BY <1>7 DEF aclrtMemcpyImpl, rtMemcpy
<1>8. CASE h = aclrtIpcMemGetExportKeyImpl BY <1>8 DEF aclrtIpcMemGetExportKeyImpl, rtIpcSetMemoryName
<1>9. CASE h = aclrtIpcMemImportByKeyImpl BY <1>9 DEF aclrtIpcMemImportByKeyImpl, rtIpcOpenMemory
<1>10. CASE h = aclrtIpcMemCloseImpl BY <1>10 DEF aclrtIpcMemCloseImpl
<1>11. QED BY <1>1, <1>2, <1>3, <1>4, <1>5, <1>6, <1>7, <1>8, <1>9, <1>10 DEF AclHook

\* What is known of a call of the tool's own.
LEMMA OwnCalls ==
  ASSUME NEW h \in OwnCall
  PROVE  OwnCallOK(h) /\ h # None
<1>1. PICK g \in {aclrtMallocImpl, aclrtFreeImpl, aclrtMemsetImpl, aclrtMemcpyImpl} :
         h = [None EXCEPT !.name = g.name, !.api = "acl", !.does = g.does]
  BY DEF OwnCall
<1>2. g \in AclHook /\ NamesJob(g) /\ g.does \in {"malloc", "free", "access"}
  BY DEF AclHook, NamesJob, None, rtMalloc, rtFree, rtMemset, rtMemcpy, aclrtMallocImpl,
         aclrtFreeImpl, aclrtMemsetImpl, aclrtMemcpyImpl
<1>3. h.name = g.name /\ h.does = g.does /\ h.api = "acl" /\ h.pre = "none" /\ h.post = "none"
      /\ ~h.caches /\ h.checks
  BY <1>1 DEF None
<1>4. h # None BY <1>2, <1>3 DEF NamesJob, None
<1>5. QED BY <1>2, <1>3, <1>4 DEF OwnCallOK, NamesJob

\* A hook of acl that masks calls, and the tool's own calls, are in the map.
Masks(h) == h \in AclHook \cup OwnCall /\ h.api = "acl"

LEMMA MasksJob ==
  ASSUME NEW h, Masks(h)
  PROVE  /\ NamesJob(h) /\ h # None /\ h.name \in DOMAIN AclToRuntimeMap
         /\ h.name = "aclrtIpcMemCloseImpl" <=> h.does = "closeKey"
<1>1. NamesJob(h) /\ h # None
  <2>1. CASE h \in AclHook BY <2>1, AclHooks DEF Masks, AclHookOK
  <2>2. CASE h \in OwnCall BY <2>2, OwnCalls DEF OwnCallOK
  <2>3. QED BY <2>1, <2>2 DEF Masks
<1>2. QED BY <1>1 DEF NamesJob, AclToRuntimeMap

\* The hook that a masking one calls is masked by it and does the same; a key is
\* closed by its kind.
LEMMA BeneathIs ==
  ASSUME NEW h, Masks(h), NEW k
  PROVE  LET r == Beneath(h, k) IN
         /\ r \in RtHook /\ r.name \in AclToRuntimeMap[h.name]
         /\ h.does # "closeKey" => r.does = h.does
         /\ h.does = "closeKey" =>
               r.does = IF \E s \in shares : s.info.key = k /\ s.info.actor = "SHARER"
                        THEN "destroy" ELSE "close"
<1> DEFINE r == Beneath(h, k)
           names == AclToRuntimeMap[h.name]
<1>1. NamesJob(h) /\ h.api = "acl" /\ (h.name = "aclrtIpcMemCloseImpl" <=> h.does = "closeKey")
  BY MasksJob DEF Masks
<1>2. ASSUME h.does = "closeKey"
      PROVE  /\ r \in RtHook /\ r.name \in names
             /\ r.does = IF \E s \in shares : s.info.key = k /\ s.info.actor = "SHARER"
                         THEN "destroy" ELSE "close"
  <2>1. names = {"rtIpcDestroyMemoryName", "rtIpcCloseMemory"}
    BY <1>1, <1>2 DEF AclToRuntimeMap
  <2>2. r = IF \E s \in shares : s.info.key = k /\ s.info.actor = "SHARER"
            THEN rtIpcDestroyMemoryName ELSE rtIpcCloseMemory
    BY <1>1, <1>2 DEF Beneath
  <2>3. /\ rtIpcDestroyMemoryName.name = "rtIpcDestroyMemoryName"
        /\ rtIpcDestroyMemoryName.does = "destroy"
        /\ rtIpcCloseMemory.name = "rtIpcCloseMemory" /\ rtIpcCloseMemory.does = "close"
    BY DEF rtIpcDestroyMemoryName, rtIpcCloseMemory, None
  <2>4. QED BY <2>1, <2>2, <2>3 DEF RtHook
<1>3. ASSUME h.does # "closeKey"
      PROVE  r \in RtHook /\ r.name \in names /\ r.does = h.does
  <2>1. r = CHOOSE x \in RtHook : x.name \in names BY <1>1, <1>3 DEF Beneath
  <2>2. \E x \in RtHook : x.name \in names
    <3>1. /\ rtMalloc.name = "rtMalloc" /\ rtFree.name = "rtFree" /\ rtMapMem.name = "rtMapMem"
          /\ rtUnmapMem.name = "rtUnmapMem" /\ rtMemset.name = "rtMemset"
          /\ rtMemcpy.name = "rtMemcpy" /\ rtIpcSetMemoryName.name = "rtIpcSetMemoryName"
          /\ rtIpcOpenMemory.name = "rtIpcOpenMemory"
      BY DEF rtMalloc, rtFree, rtMapMem, rtUnmapMem, rtMemset, rtMemcpy, rtIpcSetMemoryName,
             rtIpcOpenMemory, None
    <3>2. QED BY <1>1, <1>3, <3>1 DEF NamesJob, AclToRuntimeMap, RtHook
  <2>3. r \in RtHook /\ r.name \in names BY <2>1, <2>2
  <2>4. RtHookOK(r) BY <2>3, RtHooks
  <2>5. r.does = h.does BY <1>1, <1>3, <2>3, <2>4 DEF RtHookOK, NamesJob, AclToRuntimeMap
  <2>6. QED BY <2>3, <2>5
<1>4. QED BY <1>2, <1>3

\* aclrtMallocWithCfgImpl calls the driver without a hook between.
LEMMA BeneathNothing ==
  ASSUME NEW h \in AclHook, h.api # "acl", NEW k
  PROVE  Beneath(h, k) = None
<1>1. AclHookOK(h) BY AclHooks
<1>2. h.name # "aclrtIpcMemCloseImpl" BY <1>1 DEF AclHookOK
<1>3. QED BY <1>2 DEF Beneath

\* A thread's stack holds at most the hook it is in, so that this decides.
LEMMA MaskedBy ==
  ASSUME NEW t \in Thread, NEW f
  PROVE  /\ layers[t] = <<>> => ParentInCallStack(t, f) = FALSE
         /\ \A g : layers[t] = <<g>> /\ g \in DOMAIN AclToRuntimeMap /\ f \in AclToRuntimeMap[g] =>
                      ParentInCallStack(t, f) = TRUE
<1>1. Range(<<>>) = {} BY DEF Range
<1>2. \A g : Range(<<g>>) = {g}
  <2>1. TAKE g
  <2>2. DOMAIN <<g>> = {1} /\ <<g>>[1] = g OBVIOUS
  <2>3. QED BY <2>2 DEF Range
<1>3. QED BY <1>1, <1>2 DEF ParentInCallStack
-----------------------------------------------------------------------------
(* What the steps of a call make of its frame.                             *)

\* A copy has at most one store and one load.
LEMMA AccessCount ==
  ASSUME NEW kind
  PROVE  Cardinality(Accesses(kind)) = (IF Stores(kind) THEN 1 ELSE 0) + (IF Loads(kind) THEN 1 ELSE 0)
<1>1. Cardinality({}) = 0 BY FS_EmptySet
<1>2. Cardinality({"STORE"}) = 1 /\ Cardinality({"LOAD"}) = 1 BY FS_Singleton
<1>3. Cardinality({"STORE", "LOAD"}) = 2
  <2>1. IsFiniteSet({"STORE"}) BY FS_Singleton
  <2>2. {"STORE", "LOAD"} = {"STORE"} \cup {"LOAD"} /\ "LOAD" \notin {"STORE"} OBVIOUS
  <2>3. QED BY <1>2, <2>1, <2>2, FS_AddElement
<1>4. CASE Stores(kind) /\ Loads(kind)
  <2>1. Accesses(kind) = {"STORE", "LOAD"} BY <1>4 DEF Accesses
  <2>2. QED BY <1>3, <1>4, <2>1
<1>5. CASE Stores(kind) /\ ~Loads(kind)
  <2>1. Accesses(kind) = {"STORE"} BY <1>5 DEF Accesses
  <2>2. QED BY <1>2, <1>5, <2>1
<1>6. CASE ~Stores(kind) /\ Loads(kind)
  <2>1. Accesses(kind) = {"LOAD"} BY <1>6 DEF Accesses
  <2>2. QED BY <1>2, <1>6, <2>1
<1>7. CASE ~Stores(kind) /\ ~Loads(kind)
  <2>1. Accesses(kind) = {} BY <1>7 DEF Accesses
  <2>2. QED BY <1>1, <1>7, <2>1
<1>8. QED BY <1>4, <1>5, <1>6, <1>7

LEMMA CountsAreNat ==
  ASSUME NEW h, NEW kind, NEW ok
  PROVE  PreCount(h, kind) \in Nat /\ PostCount(h, ok) \in Nat
  BY AccessCount DEF PreCount, PostCount

\* Pre counts what it reports; only a free changes what the tool believes.
LEMMA PreIs ==
  ASSUME NEW t \in Thread, NEW h, NEW c \in Frames, Pre(t, h, c)
  PROVE  /\ call' = [call EXCEPT ![t] = [c EXCEPT !.sent = c.sent + PreCount(h, c.kind)]]
         /\ h.pre = "FREE" => FreeReported(h, c)
         /\ h.pre # "FREE" => UNCHANGED <<allocated, cached>>
<1>1. CASE h.pre = "FREE" BY <1>1 DEF Pre, PreCount, Reported
<1>2. CASE h.pre \in {"STORE", "COPY"} BY <1>2 DEF Pre, PreCount, Reported
<1>3. CASE h.pre \notin {"FREE", "STORE", "COPY"}
  <2>1. [c EXCEPT !.sent = c.sent + 0] = c
    <3>1. c.sent \in Nat BY DEF Frames
    <3>2. c.sent + 0 = c.sent BY <3>1
    <3>3. QED BY <3>2 DEF Frames
  <2>2. PreCount(h, c.kind) = 0 BY <1>3 DEF PreCount
  <2>3. QED BY <1>3, <2>1, <2>2 DEF Pre
<1>4. QED BY <1>1, <1>2, <1>3

\* So does Post.
LEMMA PostIs ==
  ASSUME NEW t \in Thread, NEW h, NEW c, NEW next \in Frames, Post(t, h, c, next)
  PROVE  call' = [call EXCEPT ![t] = [next EXCEPT !.sent = next.sent + PostCount(h, c.ok)]]
<1>1. CASE h.post = "none" \/ (h.checks /\ ~c.ok)
  <2>1. [next EXCEPT !.sent = next.sent + 0] = next
    <3>1. next.sent \in Nat BY DEF Frames
    <3>2. next.sent + 0 = next.sent BY <3>1
    <3>3. QED BY <3>2 DEF Frames
  <2>2. PostCount(h, c.ok) = 0 BY <1>1 DEF PostCount
  <2>3. QED BY <1>1, <2>1, <2>2 DEF Post
<1>2. CASE ~(h.post = "none" \/ (h.checks /\ ~c.ok)) BY <1>2 DEF Post, PostCount, Reported
<1>3. QED BY <1>1, <1>2

\* What the application may ask for.
AskedOK(h, own, x) ==
    /\ x[1] \in Addr \cup {NoAddr} /\ x[2] \in Key \cup {NoAddr} /\ x[3] \in Kinds \cup {""}
    /\ h.does = "malloc" => x[1] = NoAddr
    /\ h.does = "map" => x[1] \in Virtual /\ heap[x[1]] = "free" /\ Unused(x[1])
    /\ h.does \in {"free", "export"} =>
          /\ x[1] \in IF h.does = "export" \/ h.caches \/ own THEN Device ELSE Virtual
          /\ heap[x[1]] = (IF own THEN "tool" ELSE "app") /\ Unused(x[1]) /\ ~Shared(x[1])
    /\ h.does = "access" => x[3] \in Kinds
    /\ h.does = "access" /\ h.pre = "STORE" => x[3] \in {"HOST_TO_HOST", "HOST_TO_DEVICE"}
    /\ h.does = "import" => x[2] \in Key /\ Unused(x[2]) /\ \A s \in shares : s.info.key # x[2]
    /\ h.does \in Closes =>
          \E s \in shares :
             /\ x[1] = s.info.addr /\ x[2] = s.info.key /\ s.api = h.api /\ Unused(x[2])
             /\ h.does = "destroy" => s.info.actor = "SHARER"
             /\ h.does = "close" => s.info.actor = "SHAREE"
    /\ h.does \notin Closes \cup {"import"} => x[2] = NoAddr

LEMMA AskedIs ==
  ASSUME TypeOK, NEW h, NEW own \in BOOLEAN, NEW x \in Asked(h, own),
         h.does \in {"malloc", "map", "free", "access"} \cup Opens \cup Closes
  PROVE  AskedOK(h, own, x)
<1> USE DEF Addr, Kinds
<1> DEFINE who == IF own THEN "tool" ELSE "app"
           mine(S) == {a \in S : heap[a] = who /\ Unused(a) /\ ~Shared(a)}
<1>1. CASE h.does = "malloc"
  <2>1. x = <<NoAddr, NoAddr, "">> BY <1>1 DEF Asked
  <2>2. QED BY <1>1, <2>1 DEF AskedOK, Closes
<1>2. CASE h.does = "map"
  <2>1. PICK a \in {v \in Virtual : heap[v] = "free" /\ Unused(v)} : x = <<a, NoAddr, "">>
    BY <1>2 DEF Asked
  <2>2. x[1] = a /\ x[2] = NoAddr /\ x[3] = "" BY <2>1
  <2>3. QED BY <1>2, <2>1, <2>2 DEF AskedOK, Closes
<1>3. CASE h.does = "free"
  <2>1. x \in {<<a, NoAddr, "">> : a \in mine(IF h.caches \/ own THEN Device ELSE Virtual)}
    BY <1>3 DEF Asked
  <2>2. PICK a \in mine(IF h.caches \/ own THEN Device ELSE Virtual) : x = <<a, NoAddr, "">>
    BY <2>1
  <2>3. x[1] = a /\ x[2] = NoAddr /\ x[3] = "" BY <2>2
  <2>4. QED BY <1>3, <2>2, <2>3 DEF AskedOK, Closes
<1>4. CASE h.does = "access"
  <2>1. x \in {<<NoAddr, NoAddr, kind>> :
                  kind \in IF h.pre = "STORE" THEN {"HOST_TO_HOST", "HOST_TO_DEVICE"} ELSE Kinds}
    BY <1>4 DEF Asked
  <2>2. PICK kind \in IF h.pre = "STORE" THEN {"HOST_TO_HOST", "HOST_TO_DEVICE"} ELSE Kinds :
           x = <<NoAddr, NoAddr, kind>>
    BY <2>1
  <2>3. x[1] = NoAddr /\ x[2] = NoAddr /\ x[3] = kind BY <2>2
  <2>4. QED BY <1>4, <2>2, <2>3 DEF AskedOK, Closes
<1>5. CASE h.does = "export"
  <2>1. x \in {<<a, NoAddr, "">> : a \in mine(Device)} BY <1>5 DEF Asked
  <2>2. PICK a \in mine(Device) : x = <<a, NoAddr, "">> BY <2>1
  <2>3. x[1] = a /\ x[2] = NoAddr /\ x[3] = "" BY <2>2
  <2>4. QED BY <1>5, <2>2, <2>3 DEF AskedOK, Closes
<1>6. CASE h.does = "import"
  <2>1. PICK k \in {y \in Key : Unused(y) /\ \A s \in shares : s.info.key # y} :
           x = <<NoAddr, k, "">>
    BY <1>6 DEF Asked
  <2>2. x[1] = NoAddr /\ x[2] = k /\ x[3] = "" BY <2>1
  <2>3. QED BY <1>6, <2>1, <2>2 DEF AskedOK, Closes
<1>7. ASSUME h.does \in Closes,
             \E s \in shares : /\ x = <<s.info.addr, s.info.key, "">> /\ s.api = h.api
                               /\ Unused(s.info.key)
                               /\ h.does = "destroy" => s.info.actor = "SHARER"
                               /\ h.does = "close" => s.info.actor = "SHAREE"
      PROVE  AskedOK(h, own, x)
  <2>1. PICK s \in shares : /\ x = <<s.info.addr, s.info.key, "">> /\ s.api = h.api
                            /\ Unused(s.info.key)
                            /\ h.does = "destroy" => s.info.actor = "SHARER"
                            /\ h.does = "close" => s.info.actor = "SHAREE"
    BY <1>7
  <2>2. s.info.addr \in Addr /\ s.info.key \in Key BY DEF TypeOK, Infos
  <2>3. QED BY <1>7, <2>1, <2>2 DEF AskedOK, Closes
<1>8. CASE h.does = "closeKey"
  <2>1. \E s \in shares : /\ x = <<s.info.addr, s.info.key, "">> /\ s.api = h.api
                          /\ Unused(s.info.key)
    BY <1>8 DEF Asked
  <2>2. QED BY <1>7, <1>8, <2>1 DEF Closes
<1>9. CASE h.does = "destroy"
  <2>1. \E s \in shares : /\ x = <<s.info.addr, s.info.key, "">> /\ s.api = h.api
                          /\ Unused(s.info.key) /\ s.info.actor = "SHARER"
    BY <1>9 DEF Asked
  <2>2. QED BY <1>7, <1>9, <2>1 DEF Closes
<1>10. CASE h.does = "close"
  <2>1. \E s \in shares : /\ x = <<s.info.addr, s.info.key, "">> /\ s.api = h.api
                          /\ Unused(s.info.key) /\ s.info.actor = "SHAREE"
    BY <1>10 DEF Asked
  <2>2. QED BY <1>7, <1>10, <2>1 DEF Closes
<1>11. QED BY <1>1, <1>2, <1>3, <1>4, <1>5, <1>6, <1>8, <1>9, <1>10 DEF Opens, Closes
-----------------------------------------------------------------------------
(* The steps of a call, as what they make of its frame.                    *)

\* Only t's frame and stack change.
OnlyThread(t) ==
    /\ call' \in [Thread -> Frames]
    /\ \A u \in Thread \ {t} : call'[u] = call[u] /\ layers'[u] = layers[u]

\* What frame c has in common with the frame d before.
Kept(c, d) ==
    /\ c.outer = d.outer /\ c.kind = d.kind /\ c.own = d.own
    /\ c.addr = d.addr /\ c.key = d.key

LEMMA NoneIs ==
  /\ None.api = "rt" /\ None.pre = "none" /\ None.post = "none" /\ None.name = "none"
  /\ None.does = "nothing" /\ ~None.caches
  BY DEF None

FrameOK(f, own, x) ==
    /\ f \in Frames /\ f.outer = None /\ f.inner = None /\ f.sent = 0
    /\ f.addr = x[1] /\ f.key = x[2] /\ f.kind = x[3]
    /\ f.own = own /\ f.masked = FALSE /\ f.ok = TRUE

LEMMA FrameIs ==
  ASSUME NEW h, NEW own \in BOOLEAN, NEW x, AskedOK(h, own, x)
  PROVE  FrameOK(Frame(x, own), own, x)
<1> DEFINE f == Frame(x, own)
<1>1. Idle \in Frames
  <2>1. None \in Description /\ 0 \in Nat BY DEF Description
  <2>2. QED BY <2>1 DEF Idle, Frames
<1>2. /\ x[1] \in Addr \cup {NoAddr} /\ x[2] \in Key \cup {NoAddr} /\ x[3] \in Kinds \cup {""}
  BY DEF AskedOK
<1>3. f \in Frames BY <1>1, <1>2 DEF Frame, Frames
<1>4. f.outer = None /\ f.inner = None /\ f.sent = 0 BY DEF Frame, Idle
<1>5. f.addr = x[1] /\ f.key = x[2] /\ f.kind = x[3] BY DEF Frame, Idle
<1>6. f.own = own BY DEF Frame, Idle
<1>7. f.masked = FALSE /\ f.ok = TRUE BY DEF Frame, Idle
<1>8. QED BY <1>3, <1>4, <1>5, <1>6, <1>7, Zenon DEF FrameOK

\* What CallAcl makes of the call it begins, on the x it was asked for.
CallAclDone(t, h, own, x) ==
  LET c == call'[t] IN
      /\ AskedOK(h, own, x) /\ call[t].pc = "idle" /\ OnlyThread(t)
      /\ c.outer = h /\ c.inner = None /\ c.pc = "beneath" /\ c.own = own /\ c.ok
      /\ c.addr = x[1] /\ c.key = x[2] /\ c.kind = x[3]
      /\ c.sent = IF own THEN 0 ELSE PreCount(h, x[3])
      /\ layers'[t] = IF h.api = "acl" THEN <<h.name>> ELSE <<>>
      /\ h.pre = "FREE" => FreeReported(h, c)
      /\ h.pre # "FREE" => UNCHANGED <<allocated, cached>>

\* The application, or the tool for itself, calls a function of acl.
LEMMA CallAclIs ==
  ASSUME Base, NEW t \in Thread, NEW own \in BOOLEAN,
         NEW h \in IF own THEN OwnCall ELSE AclHook, CallAcl(t, h, own)
  PROVE  \E x : CallAclDone(t, h, own, x)
<1>1. h \in Description /\ (own => h.pre = "none")
      /\ h.does \in {"malloc", "map", "free", "access"} \cup Opens \cup Closes
  <2>1. CASE own BY <2>1, OwnCalls DEF OwnCallOK, Description
  <2>2. CASE ~own BY <2>2, AclHooks DEF AclHookOK, ReportsOf, Description, Hook
  <2>3. QED BY <2>1, <2>2
<1>2. TypeOK BY DEF Base
<1>3. call[t].pc = "idle" BY DEF CallAcl, Busy
<1>4. layers[t] = <<>> BY <1>3 DEF Base, Shapes, ShapeOf
<1>5. PICK x \in Asked(h, own) :
         Pre(t, h, [Frame(x, own) EXCEPT !.outer = h, !.pc = "beneath"])
  BY DEF CallAcl
<1>6. AskedOK(h, own, x) BY <1>1, <1>2, <1>5, AskedIs
<1> DEFINE c == [Frame(x, own) EXCEPT !.outer = h, !.pc = "beneath"]
<1>7. /\ c \in Frames /\ c.outer = h /\ c.inner = None /\ c.pc = "beneath" /\ c.own = own /\ c.ok
      /\ c.addr = x[1] /\ c.key = x[2] /\ c.kind = x[3] /\ c.sent = 0
  <2>1. FrameOK(Frame(x, own), own, x) BY <1>6, FrameIs
  <2>2. QED BY <1>1, <2>1 DEF FrameOK, Frames
<1> HIDE DEF c
<1>8. /\ call' = [call EXCEPT ![t] = [c EXCEPT !.sent = c.sent + PreCount(h, c.kind)]]
      /\ h.pre = "FREE" => FreeReported(h, c)
      /\ h.pre # "FREE" => UNCHANGED <<allocated, cached>>
  BY <1>5, <1>7, PreIs DEF c
<1>9. PreCount(h, c.kind) \in Nat BY CountsAreNat
<1>10. call \in [Thread -> Frames] /\ layers \in [Thread -> Seq(Names)] BY <1>2 DEF TypeOK
<1>11. call' \in [Thread -> Frames] /\ call'[t] = [c EXCEPT !.sent = PreCount(h, c.kind)]
       /\ \A u \in Thread \ {t} : call'[u] = call[u]
  <2>1. c.sent + PreCount(h, c.kind) = PreCount(h, c.kind) BY <1>7, <1>9
  <2>2. [c EXCEPT !.sent = PreCount(h, c.kind)] \in Frames BY <1>7, <1>9 DEF Frames
  <2>3. QED BY <1>8, <1>10, <2>1, <2>2
<1>12. /\ \A u \in Thread \ {t} : layers'[u] = layers[u]
       /\ layers'[t] = IF h.api = "acl" THEN <<h.name>> ELSE <<>>
  BY <1>4, <1>10 DEF CallAcl
<1>13. own => PreCount(h, x[3]) = 0 BY <1>1 DEF PreCount
<1>14. h.pre = "FREE" => FreeReported(h, call'[t])
  <2>1. call'[t].addr = c.addr BY <1>7, <1>11 DEF Frames
  <2>2. QED BY <1>8, <2>1 DEF FreeReported
<1>15. /\ call'[t].outer = h /\ call'[t].inner = None /\ call'[t].pc = "beneath"
       /\ call'[t].addr = x[1] /\ call'[t].key = x[2] /\ call'[t].kind = x[3]
       /\ call'[t].sent = IF own THEN 0 ELSE PreCount(h, x[3])
  BY <1>7, <1>11, <1>13 DEF Frames
<1>16. call'[t].own = own /\ call'[t].ok BY <1>7, <1>11 DEF Frames
<1>17. OnlyThread(t) BY <1>11, <1>12 DEF OnlyThread
<1>18. WITNESS x
<1>19. QED BY <1>3, <1>6, <1>8, <1>12, <1>14, <1>15, <1>16, <1>17 DEF CallAclDone

\* The wrapper of a hook of the runtime, silent if the thread is in one that masks it.
LEMMA EnterRtIs ==
  ASSUME TypeOK, NEW t \in Thread, NEW h \in Description, NEW c \in Frames, EnterRt(t, h, c),
         NEW m \in BOOLEAN, ParentInCallStack(t, h.name) = m
  PROVE  /\ call' \in [Thread -> Frames] /\ \A u \in Thread \ {t} : call'[u] = call[u]
         /\ Kept(call'[t], c) /\ call'[t].inner = h /\ call'[t].pc = "driver"
         /\ call'[t].masked = m /\ call'[t].ok = c.ok
         /\ call'[t].sent = c.sent + IF m THEN 0 ELSE PreCount(h, c.kind)
         /\ ~m /\ h.pre = "FREE" => FreeReported(h, call'[t])
         /\ m \/ h.pre # "FREE" => UNCHANGED <<allocated, cached>>
<1> DEFINE n == [c EXCEPT !.inner = h, !.pc = "driver", !.masked = m]
           g == IF m THEN None ELSE h
<1>1. n \in Frames /\ Kept(n, c) /\ n.inner = h /\ n.pc = "driver" /\ n.sent = c.sent /\ n.kind = c.kind
  <2>1. n \in Frames BY DEF Frames
  <2>2. n.own = c.own BY DEF Frames
  <2>3. QED BY <2>1, <2>2 DEF Frames, Kept
<1>2. n.masked = m /\ n.ok = c.ok BY DEF Frames
<1>3. Pre(t, g, n) BY DEF EnterRt
<1> HIDE DEF n
<1>4. /\ call' = [call EXCEPT ![t] = [n EXCEPT !.sent = n.sent + PreCount(g, n.kind)]]
      /\ g.pre = "FREE" => FreeReported(g, n)
      /\ g.pre # "FREE" => UNCHANGED <<allocated, cached>>
  BY <1>1, <1>3, PreIs
<1>5. PreCount(g, n.kind) \in Nat /\ (m => PreCount(g, n.kind) = 0)
  BY CountsAreNat, NoneIs DEF PreCount
<1> DEFINE s == n.sent + PreCount(g, n.kind)
<1>6. s \in Nat /\ s = c.sent + IF m THEN 0 ELSE PreCount(h, c.kind)
  <2>1. n.sent \in Nat BY <1>1 DEF Frames
  <2>2. QED BY <1>1, <1>5, <2>1
<1>7. call' = [call EXCEPT ![t] = [n EXCEPT !.sent = s]] BY <1>4
<1> HIDE DEF s
<1>8. call' \in [Thread -> Frames] /\ call'[t] = [n EXCEPT !.sent = s]
      /\ \A u \in Thread \ {t} : call'[u] = call[u]
  <2>1. [n EXCEPT !.sent = s] \in Frames BY <1>1, <1>6 DEF Frames
  <2>2. QED BY <1>7, <2>1 DEF TypeOK
<1>9. Kept(call'[t], n) /\ call'[t].inner = h /\ call'[t].pc = "driver" /\ call'[t].sent = s
  <2>1. call'[t].own = n.own BY <1>1, <1>8 DEF Frames
  <2>2. QED BY <1>1, <1>8, <2>1 DEF Frames, Kept
<1>10. call'[t].masked = m /\ call'[t].ok = c.ok BY <1>1, <1>2, <1>8 DEF Frames
<1>11. ~m /\ h.pre = "FREE" => FreeReported(h, call'[t]) BY <1>4, <1>9 DEF FreeReported, Kept
<1>12. m \/ h.pre # "FREE" => UNCHANGED <<allocated, cached>> BY <1>4, NoneIs
<1>13. Kept(call'[t], c) BY <1>1, <1>9, Zenon DEF Kept
<1>14. QED BY <1>6, <1>8, <1>9, <1>10, <1>11, <1>12, <1>13

\* The application calls the runtime.
LEMMA CallRtIs ==
  ASSUME Base, NEW t \in Thread, NEW h \in RtHook, CallRt(t, h)
  PROVE  \E x : LET c == call'[t] IN
         /\ AskedOK(h, FALSE, x) /\ call[t].pc = "idle" /\ OnlyThread(t)
         /\ c.outer = None /\ c.inner = h /\ c.pc = "driver" /\ ~c.own /\ ~c.masked /\ c.ok
         /\ c.addr = x[1] /\ c.key = x[2] /\ c.kind = x[3] /\ c.sent = PreCount(h, x[3])
         /\ layers'[t] = <<>>
         /\ h.pre = "FREE" => FreeReported(h, c)
         /\ h.pre # "FREE" => UNCHANGED <<allocated, cached>>
<1>1. TypeOK BY DEF Base
<1>2. h \in Description /\ h.does \in {"malloc", "map", "free", "access"} \cup Opens \cup Closes
  BY RtHooks DEF RtHookOK, ReportsOf, Description, Hook
<1>3. call[t].pc = "idle" BY DEF CallRt, Busy
<1>4. layers[t] = <<>> BY <1>3 DEF Base, Shapes, ShapeOf
<1>5. PICK x \in Asked(h, FALSE) : EnterRt(t, h, Frame(x, FALSE)) BY DEF CallRt
<1>6. AskedOK(h, FALSE, x) BY <1>1, <1>2, <1>5, AskedIs
<1> DEFINE f == Frame(x, FALSE)
<1>7. FrameOK(f, FALSE, x) BY <1>6, FrameIs
<1> HIDE DEF f
<1>8. f \in Frames BY <1>7 DEF FrameOK
<1>9. EnterRt(t, h, f) BY <1>5 DEF f
<1>10. ParentInCallStack(t, h.name) = FALSE BY <1>4, MaskedBy
<1>11. /\ call' \in [Thread -> Frames] /\ \A u \in Thread \ {t} : call'[u] = call[u]
       /\ Kept(call'[t], f) /\ call'[t].inner = h /\ call'[t].pc = "driver"
       /\ call'[t].masked = FALSE /\ call'[t].ok = f.ok
       /\ call'[t].sent = f.sent + IF FALSE THEN 0 ELSE PreCount(h, f.kind)
       /\ ~FALSE /\ h.pre = "FREE" => FreeReported(h, call'[t])
       /\ FALSE \/ h.pre # "FREE" => UNCHANGED <<allocated, cached>>
  BY <1>1, <1>2, <1>8, <1>9, <1>10, EnterRtIs
<1>12. layers' = layers BY DEF CallRt
<1>13. OnlyThread(t) /\ layers'[t] = <<>> BY <1>4, <1>11, <1>12 DEF OnlyThread
<1>14. call'[t].sent = PreCount(h, x[3])
  <2>1. PreCount(h, x[3]) \in Nat BY CountsAreNat
  <2>2. QED BY <1>7, <1>11, <2>1 DEF FrameOK
<1>15. /\ call'[t].outer = None /\ call'[t].addr = x[1] /\ call'[t].key = x[2]
       /\ call'[t].kind = x[3]
  BY <1>7, <1>11 DEF FrameOK, Kept
<1>16. ~call'[t].own /\ ~call'[t].masked /\ call'[t].ok
  BY <1>7, <1>11, Zenon DEF FrameOK, Kept
<1>17. WITNESS x
<1>18. QED BY <1>3, <1>6, <1>11, <1>13, <1>14, <1>15, <1>16
\* acl's function calls the runtime's, whose hook its name on the stack silences.
LEMMA DescendIs ==
  ASSUME Base, NEW t \in Thread, Descend(t)
  PROVE  LET b == Beneath(call[t].outer, call[t].key) IN
         /\ call[t].pc = "beneath" /\ OnlyThread(t) /\ layers'[t] = layers[t]
         /\ Kept(call'[t], call[t]) /\ call'[t].pc = "driver" /\ call'[t].ok = call[t].ok
         /\ call'[t].sent = call[t].sent /\ UNCHANGED <<allocated, cached>>
         /\ call'[t].inner = b
         /\ call[t].outer.api = "acl" => Masks(call[t].outer) /\ b \in RtHook /\ call'[t].masked
         /\ call[t].outer.api # "acl" => b = None /\ ~call'[t].masked
<1> DEFINE c == call[t]
           b == Beneath(c.outer, c.key)
<1>1. TypeOK /\ c \in Frames BY DEF Base, TypeOK
<1>2. c.pc = "beneath" /\ EnterRt(t, b, c) /\ layers' = layers BY DEF Descend
<1>3. /\ Through(c)
      /\ layers[t] = IF c.outer.api = "acl" THEN <<c.outer.name>> ELSE <<>>
  BY <1>2 DEF Base, Shapes, ShapeOf, Direct
<1>4. ASSUME c.outer.api = "acl"
      PROVE  Masks(c.outer) /\ b \in RtHook /\ ParentInCallStack(t, b.name) = TRUE
  <2>1. Masks(c.outer) BY <1>3, <1>4 DEF Through, Masks
  <2>2. b \in RtHook /\ b.name \in AclToRuntimeMap[c.outer.name] BY <2>1, BeneathIs
  <2>3. c.outer.name \in DOMAIN AclToRuntimeMap BY <2>1, MasksJob
  <2>4. layers[t] = <<c.outer.name>> BY <1>3, <1>4
  <2>5. ParentInCallStack(t, b.name) = TRUE BY <2>2, <2>3, <2>4, MaskedBy
  <2>6. QED BY <2>1, <2>2, <2>5
<1>5. ASSUME c.outer.api # "acl"
      PROVE  b = None /\ ParentInCallStack(t, b.name) = FALSE
  <2>1. c.outer \in AclHook BY <1>3, <1>5, OwnCalls DEF Through, OwnCallOK
  <2>2. b = None BY <1>5, <2>1, BeneathNothing
  <2>3. layers[t] = <<>> BY <1>3, <1>5
  <2>4. QED BY <2>2, <2>3, MaskedBy
<1> DEFINE m == c.outer.api = "acl"
<1>6. m \in BOOLEAN /\ ParentInCallStack(t, b.name) = m
  <2>1. CASE m BY <1>4, <2>1
  <2>2. CASE ~m BY <1>5, <2>2
  <2>3. QED BY <2>1, <2>2
<1>7. b \in Description BY <1>4, <1>5 DEF Description, Hook
<1> HIDE DEF b, m
<1>8. /\ call' \in [Thread -> Frames] /\ \A u \in Thread \ {t} : call'[u] = call[u]
      /\ Kept(call'[t], c) /\ call'[t].inner = b /\ call'[t].pc = "driver"
      /\ call'[t].masked = m /\ call'[t].ok = c.ok
      /\ call'[t].sent = c.sent + IF m THEN 0 ELSE PreCount(b, c.kind)
      /\ ~m /\ b.pre = "FREE" => FreeReported(b, call'[t])
      /\ m \/ b.pre # "FREE" => UNCHANGED <<allocated, cached>>
  BY <1>1, <1>2, <1>6, <1>7, EnterRtIs
<1>9. ~m => b.pre = "none" /\ PreCount(b, c.kind) = 0 BY <1>5, NoneIs DEF PreCount, m
<1>10. call'[t].sent = c.sent
  <2>1. c.sent \in Nat BY <1>1 DEF Frames
  <2>2. QED BY <1>8, <1>9, <2>1
<1>11. UNCHANGED <<allocated, cached>> BY <1>8, <1>9
<1>12. OnlyThread(t) /\ layers'[t] = layers[t] BY <1>2, <1>8 DEF OnlyThread
<1>13. /\ c.outer.api = "acl" => Masks(c.outer) /\ b \in RtHook /\ call'[t].masked
       /\ c.outer.api # "acl" => b = None /\ ~call'[t].masked
  <2>1. ASSUME c.outer.api = "acl" PROVE Masks(c.outer) /\ b \in RtHook /\ call'[t].masked
    <3>1. m BY <2>1 DEF m
    <3>2. call'[t].masked BY <1>8, <3>1, Zenon
    <3>3. QED BY <1>4, <2>1, <3>2
  <2>2. ASSUME c.outer.api # "acl" PROVE b = None /\ ~call'[t].masked
    <3>1. ~m BY <2>2 DEF m
    <3>2. ~call'[t].masked BY <1>8, <3>1, Zenon
    <3>3. QED BY <1>5, <2>2, <3>2
  <2>3. QED BY <2>1, <2>2
<1>14. QED BY <1>2, <1>8, <1>10, <1>11, <1>12, <1>13 DEF b

\* The driver, with what it leaves of the frame.
LEMMA DriverFailsIs ==
  ASSUME Base, NEW t \in Thread, DriverFails(t)
  PROVE  /\ call[t].pc = "driver" /\ OnlyThread(t) /\ layers'[t] = layers[t]
         /\ Kept(call'[t], call[t]) /\ call'[t].pc = "rtPost" /\ ~call'[t].ok
         /\ call'[t].sent = call[t].sent /\ call'[t].inner = call[t].inner
         /\ call'[t].masked = call[t].masked
         /\ \/ ~call[t].own /\ Outermost(call[t]).name \in MayFail
            \/ Does(call[t]) \in {"malloc", "export"}
<1> DEFINE c == call[t]
           n == [c EXCEPT !.ok = FALSE, !.pc = "rtPost"]
<1>1. c \in Frames /\ call \in [Thread -> Frames] BY DEF Base, TypeOK
<1>2. /\ c.pc = "driver" /\ call' = [call EXCEPT ![t] = n] /\ layers' = layers
      /\ \/ ~c.own /\ Outermost(c).name \in MayFail
         \/ Does(c) \in {"malloc", "export"}
  BY DEF DriverFails, Becomes
<1>3. /\ n \in Frames /\ n.pc = "rtPost" /\ n.sent = c.sent /\ n.inner = c.inner
      /\ n.outer = c.outer /\ n.kind = c.kind /\ n.addr = c.addr /\ n.key = c.key
  BY <1>1 DEF Frames
<1>4. n.own = c.own /\ n.masked = c.masked /\ ~n.ok BY <1>1 DEF Frames
<1> HIDE DEF n
<1>5. call' \in [Thread -> Frames] /\ call'[t] = n /\ \A u \in Thread \ {t} : call'[u] = call[u]
  BY <1>1, <1>2, <1>3
<1>6. QED BY <1>2, <1>3, <1>4, <1>5, Zenon DEF OnlyThread, Kept
\* What a call is for, and what the hook at the bottom of it does.
LEMMA DoesIs ==
  ASSUME NEW c, NEW stack, ShapeOf(c, stack), c.pc # "idle"
  PROVE  LET o == Outermost(c) IN
         /\ c.own => o \in OwnCall /\ o = c.outer
         /\ ~c.own => o \in AclHook \cup RtHook
         /\ c.outer # None => o = c.outer /\ o \in AclHook \cup OwnCall
         /\ c.outer = None => o = c.inner /\ o \in RtHook /\ ~c.own /\ c.pc # "beneath"
         /\ Job(c) \in {"malloc", "map", "free", "access"} \cup Opens \cup Closes
         /\ c.pc = "beneath" => Does(c) = Job(c)
         /\ c.pc # "beneath" => IF Job(c) = "closeKey" THEN Does(c) \in {"destroy", "close"}
                                ELSE Does(c) = Job(c)
<1>1. Direct(c) \/ Through(c) BY DEF ShapeOf
<1>2. CASE Direct(c)
  <2>1. c.outer = None /\ c.inner \in RtHook /\ ~c.own /\ c.pc # "beneath" BY <1>2 DEF Direct
  <2>2. RtHookOK(c.inner) /\ c.inner # None BY <2>1, RtHooks
  <2>3. Outermost(c) = c.inner /\ Does(c) = c.inner.does BY <2>1, <2>2 DEF Outermost, Does
  <2>4. QED BY <2>1, <2>2, <2>3 DEF Job, RtHookOK, ReportsOf
<1>3. CASE Through(c)
  <2>1. c.outer \in AclHook \cup OwnCall /\ (c.own => c.outer \in OwnCall)
        /\ (~c.own => c.outer \in AclHook)
    BY <1>3 DEF Through
  <2>2. c.outer # None BY <2>1, AclHooks, OwnCalls
  <2>3. Outermost(c) = c.outer /\ Job(c) = c.outer.does BY <2>2 DEF Outermost, Job
  <2>4. c.outer.does \in {"malloc", "map", "free", "access"} \cup Opens \cup Closes
    BY <2>1, AclHooks, OwnCalls DEF AclHookOK, OwnCallOK, ReportsOf
  <2>5. CASE c.inner = None
    <3>1. Does(c) = c.outer.does BY <2>5 DEF Does
    <3>2. c.pc # "beneath" => c.outer.does # "closeKey"
      <4>1. ASSUME c.pc # "beneath" PROVE c.outer.api # "acl"
        BY <1>3, <2>5, <4>1, RtHooks DEF Through
      <4>2. QED BY <2>1, <4>1, AclHooks, OwnCalls DEF AclHookOK, OwnCallOK
    <3>3. QED BY <2>1, <2>2, <2>3, <2>4, <3>1, <3>2
  <2>6. CASE c.inner # None
    <3>1. c.pc # "beneath" /\ c.outer.api = "acl" BY <1>3, <2>6 DEF Through
    <3>2. Does(c) = c.inner.does BY <2>6 DEF Does
    <3>3. QED BY <1>3, <2>1, <2>2, <2>3, <2>4, <3>1, <3>2 DEF Through
  <2>7. QED BY <2>5, <2>6
<1>4. QED BY <1>1, <1>2, <1>3

\* What Outermost reports.
LEMMA OutermostIs ==
  ASSUME NEW c, NEW stack, ShapeOf(c, stack), c.pc # "idle"
  PROVE  /\ c.own => OwnCallOK(Outermost(c))
         /\ ~c.own => ReportsOf(Outermost(c))
         /\ Outermost(c).pre = "FREE" => Job(c) = "free" /\ ~c.own
         /\ Outermost(c).does = Job(c)
<1>1. c.own => OwnCallOK(Outermost(c)) BY DoesIs, OwnCalls
<1>2. ~c.own => ReportsOf(Outermost(c))
  BY DoesIs, AclHooks, RtHooks DEF AclHookOK, RtHookOK
<1>3. Outermost(c).does = Job(c) BY DEF Job
<1>4. Job(c) \in {"malloc", "map", "free", "access"} \cup Opens \cup Closes BY DoesIs
<1>5. QED BY <1>1, <1>2, <1>3, <1>4 DEF OwnCallOK, ReportsOf, Opens, Closes
\* What the driver does for a call with frame c, which becomes n.
DriverDoes(c, n) ==
    /\ Does(c) # "malloc" /\ Does(c) # "import" => n.addr = c.addr
    /\ Does(c) # "export" => n.key = c.key
    /\ Does(c) # "import" => overtaken' = overtaken
    /\ Does(c) \in {"malloc", "map", "free", "access"} => shares' = shares
    /\ Does(c) \in {"access", "export", "destroy"} => heap' = heap
    /\ Does(c) = "malloc" =>
          n.addr \in Freed(Device) /\ heap' = [heap EXCEPT ![n.addr] = Who(c)]
    /\ Does(c) = "map" => heap' = [heap EXCEPT ![c.addr] = "app"]
    /\ Does(c) \in {"free", "close"} => heap' = [heap EXCEPT ![c.addr] = "free"]
    /\ Does(c) = "export" =>
          /\ n.key \in Key /\ Unused(n.key) /\ \A s \in shares : s.info.key # n.key
          /\ shares' = Shares(c, "SHARER", n.key, c.addr)
    /\ Does(c) = "import" =>
          /\ n.addr \in Freed(Window) /\ heap' = [heap EXCEPT ![n.addr] = "shared"]
          /\ shares' = Shares(c, "SHAREE", c.key, n.addr)
          /\ overtaken' = IF Untold(n.addr) THEN overtaken \cup {c.key} ELSE overtaken \ {c.key}
    /\ Does(c) \in {"destroy", "close"} => shares' = {s \in shares : s.info.key # c.key}

LEMMA BecomesIs ==
  ASSUME TypeOK, NEW t \in Thread, NEW n \in Frames, Becomes(t, n)
  PROVE  /\ call' \in [Thread -> Frames] /\ \A u \in Thread \ {t} : call'[u] = call[u]
         /\ Kept(call'[t], n) /\ call'[t].pc = "rtPost" /\ call'[t].ok = n.ok
         /\ call'[t].sent = n.sent /\ call'[t].inner = n.inner /\ call'[t].masked = n.masked
<1> DEFINE m == [n EXCEPT !.pc = "rtPost"]
<1>1. /\ m \in Frames /\ m.pc = "rtPost" /\ m.sent = n.sent /\ m.inner = n.inner
      /\ m.outer = n.outer /\ m.kind = n.kind /\ m.addr = n.addr /\ m.key = n.key
  BY DEF Frames
<1>2. m.own = n.own /\ m.masked = n.masked /\ m.ok = n.ok BY DEF Frames
<1>3. call' = [call EXCEPT ![t] = m] BY DEF Becomes
<1> HIDE DEF m
<1>4. call' \in [Thread -> Frames] /\ call'[t] = m /\ \A u \in Thread \ {t} : call'[u] = call[u]
  BY <1>1, <1>3 DEF TypeOK
<1>5. QED BY <1>1, <1>2, <1>4, Zenon DEF Kept

LEMMA DriverIs ==
  ASSUME Base, NEW t \in Thread, Driver(t)
  PROVE  LET c == call[t]
             n == call'[t]
         IN
         /\ c.pc = "driver" /\ OnlyThread(t) /\ layers'[t] = layers[t]
         /\ n.pc = "rtPost" /\ n.outer = c.outer /\ n.inner = c.inner /\ n.kind = c.kind
         /\ n.own = c.own /\ n.masked = c.masked /\ n.ok = c.ok /\ n.sent = c.sent
         /\ DriverDoes(c, n)
<1> DEFINE c == call[t]
           n == call'[t]
<1>1. TypeOK /\ c \in Frames /\ ShapeOf(c, layers[t]) BY DEF Base, TypeOK, Shapes
<1>2. c.pc = "driver" /\ layers' = layers BY DEF Driver
<1>3. Does(c) \in {"malloc", "map", "free", "access", "import", "export", "destroy", "close"}
  BY <1>1, <1>2, DoesIs DEF Opens, Closes
<1> DEFINE Fields ==
              /\ n.pc = "rtPost" /\ n.outer = c.outer /\ n.inner = c.inner /\ n.kind = c.kind
              /\ n.own = c.own /\ n.masked = c.masked /\ n.ok = c.ok /\ n.sent = c.sent
              /\ OnlyThread(t)
<1> DEFINE Changed(m, a, k) ==
              \/ m = [c EXCEPT !.addr = a] /\ k = c.key
              \/ m = [c EXCEPT !.key = k] /\ a = c.addr
              \/ m = c /\ a = c.addr /\ k = c.key
<1>4. ASSUME NEW a \in Addr \cup {NoAddr}, NEW k \in Key \cup {NoAddr}, NEW m,
             Changed(m, a, k), Becomes(t, m)
      PROVE  Fields /\ n.addr = a /\ n.key = k
  <2>1. /\ m \in Frames /\ m.addr = a /\ m.key = k /\ m.sent = c.sent /\ m.inner = c.inner
        /\ m.outer = c.outer /\ m.kind = c.kind
    BY <1>1, <1>4 DEF Frames
  <2>2. m.own = c.own /\ m.masked = c.masked /\ m.ok = c.ok
    <3>1. CASE m = [c EXCEPT !.addr = a] BY <1>1, <3>1 DEF Frames
    <3>2. CASE m = [c EXCEPT !.key = k] BY <1>1, <3>2 DEF Frames
    <3>3. CASE m = c BY <3>3
    <3>4. QED BY <1>4, <3>1, <3>2, <3>3
  <2>3. /\ call' \in [Thread -> Frames] /\ \A u \in Thread \ {t} : call'[u] = call[u]
        /\ Kept(n, m) /\ n.pc = "rtPost" /\ n.ok = m.ok
        /\ n.sent = m.sent /\ n.inner = m.inner /\ n.masked = m.masked
    BY <1>1, <1>4, <2>1, BecomesIs
  <2>4. QED BY <1>2, <2>1, <2>2, <2>3, Zenon DEF Kept, OnlyThread
<1>5. c.addr \in Addr \cup {NoAddr} /\ c.key \in Key \cup {NoAddr} BY <1>1 DEF Frames
<1> HIDE DEF Fields
<1>6. ASSUME Does(c) = "malloc" PROVE Fields /\ DriverDoes(c, n)
  <2>1. PICK a \in Freed(Device) : /\ heap' = [heap EXCEPT ![a] = Who(c)]
                                   /\ Becomes(t, [c EXCEPT !.addr = a]) /\ UNCHANGED shares
    BY <1>6 DEF Driver, Who
  <2>2. a \in Addr BY <2>1 DEF Freed, Addr
  <2>3. Fields /\ n.addr = a /\ n.key = c.key
    <3> DEFINE m == [c EXCEPT !.addr = a]
    <3>1. Changed(m, a, c.key) /\ Becomes(t, m) BY <2>1
    <3> HIDE DEF m, Changed
    <3>2. QED BY <1>4, <1>5, <2>2, <3>1
  <2>4. overtaken' = overtaken BY <1>6 DEF Driver
  <2>5. QED BY <1>6, <2>1, <2>3, <2>4 DEF DriverDoes
<1>7. ASSUME Does(c) \in {"map", "free", "access"} PROVE Fields /\ DriverDoes(c, n)
  <2>1. /\ Becomes(t, c) /\ shares' = shares /\ overtaken' = overtaken
        /\ Does(c) = "map" => heap' = [heap EXCEPT ![c.addr] = "app"]
        /\ Does(c) = "free" => heap' = [heap EXCEPT ![c.addr] = "free"]
        /\ Does(c) = "access" => heap' = heap
    BY <1>7 DEF Driver
  <2>2. Fields /\ n.addr = c.addr /\ n.key = c.key BY <1>4, <1>5, <2>1
  <2>3. QED BY <1>7, <2>1, <2>2 DEF DriverDoes
<1>8. ASSUME Does(c) = "export" PROVE Fields /\ DriverDoes(c, n)
  <2>1. PICK k \in Key : /\ Unused(k) /\ \A s \in shares : s.info.key # k
                         /\ shares' = Shares(c, "SHARER", k, c.addr)
                         /\ Becomes(t, [c EXCEPT !.key = k]) /\ UNCHANGED heap
    BY <1>8 DEF Driver
  <2>2. Fields /\ n.addr = c.addr /\ n.key = k
    <3> DEFINE m == [c EXCEPT !.key = k]
    <3>1. Changed(m, c.addr, k) /\ Becomes(t, m) BY <2>1
    <3> HIDE DEF m, Changed
    <3>2. QED BY <1>4, <1>5, <3>1
  <2>3. overtaken' = overtaken BY <1>8 DEF Driver
  <2>4. QED BY <1>8, <2>1, <2>2, <2>3 DEF DriverDoes
<1>9. ASSUME Does(c) = "import" PROVE Fields /\ DriverDoes(c, n)
  <2>1. PICK a \in Freed(Window) :
           /\ heap' = [heap EXCEPT ![a] = "shared"] /\ shares' = Shares(c, "SHAREE", c.key, a)
           /\ overtaken' = IF Untold(a) THEN overtaken \cup {c.key} ELSE overtaken \ {c.key}
           /\ Becomes(t, [c EXCEPT !.addr = a])
    BY <1>9 DEF Driver
  <2>2. a \in Addr BY <2>1 DEF Freed, Addr
  <2>3. Fields /\ n.addr = a /\ n.key = c.key
    <3> DEFINE m == [c EXCEPT !.addr = a]
    <3>1. Changed(m, a, c.key) /\ Becomes(t, m) BY <2>1
    <3> HIDE DEF m, Changed
    <3>2. QED BY <1>4, <1>5, <2>2, <3>1
  <2>4. QED BY <1>9, <2>1, <2>3 DEF DriverDoes
<1>10. ASSUME Does(c) \in {"destroy", "close"} PROVE Fields /\ DriverDoes(c, n)
  <2>1. /\ Becomes(t, c) /\ shares' = {s \in shares : s.info.key # c.key}
        /\ heap' = IF Does(c) = "close" THEN [heap EXCEPT ![c.addr] = "free"] ELSE heap
        /\ overtaken' = overtaken
    BY <1>10 DEF Driver
  <2>2. Fields /\ n.addr = c.addr /\ n.key = c.key BY <1>4, <1>5, <2>1
  <2>3. QED BY <1>10, <2>1, <2>2 DEF DriverDoes
<1>11. Fields /\ DriverDoes(c, n) BY <1>3, <1>6, <1>7, <1>8, <1>9, <1>10
<1>12. QED BY <1>2, <1>11, Zenon DEF Fields
\* Post counts what it reports and leaves the rest of the frame.
LEMMA LeavesIs ==
  ASSUME TypeOK, NEW t \in Thread, NEW h, NEW p \in {"aclPost", "returned"},
         Post(t, h, call[t], [call[t] EXCEPT !.pc = p])
  PROVE  /\ call' \in [Thread -> Frames] /\ \A u \in Thread \ {t} : call'[u] = call[u]
         /\ Kept(call'[t], call[t]) /\ call'[t].pc = p /\ call'[t].ok = call[t].ok
         /\ call'[t].inner = call[t].inner /\ call'[t].masked = call[t].masked
         /\ call'[t].sent = call[t].sent + PostCount(h, call[t].ok)
<1> DEFINE c == call[t]
           n == [c EXCEPT !.pc = p]
<1>1. c \in Frames BY DEF TypeOK
<1>2. /\ n \in Frames /\ n.pc = p /\ n.inner = c.inner /\ n.sent = c.sent
      /\ n.outer = c.outer /\ n.kind = c.kind /\ n.addr = c.addr /\ n.key = c.key
  BY <1>1 DEF Frames
<1>3. n.own = c.own /\ n.masked = c.masked /\ n.ok = c.ok BY <1>1 DEF Frames
<1>4. Post(t, h, c, n) OBVIOUS
<1> HIDE DEF n
<1> DEFINE s == n.sent + PostCount(h, c.ok)
<1>5. call' = [call EXCEPT ![t] = [n EXCEPT !.sent = s]] BY <1>2, <1>4, PostIs
<1>6. s \in Nat
  <2>1. n.sent \in Nat BY <1>2 DEF Frames
  <2>2. QED BY <2>1, CountsAreNat
<1>7. s = c.sent + PostCount(h, c.ok) BY <1>2
<1> HIDE DEF s
<1> DEFINE m == [n EXCEPT !.sent = s]
<1>8. /\ m \in Frames /\ m.pc = p /\ m.inner = c.inner /\ m.sent = s
      /\ m.outer = c.outer /\ m.kind = c.kind /\ m.addr = c.addr /\ m.key = c.key
  BY <1>2, <1>6 DEF Frames
<1>9. m.own = c.own /\ m.masked = c.masked /\ m.ok = c.ok BY <1>2, <1>3 DEF Frames
<1>10. call' = [call EXCEPT ![t] = m] BY <1>5
<1> HIDE DEF m
<1>11. call' \in [Thread -> Frames] /\ call'[t] = m /\ \A u \in Thread \ {t} : call'[u] = call[u]
  BY <1>8, <1>10 DEF TypeOK
<1>12. QED BY <1>7, <1>8, <1>9, <1>11, Zenon DEF Kept

\* The runtime's hook returns, silently if it was masked.
Said(c) == IF c.masked THEN None ELSE c.inner

LEMMA LeaveRtIs ==
  ASSUME Base, NEW t \in Thread, LeaveRt(t)
  PROVE  /\ call[t].pc = "rtPost" /\ OnlyThread(t) /\ layers'[t] = layers[t]
         /\ Kept(call'[t], call[t]) /\ call'[t].ok = call[t].ok
         /\ call'[t].pc = IF call[t].outer = None THEN "returned" ELSE "aclPost"
         /\ call'[t].inner = call[t].inner /\ call'[t].masked = call[t].masked
         /\ call'[t].sent = call[t].sent + PostCount(Said(call[t]), call[t].ok)
<1> DEFINE p == IF call[t].outer = None THEN "returned" ELSE "aclPost"
<1>1. p \in {"aclPost", "returned"} /\ TypeOK BY DEF Base
<1>2. Post(t, Said(call[t]), call[t], [call[t] EXCEPT !.pc = p]) BY DEF LeaveRt, Said
<1>3. call[t].pc = "rtPost" /\ layers' = layers BY DEF LeaveRt
<1> HIDE DEF p
<1>4. /\ call' \in [Thread -> Frames] /\ \A u \in Thread \ {t} : call'[u] = call[u]
      /\ Kept(call'[t], call[t]) /\ call'[t].pc = p /\ call'[t].ok = call[t].ok
      /\ call'[t].inner = call[t].inner /\ call'[t].masked = call[t].masked
      /\ call'[t].sent = call[t].sent + PostCount(Said(call[t]), call[t].ok)
  BY <1>1, <1>2, LeavesIs
<1>5. QED BY <1>3, <1>4, Zenon DEF OnlyThread, p

\* acl's hook returns.
LEMMA LeaveAclIs ==
  ASSUME Base, NEW t \in Thread, LeaveAcl(t)
  PROVE  /\ call[t].pc = "aclPost" /\ OnlyThread(t) /\ layers'[t] = layers[t]
         /\ Kept(call'[t], call[t]) /\ call'[t].ok = call[t].ok /\ call'[t].pc = "returned"
         /\ call'[t].inner = call[t].inner /\ call'[t].masked = call[t].masked
         /\ call'[t].sent = call[t].sent + PostCount(call[t].outer, call[t].ok)
<1>1. TypeOK BY DEF Base
<1>2. Post(t, call[t].outer, call[t], [call[t] EXCEPT !.pc = "returned"]) BY DEF LeaveAcl
<1>3. call[t].pc = "aclPost" /\ layers' = layers BY DEF LeaveAcl
<1>4. /\ call' \in [Thread -> Frames] /\ \A u \in Thread \ {t} : call'[u] = call[u]
      /\ Kept(call'[t], call[t]) /\ call'[t].pc = "returned" /\ call'[t].ok = call[t].ok
      /\ call'[t].inner = call[t].inner /\ call'[t].masked = call[t].masked
      /\ call'[t].sent = call[t].sent + PostCount(call[t].outer, call[t].ok)
  BY <1>1, <1>2, LeavesIs
<1>5. QED BY <1>3, <1>4, Zenon DEF OnlyThread

\* The guard takes the name off the stack.
LEMMA ReturnIs ==
  ASSUME Base, NEW t \in Thread, Return(t)
  PROVE  call[t].pc = "returned" /\ OnlyThread(t) /\ layers'[t] = <<>> /\ call'[t] = Idle
<1>1. TypeOK /\ call[t].pc = "returned" BY DEF Base, Return
<1>2. layers[t] = IF call[t].outer.api = "acl" THEN <<call[t].outer.name>> ELSE <<>>
  BY <1>1 DEF Base, Shapes, ShapeOf
<1>3. \A a : Tail(<<a>>) = <<>> OBVIOUS
<1>4. layers'[t] = <<>> /\ \A u \in Thread \ {t} : layers'[u] = layers[u]
  BY <1>1, <1>2, <1>3 DEF Return, TypeOK
<1>5. Idle \in Frames
  <2>1. None \in Description /\ 0 \in Nat BY DEF Description
  <2>2. QED BY <2>1 DEF Idle, Frames
<1>6. call' \in [Thread -> Frames] /\ call'[t] = Idle /\ \A u \in Thread \ {t} : call'[u] = call[u]
  BY <1>1, <1>5 DEF Return, TypeOK
<1>7. QED BY <1>1, <1>4, <1>6 DEF OnlyThread
-----------------------------------------------------------------------------
(* Each step keeps the shape of the frame it changes.                      *)

LEMMA HoldsKept ==
  ASSUME NEW c, NEW n, Holds(c), Kept(n, c), Outermost(n) = Outermost(c), n.ok = c.ok,
         n.pc \in Begun <=> c.pc \in Begun
  PROVE  Holds(n)
<1>1. n.addr = c.addr /\ n.key = c.key /\ n.kind = c.kind /\ n.own = c.own BY DEF Kept
<1>2. Job(n) = Job(c) BY DEF Job
<1>3. QED BY <1>1, <1>2 DEF Holds

\* What a call asks for is what it holds when it begins.
LEMMA AskedHolds ==
  ASSUME TypeOK, NEW c, NEW h, NEW x, AskedOK(h, c.own, x),
         (c.own /\ OwnCallOK(h)) \/ (~c.own /\ ReportsOf(h)),
         Outermost(c) = h, c.pc \in Begun, c.ok, c.addr = x[1], c.key = x[2], c.kind = x[3]
  PROVE  Holds(c)
<1>1. Job(c) = h.does BY DEF Job
<1>2. h.does \in {"malloc", "map", "free", "access"} \cup Opens \cup Closes
  BY DEF OwnCallOK, ReportsOf
<1>3. h.pre = "STORE" => h.does = "access" BY <1>2 DEF OwnCallOK, ReportsOf, Opens, Closes
<1>4. c.own => h.does \in {"malloc", "free", "access"} BY DEF OwnCallOK
<1>5. h.does \in Closes => x[1] \in Addr /\ x[2] \in Key
  <2>1. SUFFICES ASSUME h.does \in Closes PROVE x[1] \in Addr /\ x[2] \in Key OBVIOUS
  <2>2. PICK s \in shares : x[1] = s.info.addr /\ x[2] = s.info.key BY <2>1 DEF AskedOK
  <2>3. QED BY <2>2 DEF TypeOK, Infos
<1>6. QED BY <1>1, <1>2, <1>3, <1>4, <1>5 DEF Holds, AskedOK, Opens, Closes

LEMMA CallAclShape ==
  ASSUME Base, NEW t \in Thread, NEW own \in BOOLEAN,
         NEW h \in IF own THEN OwnCall ELSE AclHook, CallAcl(t, h, own)
  PROVE  ShapeOf(call'[t], layers'[t]) /\ OnlyThread(t)
<1> DEFINE c == call'[t]
<1>0. PICK x : CallAclDone(t, h, own, x) BY CallAclIs
<1>1. /\ AskedOK(h, own, x) /\ OnlyThread(t)
      /\ c.outer = h /\ c.inner = None /\ c.pc = "beneath" /\ c.own = own /\ c.ok
      /\ c.addr = x[1] /\ c.key = x[2] /\ c.kind = x[3]
      /\ c.sent = IF own THEN 0 ELSE PreCount(h, x[3])
      /\ layers'[t] = IF h.api = "acl" THEN <<h.name>> ELSE <<>>
  BY <1>0 DEF CallAclDone
<1>2. /\ own => OwnCallOK(h)
      /\ ~own => ReportsOf(h)
      /\ h # None
  BY OwnCalls, AclHooks DEF AclHookOK
<1>3. Outermost(c) = h BY <1>1, <1>2 DEF Outermost
<1>4. Holds(c)
  <2>1. AskedOK(h, c.own, x) BY <1>1
  <2>2. (c.own /\ OwnCallOK(h)) \/ (~c.own /\ ReportsOf(h)) BY <1>1, <1>2
  <2>3. TypeOK /\ c.pc \in Begun BY <1>1 DEF Base, Begun
  <2>4. QED BY <1>1, <1>3, <2>1, <2>2, <2>3, AskedHolds
<1>5. Through(c) BY <1>1 DEF Through
<1>6. c.sent = IF c.own THEN 0
               ELSE PreCount(Outermost(c), c.kind) +
                    IF c.pc = "returned" THEN PostCount(Outermost(c), c.ok) ELSE 0
  <2>1. PreCount(h, x[3]) \in Nat BY CountsAreNat
  <2>2. QED BY <1>1, <1>3, <2>1
<1> HIDE DEF c
<1>7. QED BY <1>1, <1>4, <1>5, <1>6 DEF ShapeOf, c

LEMMA CallRtShape ==
  ASSUME Base, NEW t \in Thread, NEW h \in RtHook, CallRt(t, h)
  PROVE  ShapeOf(call'[t], layers'[t]) /\ OnlyThread(t)
<1> DEFINE c == call'[t]
<1>1. PICK x : /\ AskedOK(h, FALSE, x) /\ OnlyThread(t)
               /\ c.outer = None /\ c.inner = h /\ c.pc = "driver" /\ ~c.own /\ ~c.masked /\ c.ok
               /\ c.addr = x[1] /\ c.key = x[2] /\ c.kind = x[3] /\ c.sent = PreCount(h, x[3])
               /\ layers'[t] = <<>>
  BY CallRtIs
<1>2. Outermost(c) = h BY <1>1 DEF Outermost
<1>3. Holds(c)
  <2>1. c.own \in BOOLEAN /\ call'[t] \in Frames BY <1>1 DEF OnlyThread, Frames
  <2>2. c.own = FALSE BY <1>1, <2>1
  <2>3. AskedOK(h, c.own, x) BY <1>1, <2>2
  <2>4. ~c.own /\ ReportsOf(h) BY <1>1, RtHooks DEF RtHookOK
  <2>5. TypeOK /\ c.pc \in Begun BY <1>1 DEF Base, Begun
  <2>6. QED BY <1>1, <1>2, <2>3, <2>4, <2>5, AskedHolds
<1>4. Direct(c) BY <1>1 DEF Direct
<1>5. c.sent = PreCount(Outermost(c), c.kind) + 0
  <2>1. PreCount(h, x[3]) \in Nat BY CountsAreNat
  <2>2. QED BY <1>1, <1>2, <2>1
<1>6. layers'[t] = IF c.outer.api = "acl" THEN <<c.outer.name>> ELSE <<>> BY <1>1, NoneIs
<1> HIDE DEF c
<1>7. QED BY <1>1, <1>3, <1>4, <1>5, <1>6 DEF ShapeOf, c

LEMMA DescendShape ==
  ASSUME Base, NEW t \in Thread, Descend(t)
  PROVE  ShapeOf(call'[t], layers'[t]) /\ OnlyThread(t)
<1> DEFINE c == call[t]
           n == call'[t]
           b == Beneath(c.outer, c.key)
<1>1. /\ c.pc = "beneath" /\ OnlyThread(t) /\ layers'[t] = layers[t]
      /\ Kept(n, c) /\ n.pc = "driver" /\ n.ok = c.ok /\ n.sent = c.sent /\ n.inner = b
      /\ c.outer.api = "acl" => Masks(c.outer) /\ b \in RtHook /\ n.masked
      /\ c.outer.api # "acl" => b = None /\ ~n.masked
  BY DescendIs
<1>2. ShapeOf(c, layers[t]) BY DEF Base, Shapes
<1>3. Through(c) /\ Holds(c) /\ c.outer # None
  <2>1. Through(c) /\ Holds(c) BY <1>1, <1>2 DEF ShapeOf, Direct
  <2>2. QED BY <1>1, <1>2, <2>1, DoesIs
<1>4. Outermost(n) = Outermost(c) BY <1>1, <1>3 DEF Outermost, Kept
<1>5. Holds(n) BY <1>1, <1>3, <1>4, HoldsKept DEF Begun
<1>6. n.outer = c.outer /\ n.own = c.own /\ n.kind = c.kind BY <1>1 DEF Kept
<1>7. Through(n)
  <2>1. ASSUME c.outer.api = "acl"
        PROVE  IF c.outer.does = "closeKey" THEN b.does \in {"destroy", "close"}
               ELSE b.does = c.outer.does
    BY <1>1, <2>1, BeneathIs
  <2>2. QED BY <1>1, <1>3, <1>6, <2>1 DEF Through
<1>8. /\ layers'[t] = IF n.outer.api = "acl" THEN <<n.outer.name>> ELSE <<>>
      /\ n.ok
      /\ n.sent = IF n.own THEN 0 ELSE PreCount(Outermost(n), n.kind) + 0
  BY <1>1, <1>2, <1>4, <1>6 DEF ShapeOf, Begun
<1> HIDE DEF n
<1>9. QED BY <1>1, <1>5, <1>7, <1>8 DEF ShapeOf, n
LEMMA DriverFailsShape ==
  ASSUME Base, NEW t \in Thread, DriverFails(t)
  PROVE  ShapeOf(call'[t], layers'[t]) /\ OnlyThread(t)
<1> DEFINE c == call[t]
           n == call'[t]
<1>1. /\ c.pc = "driver" /\ OnlyThread(t) /\ layers'[t] = layers[t]
      /\ Kept(n, c) /\ n.pc = "rtPost" /\ ~n.ok /\ n.sent = c.sent /\ n.inner = c.inner
      /\ n.masked = c.masked
      /\ \/ ~c.own /\ Outermost(c).name \in MayFail
         \/ Does(c) \in {"malloc", "export"}
  BY DriverFailsIs
<1>2. ShapeOf(c, layers[t]) BY DEF Base, Shapes
<1>3. n.outer = c.outer /\ n.own = c.own /\ n.kind = c.kind /\ n.addr = c.addr /\ n.key = c.key
  BY <1>1, Zenon DEF Kept
<1>4. Outermost(n) = Outermost(c) /\ Job(n) = Job(c) BY <1>1, <1>3 DEF Outermost, Job
<1>5. Holds(c) /\ (Direct(c) \/ Through(c)) BY <1>1, <1>2 DEF ShapeOf
<1>6. Holds(n) BY <1>1, <1>3, <1>4, <1>5 DEF Holds, Begun
<1>7. Direct(c) => Direct(n) BY <1>1, <1>3 DEF Direct
<1>8. Through(c) => Through(n) BY <1>1, <1>3 DEF Through
<1>9. Does(c) \in {"malloc", "export"} => Job(c) \in {"malloc", "export"}
  BY <1>1, <1>2, DoesIs
<1>10. (~n.own /\ Outermost(n).name \in MayFail) \/ Job(n) \in {"malloc", "export"}
  BY <1>1, <1>3, <1>4, <1>9
<1>11. /\ layers'[t] = IF n.outer.api = "acl" THEN <<n.outer.name>> ELSE <<>>
       /\ n.sent = IF n.own THEN 0 ELSE PreCount(Outermost(n), n.kind) + 0
  BY <1>1, <1>2, <1>3, <1>4 DEF ShapeOf
<1> HIDE DEF n
<1>12. QED BY <1>1, <1>5, <1>6, <1>7, <1>8, <1>10, <1>11 DEF ShapeOf, Begun, n

LEMMA DriverShape ==
  ASSUME Base, NEW t \in Thread, Driver(t)
  PROVE  ShapeOf(call'[t], layers'[t]) /\ OnlyThread(t)
<1> DEFINE c == call[t]
           n == call'[t]
<1>1. /\ c.pc = "driver" /\ OnlyThread(t) /\ layers'[t] = layers[t]
      /\ n.pc = "rtPost" /\ n.outer = c.outer /\ n.inner = c.inner /\ n.kind = c.kind
      /\ n.own = c.own /\ n.masked = c.masked /\ n.ok = c.ok /\ n.sent = c.sent
      /\ DriverDoes(c, n)
  BY DriverIs
<1>2. ShapeOf(c, layers[t]) BY DEF Base, Shapes
<1>3. Outermost(n) = Outermost(c) /\ Job(n) = Job(c) BY <1>1 DEF Outermost, Job
<1>4. Holds(c) /\ (Direct(c) \/ Through(c)) /\ c.ok BY <1>1, <1>2 DEF ShapeOf, Begun
<1>5. Holds(n)
  <2>1. Job(c) \in {"malloc", "map", "free", "access"} \cup Opens \cup Closes BY <1>1, <1>2, DoesIs
  <2>2. IF Job(c) = "closeKey" THEN Does(c) \in {"destroy", "close"} ELSE Does(c) = Job(c)
    BY <1>1, <1>2, DoesIs
  <2>3. Job(c) = "malloc" => n.addr \in Device /\ n.key = c.key
    BY <1>1, <2>2 DEF DriverDoes, Freed
  <2>4. Job(c) = "import" => n.addr \in Window /\ n.key = c.key
    BY <1>1, <2>2 DEF DriverDoes, Freed
  <2>5. Job(c) = "export" => n.addr = c.addr /\ n.key \in Key
    BY <1>1, <2>2 DEF DriverDoes
  <2>6. Job(c) \notin {"malloc", "import", "export"} => n.addr = c.addr /\ n.key = c.key
    BY <1>1, <2>2 DEF DriverDoes
  <2>7. n.own = c.own /\ n.ok /\ n.kind = c.kind BY <1>1, <1>4
  <2>8. QED BY <1>1, <1>3, <1>4, <2>1, <2>3, <2>4, <2>5, <2>6, <2>7 DEF Holds, Begun, Opens, Closes
<1>6. Direct(c) => Direct(n) BY <1>1 DEF Direct
<1>7. Through(c) => Through(n) BY <1>1 DEF Through
<1>8. /\ layers'[t] = IF n.outer.api = "acl" THEN <<n.outer.name>> ELSE <<>>
      /\ n.sent = IF n.own THEN 0 ELSE PreCount(Outermost(n), n.kind) + 0
  BY <1>1, <1>2, <1>3 DEF ShapeOf
<1>9. n.ok BY <1>1, <1>4
<1> HIDE DEF n
<1>10. QED BY <1>1, <1>4, <1>5, <1>6, <1>7, <1>8, <1>9 DEF ShapeOf, n

LEMMA LeaveRtShape ==
  ASSUME Base, NEW t \in Thread, LeaveRt(t)
  PROVE  ShapeOf(call'[t], layers'[t]) /\ OnlyThread(t)
<1> DEFINE c == call[t]
           n == call'[t]
<1>1. /\ c.pc = "rtPost" /\ OnlyThread(t) /\ layers'[t] = layers[t]
      /\ Kept(n, c) /\ n.ok = c.ok
      /\ n.pc = IF c.outer = None THEN "returned" ELSE "aclPost"
      /\ n.inner = c.inner /\ n.masked = c.masked
      /\ n.sent = c.sent + PostCount(Said(c), c.ok)
  BY LeaveRtIs
<1>2. ShapeOf(c, layers[t]) /\ c \in Frames BY DEF Base, Shapes, TypeOK
<1>3. n.outer = c.outer /\ n.own = c.own /\ n.kind = c.kind BY <1>1, Zenon DEF Kept
<1>4. Outermost(n) = Outermost(c) /\ Job(n) = Job(c) BY <1>1, <1>3 DEF Outermost, Job
<1>5. Holds(c) /\ (Direct(c) \/ Through(c)) BY <1>1, <1>2 DEF ShapeOf
<1>6. Holds(n) BY <1>1, <1>4, <1>5, HoldsKept DEF Begun
<1>7. c.sent = (IF c.own THEN 0 ELSE PreCount(Outermost(c), c.kind) + 0) /\ c.sent \in Nat
  BY <1>1, <1>2 DEF ShapeOf, Frames
<1>8. ASSUME Direct(c)
      PROVE  /\ Direct(n) /\ n.pc = "returned" /\ ~n.own
             /\ n.sent = PreCount(Outermost(n), n.kind) + PostCount(Outermost(n), n.ok)
  <2>1. c.outer = None /\ ~c.own /\ ~c.masked BY <1>8 DEF Direct
  <2>2. Said(c) = Outermost(c) BY <2>1 DEF Said, Outermost
  <2>3. Direct(n) BY <1>1, <1>3, <1>8, <2>1 DEF Direct
  <2>4. PreCount(Outermost(c), c.kind) \in Nat BY CountsAreNat
  <2>5. n.sent = PreCount(Outermost(n), n.kind) + PostCount(Outermost(c), c.ok)
    BY <1>1, <1>3, <1>4, <1>7, <2>1, <2>2, <2>4
  <2>6. PostCount(Outermost(c), c.ok) = PostCount(Outermost(n), n.ok) BY <1>1, <1>4
  <2>7. QED BY <1>1, <1>3, <2>1, <2>3, <2>5, <2>6
<1>9. ASSUME Through(c)
      PROVE  /\ Through(n) /\ n.pc = "aclPost"
             /\ n.sent = IF n.own THEN 0 ELSE PreCount(Outermost(n), n.kind) + 0
  <2>1. c.outer # None
    BY <1>9, AclHooks, OwnCalls DEF Through
  <2>2. Said(c) = None BY <1>1, <1>9 DEF Said, Through
  <2>3. PostCount(Said(c), c.ok) = 0 BY <2>2, NoneIs DEF PostCount
  <2>4. n.sent = c.sent BY <1>1, <1>7, <2>3
  <2>5. Through(n) BY <1>1, <1>3, <1>9, <2>1 DEF Through
  <2>6. QED BY <1>1, <1>3, <1>4, <1>7, <2>1, <2>4, <2>5
<1>10. layers'[t] = IF n.outer.api = "acl" THEN <<n.outer.name>> ELSE <<>>
  BY <1>1, <1>2, <1>3 DEF ShapeOf
<1>11. n.ok \/ (n.pc \notin Begun /\ ((~n.own /\ Outermost(n).name \in MayFail)
                                      \/ Job(n) \in {"malloc", "export"}))
  <2>1. n.pc \in {"returned", "aclPost"} BY <1>1
  <2>2. c.ok \/ (~c.own /\ Outermost(c).name \in MayFail) \/ Job(c) \in {"malloc", "export"}
    BY <1>1, <1>2 DEF ShapeOf
  <2>3. n.ok = c.ok BY <1>1
  <2>4. QED BY <1>3, <1>4, <2>1, <2>2, <2>3 DEF Begun
<1>12. n.pc # "idle" BY <1>1
<1> HIDE DEF n
<1>13. QED BY <1>1, <1>5, <1>6, <1>8, <1>9, <1>10, <1>11, <1>12 DEF ShapeOf, n

LEMMA LeaveAclShape ==
  ASSUME Base, NEW t \in Thread, LeaveAcl(t)
  PROVE  ShapeOf(call'[t], layers'[t]) /\ OnlyThread(t)
<1> DEFINE c == call[t]
           n == call'[t]
<1>1. /\ c.pc = "aclPost" /\ OnlyThread(t) /\ layers'[t] = layers[t]
      /\ Kept(n, c) /\ n.ok = c.ok /\ n.pc = "returned"
      /\ n.inner = c.inner /\ n.masked = c.masked
      /\ n.sent = c.sent + PostCount(c.outer, c.ok)
  BY LeaveAclIs
<1>2. ShapeOf(c, layers[t]) /\ c \in Frames BY DEF Base, Shapes, TypeOK
<1>3. n.outer = c.outer /\ n.own = c.own /\ n.kind = c.kind BY <1>1, Zenon DEF Kept
<1>4. Outermost(n) = Outermost(c) /\ Job(n) = Job(c) BY <1>1, <1>3 DEF Outermost, Job
<1>5. Holds(c) /\ Through(c) BY <1>1, <1>2 DEF ShapeOf, Direct
<1>6. Holds(n) BY <1>1, <1>4, <1>5, HoldsKept DEF Begun
<1>7. Through(n) BY <1>1, <1>3, <1>5 DEF Through
<1>8. c.outer # None BY <1>5, AclHooks, OwnCalls DEF Through
<1>9. Outermost(c) = c.outer BY <1>8 DEF Outermost
<1>10. c.sent = (IF c.own THEN 0 ELSE PreCount(Outermost(c), c.kind) + 0) /\ c.sent \in Nat
  BY <1>1, <1>2 DEF ShapeOf, Frames
<1>11. n.sent = IF n.own THEN 0
                ELSE PreCount(Outermost(n), n.kind) + PostCount(Outermost(n), n.ok)
  <2>1. PostCount(Outermost(c), c.ok) = PostCount(Outermost(n), n.ok) BY <1>1, <1>4
  <2>2. CASE c.own
    <3>1. c.outer.post = "none" BY <1>5, <2>2, OwnCalls DEF Through, OwnCallOK
    <3>2. PostCount(c.outer, c.ok) = 0 BY <3>1 DEF PostCount
    <3>3. n.sent = 0 BY <1>1, <1>10, <2>2, <3>2
    <3>4. QED BY <1>3, <2>2, <3>3
  <2>3. CASE ~c.own
    <3>1. PreCount(Outermost(c), c.kind) \in Nat BY CountsAreNat
    <3>2. n.sent = PreCount(Outermost(c), c.kind) + PostCount(Outermost(c), c.ok)
      BY <1>1, <1>9, <1>10, <2>3, <3>1
    <3>3. QED BY <1>3, <1>4, <2>1, <2>3, <3>2
  <2>4. QED BY <2>2, <2>3
<1>12. layers'[t] = IF n.outer.api = "acl" THEN <<n.outer.name>> ELSE <<>>
  BY <1>1, <1>2, <1>3 DEF ShapeOf
<1>13. n.ok \/ (n.pc \notin Begun /\ ((~n.own /\ Outermost(n).name \in MayFail)
                                      \/ Job(n) \in {"malloc", "export"}))
  <2>1. c.ok \/ (~c.own /\ Outermost(c).name \in MayFail) \/ Job(c) \in {"malloc", "export"}
    BY <1>1, <1>2 DEF ShapeOf
  <2>2. n.ok = c.ok BY <1>1
  <2>3. QED BY <1>1, <1>3, <1>4, <2>1, <2>2 DEF Begun
<1> HIDE DEF n
<1>14. QED BY <1>1, <1>6, <1>7, <1>11, <1>12, <1>13 DEF ShapeOf, n

\* Every step is one of a thread, and keeps the shape of all frames.
LEMMA ShapesStep ==
  ASSUME Base, Next
  PROVE  Shapes' /\ \E t \in Thread : OnlyThread(t)
<1>1. PICK t \in Thread :
         \/ \E h \in AclHook : CallAcl(t, h, FALSE)
         \/ \E h \in OwnCall : CallAcl(t, h, TRUE)
         \/ \E h \in RtHook : CallRt(t, h)
         \/ Descend(t) \/ DriverFails(t) \/ Driver(t) \/ LeaveRt(t) \/ LeaveAcl(t) \/ Return(t)
  BY DEF Next
<1> DEFINE Done == ShapeOf(call'[t], layers'[t]) /\ OnlyThread(t)
<1>2. ASSUME NEW h \in AclHook, CallAcl(t, h, FALSE) PROVE Done BY <1>2, CallAclShape
<1>3. ASSUME NEW h \in OwnCall, CallAcl(t, h, TRUE) PROVE Done BY <1>3, CallAclShape
<1>4. ASSUME NEW h \in RtHook, CallRt(t, h) PROVE Done BY <1>4, CallRtShape
<1>5. ASSUME Descend(t) PROVE Done BY <1>5, DescendShape
<1>6. ASSUME DriverFails(t) PROVE Done BY <1>6, DriverFailsShape
<1>7. ASSUME Driver(t) PROVE Done BY <1>7, DriverShape
<1>8. ASSUME LeaveRt(t) PROVE Done BY <1>8, LeaveRtShape
<1>9. ASSUME LeaveAcl(t) PROVE Done BY <1>9, LeaveAclShape
<1>10. ASSUME Return(t) PROVE Done
  <2>1. OnlyThread(t) /\ layers'[t] = <<>> /\ call'[t] = Idle BY <1>10, ReturnIs
  <2>2. Idle.pc = "idle" BY DEF Idle
  <2>3. QED BY <2>1, <2>2 DEF ShapeOf
<1>11. Done BY <1>1, <1>2, <1>3, <1>4, <1>5, <1>6, <1>7, <1>8, <1>9, <1>10
<1>12. ASSUME NEW u \in Thread PROVE ShapeOf(call'[u], layers'[u])
  <2>1. CASE u = t BY <1>11, <2>1
  <2>2. CASE u # t
    <3>1. call'[u] = call[u] /\ layers'[u] = layers[u] BY <1>11, <2>2 DEF OnlyThread
    <3>2. ShapeOf(call[u], layers[u]) BY DEF Base, Shapes
    <3>3. QED BY <3>1, <3>2
  <2>3. QED BY <2>1, <2>2
<1>13. Shapes' BY <1>12 DEF Shapes
<1>14. QED BY <1>11, <1>13
-----------------------------------------------------------------------------
(* What a call tells, and the types of what it is kept in.                 *)

\* The step in which c tells what it did, if it does at all.
Tells(c) ==
    /\ c.pc = "aclPost" \/ c.outer = None
    /\ ~c.own /\ Outermost(c).post # "none" /\ (Outermost(c).checks => c.ok)

Tell(c) ==
    LET o == Outermost(c) IN
    /\ Job(c) \in {"malloc", "map"} => MallocReported(o, c) /\ UNCHANGED <<known, ipcMemInfoMap>>
    /\ Job(c) \in Opens \cup Closes => UNCHANGED <<allocated, cached>>
    /\ Job(c) = "export" =>
          /\ SetInfo(c.key, c.addr)
          /\ ipcMemInfoMap' = IF o.api = "acl"
                              THEN Inserted(c.key, [actor |-> "SHARER", addr |-> c.addr])
                              ELSE ipcMemInfoMap
    /\ Job(c) = "import" =>
          /\ MapInfo(c.key, c.addr)
          /\ ipcMemInfoMap' = IF o.api = "acl"
                              THEN Inserted(c.key, [actor |-> "SHAREE", addr |-> c.addr])
                              ELSE ipcMemInfoMap
    /\ Job(c) = "destroy" => DestroyInfo(c.key) /\ UNCHANGED ipcMemInfoMap
    /\ Job(c) = "close" => UnmapInfo(c.addr) /\ UNCHANGED ipcMemInfoMap
    /\ Job(c) = "closeKey" => CloseReported(c.key)

\* The two wrappers' ends as one: the frame, and what is told.
Leaves(t) ==
    LET c == call[t]
        n == call'[t]
    IN
    /\ c.pc \in Made /\ OnlyThread(t) /\ Kept(n, c) /\ n.ok = c.ok /\ n.inner = c.inner
    /\ n.pc = IF c.pc = "aclPost" \/ c.outer = None THEN "returned" ELSE "aclPost"
    /\ IF Tells(c) THEN Tell(c) ELSE UNCHANGED <<allocated, cached, known, ipcMemInfoMap>>
    /\ UNCHANGED <<heap, shares, overtaken, nr>>
    /\ Tells(c) => Job(c) \in {"malloc", "map"} \cup Opens \cup Closes

\* Post of the outermost hook tells.
LEMMA PostTells ==
  ASSUME NEW t \in Thread, NEW c, NEW stack, ShapeOf(c, stack), c.pc # "idle", ~c.own,
         NEW next, Post(t, Outermost(c), c, next)
  PROVE  LET o == Outermost(c)
             told == o.post # "none" /\ (o.checks => c.ok)
         IN  /\ IF told THEN Tell(c) ELSE UNCHANGED <<allocated, cached, known, ipcMemInfoMap>>
             /\ told => Job(c) \in {"malloc", "map"} \cup Opens \cup Closes
<1> DEFINE o == Outermost(c)
           told == o.post # "none" /\ (o.checks => c.ok)
<1>1. o \in AclHook \cup RtHook /\ o.does = Job(c) /\ ReportsOf(o) BY DoesIs, OutermostIs
<1>2. CASE ~told
  <2>1. UNCHANGED <<allocated, cached, known, ipcMemInfoMap>> BY <1>2 DEF Post
  <2>2. QED BY <1>2, <2>1
<1>3. CASE told
  <2>1. ~(o.post = "none" \/ (o.checks /\ ~c.ok)) BY <1>3
  <2>2. o.does \in {"malloc", "map"} \cup Opens \cup Closes BY <1>1, <1>3 DEF ReportsOf
  <2>3. CASE o.does \in {"malloc", "map"}
    <3>1. o.post = "MALLOC" BY <1>1, <2>3 DEF ReportsOf
    <3>2. MallocReported(o, c) /\ UNCHANGED <<known, ipcMemInfoMap>> BY <2>1, <3>1 DEF Post
    <3>3. Tell(c) BY <1>1, <2>3, <3>2 DEF Tell, Opens, Closes
    <3>4. QED BY <1>1, <1>3, <2>2, <3>3
  <2>4. CASE o.does = "export"
    <3>1. \/ o.post = "SET" /\ o.api # "acl"
          \/ o.post = "aclSET" /\ o.api = "acl"
      BY <1>1, <2>4, AclHooks, RtHooks DEF AclHookOK, RtHookOK
    <3>2. /\ SetInfo(c.key, c.addr) /\ UNCHANGED <<allocated, cached>>
          /\ ipcMemInfoMap' = IF o.api = "acl"
                              THEN Inserted(c.key, [actor |-> "SHARER", addr |-> c.addr])
                              ELSE ipcMemInfoMap
      BY <2>1, <3>1 DEF Post
    <3>3. Tell(c) BY <1>1, <2>4, <3>2 DEF Tell
    <3>4. QED BY <1>1, <1>3, <2>2, <3>3
  <2>5. CASE o.does = "import"
    <3>1. \/ o.post = "MAP" /\ o.api # "acl"
          \/ o.post = "aclMAP" /\ o.api = "acl"
      BY <1>1, <2>5, AclHooks, RtHooks DEF AclHookOK, RtHookOK
    <3>2. /\ MapInfo(c.key, c.addr) /\ UNCHANGED <<allocated, cached>>
          /\ ipcMemInfoMap' = IF o.api = "acl"
                              THEN Inserted(c.key, [actor |-> "SHAREE", addr |-> c.addr])
                              ELSE ipcMemInfoMap
      BY <2>1, <3>1 DEF Post
    <3>3. Tell(c) BY <1>1, <2>5, <3>2 DEF Tell
    <3>4. QED BY <1>1, <1>3, <2>2, <3>3
  <2>6. CASE o.does = "closeKey"
    <3>1. o.post = "aclCLOSE" BY <1>1, <2>6, AclHooks, RtHooks DEF AclHookOK, RtHookOK
    <3>2. CloseReported(c.key) /\ UNCHANGED <<allocated, cached>> BY <2>1, <3>1 DEF Post
    <3>3. Tell(c) BY <1>1, <2>6, <3>2 DEF Tell
    <3>4. QED BY <1>1, <1>3, <2>2, <3>3
  <2>7. CASE o.does \in {"destroy", "close"}
    <3>1. o.does = "destroy" => o.post = "DESTROY"
      BY <1>1, <2>7, AclHooks, RtHooks DEF AclHookOK, RtHookOK
    <3>2. o.does = "close" => o.post = "UNMAP"
      BY <1>1, <2>7, AclHooks, RtHooks DEF AclHookOK, RtHookOK
    <3>3. o.does = "destroy" =>
             DestroyInfo(c.key) /\ UNCHANGED <<allocated, cached, ipcMemInfoMap>>
      BY <2>1, <3>1 DEF Post
    <3>4. o.does = "close" => UnmapInfo(c.addr) /\ UNCHANGED <<allocated, cached, ipcMemInfoMap>>
      BY <2>1, <3>2 DEF Post
    <3>5. Tell(c) BY <1>1, <2>7, <3>3, <3>4 DEF Tell
    <3>6. QED BY <1>1, <1>3, <2>2, <3>5
  <2>8. QED BY <2>2, <2>3, <2>4, <2>5, <2>6, <2>7 DEF Opens, Closes
<1>4. QED BY <1>2, <1>3
LEMMA LeaveRtTells ==
  ASSUME Base, NEW t \in Thread, LeaveRt(t)
  PROVE  Leaves(t)
<1> DEFINE c == call[t]
           n == call'[t]
<1>1. /\ c.pc = "rtPost" /\ OnlyThread(t) /\ Kept(n, c) /\ n.ok = c.ok /\ n.inner = c.inner
      /\ n.pc = IF c.outer = None THEN "returned" ELSE "aclPost"
  BY LeaveRtIs
<1>2. ShapeOf(c, layers[t]) BY DEF Base, Shapes
<1>3. UNCHANGED <<heap, shares, overtaken, nr>> BY DEF LeaveRt
<1>4. \E next : Post(t, Said(c), c, next) BY DEF LeaveRt, Said
<1>5. CASE c.outer = None
  <2>1. Direct(c) BY <1>1, <1>2, <1>5, AclHooks, OwnCalls DEF ShapeOf, Through
  <2>2. Said(c) = Outermost(c) /\ ~c.own BY <1>5, <2>1 DEF Direct, Said, Outermost
  <2>3. PICK next : Post(t, Outermost(c), c, next) BY <1>4, <2>2
  <2>4. LET told == Outermost(c).post # "none" /\ (Outermost(c).checks => c.ok)
        IN  /\ IF told THEN Tell(c) ELSE UNCHANGED <<allocated, cached, known, ipcMemInfoMap>>
            /\ told => Job(c) \in {"malloc", "map"} \cup Opens \cup Closes
    BY <1>1, <1>2, <2>2, <2>3, PostTells
  <2>5. Tells(c) <=> Outermost(c).post # "none" /\ (Outermost(c).checks => c.ok)
    BY <1>5, <2>2 DEF Tells
  <2>6. QED BY <1>1, <1>3, <1>5, <2>4, <2>5 DEF Leaves, Made
<1>6. CASE c.outer # None
  <2>1. Through(c) BY <1>1, <1>2, <1>6 DEF ShapeOf, Direct
  <2>2. Said(c) = None BY <1>1, <2>1 DEF Said, Through
  <2>3. PICK next : Post(t, None, c, next) BY <1>4, <2>2
  <2>4. UNCHANGED <<allocated, cached, known, ipcMemInfoMap>> BY <2>3, NoneIs DEF Post
  <2>5. ~Tells(c) BY <1>1, <1>6 DEF Tells
  <2>6. QED BY <1>1, <1>3, <1>6, <2>4, <2>5 DEF Leaves, Made
<1>7. QED BY <1>5, <1>6

LEMMA LeaveAclTells ==
  ASSUME Base, NEW t \in Thread, LeaveAcl(t)
  PROVE  Leaves(t)
<1> DEFINE c == call[t]
           n == call'[t]
<1>1. /\ c.pc = "aclPost" /\ OnlyThread(t) /\ Kept(n, c) /\ n.ok = c.ok /\ n.inner = c.inner
      /\ n.pc = "returned"
  BY LeaveAclIs
<1>2. ShapeOf(c, layers[t]) BY DEF Base, Shapes
<1>3. UNCHANGED <<heap, shares, overtaken, nr>> BY DEF LeaveAcl
<1>4. Through(c) BY <1>1, <1>2 DEF ShapeOf, Direct
<1>5. c.outer # None /\ Outermost(c) = c.outer
  BY <1>4, AclHooks, OwnCalls DEF Through, Outermost
<1>6. PICK next : Post(t, Outermost(c), c, next) BY <1>5 DEF LeaveAcl
<1>7. CASE c.own
  <2>1. c.outer.post = "none" BY <1>4, <1>7, OwnCalls DEF Through, OwnCallOK
  <2>2. UNCHANGED <<allocated, cached, known, ipcMemInfoMap>> BY <1>5, <1>6, <2>1 DEF Post
  <2>3. ~Tells(c) BY <1>7 DEF Tells
  <2>4. QED BY <1>1, <1>3, <2>2, <2>3 DEF Leaves, Made
<1>8. CASE ~c.own
  <2>1. LET told == Outermost(c).post # "none" /\ (Outermost(c).checks => c.ok)
        IN  /\ IF told THEN Tell(c) ELSE UNCHANGED <<allocated, cached, known, ipcMemInfoMap>>
            /\ told => Job(c) \in {"malloc", "map"} \cup Opens \cup Closes
    BY <1>1, <1>2, <1>6, <1>8, PostTells
  <2>2. Tells(c) <=> Outermost(c).post # "none" /\ (Outermost(c).checks => c.ok)
    BY <1>1, <1>8 DEF Tells
  <2>3. QED BY <1>1, <1>3, <2>1, <2>2 DEF Leaves, Made
<1>9. QED BY <1>7, <1>8

\* What is told keeps its type.
LEMMA LeavesType ==
  ASSUME Base, NEW t \in Thread, Leaves(t), layers' = layers
  PROVE  TypeOK'
<1> DEFINE c == call[t]
<1>1. TypeOK /\ ShapeOf(c, layers[t]) /\ c \in Frames BY DEF Base, TypeOK, Shapes
<1>2. /\ call' \in [Thread -> Frames] /\ layers' \in [Thread -> Seq(Names)]
      /\ heap' \in [Addr -> {"free", "app", "tool", "shared"}]
      /\ shares' \subseteq [api : {"acl", "rt"}, info : Infos]
      /\ overtaken' \subseteq Key /\ nr' \in [Thread -> Nat]
  BY <1>1 DEF Leaves, OnlyThread, TypeOK
<1>3. CASE ~Tells(c) BY <1>1, <1>2, <1>3 DEF Leaves, TypeOK
<1>4. CASE Tells(c)
  <2>1. /\ c.pc \in Made /\ Tell(c) /\ Job(c) \in {"malloc", "map"} \cup Opens \cup Closes /\ ~c.own
        /\ Outermost(c).checks => c.ok
    BY <1>4 DEF Leaves, Tells
  <2>2. Holds(c) /\ ReportsOf(Outermost(c)) /\ Outermost(c).does = Job(c)
    BY <1>1, <2>1, OutermostIs DEF ShapeOf, Made
  <2>3. Job(c) \in {"malloc", "map"} => c.addr \in Addr
    <3>1. Job(c) = "malloc" => c.ok BY <2>1, <2>2 DEF ReportsOf
    <3>2. QED BY <2>1, <2>2, <3>1 DEF Holds, Made, Begun, Addr
  <2>4. Job(c) \in Opens \cup Closes => c.key \in Key
    <3>1. Job(c) = "export" => c.ok BY <2>1, <2>2 DEF ReportsOf
    <3>2. QED BY <2>1, <2>2, <3>1 DEF Holds, Made, Begun, Opens, Closes
  <2>5. c.addr \in Addr \cup {NoAddr} BY <1>1 DEF Frames
  <2>6. CASE Job(c) \in {"malloc", "map"}
    <3>1. MallocReported(Outermost(c), c) /\ UNCHANGED <<known, ipcMemInfoMap>>
      BY <2>1, <2>6 DEF Tell
    <3>2. QED BY <1>1, <1>2, <2>3, <2>6, <3>1 DEF MallocReported, TypeOK
  <2>7. CASE Job(c) \in Opens \cup Closes
    <3>1. allocated' = allocated /\ cached' = cached BY <2>1, <2>7 DEF Tell
    <3>2. DOMAIN ipcMemInfoMap' \subseteq Key
      <4>1. \A v : DOMAIN Inserted(c.key, v) \subseteq Key
        BY <1>1, <2>4, <2>7 DEF Inserted, TypeOK
      <4>2. DOMAIN Erased(c.key) \subseteq Key BY <1>1 DEF Erased, TypeOK
      <4>3. QED BY <1>1, <2>1, <2>7, <4>1, <4>2 DEF Tell, CloseReported, TypeOK, Opens, Closes
    <3>3. known' \subseteq [key : Key, actor : Actor, addr : Addr \cup {NoAddr}]
      <4>1. \A r \in Actor : Info(c.key, r, c.addr) \in
                                [key : Key, actor : Actor, addr : Addr \cup {NoAddr}]
        BY <2>4, <2>5, <2>7 DEF Info
      <4>2. \/ known' \subseteq known
            \/ \E r \in Actor : known' = known \cup {Info(c.key, r, c.addr)}
        BY <2>1, <2>7
           DEF Tell, CloseReported, SetInfo, MapInfo, DestroyInfo, UnmapInfo, Actor, Opens, Closes
      <4>3. QED BY <1>1, <4>1, <4>2 DEF TypeOK
    <3>4. QED BY <1>1, <1>2, <3>1, <3>2, <3>3 DEF TypeOK
  <2>8. QED BY <2>1, <2>6, <2>7
<1>5. QED BY <1>3, <1>4

LEMMA BeginType ==
  ASSUME Base, NEW h, NEW c, call' \in [Thread -> Frames], layers' \in [Thread -> Seq(Names)],
         FreeReported(h, c) \/ UNCHANGED <<allocated, cached>>, nr' \in [Thread -> Nat],
         UNCHANGED <<heap, shares, ipcMemInfoMap, known, overtaken>>
  PROVE  TypeOK'
<1>1. allocated' \subseteq allocated /\ cached' \subseteq cached BY DEF FreeReported
<1>2. QED BY <1>1 DEF Base, TypeOK

LEMMA CallAclType ==
  ASSUME Base, NEW t \in Thread, NEW own \in BOOLEAN,
         NEW h \in IF own THEN OwnCall ELSE AclHook, CallAcl(t, h, own)
  PROVE  TypeOK'
<1>0. PICK x : CallAclDone(t, h, own, x) BY CallAclIs
<1>1. /\ OnlyThread(t)
      /\ h.pre = "FREE" => FreeReported(h, call'[t])
      /\ h.pre # "FREE" => UNCHANGED <<allocated, cached>>
  BY <1>0 DEF CallAclDone
<1>2. call' \in [Thread -> Frames] BY <1>1 DEF OnlyThread
<1>3. TypeOK BY DEF Base
<1>4. layers' \in [Thread -> Seq(Names)]
  <2>1. h.name \in Names
    <3>1. h \in Description BY DEF Description, Hook
    <3>2. QED BY <3>1 DEF Names
  <2>2. <<h.name>> \o layers[t] \in Seq(Names)
    BY <1>3, <2>1 DEF TypeOK
  <2>3. QED BY <1>3, <2>2 DEF CallAcl, TypeOK
<1>5. nr' \in [Thread -> Nat] BY <1>3 DEF CallAcl, TypeOK
<1>6. UNCHANGED <<heap, shares, ipcMemInfoMap, known, overtaken>> BY DEF CallAcl
<1>7. FreeReported(h, call'[t]) \/ UNCHANGED <<allocated, cached>> BY <1>1
<1>8. QED BY <1>2, <1>4, <1>5, <1>6, <1>7, BeginType

LEMMA CallRtType ==
  ASSUME Base, NEW t \in Thread, NEW h \in RtHook, CallRt(t, h)
  PROVE  TypeOK'
<1>1. PICK x : /\ OnlyThread(t)
               /\ h.pre = "FREE" => FreeReported(h, call'[t])
               /\ h.pre # "FREE" => UNCHANGED <<allocated, cached>>
  BY CallRtIs
<1>2. call' \in [Thread -> Frames] BY <1>1 DEF OnlyThread
<1>3. TypeOK BY DEF Base
<1>4. layers' \in [Thread -> Seq(Names)] /\ nr' \in [Thread -> Nat] BY <1>3 DEF CallRt, TypeOK
<1>5. UNCHANGED <<heap, shares, ipcMemInfoMap, known, overtaken>> BY DEF CallRt
<1>6. FreeReported(h, call'[t]) \/ UNCHANGED <<allocated, cached>> BY <1>1
<1>7. QED BY <1>2, <1>4, <1>5, <1>6, BeginType

LEMMA DriverType ==
  ASSUME Base, NEW t \in Thread, Driver(t)
  PROVE  TypeOK'
<1> DEFINE c == call[t]
           n == call'[t]
<1>1. c.pc = "driver" /\ OnlyThread(t) /\ DriverDoes(c, n) BY DriverIs
<1>2. TypeOK /\ ShapeOf(c, layers[t]) BY DEF Base, Shapes
<1>3. Holds(c) /\ c.ok BY <1>1, <1>2 DEF ShapeOf, Begun
<1>4. IF Job(c) = "closeKey" THEN Does(c) \in {"destroy", "close"} ELSE Does(c) = Job(c)
  BY <1>1, <1>2, DoesIs
<1>5. Does(c) \in {"malloc", "map", "free", "access", "import", "export", "destroy", "close"}
  BY <1>1, <1>2, <1>4, DoesIs DEF Opens, Closes
<1>6. heap' \in [Addr -> {"free", "app", "tool", "shared"}]
  <2>1. Who(c) \in {"app", "tool"} BY DEF Who
  <2>2. QED BY <1>1, <1>2, <1>5, <2>1 DEF DriverDoes, TypeOK
<1>7. Does(c) \in Opens => Outermost(c).api \in {"acl", "rt"}
  <2>1. ASSUME Does(c) \in Opens PROVE Outermost(c).api \in {"acl", "rt"}
    <3>1. Job(c) \in Opens BY <1>4, <2>1 DEF Opens
    <3>2. Outermost(c) \in AclHook \cup OwnCall \cup RtHook /\ Outermost(c).does = Job(c)
      BY <1>1, <1>2, DoesIs, OutermostIs
    <3>3. QED BY <3>1, <3>2, AclHooks, RtHooks, OwnCalls
            DEF AclHookOK, RtHookOK, OwnCallOK, Opens
  <2>2. QED BY <2>1
<1>8. shares' \subseteq [api : {"acl", "rt"}, info : Infos]
  <2>1. CASE Does(c) = "export"
    <3>1. n.key \in Key /\ c.addr \in Addr BY <1>1, <1>3, <1>4, <2>1 DEF DriverDoes, Holds, Addr
    <3>2. [api |-> Outermost(c).api, info |-> Info(n.key, "SHARER", c.addr)] \in
             [api : {"acl", "rt"}, info : Infos]
      BY <1>7, <2>1, <3>1 DEF Info, Infos, Actor, Opens
    <3>3. shares' = shares \cup {[api |-> Outermost(c).api, info |-> Info(n.key, "SHARER", c.addr)]}
      BY <1>1, <2>1 DEF DriverDoes, Shares
    <3>4. QED BY <1>2, <3>2, <3>3 DEF TypeOK
  <2>2. CASE Does(c) = "import"
    <3>1. c.key \in Key /\ n.addr \in Addr
      BY <1>1, <1>3, <1>4, <2>2 DEF DriverDoes, Holds, Addr, Freed
    <3>2. [api |-> Outermost(c).api, info |-> Info(c.key, "SHAREE", n.addr)] \in
             [api : {"acl", "rt"}, info : Infos]
      BY <1>7, <2>2, <3>1 DEF Info, Infos, Actor, Opens
    <3>3. shares' = shares \cup {[api |-> Outermost(c).api, info |-> Info(c.key, "SHAREE", n.addr)]}
      BY <1>1, <2>2 DEF DriverDoes, Shares
    <3>4. QED BY <1>2, <3>2, <3>3 DEF TypeOK
  <2>3. CASE Does(c) \notin Opens BY <1>1, <1>2, <1>5, <2>3 DEF DriverDoes, TypeOK, Opens
  <2>4. QED BY <2>1, <2>2, <2>3 DEF Opens
<1>9. overtaken' \subseteq Key
  <2>1. Does(c) = "import" => c.key \in Key BY <1>3, <1>4 DEF Holds
  <2>2. CASE Does(c) = "import"
    <3>1. overtaken' \subseteq overtaken \cup {c.key} BY <1>1, <2>2 DEF DriverDoes
    <3>2. QED BY <1>2, <2>1, <2>2, <3>1 DEF TypeOK
  <2>3. CASE Does(c) # "import" BY <1>1, <1>2, <2>3 DEF DriverDoes, TypeOK
  <2>4. QED BY <2>2, <2>3
<1>10. UNCHANGED <<layers, ipcMemInfoMap, allocated, cached, known, nr>> BY DEF Driver
<1>11. call' \in [Thread -> Frames] BY <1>1 DEF OnlyThread
<1>12. QED BY <1>2, <1>6, <1>8, <1>9, <1>10, <1>11 DEF TypeOK

\* A step, by what it is called here.
LEMMA Steps ==
  ASSUME Next
  PROVE  \E t \in Thread :
           \/ \E h \in AclHook : CallAcl(t, h, FALSE)
           \/ \E h \in OwnCall : CallAcl(t, h, TRUE)
           \/ \E h \in RtHook : CallRt(t, h)
           \/ Descend(t) \/ DriverFails(t) \/ Driver(t) \/ LeaveRt(t) \/ LeaveAcl(t) \/ Return(t)
  BY DEF Next

\* What a call holds and has reported, in every reachable state, whatever may fail.
THEOREM BaseInductive == Spec => []Base
<1>1. Init => Base
  <2>1. SUFFICES ASSUME Init PROVE Base OBVIOUS
  <2>2. Idle \in Frames
    <3>1. None \in Description /\ 0 \in Nat BY DEF Description
    <3>2. QED BY <3>1 DEF Idle, Frames
  <2>3. <<>> \in Seq(Names) /\ 0 \in Nat OBVIOUS
  <2>4. DOMAIN ipcMemInfoMap = {} BY <2>1 DEF Init
  <2>5. TypeOK BY <2>1, <2>2, <2>3, <2>4 DEF Init, TypeOK
  <2>6. Idle.pc = "idle" BY DEF Idle
  <2>7. Shapes BY <2>1, <2>6 DEF Init, Shapes, ShapeOf
  <2>8. QED BY <2>5, <2>7 DEF Base
<1>2. Base /\ [Next]_vars => Base'
  <2>1. ASSUME Base, Next PROVE Base'
    <3>1. Shapes' BY <2>1, ShapesStep
    <3>2. TypeOK'
      <4>1. PICK t \in Thread :
              \/ \E h \in AclHook : CallAcl(t, h, FALSE)
              \/ \E h \in OwnCall : CallAcl(t, h, TRUE)
              \/ \E h \in RtHook : CallRt(t, h)
              \/ Descend(t) \/ DriverFails(t) \/ Driver(t) \/ LeaveRt(t) \/ LeaveAcl(t) \/ Return(t)
        BY <2>1, Steps
      <4>2. ASSUME NEW h \in AclHook, CallAcl(t, h, FALSE) PROVE TypeOK'
        BY <2>1, <4>2, CallAclType
      <4>3. ASSUME NEW h \in OwnCall, CallAcl(t, h, TRUE) PROVE TypeOK'
        BY <2>1, <4>3, CallAclType
      <4>4. ASSUME NEW h \in RtHook, CallRt(t, h) PROVE TypeOK' BY <2>1, <4>4, CallRtType
      <4>5. ASSUME Descend(t) PROVE TypeOK'
        <5>1. OnlyThread(t) /\ UNCHANGED <<allocated, cached>> BY <2>1, <4>5, DescendIs
        <5>2. UNCHANGED <<layers, heap, shares, ipcMemInfoMap, known, overtaken, nr>>
          BY <4>5 DEF Descend
        <5>3. QED BY <2>1, <5>1, <5>2 DEF OnlyThread, Base, TypeOK
      <4>6. ASSUME DriverFails(t) PROVE TypeOK'
        <5>1. OnlyThread(t) BY <2>1, <4>6, DriverFailsIs
        <5>2. UNCHANGED <<layers, heap, shares, ipcMemInfoMap, allocated, cached, known,
                          overtaken, nr>>
          BY <4>6 DEF DriverFails
        <5>3. QED BY <2>1, <5>1, <5>2 DEF OnlyThread, Base, TypeOK
      <4>7. ASSUME Driver(t) PROVE TypeOK' BY <2>1, <4>7, DriverType
      <4>8. ASSUME LeaveRt(t) PROVE TypeOK'
        BY <2>1, <4>8, LeaveRtTells, LeavesType DEF LeaveRt
      <4>9. ASSUME LeaveAcl(t) PROVE TypeOK'
        BY <2>1, <4>9, LeaveAclTells, LeavesType DEF LeaveAcl
      <4>10. ASSUME Return(t) PROVE TypeOK'
        <5>1. OnlyThread(t) BY <2>1, <4>10, ReturnIs
        <5>2. UNCHANGED <<heap, shares, ipcMemInfoMap, allocated, cached, known, overtaken, nr>>
          BY <4>10 DEF Return
        <5>3. layers' \in [Thread -> Seq(Names)]
          <6>1. layers'[t] = <<>> BY <2>1, <4>10, ReturnIs
          <6>2. layers' = [layers EXCEPT ![t] = layers'[t]]
            BY <2>1, <4>10 DEF Return, Base, TypeOK
          <6>3. <<>> \in Seq(Names) OBVIOUS
          <6>4. [layers EXCEPT ![t] = <<>>] \in [Thread -> Seq(Names)]
            BY <2>1, <6>3 DEF Base, TypeOK
          <6>5. QED BY <6>1, <6>2, <6>4
        <5>4. QED BY <2>1, <5>1, <5>2, <5>3 DEF OnlyThread, Base, TypeOK
      <4>11. QED BY <4>1, <4>2, <4>3, <4>4, <4>5, <4>6, <4>7, <4>8, <4>9, <4>10
    <3>3. QED BY <3>1, <3>2 DEF Base
  <2>2. ASSUME Base, UNCHANGED vars PROVE Base'
    BY <2>2 DEF vars, Base, TypeOK, Shapes
  <2>3. QED BY <2>1, <2>2
<1>3. QED BY <1>1, <1>2, PTL DEF Spec

\* What a call has reported by the time it returns.
ReportedExactly(c) ==
    c.sent = IF ~c.own /\ ~c.ok /\ Outermost(c).name \in Unchecked THEN 1 ELSE Due(c)

\* Every operation has been reported as often as it is due when it returns,
\* except that the three hooks that do not look at the driver's answer tell of
\* the operation that failed as well.
LEMMA ExactWhenReturned ==
  ASSUME Base, NEW t \in Thread, call[t].pc = "returned"
  PROVE  ReportedExactly(call[t])
<1> DEFINE c == call[t]
           o == Outermost(c)
<1>1. ShapeOf(c, layers[t]) /\ c.pc # "idle" /\ c \in Frames BY DEF Base, Shapes, TypeOK
<1>2. Holds(c) /\ c.sent = IF c.own THEN 0 ELSE PreCount(o, c.kind) + PostCount(o, c.ok)
  BY <1>1 DEF ShapeOf
<1>3. IF Job(c) = "closeKey" THEN Does(c) \in {"destroy", "close"} ELSE Does(c) = Job(c)
  BY <1>1, DoesIs
<1>4. CASE c.own BY <1>2, <1>4 DEF ReportedExactly, Due
<1>5. CASE ~c.own
  <2>1. ReportsOf(o) /\ o.does = Job(c) BY <1>1, <1>5, OutermostIs
  <2>2. c.sent = PreCount(o, c.kind) + PostCount(o, c.ok) BY <1>2, <1>5
  <2>3. CASE Job(c) = "free"
    <3>1. c.sent = 1 BY <2>1, <2>2, <2>3 DEF ReportsOf, PreCount, PostCount
    <3>2. Due(c) = 1 BY <1>3, <1>5, <2>3 DEF Due
    <3>3. QED BY <3>1, <3>2 DEF ReportedExactly
  <2>4. CASE Job(c) = "access"
    <3>1. c.kind \in Kinds BY <1>2, <1>5, <2>4 DEF Holds
    <3>2. c.sent = Cardinality(Accesses(c.kind)) + 0
      BY <2>1, <2>2, <2>4 DEF ReportsOf, PreCount, PostCount
    <3>3. c.sent = (IF Stores(c.kind) THEN 1 ELSE 0) + (IF Loads(c.kind) THEN 1 ELSE 0)
      BY <3>2, AccessCount
    <3>4. Due(c) = CASE c.kind = "DEVICE_TO_DEVICE" -> 2 [] c.kind = "HOST_TO_HOST" -> 0 [] OTHER -> 1
      BY <1>3, <1>5, <2>4 DEF Due
    <3>5. c.sent = Due(c) BY <3>1, <3>3, <3>4 DEF Kinds, Stores, Loads
    <3>6. o.name \notin Unchecked
      BY <2>1, <2>4 DEF ReportsOf
    <3>7. QED BY <3>5, <3>6 DEF ReportedExactly
  <2>5. CASE Job(c) \notin {"free", "access"}
    <3>1. Due(c) = IF c.ok THEN 1 ELSE 0 BY <1>3, <1>5, <2>5 DEF Due
    <3>2. o.pre = "none" /\ o.post # "none" /\ (o.checks <=> o.name \notin Unchecked)
      BY <2>1, <2>5 DEF ReportsOf
    <3>3. c.sent = IF o.checks /\ ~c.ok THEN 0 ELSE 1 BY <2>2, <3>2 DEF PreCount, PostCount
    <3>4. QED BY <1>5, <3>1, <3>2, <3>3 DEF ReportedExactly
  <2>6. QED BY <2>3, <2>4, <2>5
<1>6. QED BY <1>4, <1>5

\* The same as a property of every reachable state, for any MayFail.
THEOREM ReportsAreExact ==
  Spec => [](\A t \in Thread : call[t].pc = "returned" => ReportedExactly(call[t]))
<1>1. Base => \A t \in Thread : call[t].pc = "returned" => ReportedExactly(call[t])
  BY ExactWhenReturned
<1>2. QED BY <1>1, BaseInductive, PTL

\* ReportedOnce, for threads that call what they like in any order: an operation
\* of the application is reported once, by the outermost hook alone, and the
\* tool's own calls never are, unless a function fails whose hook does not look
\* at the driver's answer.
THEOREM OncePerOperation ==
  ASSUME MayFail \cap Unchecked = {}
  PROVE  Spec => []ReportedOnce
<1>1. Base => ReportedOnce
  <2>1. SUFFICES ASSUME Base, NEW t \in Thread, call[t].pc = "returned"
                 PROVE  call[t].sent = Due(call[t])
    BY DEF ReportedOnce
  <2>2. ReportedExactly(call[t]) BY <2>1, ExactWhenReturned
  <2>3. ShapeOf(call[t], layers[t]) BY <2>1 DEF Base, Shapes
  <2>4. ASSUME ~call[t].own, ~call[t].ok PROVE Outermost(call[t]).name \notin Unchecked
    <3>1. CASE Outermost(call[t]).name \in MayFail BY <3>1
    <3>2. CASE Job(call[t]) \in {"malloc", "export"}
      <4>1. ReportsOf(Outermost(call[t])) /\ Outermost(call[t]).does = Job(call[t])
        BY <2>1, <2>3, <2>4, OutermostIs
      <4>2. QED BY <3>2, <4>1 DEF ReportsOf
    <3>3. QED BY <2>1, <2>3, <2>4, <3>1, <3>2 DEF ShapeOf
  <2>5. QED BY <2>2, <2>4 DEF ReportedExactly
<1>2. QED BY <1>1, BaseInductive, PTL
-----------------------------------------------------------------------------
(* The steps once more, by what they make of the rest of the state.        *)

Begins(t) ==
    LET c == call'[t]
        h == Outermost(c)
    IN
    /\ OnlyThread(t) /\ call[t].pc = "idle" /\ c.pc \in Begun /\ c.ok /\ Does(c) = Job(c)
    /\ \E x : AskedOK(h, c.own, x) /\ c.addr = x[1] /\ c.key = x[2]
    /\ h.pre = "FREE" => FreeReported(h, c)
    /\ h.pre # "FREE" => UNCHANGED <<allocated, cached>>
    /\ UNCHANGED <<heap, shares, ipcMemInfoMap, known, overtaken>>

Descends(t) ==
    LET c == call[t]
        n == call'[t]
    IN
    /\ OnlyThread(t) /\ c.pc = "beneath" /\ n.pc = "driver" /\ Kept(n, c) /\ n.ok = c.ok
    /\ Outermost(n) = Outermost(c)
    /\ Does(n) = IF Job(c) # "closeKey" THEN Job(c)
                 ELSE IF \E s \in shares : s.info.key = c.key /\ s.info.actor = "SHARER"
                      THEN "destroy" ELSE "close"
    /\ UNCHANGED <<heap, shares, ipcMemInfoMap, allocated, cached, known, overtaken>>

Fails(t) ==
    LET c == call[t]
        n == call'[t]
    IN
    /\ OnlyThread(t) /\ c.pc = "driver" /\ n.pc = "rtPost" /\ Kept(n, c) /\ n.inner = c.inner
    /\ ~n.ok
    /\ UNCHANGED <<heap, shares, ipcMemInfoMap, allocated, cached, known, overtaken>>

Drives(t) ==
    LET c == call[t]
        n == call'[t]
    IN
    /\ OnlyThread(t) /\ c.pc = "driver" /\ n.pc = "rtPost" /\ n.outer = c.outer
    /\ n.inner = c.inner /\ n.own = c.own /\ c.ok /\ n.ok /\ DriverDoes(c, n)
    /\ UNCHANGED <<ipcMemInfoMap, allocated, cached, known>>

Returns(t) ==
    /\ OnlyThread(t) /\ call[t].pc = "returned" /\ call'[t] = Idle
    /\ UNCHANGED <<heap, shares, ipcMemInfoMap, allocated, cached, known, overtaken>>

LEMMA BeginsIs ==
  ASSUME Base, NEW t \in Thread, NEW own \in BOOLEAN,
         NEW h \in IF own THEN OwnCall ELSE AclHook, CallAcl(t, h, own)
  PROVE  Begins(t)
<1> DEFINE c == call'[t]
<1>0. PICK x : CallAclDone(t, h, own, x) BY CallAclIs
<1>1. /\ AskedOK(h, own, x) /\ call[t].pc = "idle" /\ OnlyThread(t)
      /\ c.outer = h /\ c.inner = None /\ c.pc = "beneath" /\ c.own = own /\ c.ok
      /\ c.addr = x[1] /\ c.key = x[2]
      /\ h.pre = "FREE" => FreeReported(h, c)
      /\ h.pre # "FREE" => UNCHANGED <<allocated, cached>>
  BY <1>0 DEF CallAclDone
<1>2. h # None BY OwnCalls, AclHooks
<1>3. Outermost(c) = h /\ Does(c) = h.does BY <1>1, <1>2 DEF Outermost, Does
<1>4. UNCHANGED <<heap, shares, ipcMemInfoMap, known, overtaken>> BY DEF CallAcl
<1>5. AskedOK(h, c.own, x) /\ c.pc \in Begun BY <1>1 DEF Begun
<1>6. Job(c) = h.does BY <1>3 DEF Job
<1> HIDE DEF c
<1>7. QED BY <1>1, <1>3, <1>4, <1>5, <1>6 DEF Begins, c

LEMMA BeginsRtIs ==
  ASSUME Base, NEW t \in Thread, NEW h \in RtHook, CallRt(t, h)
  PROVE  Begins(t)
<1> DEFINE c == call'[t]
<1>1. PICK x : /\ AskedOK(h, FALSE, x) /\ call[t].pc = "idle" /\ OnlyThread(t)
               /\ c.outer = None /\ c.inner = h /\ c.pc = "driver" /\ ~c.own /\ c.ok
               /\ c.addr = x[1] /\ c.key = x[2]
               /\ h.pre = "FREE" => FreeReported(h, c)
               /\ h.pre # "FREE" => UNCHANGED <<allocated, cached>>
  BY CallRtIs
<1>2. h # None BY RtHooks
<1>3. Outermost(c) = h /\ Does(c) = h.does BY <1>1, <1>2 DEF Outermost, Does
<1>4. UNCHANGED <<heap, shares, ipcMemInfoMap, known, overtaken>> BY DEF CallRt
<1>5. c.own = FALSE BY <1>1 DEF OnlyThread, Frames
<1>6. AskedOK(h, c.own, x) /\ c.pc \in Begun BY <1>1, <1>5 DEF Begun
<1>7. Job(c) = h.does BY <1>3 DEF Job
<1> HIDE DEF c
<1>8. QED BY <1>1, <1>3, <1>4, <1>6, <1>7 DEF Begins, c

LEMMA DescendsIs ==
  ASSUME Base, NEW t \in Thread, Descend(t)
  PROVE  Descends(t)
<1> DEFINE c == call[t]
           n == call'[t]
           b == Beneath(c.outer, c.key)
<1>1. /\ c.pc = "beneath" /\ OnlyThread(t) /\ Kept(n, c) /\ n.pc = "driver" /\ n.ok = c.ok
      /\ UNCHANGED <<allocated, cached>> /\ n.inner = b
      /\ c.outer.api = "acl" => Masks(c.outer) /\ b \in RtHook
      /\ c.outer.api # "acl" => b = None
  BY DescendIs
<1>2. ShapeOf(c, layers[t]) BY DEF Base, Shapes
<1>3. c.outer # None /\ Outermost(c) = c.outer BY <1>1, <1>2, DoesIs
<1>4. n.outer = c.outer BY <1>1 DEF Kept
<1>5. Outermost(n) = Outermost(c) /\ Job(c) = c.outer.does BY <1>3, <1>4 DEF Outermost, Job
<1>6. CASE c.outer.api = "acl"
  <2>1. b # None BY <1>1, <1>6, RtHooks
  <2>2. Does(n) = b.does BY <1>1, <2>1 DEF Does
  <2>3. Does(n) = IF Job(c) # "closeKey" THEN Job(c)
                  ELSE IF \E s \in shares : s.info.key = c.key /\ s.info.actor = "SHARER"
                       THEN "destroy" ELSE "close"
    BY <1>1, <1>5, <1>6, <2>2, BeneathIs
  <2>4. QED BY <1>1, <1>5, <2>3 DEF Descends, Descend
<1>7. CASE c.outer.api # "acl"
  <2>1. Does(n) = Job(c) BY <1>1, <1>4, <1>5, <1>7 DEF Does
  <2>2. Job(c) # "closeKey"
    <3>1. c.outer \in AclHook \/ c.outer \in OwnCall BY <1>1, <1>2, <1>3, DoesIs
    <3>2. QED BY <1>5, <1>7, <3>1, AclHooks, OwnCalls DEF AclHookOK, OwnCallOK
  <2>3. QED BY <1>1, <1>5, <2>1, <2>2 DEF Descends, Descend
<1>8. QED BY <1>6, <1>7

LEMMA StepIs ==
  ASSUME Base, Next
  PROVE  \E t \in Thread : \/ Begins(t) \/ Descends(t) \/ Fails(t)
                           \/ Drives(t) \/ Leaves(t) \/ Returns(t)
<1>1. PICK t \in Thread :
        \/ \E h \in AclHook : CallAcl(t, h, FALSE)
        \/ \E h \in OwnCall : CallAcl(t, h, TRUE)
        \/ \E h \in RtHook : CallRt(t, h)
        \/ Descend(t) \/ DriverFails(t) \/ Driver(t) \/ LeaveRt(t) \/ LeaveAcl(t) \/ Return(t)
  BY Steps
<1>2. ASSUME NEW h \in AclHook, CallAcl(t, h, FALSE) PROVE Begins(t) BY <1>2, BeginsIs
<1>3. ASSUME NEW h \in OwnCall, CallAcl(t, h, TRUE) PROVE Begins(t) BY <1>3, BeginsIs
<1>4. ASSUME NEW h \in RtHook, CallRt(t, h) PROVE Begins(t) BY <1>4, BeginsRtIs
<1>5. Descend(t) => Descends(t) BY DescendsIs
<1>6. DriverFails(t) => Fails(t) BY DriverFailsIs DEF DriverFails, Fails
<1>7. ASSUME Driver(t) PROVE Drives(t)
  <2>1. ShapeOf(call[t], layers[t]) BY DEF Base, Shapes
  <2>2. call[t].ok BY <1>7, <2>1, DriverIs DEF ShapeOf, Begun
  <2>3. UNCHANGED <<ipcMemInfoMap, allocated, cached, known>> BY <1>7 DEF Driver
  <2>4. QED BY <1>7, <2>2, <2>3, DriverIs DEF Drives
<1>8. LeaveRt(t) => Leaves(t) BY LeaveRtTells
<1>9. LeaveAcl(t) => Leaves(t) BY LeaveAclTells
<1>10. Return(t) => Returns(t) BY ReturnIs DEF Return, Returns
<1>11. QED BY <1>1, <1>2, <1>3, <1>4, <1>5, <1>6, <1>7, <1>8, <1>9, <1>10
-----------------------------------------------------------------------------
(* Shared memory.                                                          *)

\* A key in use is a key, and an idle thread is on none.
LEMMA KeyTaken ==
  ASSUME Base, NEW k \in Key, Unused(k), NEW t \in Thread
  PROVE  call[t].key # k
<1>1. CASE call[t].pc = "idle"
  <2>1. call[t] = Idle BY <1>1 DEF Base, Shapes, ShapeOf
  <2>2. Idle.key = NoAddr BY DEF Idle
  <2>3. QED BY <2>1, <2>2, AddressAssumption
<1>2. CASE call[t].pc # "idle" BY <1>2 DEF Unused, Busy
<1>3. QED BY <1>1, <1>2

LEMMA OneOnKeyStep ==
  ASSUME Base, OneOnKey, NEW t \in Thread, OnlyThread(t),
         \/ call'[t].key \in {call[t].key, NoAddr}
         \/ call'[t].key \in Key /\ Unused(call'[t].key)
  PROVE  OneOnKey'
<1>1. CASE call'[t].key \in {call[t].key, NoAddr} BY <1>1 DEF OneOnKey, OnlyThread
<1>2. CASE call'[t].key \in Key /\ Unused(call'[t].key)
  <2>1. \A u \in Thread : call[u].key # call'[t].key BY <1>2, KeyTaken
  <2>2. QED BY <2>1 DEF OneOnKey, OnlyThread
<1>3. QED BY <1>1, <1>2

\* A call on one key does not see what is done to the share of another.
LEMMA ShareOfOthers ==
  ASSUME Base, NEW c \in Frames, NEW stack, ShapeOf(c, stack), c.pc # "idle", ShareOK(c), NEW k,
         c.key # k, \A s \in shares \cup shares' : s.info.key # k => (s \in shares <=> s \in shares')
  PROVE  /\ Job(c) = "import" /\ c.pc \in Begun => \A s \in shares' : s.info.key # c.key
         /\ Job(c) \in Closes /\ c.pc \in Begun =>
               \E s \in shares' :
                  /\ s.info.key = c.key /\ s.info.addr = c.addr /\ s.api = Outermost(c).api
                  /\ Does(c) # "closeKey" => s.info.actor = Role(c)
         /\ Opened(c) => [api |-> Outermost(c).api, info |-> Info(c.key, Role(c), c.addr)] \in shares'
         /\ Closed(c) => /\ \A s \in shares' : s.info.key # c.key
                         /\ Role(c) = "SHAREE" => c.addr \in Window
<1>1. Unshared(c.key) => \A s \in shares' : s.info.key # c.key BY DEF Unshared
<1>2. \A s \in shares : s.info.key = c.key => s \in shares' OBVIOUS
<1>3. [api |-> Outermost(c).api, info |-> Info(c.key, Role(c), c.addr)].info.key = c.key
  BY DEF Info
<1>4. QED BY <1>1, <1>2, <1>3 DEF ShareOK

\* What is to be shown of a step of t: what is true of t's own call, when the
\* shares of a key k of t's own are all that changes.
LEMMA SharingStep ==
  ASSUME Base, Sharing, NEW t \in Thread, OnlyThread(t), SharesOK', OneOnKey',
         \/ shares' = shares
         \/ \E k : /\ \A u \in Thread \ {t} : call[u].key # k
                  /\ \A s \in shares \cup shares' :
                        s.info.key # k => (s \in shares <=> s \in shares'),
         call'[t].pc # "idle" => ShareOK(call[t])'
  PROVE  Sharing'
<1>1. ASSUME NEW u \in Thread, call'[u].pc # "idle" PROVE ShareOK(call[u])'
  <2>1. CASE u = t BY <1>1, <2>1
  <2>2. CASE u # t
    <3> DEFINE c == call[u]
    <3>1. call'[u] = c BY <2>2 DEF OnlyThread
    <3>2. c \in Frames /\ ShapeOf(c, layers[u]) /\ c.pc # "idle" /\ ShareOK(c)
      BY <1>1, <2>2, <3>1 DEF Base, TypeOK, Shapes, Sharing
    <3>3. /\ Job(c) = "import" /\ c.pc \in Begun => \A s \in shares' : s.info.key # c.key
          /\ Job(c) \in Closes /\ c.pc \in Begun =>
               \E s \in shares' :
                  /\ s.info.key = c.key /\ s.info.addr = c.addr /\ s.api = Outermost(c).api
                  /\ Does(c) # "closeKey" => s.info.actor = Role(c)
          /\ Opened(c) => [api |-> Outermost(c).api, info |-> Info(c.key, Role(c), c.addr)] \in shares'
          /\ Closed(c) => /\ \A s \in shares' : s.info.key # c.key
                          /\ Role(c) = "SHAREE" => c.addr \in Window
      <4> HIDE DEF c
      <4>1. CASE shares' = shares BY <3>2, <4>1 DEF ShareOK, Unshared
      <4>2. CASE shares' # shares
        <5>1. PICK k : /\ c.key # k
                       /\ \A s \in shares \cup shares' :
                            s.info.key # k => (s \in shares <=> s \in shares')
          BY <2>2, <4>2 DEF c
        <5>2. QED BY <3>2, <5>1, ShareOfOthers
      <4>3. QED BY <4>1, <4>2
    <3>4. QED BY <3>1, <3>3 DEF ShareOK, Unshared
  <2>3. QED BY <2>1, <2>2
<1>2. QED BY <1>1 DEF Sharing

\* A step that leaves the shares and their windows keeps what is true of them.
LEMMA SharesKept ==
  ASSUME Base, SharesOK, shares' = shares, \A a \in Window : heap'[a] = heap[a]
  PROVE  SharesOK'
  BY DEF SharesOK

LEMMA SharingBegins ==
  ASSUME Base, Base', Sharing, NEW t \in Thread, Begins(t)
  PROVE  Sharing'
<1> DEFINE n == call'[t]
           h == Outermost(n)
<1>1. PICK x : AskedOK(h, n.own, x) /\ n.addr = x[1] /\ n.key = x[2] BY DEF Begins
<1>2. /\ OnlyThread(t) /\ n.pc \in Begun /\ Does(n) = Job(n) /\ Job(n) = h.does
      /\ shares' = shares /\ heap' = heap
  BY DEF Begins, Job
<1>3. SharesOK' BY <1>2, SharesKept DEF Sharing
<1>4. ASSUME h.does \in Closes
      PROVE  \E s \in shares :
               /\ s.info.key = n.key /\ s.info.addr = n.addr /\ s.api = h.api /\ n.key \in Key
               /\ Unused(n.key) /\ (Does(n) # "closeKey" => s.info.actor = Role(n))
  <2>1. PICK s \in shares :
             /\ x[1] = s.info.addr /\ x[2] = s.info.key /\ s.api = h.api /\ Unused(x[2])
             /\ h.does = "destroy" => s.info.actor = "SHARER"
             /\ h.does = "close" => s.info.actor = "SHAREE"
    BY <1>1, <1>4 DEF AskedOK
  <2>2. s.info.key \in Key BY DEF Base, TypeOK, Infos
  <2>3. Does(n) \in Closes BY <1>2, <1>4
  <2>4. Does(n) # "closeKey" => s.info.actor = Role(n) BY <1>2, <2>1, <2>3 DEF Role, Closes
  <2>5. QED BY <1>1, <2>1, <2>2, <2>4
<1>5. h.does = "import" => n.key \in Key /\ Unused(n.key) /\ Unshared(n.key)
  BY <1>1 DEF AskedOK, Unshared
<1>6. h.does \notin Closes \cup {"import"} => n.key = NoAddr BY <1>1 DEF AskedOK
<1>7. OneOnKey' BY <1>2, <1>4, <1>5, <1>6, OneOnKeyStep DEF Sharing
<1>8. ShareOK(call[t])'
  <2>1. n.pc \notin Made BY <1>2 DEF Begun, Made
  <2>2. ~Opened(n) /\ ~Closed(n) BY <2>1 DEF Opened, Closed
  <2>3. Job(n) = "import" => \A s \in shares' : s.info.key # n.key BY <1>2, <1>5 DEF Unshared
  <2>4. Job(n) \in Closes =>
          \E s \in shares' :
             /\ s.info.key = n.key /\ s.info.addr = n.addr /\ s.api = Outermost(n).api
             /\ Does(n) # "closeKey" => s.info.actor = Role(n)
    BY <1>2, <1>4
  <2>5. QED BY <2>2, <2>3, <2>4 DEF ShareOK, Unshared
<1>9. QED BY <1>2, <1>3, <1>7, <1>8, SharingStep

LEMMA SharingDescends ==
  ASSUME Base, Base', Sharing, NEW t \in Thread, Descends(t)
  PROVE  Sharing'
<1> DEFINE c == call[t]
           n == call'[t]
<1>1. /\ OnlyThread(t) /\ c.pc = "beneath" /\ n.pc = "driver" /\ Outermost(n) = Outermost(c)
      /\ n.key = c.key /\ n.addr = c.addr /\ shares' = shares /\ heap' = heap
      /\ Does(n) = IF Job(c) # "closeKey" THEN Job(c)
                   ELSE IF \E s \in shares : s.info.key = c.key /\ s.info.actor = "SHARER"
                        THEN "destroy" ELSE "close"
  BY DEF Descends, Kept
<1>2. ShapeOf(c, layers[t]) /\ ShareOK(c) BY <1>1 DEF Base, Shapes, Sharing
<1>3. Job(n) = Job(c) /\ Does(c) = Job(c) BY <1>1, <1>2, DoesIs DEF Job
<1>4. SharesOK' BY <1>1, SharesKept DEF Sharing
<1>5. OneOnKey' BY <1>1, OneOnKeyStep DEF Sharing
<1>6. ShareOK(call[t])'
  <2>1. n.pc \notin Made /\ c.pc \in Begun BY <1>1 DEF Begun, Made
  <2>2. ~Opened(n) /\ ~Closed(n) BY <2>1 DEF Opened, Closed
  <2>3. Job(n) = "import" => \A s \in shares' : s.info.key # n.key
    BY <1>1, <1>2, <1>3, <2>1 DEF ShareOK, Unshared
  <2>4. ASSUME Job(n) \in Closes
        PROVE  \E s \in shares' :
                 /\ s.info.key = n.key /\ s.info.addr = n.addr /\ s.api = Outermost(n).api
                 /\ Does(n) # "closeKey" => s.info.actor = Role(n)
    <3>1. PICK s \in shares :
             /\ s.info.key = c.key /\ s.info.addr = c.addr /\ s.api = Outermost(c).api
             /\ Does(c) # "closeKey" => s.info.actor = Role(c)
      BY <1>2, <1>3, <2>1, <2>4 DEF ShareOK
    <3>2. s.info.actor = Role(n)
      <4>1. CASE Job(c) = "closeKey"
        <5>1. s.info.actor \in Actor BY DEF Base, TypeOK, Infos
        <5>2. \A r \in shares : r.info.key = c.key => r = s BY <3>1 DEF Sharing, SharesOK
        <5>3. QED BY <1>1, <3>1, <4>1, <5>1, <5>2 DEF Role, Actor
      <4>2. CASE Job(c) # "closeKey" BY <1>1, <1>3, <3>1, <4>2 DEF Role
      <4>3. QED BY <4>1, <4>2
    <3>3. QED BY <1>1, <3>1, <3>2
  <2>5. QED BY <2>2, <2>3, <2>4 DEF ShareOK, Unshared
<1>7. QED BY <1>1, <1>4, <1>5, <1>6, SharingStep

\* A call that failed opens and closes nothing.
LEMMA SharingFails ==
  ASSUME Base, Base', Sharing, NEW t \in Thread, Fails(t)
  PROVE  Sharing'
<1> DEFINE n == call'[t]
<1>1. /\ OnlyThread(t) /\ n.pc = "rtPost" /\ ~n.ok /\ n.key = call[t].key
      /\ shares' = shares /\ heap' = heap
  BY DEF Fails, Kept
<1>2. SharesOK' BY <1>1, SharesKept DEF Sharing
<1>3. OneOnKey' BY <1>1, OneOnKeyStep DEF Sharing
<1>4. ShareOK(call[t])' BY <1>1 DEF ShareOK, Opened, Closed, Begun
<1>5. QED BY <1>1, <1>2, <1>3, <1>4, SharingStep

LEMMA SharingLeaves ==
  ASSUME Base, Base', Sharing, NEW t \in Thread, Leaves(t)
  PROVE  Sharing'
<1> DEFINE c == call[t]
           n == call'[t]
<1>1. /\ OnlyThread(t) /\ c.pc \in Made /\ n.pc \in {"returned", "aclPost"} /\ n.ok = c.ok
      /\ n.outer = c.outer /\ n.inner = c.inner /\ n.key = c.key /\ n.addr = c.addr
      /\ shares' = shares /\ heap' = heap
  BY DEF Leaves, Kept
<1>2. ShareOK(c) BY <1>1 DEF Sharing, Made
<1>3. Outermost(n) = Outermost(c) /\ Does(n) = Does(c) /\ Job(n) = Job(c) /\ Role(n) = Role(c)
  BY <1>1 DEF Outermost, Does, Job, Role
<1>4. SharesOK' BY <1>1, SharesKept DEF Sharing
<1>5. OneOnKey' BY <1>1, OneOnKeyStep DEF Sharing
<1>6. ShareOK(call[t])'
  <2>1. n.pc \notin Begun BY <1>1 DEF Begun
  <2>2. (Opened(n) => Opened(c)) /\ (Closed(n) => Closed(c)) BY <1>1, <1>3 DEF Opened, Closed
  <2>3. QED BY <1>1, <1>2, <1>3, <2>1, <2>2 DEF ShareOK, Unshared
<1>7. QED BY <1>1, <1>4, <1>5, <1>6, SharingStep

LEMMA SharingReturns ==
  ASSUME Base, Base', Sharing, NEW t \in Thread, Returns(t)
  PROVE  Sharing'
<1>1. OnlyThread(t) /\ call'[t] = Idle /\ shares' = shares /\ heap' = heap BY DEF Returns
<1>2. Idle.key = NoAddr /\ Idle.pc = "idle" BY DEF Idle
<1>3. SharesOK' BY <1>1, SharesKept DEF Sharing
<1>4. OneOnKey' BY <1>1, <1>2, OneOnKeyStep DEF Sharing
<1>5. QED BY <1>1, <1>2, <1>3, <1>4, SharingStep

\* What is known of a call on its way to the driver.
LEMMA DrivesIs ==
  ASSUME Base, NEW t \in Thread, Drives(t)
  PROVE  LET c == call[t]
             n == call'[t]
         IN
         /\ ShapeOf(c, layers[t]) /\ c \in Frames /\ Holds(c) /\ c.pc \in Begun /\ n.pc \in Made
         /\ Outermost(n) = Outermost(c) /\ Job(n) = Job(c) /\ Does(n) = Does(c)
         /\ IF Job(c) = "closeKey" THEN Does(c) \in {"destroy", "close"} ELSE Does(c) = Job(c)
         /\ Does(c) \in {"malloc", "map", "free", "access", "import", "export", "destroy", "close"}
<1> DEFINE c == call[t]
           n == call'[t]
<1>1. /\ c.pc = "driver" /\ n.pc = "rtPost" /\ n.outer = c.outer /\ n.inner = c.inner
  BY DEF Drives
<1>2. ShapeOf(c, layers[t]) /\ c \in Frames BY DEF Base, TypeOK, Shapes
<1>3. Holds(c) BY <1>1, <1>2 DEF ShapeOf
<1>4. Outermost(n) = Outermost(c) /\ Job(n) = Job(c) /\ Does(n) = Does(c)
  BY <1>1 DEF Outermost, Job, Does
<1>5. /\ IF Job(c) = "closeKey" THEN Does(c) \in {"destroy", "close"} ELSE Does(c) = Job(c)
      /\ Job(c) \in {"malloc", "map", "free", "access"} \cup Opens \cup Closes
  BY <1>1, <1>2, DoesIs
<1>6. QED BY <1>1, <1>2, <1>3, <1>4, <1>5 DEF Begun, Made, Opens, Closes

LEMMA SharesDriven ==
  ASSUME Base, Base', Sharing, NEW t \in Thread, Drives(t)
  PROVE  SharesOK'
<1> DEFINE c == call[t]
           n == call'[t]
<1>1. /\ Holds(c) /\ c.pc \in Begun /\ DriverDoes(c, n) /\ ShareOK(c)
      /\ IF Job(c) = "closeKey" THEN Does(c) \in {"destroy", "close"} ELSE Does(c) = Job(c)
      /\ Does(c) \in {"malloc", "map", "free", "access", "import", "export", "destroy", "close"}
  BY DrivesIs DEF Drives, Sharing, Begun
<1>2. SharesOK /\ heap \in [Addr -> {"free", "app", "tool", "shared"}] /\ Window \subseteq Addr
  BY DEF Sharing, Base, TypeOK, Addr
<1>3. ASSUME Does(c) \in {"malloc", "map", "free", "access"} PROVE SharesOK'
  <2>1. shares' = shares BY <1>1, <1>3 DEF DriverDoes
  <2>2. \A a \in Window : heap'[a] = heap[a]
    BY <1>1, <1>2, <1>3, AddressAssumption DEF DriverDoes, Holds, Freed
  <2>3. QED BY <1>2, <2>1, <2>2, SharesKept
<1>4. ASSUME Does(c) = "export" PROVE SharesOK'
  <2> DEFINE new == [api |-> Outermost(c).api, info |-> Info(n.key, "SHARER", c.addr)]
  <2>1. /\ heap' = heap /\ shares' = shares \cup {new} /\ c.addr \in Device
        /\ \A s \in shares : s.info.key # n.key
    BY <1>1, <1>4 DEF DriverDoes, Shares, Holds
  <2>2. new.info.key = n.key /\ new.info.actor = "SHARER" /\ new.info.addr = c.addr BY DEF Info
  <2> HIDE DEF new
  <2>3. QED BY <1>2, <2>1, <2>2 DEF SharesOK
<1>5. ASSUME Does(c) = "import" PROVE SharesOK'
  <2> DEFINE new == [api |-> Outermost(c).api, info |-> Info(c.key, "SHAREE", n.addr)]
  <2>1. /\ n.addr \in Window /\ heap[n.addr] = "free" /\ heap' = [heap EXCEPT ![n.addr] = "shared"]
        /\ shares' = shares \cup {new} /\ \A s \in shares : s.info.key # c.key
    BY <1>1, <1>5 DEF DriverDoes, Shares, Freed, ShareOK, Unshared
  <2>2. new.info.key = c.key /\ new.info.actor = "SHAREE" /\ new.info.addr = n.addr BY DEF Info
  <2> HIDE DEF new
  <2>3. \A s \in shares : s.info.actor = "SHAREE" => s.info.addr # n.addr BY <1>2, <2>1 DEF SharesOK
  <2>4. heap'[n.addr] = "shared" /\ \A a \in Addr : heap[a] = "shared" => heap'[a] = "shared"
    BY <1>2, <2>1
  <2>5. \A s \in shares' : /\ s.info.actor = "SHARER" => s.info.addr \in Device
                           /\ s.info.actor = "SHAREE" => s.info.addr \in Window /\ heap'[s.info.addr] = "shared"
    BY <1>2, <2>1, <2>2, <2>4 DEF SharesOK
  <2>6. \A s, r \in shares' :
          \/ s = r
          \/ s.info.key # r.info.key /\ (s.info.actor = "SHAREE" /\ r.info.actor = "SHAREE" =>
                                            s.info.addr # r.info.addr)
    BY <1>2, <2>1, <2>2, <2>3 DEF SharesOK
  <2>7. QED BY <2>5, <2>6 DEF SharesOK
<1>6. ASSUME Does(c) \in {"destroy", "close"} PROVE SharesOK'
  <2>1. /\ shares' = {s \in shares : s.info.key # c.key}
        /\ Does(c) = "destroy" => heap' = heap
        /\ Does(c) = "close" => heap' = [heap EXCEPT ![c.addr] = "free"]
    BY <1>1, <1>6 DEF DriverDoes
  <2>2. PICK s \in shares : s.info.key = c.key /\ s.info.addr = c.addr /\ s.info.actor = Role(c)
    BY <1>1, <1>6 DEF ShareOK, Closes
  <2>3. \A r \in shares' : r.info.actor = "SHAREE" => heap'[r.info.addr] = heap[r.info.addr]
    <3>1. CASE Does(c) = "close"
      <4>1. s.info.actor = "SHAREE" BY <2>2, <3>1 DEF Role
      <4>2. \A r \in shares' : r.info.actor = "SHAREE" => r.info.addr # c.addr
        BY <1>2, <2>1, <2>2, <4>1 DEF SharesOK
      <4>3. QED BY <1>2, <2>1, <3>1, <4>2 DEF SharesOK
    <3>2. CASE Does(c) # "close" BY <1>6, <2>1, <3>2
    <3>3. QED BY <3>1, <3>2
  <2>4. QED BY <1>2, <2>1, <2>3 DEF SharesOK
<1>7. QED BY <1>1, <1>3, <1>4, <1>5, <1>6

LEMMA SharingDrives ==
  ASSUME Base, Base', Sharing, NEW t \in Thread, Drives(t)
  PROVE  Sharing'
<1> DEFINE c == call[t]
           n == call'[t]
<1>1. /\ Holds(c) /\ c.pc \in Begun /\ DriverDoes(c, n) /\ ShareOK(c) /\ OnlyThread(t)
      /\ n.pc \in Made /\ Outermost(n) = Outermost(c) /\ Job(n) = Job(c) /\ Does(n) = Does(c)
      /\ IF Job(c) = "closeKey" THEN Does(c) \in {"destroy", "close"} ELSE Does(c) = Job(c)
      /\ Does(c) \in {"malloc", "map", "free", "access", "import", "export", "destroy", "close"}
  BY DrivesIs DEF Drives, Sharing, Begun
<1>2. SharesOK' BY SharesDriven
<1>3. OneOnKey'
  <2>1. n.key = c.key \/ (n.key \in Key /\ Unused(n.key)) BY <1>1 DEF DriverDoes
  <2>2. QED BY <1>1, <2>1, OneOnKeyStep DEF Sharing
<1>4. n.pc \notin Begun /\ Role(n) = Role(c) BY <1>1 DEF Begun, Made, Role
<1>5. Does(c) \in {"malloc", "map", "free", "access"} => shares' = shares
  BY <1>1 DEF DriverDoes
<1>6. ASSUME Does(c) \notin {"malloc", "map", "free", "access"}
      PROVE  /\ \A u \in Thread \ {t} : call[u].key # n.key
             /\ \A s \in shares \cup shares' : s.info.key # n.key => (s \in shares <=> s \in shares')
  <2>1. CASE Does(c) = "export"
    <3>1. /\ n.key \in Key /\ Unused(n.key)
          /\ shares' = shares \cup
                {[api |-> Outermost(c).api, info |-> Info(n.key, "SHARER", c.addr)]}
      BY <1>1, <2>1 DEF DriverDoes, Shares
    <3>2. \A u \in Thread : call[u].key # n.key BY <3>1, KeyTaken
    <3>3. QED BY <3>1, <3>2 DEF Info
  <2>2. CASE Does(c) # "export"
    <3>1. n.key = c.key /\ c.key \in Key
      BY <1>1, <1>6, <2>2 DEF DriverDoes, Holds, Closes
    <3>2. \A u \in Thread \ {t} : call[u].key # c.key
      BY <3>1, AddressAssumption DEF Sharing, OneOnKey
    <3>3. \/ shares' = {s \in shares : s.info.key # c.key}
          \/ shares' = shares \cup
                {[api |-> Outermost(c).api, info |-> Info(c.key, "SHAREE", n.addr)]}
      BY <1>1, <1>6, <2>2 DEF DriverDoes, Shares
    <3>4. QED BY <3>1, <3>2, <3>3 DEF Info
  <2>3. QED BY <2>1, <2>2
<1>7. ShareOK(call[t])'
  <2>1. ASSUME Opened(n)
        PROVE  [api |-> Outermost(n).api, info |-> Info(n.key, Role(n), n.addr)] \in shares'
    <3>1. Does(c) \in Opens BY <1>1, <2>1 DEF Opened, Opens
    <3>2. CASE Does(c) = "export"
      <4>1. Role(c) = "SHARER" BY <3>2 DEF Role
      <4>2. n.addr = c.addr
             /\ shares' = shares \cup {[api |-> Outermost(c).api, info |-> Info(n.key, "SHARER", c.addr)]}
        BY <1>1, <3>2 DEF DriverDoes, Shares
      <4>3. QED BY <1>1, <1>4, <4>1, <4>2
    <3>3. CASE Does(c) = "import"
      <4>1. Role(c) = "SHAREE" BY <3>3 DEF Role
      <4>2. n.key = c.key
             /\ shares' = shares \cup {[api |-> Outermost(c).api, info |-> Info(c.key, "SHAREE", n.addr)]}
        BY <1>1, <3>3 DEF DriverDoes, Shares
      <4>3. QED BY <1>1, <1>4, <4>1, <4>2
    <3>4. QED BY <3>1, <3>2, <3>3 DEF Opens
  <2>2. ASSUME Closed(n)
        PROVE  (\A s \in shares' : s.info.key # n.key) /\ (Role(n) = "SHAREE" => n.addr \in Window)
    <3>1. Does(c) \in {"destroy", "close"} /\ Job(c) \in Closes
      BY <1>1, <2>2 DEF Closed, Closes
    <3>2. n.key = c.key /\ n.addr = c.addr /\ shares' = {s \in shares : s.info.key # c.key}
      BY <1>1, <3>1 DEF DriverDoes
    <3>3. PICK s \in shares : s.info.addr = c.addr /\ s.info.actor = Role(c)
      BY <1>1, <3>1 DEF ShareOK
    <3>4. QED BY <1>4, <3>2, <3>3 DEF Sharing, SharesOK
  <2>3. QED BY <1>4, <2>1, <2>2 DEF ShareOK, Unshared
<1>8. shares' = shares \/ \E k : /\ \A u \in Thread \ {t} : call[u].key # k
                                 /\ \A s \in shares \cup shares' :
                                       s.info.key # k => (s \in shares <=> s \in shares')
  BY <1>5, <1>6
<1>9. QED BY <1>1, <1>2, <1>3, <1>7, <1>8, SharingStep

\* What is shared and what is being opened and closed, in every reachable state.
THEOREM SharingInductive == Spec => [](Base /\ Sharing)
<1>1. Init => Sharing
  <2>1. SUFFICES ASSUME Init PROVE Sharing OBVIOUS
  <2>2. Idle.key = NoAddr /\ Idle.pc = "idle" BY DEF Idle
  <2>3. QED BY <2>1, <2>2 DEF Init, Sharing, SharesOK, OneOnKey
<1>2. Base /\ Base' /\ Sharing /\ [Next]_vars => Sharing'
  <2>1. ASSUME Base, Base', Sharing, Next PROVE Sharing'
    <3>1. PICK t \in Thread : \/ Begins(t) \/ Descends(t) \/ Fails(t)
                              \/ Drives(t) \/ Leaves(t) \/ Returns(t)
      BY <2>1, StepIs
    <3>2. QED BY <2>1, <3>1, SharingBegins, SharingDescends, SharingFails, SharingDrives,
                 SharingLeaves, SharingReturns
  <2>2. ASSUME Sharing, UNCHANGED vars PROVE Sharing'
    BY <2>2 DEF vars, Sharing, SharesOK, OneOnKey, ShareOK, Unshared
  <2>3. QED BY <2>1, <2>2
<1>3. QED BY <1>1, <1>2, BaseInductive, PTL DEF Spec
-----------------------------------------------------------------------------
(* The addresses of the application and of the tool.                       *)

\* What a free that fails, or a mapping whose failure nobody looks at, would
\* break.
Steady == MayFail \cap (Frees \cup {"rtMapMem"}) = {}

LEMMA AddressOther ==
  ASSUME NEW a, AddressOK(a), NEW t \in Thread, OnlyThread(t), ~On(call[t], a), ~On(call'[t], a),
         heap'[a] = heap[a], a \in allocated' <=> a \in allocated, a \in cached' <=> a \in cached
  PROVE  AddressOK(a)'
<1>1. \A u \in Thread : On(call'[u], a) => u # t /\ On(call[u], a) BY DEF OnlyThread
<1>2. \A u \in Thread : On(call[u], a) => u # t /\ call'[u] = call[u] BY DEF OnlyThread
<1>3. \A u, v \in Thread : On(call'[u], a) /\ On(call'[v], a) => u = v BY <1>1 DEF AddressOK
<1>4. ASSUME NEW u \in Thread, On(call'[u], a) PROVE Between(call[u], a)'
  <2>1. Between(call[u], a) /\ call'[u] = call[u] BY <1>1, <1>2, <1>4 DEF AddressOK
  <2>2. QED BY <2>1 DEF Between, Untaken
<1>5. ASSUME \A u \in Thread : ~On(call'[u], a) PROVE Settled(a)'
  <2>1. Settled(a) BY <1>2, <1>5 DEF AddressOK
  <2>2. QED BY <2>1 DEF Settled
<1>6. QED BY <1>3, <1>4, <1>5 DEF AddressOK

LEMMA AddressOwn ==
  ASSUME NEW a, NEW t \in Thread, OnlyThread(t), \A u \in Thread \ {t} : ~On(call[u], a),
         IF On(call'[t], a) THEN Between(call[t], a)' ELSE Settled(a)'
  PROVE  AddressOK(a)'
<1>1. \A u \in Thread \ {t} : ~On(call'[u], a) BY DEF OnlyThread
<1>2. \A u, v \in Thread : On(call'[u], a) /\ On(call'[v], a) => u = v BY <1>1
<1>3. ASSUME NEW u \in Thread, On(call'[u], a) PROVE Between(call[u], a)'
  <2>1. u = t BY <1>1, <1>3
  <2>2. QED BY <1>3, <2>1
<1>4. QED BY <1>2, <1>3 DEF AddressOK

\* Who is on an address: a call that frees, allocates or maps it.
LEMMA OnIs ==
  ASSUME NEW c, NEW a
  PROVE  /\ On(c, a) => c.addr = a /\ Job(c) \in {"free", "malloc", "map"}
         /\ Job(c) = "free" => (On(c, a) <=> c.addr = a /\ c.pc \in Begun)
         /\ Job(c) = "malloc" => (On(c, a) <=> c.addr = a /\ c.pc \in Made)
         /\ Job(c) = "map" => (On(c, a) <=> c.addr = a /\ c.pc \in Begun \cup Made)
         /\ Mapping(c, a) <=> On(c, a) /\ Job(c) = "map"
  BY DEF On, Freeing, Given, Mapping

LEMMA IdleIs ==
  Idle.addr = NoAddr /\ Idle.key = NoAddr /\ Idle.pc = "idle" /\ Job(Idle) = "nothing"
<1>1. Idle.outer = None /\ Idle.inner = None BY DEF Idle
<1>2. QED BY <1>1, NoneIs DEF Idle, Job, Outermost

\* Nobody is on an address that is in nobody's call.
LEMMA NobodyOn ==
  ASSUME Base, NEW a \in Addr, Unused(a), NEW t \in Thread
  PROVE  ~On(call[t], a)
<1>1. CASE call[t].pc = "idle"
  <2>1. call[t] = Idle BY <1>1 DEF Base, Shapes, ShapeOf
  <2>2. QED BY <2>1, IdleIs, OnIs
<1>2. CASE call[t].pc # "idle" BY <1>2, OnIs DEF Unused, Busy
<1>3. QED BY <1>1, <1>2

LEMMA AddressBegins ==
  ASSUME Base, Base', Sharing, AddressesOK, NEW t \in Thread, Begins(t),
         NEW a \in Device \cup Virtual
  PROVE  AddressOK(a)'
<1> DEFINE n == call'[t]
           h == Outermost(n)
<1>1. PICK x : AskedOK(h, n.own, x) /\ n.addr = x[1] BY DEF Begins
<1>2. /\ OnlyThread(t) /\ call[t].pc = "idle" /\ n.pc \in Begun /\ heap' = heap /\ Job(n) = h.does
      /\ h.pre = "FREE" => FreeReported(h, n)
      /\ h.pre # "FREE" => UNCHANGED <<allocated, cached>>
  BY DEF Begins, Job
<1>3. ShapeOf(n, layers'[t]) /\ n.pc # "idle" /\ n.own \in BOOLEAN
  BY <1>2 DEF Base, TypeOK, Frames, Shapes, Begun
<1>4. /\ n.own => OwnCallOK(h)
      /\ ~n.own => ReportsOf(h)
      /\ h.pre = "FREE" => Job(n) = "free" /\ ~n.own
  BY <1>3, OutermostIs
<1>5. Holds(n) BY <1>3 DEF ShapeOf
<1>6. a \in Addr /\ AddressOK(a) BY DEF Addr, AddressesOK
<1>7. ~On(call[t], a)
  <2>1. call[t] = Idle BY <1>2 DEF Base, Shapes, ShapeOf
  <2>2. QED BY <2>1, IdleIs, OnIs
<1>8. CASE On(n, a)
  <2>1. n.addr = a /\ Job(n) \in {"free", "map"}
    BY <1>2, <1>8, OnIs DEF Begun, Made
  <2>2. Unused(a) /\ heap[a] = IF Job(n) = "map" THEN "free" ELSE Who(n)
    BY <1>1, <1>2, <2>1 DEF AskedOK, Who
  <2>3. \A u \in Thread : ~On(call[u], a) BY <1>6, <2>2, NobodyOn
  <2>4. Settled(a) BY <1>6, <2>3 DEF AddressOK
  <2>5. Untaken(a)'
    <3>1. CASE h.pre = "FREE"
      <4>1. a \in Device => h.caches
        BY <1>2, <1>4, <1>5, <2>1, <3>1, AddressAssumption DEF Holds
      <4>2. QED BY <1>2, <2>1, <3>1, <4>1 DEF FreeReported, Untaken
    <3>2. CASE h.pre # "FREE"
      <4>1. allocated' = allocated /\ cached' = cached BY <1>2, <3>2
      <4>2. heap[a] # "app"
        BY <1>2, <1>4, <2>1, <2>2, <3>2 DEF ReportsOf, Who
      <4>3. QED BY <2>4, <4>1, <4>2 DEF Settled, Untaken
    <3>3. QED BY <3>1, <3>2
  <2>6. Between(call[t], a)'
    <3>1. Mapping(n, a) <=> Job(n) = "map" BY <1>8, OnIs
    <3>2. QED BY <1>2, <2>2, <2>5, <3>1 DEF Between
  <2>7. QED BY <1>2, <1>8, <2>3, <2>6, AddressOwn
<1>9. CASE ~On(n, a)
  <2>1. (a \in allocated' <=> a \in allocated) /\ (a \in cached' <=> a \in cached)
    <3>1. CASE h.pre = "FREE"
      <4>1. n.addr # a BY <1>2, <1>4, <1>9, <3>1, OnIs
      <4>2. QED BY <1>2, <3>1, <4>1 DEF FreeReported
    <3>2. CASE h.pre # "FREE" BY <1>2, <3>2
    <3>3. QED BY <3>1, <3>2
  <2>2. QED BY <1>2, <1>6, <1>7, <1>9, <2>1, AddressOther
<1>10. QED BY <1>8, <1>9

LEMMA AddressDescends ==
  ASSUME Base, AddressesOK, NEW t \in Thread, Descends(t), NEW a \in Device \cup Virtual
  PROVE  AddressOK(a)'
<1> DEFINE c == call[t]
           n == call'[t]
<1>1. /\ OnlyThread(t) /\ c.pc \in Begun /\ n.pc \in Begun /\ n.addr = c.addr /\ n.own = c.own
      /\ n.ok = c.ok /\ Job(n) = Job(c) /\ UNCHANGED <<heap, allocated, cached>>
  BY DEF Descends, Kept, Begun, Job
<1>2. AddressOK(a) BY DEF AddressesOK
<1>3. On(n, a) <=> On(c, a) BY <1>1 DEF On, Freeing, Given, Mapping, Begun, Made
<1>4. CASE On(c, a)
  <2>1. Between(c, a) /\ \A u \in Thread \ {t} : ~On(call[u], a) BY <1>2, <1>4 DEF AddressOK
  <2>2. Between(call[t], a)' BY <1>1, <2>1 DEF Between, Untaken, Who, Mapping
  <2>3. QED BY <1>1, <1>3, <1>4, <2>1, <2>2, AddressOwn
<1>5. CASE ~On(c, a) BY <1>1, <1>2, <1>3, <1>5, AddressOther
<1>6. QED BY <1>4, <1>5

LEMMA AddressReturns ==
  ASSUME Base, AddressesOK, NEW t \in Thread, Returns(t), NEW a \in Device \cup Virtual
  PROVE  AddressOK(a)'
<1>1. OnlyThread(t) /\ call[t].pc = "returned" /\ call'[t] = Idle
      /\ UNCHANGED <<heap, allocated, cached>>
  BY DEF Returns
<1>2. ~On(call[t], a) BY <1>1 DEF On, Freeing, Given, Mapping, Begun, Made
<1>3. ~On(call'[t], a) BY <1>1, IdleIs, OnIs
<1>4. QED BY <1>1, <1>2, <1>3, AddressOther DEF AddressesOK

\* What may have failed, when frees do not.
LEMMA SteadyCall ==
  ASSUME Steady, NEW c, NEW stack, ShapeOf(c, stack), c.pc # "idle", ~c.ok
  PROVE  /\ Job(c) # "free" /\ (Job(c) = "malloc" => c.addr = NoAddr)
         /\ Job(c) = "map" => ~c.own /\ Outermost(c).checks
<1>1. /\ c.pc \notin Begun
      /\ (~c.own /\ Outermost(c).name \in MayFail) \/ Job(c) \in {"malloc", "export"}
      /\ Holds(c)
  BY DEF ShapeOf
<1>2. Outermost(c).does = Job(c) /\ (~c.own => ReportsOf(Outermost(c))) BY OutermostIs
<1>3. ASSUME Job(c) \in {"free", "map"}
      PROVE  Job(c) = "map" /\ ~c.own /\ Outermost(c).checks
  <2>1. ~c.own /\ Outermost(c).name \in MayFail /\ ReportsOf(Outermost(c)) BY <1>1, <1>2, <1>3
  <2>2. Outermost(c).name \notin Frees \cup {"rtMapMem"} BY <2>1 DEF Steady
  <2>3. Job(c) # "free" BY <1>2, <2>1, <2>2 DEF ReportsOf
  <2>4. Outermost(c).name = "aclrtMapMemImpl" BY <1>2, <1>3, <2>1, <2>2, <2>3 DEF ReportsOf
  <2>5. QED BY <1>3, <2>1, <2>3, <2>4 DEF ReportsOf, Unchecked
<1>4. Job(c) = "malloc" => c.addr = NoAddr BY <1>1 DEF Holds
<1>5. QED BY <1>3, <1>4

LEMMA AddressFails ==
  ASSUME Steady, Base, Base', AddressesOK, NEW t \in Thread, Fails(t), NEW a \in Device \cup Virtual
  PROVE  AddressOK(a)'
<1> DEFINE c == call[t]
           n == call'[t]
<1>1. /\ OnlyThread(t) /\ c.pc \in Begun /\ n.pc \in Made /\ n.addr = c.addr /\ n.own = c.own
      /\ ~n.ok /\ Job(n) = Job(c) /\ UNCHANGED <<heap, allocated, cached>> /\ n.pc # "idle"
  BY DEF Fails, Kept, Begun, Made, Job, Outermost
<1>2. AddressOK(a) /\ ShapeOf(n, layers'[t]) BY DEF AddressesOK, Base, Shapes
<1>3. Job(n) # "free" /\ (Job(n) = "malloc" => n.addr # a)
  BY <1>1, <1>2, SteadyCall, AddressAssumption DEF Addr
<1>4. On(n, a) <=> On(c, a)
  BY <1>1, <1>3 DEF On, Freeing, Given, Mapping, Begun, Made
<1>5. CASE On(c, a)
  <2>1. Between(c, a) /\ \A u \in Thread \ {t} : ~On(call[u], a) BY <1>2, <1>5 DEF AddressOK
  <2>2. Mapping(c, a) /\ Mapping(n, a)
    BY <1>1, <1>3, <1>4, <1>5 DEF On, Freeing, Given, Mapping, Begun, Made
  <2>3. Between(call[t], a)' BY <1>1, <2>1, <2>2 DEF Between, Untaken
  <2>4. QED BY <1>1, <1>4, <1>5, <2>1, <2>3, AddressOwn
<1>6. CASE ~On(c, a) BY <1>1, <1>2, <1>4, <1>6, AddressOther
<1>7. QED BY <1>5, <1>6

LEMMA AddressDrives ==
  ASSUME Base, Base', Sharing, AddressesOK, NEW t \in Thread, Drives(t), NEW a \in Device \cup Virtual
  PROVE  AddressOK(a)'
<1> DEFINE c == call[t]
           n == call'[t]
<1>1. /\ OnlyThread(t) /\ c.pc \in Begun /\ n.pc \in Made /\ n.own = c.own /\ n.ok
      /\ Job(n) = Job(c) /\ Holds(c) /\ DriverDoes(c, n) /\ ShareOK(c)
      /\ IF Job(c) = "closeKey" THEN Does(c) \in {"destroy", "close"} ELSE Does(c) = Job(c)
      /\ Does(c) \in {"malloc", "map", "free", "access", "import", "export", "destroy", "close"}
      /\ UNCHANGED <<allocated, cached>>
  BY DrivesIs DEF Drives, Sharing, Begun
<1>2. AddressOK(a) /\ a \in Addr /\ heap \in [Addr -> {"free", "app", "tool", "shared"}]
  BY DEF AddressesOK, Addr, Base, TypeOK
<1>3. Begun \cap Made = {} BY DEF Begun, Made
<1>4. ASSUME Does(c) = "malloc", n.addr = a PROVE AddressOK(a)'
  <2>1. a \in Device /\ heap[a] = "free" /\ heap'[a] = Who(c)
    BY <1>1, <1>2, <1>4 DEF DriverDoes, Freed
  <2>2. ASSUME NEW u \in Thread, On(call[u], a) PROVE FALSE
    <3>1. heap[a] = IF Mapping(call[u], a) THEN "free" ELSE Who(call[u])
      BY <1>2, <2>1, <2>2 DEF AddressOK, Between, Who
    <3>2. Mapping(call[u], a) BY <2>1, <3>1 DEF Who
    <3>3. Job(call[u]) = "map" /\ call[u].addr = a /\ call[u].pc # "idle"
      BY <3>2 DEF Mapping, Begun, Made
    <3>4. a \in Virtual BY <3>3 DEF Base, Shapes, ShapeOf, Holds
    <3>5. QED BY <2>1, <3>4, AddressAssumption
  <2>3. Settled(a) BY <1>2, <2>2 DEF AddressOK
  <2>4. Untaken(a)' BY <1>1, <2>1, <2>3 DEF Untaken, Settled
  <2>5. On(n, a) /\ ~Mapping(n, a)
    BY <1>1, <1>4, OnIs
  <2>6. Who(n) = Who(c) BY <1>1 DEF Who
  <2>7. Between(call[t], a)' BY <2>1, <2>4, <2>5, <2>6 DEF Between
  <2>8. QED BY <1>1, <2>2, <2>5, <2>7, AddressOwn
<1>5. ASSUME Does(c) \in {"map", "free"}, c.addr = a PROVE AddressOK(a)'
  <2>1. n.addr = a /\ Job(c) = Does(c) BY <1>1, <1>5 DEF DriverDoes
  <2>2. On(c, a) BY <1>1, <1>5, <2>1, OnIs
  <2>3. Between(c, a) /\ \A u \in Thread \ {t} : ~On(call[u], a) BY <1>2, <2>2 DEF AddressOK
  <2>4. Untaken(a)' BY <1>1, <2>3 DEF Between, Untaken
  <2>5. CASE Does(c) = "map"
    <3>1. heap'[a] = "app" /\ ~n.own BY <1>1, <1>2, <1>5, <2>1, <2>5 DEF DriverDoes, Holds
    <3>2. On(n, a) BY <1>1, <2>1, <2>5, OnIs
    <3>3. Between(call[t], a)' BY <1>1, <1>3, <2>4, <3>1 DEF Between, Who
    <3>4. QED BY <1>1, <2>3, <3>2, <3>3, AddressOwn
  <2>6. CASE Does(c) = "free"
    <3>1. heap'[a] = "free" BY <1>1, <1>2, <1>5, <2>6 DEF DriverDoes
    <3>2. ~On(n, a) BY <1>1, <1>3, <2>1, <2>6, OnIs
    <3>3. Settled(a)' BY <2>4, <3>1 DEF Settled, Untaken
    <3>4. QED BY <1>1, <2>3, <3>2, <3>3, AddressOwn
  <2>7. QED BY <1>5, <2>5, <2>6
<1>6. ASSUME ~(Does(c) = "malloc" /\ n.addr = a), ~(Does(c) \in {"map", "free"} /\ c.addr = a)
      PROVE  AddressOK(a)'
  <2>1. ~On(c, a) /\ ~On(n, a)
    <3>1. ASSUME On(c, a) PROVE FALSE
      BY <1>1, <1>3, <1>6, <3>1, OnIs
    <3>2. ASSUME On(n, a) PROVE FALSE
      <4>1. n.addr = a /\ Job(c) \in {"free", "malloc", "map"} BY <1>1, <3>2, OnIs
      <4>2. Does(c) = Job(c) BY <1>1, <4>1
      <4>3. QED BY <1>1, <1>6, <4>1, <4>2 DEF DriverDoes
    <3>3. QED BY <3>1, <3>2
  <2>2. heap'[a] = heap[a]
    <3>1. CASE Does(c) = "malloc" BY <1>1, <1>2, <1>6, <3>1 DEF DriverDoes
    <3>2. CASE Does(c) \in {"map", "free"} BY <1>1, <1>2, <1>6, <3>2 DEF DriverDoes
    <3>3. CASE Does(c) \in {"access", "export", "destroy"} BY <1>1, <3>3 DEF DriverDoes
    <3>4. CASE Does(c) = "import"
      <4>1. n.addr \in Window /\ heap' = [heap EXCEPT ![n.addr] = "shared"]
        BY <1>1, <3>4 DEF DriverDoes, Freed
      <4>2. n.addr # a BY <4>1, AddressAssumption
      <4>3. QED BY <1>2, <4>1, <4>2
    <3>5. CASE Does(c) = "close"
      <4>1. PICK s \in shares : s.info.addr = c.addr /\ s.info.actor = Role(c)
        BY <1>1, <3>5 DEF ShareOK, Closes
      <4>2. c.addr \in Window BY <3>5, <4>1 DEF Sharing, SharesOK, Role
      <4>3. c.addr # a BY <4>2, AddressAssumption
      <4>4. QED BY <1>1, <1>2, <3>5, <4>3 DEF DriverDoes
    <3>6. QED BY <1>1, <3>1, <3>2, <3>3, <3>4, <3>5
  <2>3. QED BY <1>1, <1>2, <2>1, <2>2, AddressOther
<1>7. QED BY <1>4, <1>5, <1>6

LEMMA AddressLeaves ==
  ASSUME Steady, Base, AddressesOK, NEW t \in Thread, Leaves(t), NEW a \in Device \cup Virtual
  PROVE  AddressOK(a)'
<1> DEFINE c == call[t]
           n == call'[t]
           o == Outermost(c)
<1>1. /\ OnlyThread(t) /\ c.pc \in Made /\ n.addr = c.addr /\ n.own = c.own /\ n.ok = c.ok
      /\ n.outer = c.outer /\ n.inner = c.inner /\ heap' = heap /\ c.pc # "idle"
      /\ n.pc = IF c.pc = "aclPost" \/ c.outer = None THEN "returned" ELSE "aclPost"
      /\ IF Tells(c) THEN Tell(c) ELSE UNCHANGED <<allocated, cached, known, ipcMemInfoMap>>
      /\ Tells(c) => Job(c) \in {"malloc", "map"} \cup Opens \cup Closes
  BY DEF Leaves, Kept, Made
<1>2. ShapeOf(c, layers[t]) /\ AddressOK(a) BY DEF Base, Shapes, AddressesOK
<1>3. Job(n) = Job(c) /\ o.does = Job(c) /\ Holds(c) /\ (~c.own => ReportsOf(o))
  BY <1>1, <1>2, OutermostIs DEF Job, Outermost, ShapeOf
<1>4. CASE ~On(c, a)
  <2>1. ~On(n, a) BY <1>1, <1>3, <1>4 DEF On, Freeing, Given, Mapping, Begun, Made
  <2>2. (a \in allocated' <=> a \in allocated) /\ (a \in cached' <=> a \in cached)
    <3>1. CASE Tells(c) /\ Job(c) \in {"malloc", "map"}
      <4>1. c.addr # a BY <1>1, <1>4, <3>1, OnIs
      <4>2. MallocReported(o, c) BY <1>1, <3>1 DEF Tell
      <4>3. QED BY <4>1, <4>2 DEF MallocReported
    <3>2. CASE Tells(c) /\ Job(c) \in Opens \cup Closes BY <1>1, <3>2 DEF Tell
    <3>3. CASE ~Tells(c) BY <1>1, <3>3
    <3>4. QED BY <1>1, <3>1, <3>2, <3>3
  <2>3. QED BY <1>1, <1>2, <1>4, <2>1, <2>2, AddressOther
<1>5. CASE On(c, a)
  <2>1. Between(c, a) /\ \A u \in Thread \ {t} : ~On(call[u], a) BY <1>2, <1>5 DEF AddressOK
  <2>2. c.addr = a /\ Job(c) \in {"malloc", "map"}
    BY <1>1, <1>5 DEF On, Freeing, Given, Mapping, Begun, Made
  <2>3. Job(c) = "malloc" => c.ok /\ a \in Device /\ ~Mapping(c, a)
    BY <1>1, <1>3, <2>2, AddressAssumption DEF Holds, Addr, Made, Begun, Mapping
  <2>4. Job(c) = "map" => a \in Virtual /\ ~c.own BY <1>3, <2>2 DEF Holds
  <2>5. CASE n.pc = "aclPost"
    <3>1. On(n, a) /\ (Mapping(n, a) <=> Mapping(c, a)) /\ c.pc \notin Begun /\ n.pc \notin Begun
      BY <1>1, <1>3, <1>5, <2>2, <2>5 DEF On, Freeing, Given, Mapping, Begun, Made
    <3>2. ~Tells(c) BY <1>1, <2>5 DEF Tells
    <3>3. Between(call[t], a)' BY <1>1, <2>1, <3>1, <3>2 DEF Between, Untaken, Who
    <3>4. QED BY <1>1, <2>1, <3>1, <3>3, AddressOwn
  <2>6. CASE n.pc = "returned"
    <3>1. ~On(n, a) BY <2>6 DEF On, Freeing, Given, Mapping, Begun, Made
    <3>2. c.pc = "aclPost" \/ c.outer = None BY <1>1, <2>6
    <3>3. c.pc \notin Begun BY <1>1 DEF Made, Begun
    <3>4. Settled(a)'
      <4>1. CASE Tells(c)
        <5>1. ~c.own /\ (o.checks => c.ok) /\ MallocReported(o, c) BY <1>1, <2>2, <4>1 DEF Tells, Tell
        <5>2. c.ok
          <6>1. Job(c) = "map" => c.ok BY <1>1, <1>2, <5>1, SteadyCall
          <6>2. QED BY <2>2, <2>3, <6>1
        <5>3. heap[a] = "app" BY <2>1, <3>3, <5>1, <5>2 DEF Between, Who
        <5>4. a \in Device => o.caches
          BY <1>3, <2>2, <2>4, <5>1, AddressAssumption DEF ReportsOf
        <5>5. QED BY <1>1, <2>2, <5>1, <5>3, <5>4 DEF MallocReported, Settled
      <4>2. CASE ~Tells(c)
        <5>1. heap[a] # "app"
          <6>1. CASE c.own BY <2>1, <2>3, <2>4, <2>2, <6>1 DEF Between, Who
          <6>2. CASE ~c.own
            <7>1. o.post # "none" BY <1>3, <2>2, <6>2 DEF ReportsOf
            <7>2. ~c.ok BY <3>2, <4>2, <6>2, <7>1 DEF Tells
            <7>3. Mapping(c, a) BY <1>1, <2>2, <2>3, <7>2 DEF Mapping
            <7>4. QED BY <2>1, <7>2, <7>3 DEF Between
          <6>3. QED BY <6>1, <6>2
        <5>2. QED BY <1>1, <2>1, <4>2, <5>1 DEF Between, Untaken, Settled
      <4>3. QED BY <4>1, <4>2
    <3>5. QED BY <1>1, <2>1, <3>1, <3>4, AddressOwn
  <2>7. QED BY <1>1, <2>5, <2>6
<1>6. QED BY <1>4, <1>5

\* ToolFollowsHeap: the tool and MemoryManage have for allocated exactly what the
\* application holds of every address that no thread is in the middle of freeing
\* or being given, whatever is shared, allocated or freed beside it, when frees
\* do not fail, nor rtMapMem, whose hook reports without looking.
THEOREM HeapFollowed ==
  ASSUME Steady
  PROVE  Spec => []ToolFollowsHeap
<1>1. Init => AddressesOK
  <2>1. SUFFICES ASSUME Init, NEW a \in Device \cup Virtual PROVE AddressOK(a) BY DEF AddressesOK
  <2>2. \A t \in Thread : ~On(call[t], a) BY <2>1, IdleIs, OnIs DEF Init
  <2>3. Settled(a) BY <2>1 DEF Init, Settled, Addr
  <2>4. QED BY <2>2, <2>3 DEF AddressOK
<1>2. (Base /\ Sharing) /\ (Base /\ Sharing)' /\ AddressesOK /\ [Next]_vars => AddressesOK'
  <2>1. ASSUME Base, Base', Sharing, AddressesOK, Next PROVE AddressesOK'
    <3>1. PICK t \in Thread : \/ Begins(t) \/ Descends(t) \/ Fails(t)
                              \/ Drives(t) \/ Leaves(t) \/ Returns(t)
      BY <2>1, StepIs
    <3>2. ASSUME NEW a \in Device \cup Virtual PROVE AddressOK(a)'
      BY <2>1, <3>1, AddressBegins, AddressDescends, AddressFails, AddressDrives, AddressLeaves,
         AddressReturns
    <3>3. QED BY <3>2 DEF AddressesOK
  <2>2. ASSUME AddressesOK, UNCHANGED vars PROVE AddressesOK'
    BY <2>2 DEF vars, AddressesOK, AddressOK, Settled, Between, Untaken
  <2>3. QED BY <2>1, <2>2
<1>3. Base /\ AddressesOK => ToolFollowsHeap
  <2>1. SUFFICES ASSUME Base, AddressesOK, NEW a \in Device \cup Virtual, ~Unsettled(a)
                 PROVE  Settled(a)
    BY DEF ToolFollowsHeap, Settled
  <2>2. AddressOK(a) BY <2>1 DEF AddressesOK
  <2>3. ASSUME NEW t \in Thread, On(call[t], a) PROVE Settled(a)
    <3> DEFINE c == call[t]
    <3>1. ShapeOf(c, layers[t]) /\ Between(c, a) BY <2>1, <2>2, <2>3 DEF Base, Shapes, AddressOK
    <3>2. c.pc \in Begun \cup Made /\ c.addr = a /\ Job(c) \in {"free", "malloc", "map"}
      BY <2>3 DEF On, Freeing, Given, Mapping
    <3>3. Does(c) = Job(c) BY <3>1, <3>2, DoesIs DEF Begun, Made
    <3>4. Mapping(c, a) /\ c.pc \in Begun
      BY <2>1, <2>3, <3>2, <3>3 DEF Unsettled, On, Freeing, Given, Mapping, Begun, Made
    <3>5. QED BY <3>1, <3>4 DEF Between, Untaken, Settled
  <2>4. QED BY <2>2, <2>3 DEF AddressOK
<1>4. QED BY <1>1, <1>2, <1>3, SharingInductive, PTL DEF Spec
-----------------------------------------------------------------------------
(* What the tool knows of shared memory.                                   *)

\* The two hooks of acl that tell of an import and of a close that failed.
SteadyShares == MayFail \cap {"aclrtIpcMemImportByKeyImpl", "aclrtIpcMemCloseImpl"} = {}

LEMMA RealIs ==
  ASSUME SharesOK, NEW s \in shares
  PROVE  Real(s.info.key) = {s.info} /\ \A r \in shares : r.info.key = s.info.key => r = s
<1>1. \A r \in shares : r.info.key = s.info.key => r = s BY DEF SharesOK
<1>2. QED BY <1>1 DEF Real

LEMMA NothingReal ==
  ASSUME NEW k, Unshared(k)
  PROVE  Real(k) = {}
  BY DEF Unshared, Real

\* A step after which as many calls are in the middle, and nothing else changed.
LEMMA KeysQuiet ==
  ASSUME KeysOK, NEW t \in Thread, OnlyThread(t), UNCHANGED <<shares, ipcMemInfoMap, known, overtaken>>,
         \A k \in Key : Middle(call'[t], k) <=> Middle(call[t], k),
         call'[t].pc # "idle" => MiddleOK(call[t])'
  PROVE  KeysOK'
<1>1. ASSUME NEW u \in Thread, call'[u].pc # "idle" PROVE MiddleOK(call[u])'
  <2>1. CASE u = t BY <1>1, <2>1
  <2>2. CASE u # t
    <3>1. call'[u] = call[u] BY <2>2 DEF OnlyThread
    <3>2. MiddleOK(call[u]) BY <1>1, <3>1 DEF KeysOK
    <3>3. QED BY <3>1, <3>2 DEF MiddleOK, Known
  <2>3. QED BY <2>1, <2>2
<1>2. ASSUME NEW k \in Key, \A u \in Thread : ~Middle(call'[u], k) PROVE ToldOK(k)'
  <2>1. \A u \in Thread : ~Middle(call[u], k) BY <1>2 DEF OnlyThread
  <2>2. ToldOK(k) BY <2>1 DEF KeysOK
  <2>3. QED BY <2>2 DEF ToldOK, Known, Real
<1>3. QED BY <1>1, <1>2 DEF KeysOK

LEMMA KeysBegin ==
  ASSUME KeysOK, NEW t \in Thread, Begins(t) \/ Descends(t) \/ Fails(t) \/ Returns(t)
  PROVE  KeysOK'
<1> DEFINE c == call[t]
           n == call'[t]
<1>1. OnlyThread(t) /\ UNCHANGED <<shares, ipcMemInfoMap, known, overtaken>>
  BY DEF Begins, Descends, Fails, Returns
<1>2. ~Opened(c) /\ ~Closed(c)
  BY DEF Begins, Descends, Fails, Returns, Opened, Closed, Made, Begun
<1>3. ~Opened(n) /\ ~Closed(n)
  BY IdleIs DEF Begins, Descends, Fails, Returns, Opened, Closed, Made, Begun
<1>4. \A k \in Key : ~Middle(c, k) /\ ~Middle(n, k) BY <1>2, <1>3 DEF Middle
<1>5. MiddleOK(call[t])' BY <1>3 DEF MiddleOK
<1>6. QED BY <1>1, <1>4, <1>5, KeysQuiet

\* What the driver changes is the share of one key.
LEMMA KeysDrivenOthers ==
  ASSUME Base, Sharing, KeysOK, NEW t \in Thread, OnlyThread(t), NEW k \in Key,
         \A j \in Key : ~Middle(call[t], j),
         UNCHANGED <<ipcMemInfoMap, known>>,
         \A s \in shares \cup shares' : s.info.key # k => (s \in shares <=> s \in shares'),
         \A j \in Key : j # k => (j \in overtaken' <=> j \in overtaken),
         NEW i \in Key, i # k, \A u \in Thread : ~Middle(call'[u], i)
  PROVE  ToldOK(i)'
<1>1. \A u \in Thread : ~Middle(call[u], i) BY DEF OnlyThread
<1>2. ToldOK(i) BY <1>1 DEF KeysOK
<1>3. Real(i)' = Real(i)
  <2>1. \A s : s.info.key = i => (s \in shares <=> s \in shares') OBVIOUS
  <2>2. QED BY <2>1 DEF Real
<1>4. Known(i)' = Known(i) BY DEF Known
<1>5. \A s \in shares \cup shares' : s.info.key = i => (s \in shares <=> s \in shares') OBVIOUS
<1>6. (\E s \in shares' : s.info.key = i /\ s.api = "acl") <=>
      (\E s \in shares : s.info.key = i /\ s.api = "acl")
  BY <1>5
<1>7. QED BY <1>2, <1>3, <1>4, <1>5, <1>6 DEF ToldOK

\* What another call has closed stays lost while the driver works for t.
LEMMA MiddleOfOthers ==
  ASSUME Base, Sharing, KeysOK, NEW t \in Thread, Drives(t), NEW u \in Thread \ {t},
         call'[u].pc # "idle", call[u].key # call'[t].key
  PROVE  MiddleOK(call[u])'
<1> DEFINE c == call[t]
           n == call'[t]
           d == call[u]
<1>1. /\ OnlyThread(t) /\ DriverDoes(c, n) /\ UNCHANGED <<ipcMemInfoMap, known>>
      /\ Does(c) \in {"malloc", "map", "free", "access", "import", "export", "destroy", "close"}
  BY DrivesIs DEF Drives
<1>2. call'[u] = d /\ MiddleOK(d) /\ ShareOK(d) /\ ShapeOf(d, layers[u]) /\ d.pc # "idle"
  BY <1>1 DEF OnlyThread, KeysOK, Sharing, Base, Shapes
<1>3. ASSUME Closed(d), Role(d) = "SHAREE", NEW s \in shares', s.info.addr = d.addr
      PROVE  s.info.key \in overtaken'
  <2>1. d.addr \in Window BY <1>2, <1>3 DEF ShareOK
  <2>2. CASE s \in shares
    <3>1. s.info.key \in overtaken BY <1>2, <1>3, <2>2 DEF MiddleOK
    <3>2. CASE Does(c) = "import"
      <4>1. s.info.key # c.key
        <5>1. Job(c) = "import" /\ c.pc \in Begun BY <3>2, DrivesIs
        <5>2. Unshared(c.key) BY <5>1 DEF Sharing, ShareOK, Begun
        <5>3. QED BY <2>2, <5>2 DEF Unshared
      <4>2. QED BY <1>1, <3>1, <3>2, <4>1 DEF DriverDoes
    <3>3. CASE Does(c) # "import" BY <1>1, <3>1, <3>3 DEF DriverDoes
    <3>4. QED BY <3>2, <3>3
  <2>3. CASE s \notin shares
    <3>1. CASE Does(c) = "export"
      <4>1. s = [api |-> Outermost(c).api, info |-> Info(n.key, "SHARER", c.addr)] /\ c.addr \in Device
        BY <1>1, <2>3, <3>1, DrivesIs DEF DriverDoes, Shares, Holds
      <4>2. QED BY <1>3, <2>1, <4>1, AddressAssumption DEF Info
    <3>2. CASE Does(c) = "import"
      <4>1. s = [api |-> Outermost(c).api, info |-> Info(c.key, "SHAREE", n.addr)]
        BY <1>1, <2>3, <3>2 DEF DriverDoes, Shares
      <4>2. s.info.addr = n.addr /\ s.info.key = c.key BY <4>1 DEF Info
      <4>3. Does(d) = "close" /\ d.pc \in {"rtPost", "aclPost"}
        BY <1>2, <1>3, DoesIs DEF Closed, Role, Made, Closes
      <4>4. Untold(n.addr) BY <1>3, <4>2, <4>3 DEF Untold
      <4>5. QED BY <1>1, <3>2, <4>2, <4>4 DEF DriverDoes
    <3>3. CASE Does(c) \notin {"export", "import"} BY <1>1, <2>3, <3>3 DEF DriverDoes
    <3>4. QED BY <3>1, <3>2, <3>3
  <2>4. QED BY <2>2, <2>3
<1>4. \A k : Known(k)' = Known(k) BY <1>1 DEF Known
<1>5. QED BY <1>1, <1>2, <1>3, <1>4 DEF MiddleOK

LEMMA KeysDrives ==
  ASSUME Base, Base', Sharing, Sharing', KeysOK, NEW t \in Thread, Drives(t)
  PROVE  KeysOK'
<1> DEFINE c == call[t]
           n == call'[t]
<1>1. /\ OnlyThread(t) /\ DriverDoes(c, n) /\ UNCHANGED <<ipcMemInfoMap, known>>
      /\ Holds(c) /\ c.pc \in Begun /\ n.pc \in Made /\ n.ok /\ ShareOK(c)
      /\ Outermost(n) = Outermost(c) /\ Job(n) = Job(c) /\ Does(n) = Does(c)
      /\ IF Job(c) = "closeKey" THEN Does(c) \in {"destroy", "close"} ELSE Does(c) = Job(c)
      /\ Does(c) \in {"malloc", "map", "free", "access", "import", "export", "destroy", "close"}
  BY DrivesIs DEF Drives, Sharing, Begun
<1>2. ~Opened(c) /\ ~Closed(c) BY <1>1 DEF Opened, Closed, Begun, Made
<1>3. \A j \in Key : ~Middle(c, j) BY <1>2 DEF Middle
<1>4. CASE Does(c) \in {"malloc", "map", "free", "access"}
  <2>1. shares' = shares /\ overtaken' = overtaken BY <1>1, <1>4 DEF DriverDoes
  <2>2. ~Opened(n) /\ ~Closed(n) BY <1>1, <1>4 DEF Opened, Closed, Opens, Closes
  <2>3. \A j \in Key : ~Middle(n, j) BY <2>2 DEF Middle
  <2>4. MiddleOK(call[t])' BY <2>2 DEF MiddleOK
  <2>5. QED BY <1>1, <1>3, <2>1, <2>3, <2>4, KeysQuiet
<1>5. CASE Does(c) \in {"import", "export", "destroy", "close"}
  <2>1. PICK k : k = n.key OBVIOUS
  <2>2. k \in Key /\ Middle(n, k) /\ (k = c.key \/ Does(c) = "export")
    BY <1>1, <1>5, <2>1 DEF DriverDoes, Holds, Middle, Opened, Closed, Opens, Closes
  <2>3. \A u \in Thread \ {t} : call[u].key # k
    <3>1. CASE Does(c) = "export" BY <1>1, <2>1, <3>1, KeyTaken DEF DriverDoes
    <3>2. CASE Does(c) # "export" BY <2>2, <3>2, AddressAssumption DEF Sharing, OneOnKey
    <3>3. QED BY <3>1, <3>2
  <2>4. ToldOK(k)
    <3>1. \A u \in Thread : ~Middle(call[u], k) BY <1>3, <2>2, <2>3 DEF Middle
    <3>2. QED BY <2>2, <3>1 DEF KeysOK
  <2>5. MiddleOK(call[t])'
    <3>1. CASE Does(c) \in Opens
      <4>1. Unshared(k)
        <5>1. CASE Does(c) = "export" BY <1>1, <2>1, <5>1 DEF DriverDoes, Unshared
        <5>2. CASE Does(c) = "import" BY <1>1, <2>1, <2>2, <5>2 DEF ShareOK, DriverDoes, Opens, Closes, Unshared
        <5>3. QED BY <3>1, <5>1, <5>2 DEF Opens
      <4>2. Known(k) = {} BY <2>4, <4>1, NothingReal DEF ToldOK
      <4>3. k \notin DOMAIN ipcMemInfoMap BY <2>4, <4>1 DEF ToldOK, Unshared
      <4>4. ~Closed(n) BY <1>1, <3>1 DEF Closed, Opens, Closes
      <4>5. Known(k)' = {} BY <1>1, <4>2 DEF Known
      <4>6. QED BY <1>1, <2>1, <4>3, <4>4, <4>5 DEF MiddleOK
    <3>2. CASE Does(c) \in {"destroy", "close"}
      <4>1. n.addr = c.addr /\ n.key = c.key /\ shares' = {s \in shares : s.info.key # c.key}
        BY <1>1, <3>2 DEF DriverDoes
      <4>2. PICK s \in shares : /\ s.info.key = c.key /\ s.info.addr = c.addr
                                /\ s.api = Outermost(c).api /\ s.info.actor = Role(c)
        BY <1>1, <3>2 DEF ShareOK, Closes
      <4>3. Role(n) = Role(c) /\ s.info \in Infos BY <1>1 DEF Role, Base, TypeOK
      <4>4. s.info = Info(k, Role(n), n.addr)
        BY <2>1, <4>1, <4>2, <4>3 DEF Infos, Info
      <4>5. Real(k) = {s.info} /\ \A r \in shares : r.info.key = k => r = s
        BY <2>1, <4>1, <4>2, RealIs DEF Sharing
      <4>6. Known(k)' \subseteq {Info(k, Role(n), n.addr)}
        BY <1>1, <2>4, <4>4, <4>5 DEF ToldOK, Known
      <4>7. k \in DOMAIN ipcMemInfoMap <=> Outermost(n).api = "acl"
        BY <1>1, <2>1, <2>4, <4>1, <4>2, <4>5 DEF ToldOK
      <4>8. k \in DOMAIN ipcMemInfoMap => ipcMemInfoMap[k] = [actor |-> Role(n), addr |-> n.addr]
        BY <1>1, <2>1, <2>4, <4>1, <4>2, <4>3, <4>5, <4>7 DEF ToldOK
      <4>9. ASSUME Role(n) = "SHAREE", NEW r \in shares', r.info.addr = n.addr
            PROVE  FALSE
        <5>1. s.info.actor = "SHAREE" /\ n.addr \in Window /\ r \in shares /\ r # s
          BY <4>1, <4>2, <4>3, <4>9 DEF Sharing, SharesOK
        <5>2. r.info.actor \in Actor BY <5>1 DEF Base, TypeOK, Infos
        <5>3. r.info.actor = "SHAREE"
          BY <4>9, <5>1, <5>2, AddressAssumption DEF Actor, Sharing, SharesOK
        <5>4. QED BY <4>1, <4>2, <4>9, <5>1, <5>3 DEF Sharing, SharesOK
      <4>10. ~Opened(n) BY <1>1, <3>2 DEF Opened, Opens, Closes
      <4>11. QED BY <1>1, <2>1, <4>6, <4>7, <4>8, <4>9, <4>10 DEF MiddleOK
    <3>3. QED BY <1>5, <3>1, <3>2 DEF Opens
  <2>6. ASSUME NEW u \in Thread, call'[u].pc # "idle" PROVE MiddleOK(call[u])'
    <3>1. CASE u = t BY <2>5, <3>1
    <3>2. CASE u # t BY <2>1, <2>3, <2>6, <3>2, MiddleOfOthers
    <3>3. QED BY <3>1, <3>2
  <2>7. ASSUME NEW j \in Key, \A u \in Thread : ~Middle(call'[u], j) PROVE ToldOK(j)'
    <3>1. j # k BY <2>1, <2>2, <2>7
    <3>2. \A s \in shares \cup shares' : s.info.key # k => (s \in shares <=> s \in shares')
      <4>1. CASE Does(c) = "export" BY <1>1, <2>1, <4>1 DEF DriverDoes, Shares, Info
      <4>2. CASE Does(c) = "import" BY <1>1, <2>2, <4>2 DEF DriverDoes, Shares, Info
      <4>3. CASE Does(c) \in {"destroy", "close"} BY <1>1, <2>2, <4>3 DEF DriverDoes
      <4>4. QED BY <1>5, <4>1, <4>2, <4>3
    <3>3. \A i \in Key : i # k => (i \in overtaken' <=> i \in overtaken)
      BY <1>1, <2>2 DEF DriverDoes
    <3>4. QED BY <1>1, <1>3, <2>7, <2>2, <3>1, <3>2, <3>3, KeysDrivenOthers
  <2>8. QED BY <2>6, <2>7 DEF KeysOK
<1>6. QED BY <1>1, <1>4, <1>5

\* The share that a report of t is about, and what the tool makes of the report.
Reports(t) ==
    LET c == call[t]
        k == c.key
        r == Role(c)
    IN
    /\ k \in Key /\ c.ok /\ c.pc \in Made /\ call'[t].pc = "returned"
    /\ OnlyThread(t) /\ shares' = shares /\ overtaken' = overtaken
    /\ \/ /\ Opened(c)
          /\ known' = known \cup {Info(k, r, c.addr)}
          /\ ipcMemInfoMap' = IF Outermost(c).api = "acl"
                              THEN Inserted(k, [actor |-> r, addr |-> c.addr]) ELSE ipcMemInfoMap
       \/ /\ Closed(c)
          /\ known' = {s \in known :
                          ~(s.actor = r /\ IF r = "SHARER" THEN s.key = k ELSE s.addr = c.addr)}
          /\ ipcMemInfoMap' = IF Outermost(c).api = "acl" THEN Erased(k) ELSE ipcMemInfoMap

LEMMA ReportsIs ==
  ASSUME SteadyShares, Base, Sharing, KeysOK, NEW t \in Thread, Leaves(t), Tells(call[t]),
         Job(call[t]) \in Opens \cup Closes
  PROVE  Reports(t)
<1> DEFINE c == call[t]
           o == Outermost(c)
<1>1. /\ OnlyThread(t) /\ c.pc \in Made /\ shares' = shares /\ overtaken' = overtaken
      /\ call'[t].pc = IF c.pc = "aclPost" \/ c.outer = None THEN "returned" ELSE "aclPost"
      /\ Tell(c) /\ c.pc # "idle" /\ c.pc # "beneath" /\ c.pc \notin Begun
  BY DEF Leaves, Made, Begun
<1>2. /\ c.pc = "aclPost" \/ c.outer = None
      /\ ~c.own /\ (o.checks => c.ok)
  BY DEF Tells
<1>3. ShapeOf(c, layers[t]) /\ MiddleOK(c) BY <1>1 DEF Base, Shapes, KeysOK
<1>4. /\ o \in AclHook \cup RtHook /\ ReportsOf(o) /\ o.does = Job(c)
      /\ IF Job(c) = "closeKey" THEN Does(c) \in {"destroy", "close"} ELSE Does(c) = Job(c)
  BY <1>1, <1>2, <1>3, DoesIs, OutermostIs
<1>5. c.ok
  <2>1. SUFFICES ASSUME ~c.ok PROVE FALSE OBVIOUS
  <2>2. o.name \in Unchecked BY <1>2, <1>4, <2>1 DEF ReportsOf
  <2>3. o.name \in MayFail
    <3>1. Job(c) \notin {"malloc", "export"} BY <1>2, <1>4, <2>1 DEF ReportsOf
    <3>2. QED BY <1>3, <1>1, <2>1, <3>1 DEF ShapeOf
  <2>4. o.name # "rtMapMem"
    <3>1. o.does # "map" BY <1>4 DEF Opens, Closes
    <3>2. CASE o \in RtHook BY <3>1, <3>2, RtHooks DEF RtHookOK
    <3>3. CASE o \in AclHook BY <1>4, <3>3, AclHooks DEF AclHookOK, NamesJob, Opens, Closes
    <3>4. QED BY <1>4, <3>2, <3>3
  <2>5. QED BY <2>2, <2>3, <2>4 DEF Unchecked, SteadyShares
<1>6. c.key \in Key BY <1>1, <1>3, <1>5 DEF ShapeOf, Holds, Opens, Closes
<1>7. CASE Job(c) \in Opens
  <2>1. Opened(c) BY <1>1, <1>5, <1>7 DEF Opened
  <2>2. Role(c) = IF Job(c) = "export" THEN "SHARER" ELSE "SHAREE"
    BY <1>4, <1>7 DEF Role, Opens
  <2>3. QED BY <1>1, <1>2, <1>5, <1>6, <1>7, <2>1, <2>2 DEF Reports, Tell, Opens, SetInfo, MapInfo
<1>8. CASE Job(c) \in Closes
  <2>1. Closed(c) BY <1>1, <1>5, <1>8 DEF Closed
  <2>2. Role(c) = IF Does(c) = "destroy" THEN "SHARER" ELSE "SHAREE"
    BY <1>4, <1>8 DEF Role, Closes
  <2>3. o.api = IF Job(c) = "closeKey" THEN "acl" ELSE "rt"
    BY <1>4, <1>8, AclHooks, RtHooks DEF AclHookOK, RtHookOK, Closes
  <2>4. known' = {s \in known : ~(s.actor = Role(c) /\ IF Role(c) = "SHARER" THEN s.key = c.key
                                                       ELSE s.addr = c.addr)}
        /\ ipcMemInfoMap' = IF o.api = "acl" THEN Erased(c.key) ELSE ipcMemInfoMap
    <3>1. CASE Job(c) = "destroy"
      BY <1>1, <1>4, <2>2, <2>3, <3>1 DEF Tell, DestroyInfo
    <3>2. CASE Job(c) = "close"
      BY <1>1, <1>4, <2>2, <2>3, <3>2 DEF Tell, UnmapInfo
    <3>3. CASE Job(c) = "closeKey"
      <4>1. /\ c.key \in DOMAIN ipcMemInfoMap
            /\ ipcMemInfoMap[c.key] = [actor |-> Role(c), addr |-> c.addr]
        BY <1>3, <2>1, <2>3, <3>3 DEF MiddleOK
      <4>2. CloseReported(c.key) BY <1>1, <3>3 DEF Tell
      <4>3. ipcMemInfoMap[c.key].actor = Role(c) /\ ipcMemInfoMap[c.key].addr = c.addr BY <4>1
      <4>4. QED BY <2>2, <2>3, <3>3, <4>1, <4>2, <4>3 DEF CloseReported, DestroyInfo, UnmapInfo
    <3>4. QED BY <1>8, <3>1, <3>2, <3>3 DEF Closes
  <2>5. QED BY <1>1, <1>2, <1>5, <1>6, <2>1, <2>4 DEF Reports
<1>9. QED BY <1>7, <1>8

\* The key that is told of: what is known of it is what there is.
LEMMA KeyTold ==
  ASSUME Base, Sharing, KeysOK, NEW t \in Thread, Reports(t), NEW k, k = call[t].key
  PROVE  ToldOK(k)'
<1> DEFINE c == call[t]
           r == Role(c)
<1>1. /\ k \in Key /\ c.pc # "idle" /\ shares' = shares /\ overtaken' = overtaken
  BY DEF Reports, Made
<1>2. ShareOK(c) /\ MiddleOK(c) BY <1>1 DEF Sharing, KeysOK
<1>3. CASE Opened(c)
  <2>1. /\ known' = known \cup {Info(k, r, c.addr)}
        /\ ipcMemInfoMap' = IF Outermost(c).api = "acl"
                            THEN Inserted(k, [actor |-> r, addr |-> c.addr]) ELSE ipcMemInfoMap
    BY <1>3 DEF Reports, Opened, Closed, Opens, Closes
  <2>2. Known(k) = {} /\ k \notin DOMAIN ipcMemInfoMap BY <1>2, <1>3 DEF MiddleOK
  <2>3. PICK s \in shares : s.api = Outermost(c).api /\ s.info = Info(k, r, c.addr)
    <3>1. [api |-> Outermost(c).api, info |-> Info(k, r, c.addr)] \in shares
      BY <1>2, <1>3 DEF ShareOK
    <3>2. QED BY <3>1
  <2>4. s.info.key = k /\ s.info.actor = r /\ s.info.addr = c.addr BY <2>3 DEF Info
  <2>5. Real(k) = {s.info} /\ \A q \in shares : q.info.key = k => q = s
    BY <2>4, RealIs DEF Sharing
  <2>6. Known(k)' = {s.info}
    <3>1. Known(k)' = {x \in known : x.key = k} \cup {s.info} BY <2>1, <2>3, <2>4 DEF Known
    <3>2. QED BY <2>2, <3>1 DEF Known
  <2>7. Real(k)' = {s.info} BY <1>1, <2>5 DEF Real
  <2>8. k \in DOMAIN ipcMemInfoMap' <=> s.api = "acl" BY <2>1, <2>2, <2>3 DEF Inserted
  <2>9. s.api = "acl" => ipcMemInfoMap'[k] = [actor |-> r, addr |-> c.addr]
    BY <2>1, <2>2, <2>3 DEF Inserted
  <2>10. QED BY <1>1, <2>4, <2>5, <2>6, <2>7, <2>8, <2>9 DEF ToldOK
<1>4. CASE Closed(c)
  <2>1. /\ known' = {s \in known :
                        ~(s.actor = r /\ IF r = "SHARER" THEN s.key = k ELSE s.addr = c.addr)}
        /\ ipcMemInfoMap' = IF Outermost(c).api = "acl" THEN Erased(k) ELSE ipcMemInfoMap
    BY <1>4 DEF Reports, Opened, Closed, Opens, Closes
  <2>2. /\ Known(k) \subseteq {Info(k, r, c.addr)} /\ Unshared(k)
        /\ k \in DOMAIN ipcMemInfoMap <=> Outermost(c).api = "acl"
    BY <1>2, <1>4 DEF MiddleOK, ShareOK
  <2>3. Known(k)' = {}
    <3>1. \A s \in known : s.key = k => s.actor = r /\ s.addr = c.addr BY <2>2 DEF Known, Info
    <3>2. QED BY <2>1, <3>1 DEF Known
  <2>4. Real(k)' = {} BY <1>1, <2>2 DEF Real, Unshared
  <2>5. k \notin DOMAIN ipcMemInfoMap' BY <2>1, <2>2 DEF Erased
  <2>6. QED BY <1>1, <2>2, <2>3, <2>4, <2>5 DEF ToldOK, Unshared
<1>5. QED BY <1>3, <1>4 DEF Reports

\* Of another key something is lost only where a close has been overtaken.
LEMMA OthersTold ==
  ASSUME Base, Sharing, KeysOK, NEW t \in Thread, Reports(t), NEW j \in Key, j # call[t].key
  PROVE  /\ Known(j)' \subseteq Known(j)
         /\ Known(j) \subseteq Real(j) /\ j \notin overtaken => Known(j)' = Known(j)
         /\ j \in DOMAIN ipcMemInfoMap' <=> j \in DOMAIN ipcMemInfoMap
         /\ ipcMemInfoMap'[j] = ipcMemInfoMap[j] \/ j \notin DOMAIN ipcMemInfoMap
<1> DEFINE c == call[t]
           k == c.key
           r == Role(c)
<1>1. c.pc # "idle" BY DEF Reports, Made
<1>2. MiddleOK(c) BY <1>1 DEF KeysOK
<1>3. CASE Opened(c)
  <2>1. /\ known' = known \cup {Info(k, r, c.addr)}
        /\ ipcMemInfoMap' = IF Outermost(c).api = "acl"
                            THEN Inserted(k, [actor |-> r, addr |-> c.addr]) ELSE ipcMemInfoMap
    BY <1>3 DEF Reports, Opened, Closed, Opens, Closes
  <2>2. Known(j)' = Known(j) BY <2>1 DEF Known, Info
  <2>3. QED BY <2>1, <2>2 DEF Inserted
<1>4. CASE Closed(c)
  <2>1. /\ known' = {s \in known :
                        ~(s.actor = r /\ IF r = "SHARER" THEN s.key = k ELSE s.addr = c.addr)}
        /\ ipcMemInfoMap' = IF Outermost(c).api = "acl" THEN Erased(k) ELSE ipcMemInfoMap
    BY <1>4 DEF Reports, Opened, Closed, Opens, Closes
  <2>2. Known(j)' \subseteq Known(j) BY <2>1 DEF Known
  <2>3. ASSUME Known(j) \subseteq Real(j), j \notin overtaken PROVE Known(j)' = Known(j)
    <3>1. ASSUME NEW x \in Known(j) PROVE x \in known'
      <4>1. x \in known /\ x.key = j /\ x \in Real(j) BY <2>3, <3>1 DEF Known
      <4>2. PICK s \in shares : s.info = x BY <4>1 DEF Real
      <4>3. CASE r = "SHARER" BY <2>1, <4>1, <4>3
      <4>4. CASE r # "SHARER"
        <5>1. r = "SHAREE" BY <4>4 DEF Role
        <5>2. x.addr # c.addr BY <1>2, <1>4, <2>3, <4>1, <4>2, <5>1 DEF MiddleOK
        <5>3. QED BY <2>1, <4>1, <5>1, <5>2
      <4>5. QED BY <4>3, <4>4
    <3>2. QED BY <2>2, <3>1 DEF Known
  <2>4. QED BY <2>1, <2>2, <2>3 DEF Erased
<1>5. QED BY <1>3, <1>4 DEF Reports

LEMMA KeysReport ==
  ASSUME Base, Base', Sharing, Sharing', KeysOK, NEW t \in Thread, Reports(t)
  PROVE  KeysOK'
<1> DEFINE k == call[t].key
<1>1. /\ k \in Key /\ call'[t].pc = "returned" /\ OnlyThread(t)
      /\ shares' = shares /\ overtaken' = overtaken
  BY DEF Reports
<1>2. ASSUME NEW u \in Thread, call'[u].pc # "idle" PROVE MiddleOK(call[u])'
  <2>1. CASE u = t BY <1>1, <2>1 DEF MiddleOK, Opened, Closed, Made
  <2>2. CASE u # t
    <3> DEFINE d == call[u]
    <3>1. call'[u] = d /\ MiddleOK(d) /\ d.key # k
      BY <1>1, <1>2, <2>2, AddressAssumption DEF OnlyThread, KeysOK, Sharing, OneOnKey
    <3>2. CASE Opened(d) \/ Closed(d)
      <4>1. d.key \in Key
        <5>1. d.pc \in Made /\ d.ok /\ Job(d) \in Opens \cup Closes BY <3>2 DEF Opened, Closed
        <5>2. Holds(d) BY <5>1 DEF Base, Shapes, ShapeOf, Made
        <5>3. QED BY <5>1, <5>2 DEF Holds, Opens, Closes, Made, Begun
      <4>2. /\ Known(d.key)' \subseteq Known(d.key)
            /\ d.key \in DOMAIN ipcMemInfoMap' <=> d.key \in DOMAIN ipcMemInfoMap
            /\ ipcMemInfoMap'[d.key] = ipcMemInfoMap[d.key] \/ d.key \notin DOMAIN ipcMemInfoMap
        <5>1. PICK j : j = d.key OBVIOUS
        <5>2. /\ Known(j)' \subseteq Known(j)
              /\ j \in DOMAIN ipcMemInfoMap' <=> j \in DOMAIN ipcMemInfoMap
              /\ ipcMemInfoMap'[j] = ipcMemInfoMap[j] \/ j \notin DOMAIN ipcMemInfoMap
          BY <3>1, <4>1, <5>1, OthersTold
        <5>3. {s \in known' : s.key = j} \subseteq {s \in known : s.key = j} BY <5>2 DEF Known
        <5>4. Known(d.key)' = {s \in known' : s.key = j} BY <3>1, <5>1 DEF Known
        <5>5. Known(d.key) = {s \in known : s.key = j} BY <5>1 DEF Known
        <5>6. QED BY <5>1, <5>2, <5>3, <5>4, <5>5
      <4>3. QED BY <1>1, <3>1, <4>2 DEF MiddleOK, Known
    <3>3. CASE ~Opened(d) /\ ~Closed(d) BY <3>1, <3>3 DEF MiddleOK
    <3>4. QED BY <3>2, <3>3
  <2>3. QED BY <2>1, <2>2
<1>3. ASSUME NEW j \in Key, \A u \in Thread : ~Middle(call'[u], j) PROVE ToldOK(j)'
  <2>1. CASE j = k BY <2>1, KeyTold
  <2>2. CASE j # k
    <3>1. \A u \in Thread : ~Middle(call[u], j) BY <1>1, <1>3, <2>2 DEF OnlyThread, Middle
    <3>2. ToldOK(j) BY <3>1 DEF KeysOK
    <3>3. /\ Known(j)' \subseteq Known(j)
          /\ j \notin overtaken => Known(j)' = Known(j)
          /\ j \in DOMAIN ipcMemInfoMap' <=> j \in DOMAIN ipcMemInfoMap
          /\ ipcMemInfoMap'[j] = ipcMemInfoMap[j] \/ j \notin DOMAIN ipcMemInfoMap
      BY <2>2, <3>2, OthersTold DEF ToldOK
    <3>4. Real(j)' = Real(j) BY <1>1 DEF Real
    <3>5. QED BY <1>1, <3>2, <3>3, <3>4 DEF ToldOK
  <2>3. QED BY <2>1, <2>2
<1>4. QED BY <1>2, <1>3 DEF KeysOK

LEMMA KeysLeave ==
  ASSUME SteadyShares, Base, Base', Sharing, Sharing', KeysOK, NEW t \in Thread, Leaves(t)
  PROVE  KeysOK'
<1> DEFINE c == call[t]
           n == call'[t]
<1>1. /\ OnlyThread(t) /\ c.pc \in Made /\ n.key = c.key /\ n.addr = c.addr /\ n.ok = c.ok
      /\ n.outer = c.outer /\ n.inner = c.inner /\ shares' = shares /\ overtaken' = overtaken
      /\ n.pc = IF c.pc = "aclPost" \/ c.outer = None THEN "returned" ELSE "aclPost"
      /\ IF Tells(c) THEN Tell(c) ELSE UNCHANGED <<allocated, cached, known, ipcMemInfoMap>>
      /\ Tells(c) => Job(c) \in {"malloc", "map"} \cup Opens \cup Closes
      /\ c.pc # "idle"
  BY DEF Leaves, Kept, Made
<1>2. CASE Tells(c) /\ Job(c) \in Opens \cup Closes BY <1>2, ReportsIs, KeysReport
<1>3. CASE ~(Tells(c) /\ Job(c) \in Opens \cup Closes)
  <2>1. known' = known /\ ipcMemInfoMap' = ipcMemInfoMap
    <3>1. CASE Tells(c) BY <1>1, <1>3, <3>1 DEF Tell
    <3>2. CASE ~Tells(c) BY <1>1, <3>2
    <3>3. QED BY <3>1, <3>2
  <2>2. Outermost(n) = Outermost(c) /\ Does(n) = Does(c) /\ Job(n) = Job(c) /\ Role(n) = Role(c)
    BY <1>1 DEF Outermost, Does, Job, Role
  <2>3. ShapeOf(c, layers[t]) /\ MiddleOK(c) BY <1>1 DEF Base, Shapes, KeysOK
  <2>4. ASSUME n.pc = "returned" PROVE ~Opened(c) /\ ~Closed(c)
    <3>1. SUFFICES ASSUME c.ok, Job(c) \in Opens \cup Closes PROVE Tells(c)
      BY <1>3 DEF Opened, Closed
    <3>2. ~c.own
      BY <1>1, <2>3, <3>1, OutermostIs DEF OwnCallOK, Opens, Closes
    <3>3. ReportsOf(Outermost(c)) /\ Outermost(c).does = Job(c) BY <1>1, <2>3, <3>2, OutermostIs
    <3>4. Outermost(c).post # "none" BY <3>1, <3>3 DEF ReportsOf
    <3>5. QED BY <1>1, <2>4, <3>1, <3>2, <3>4 DEF Tells
  <2>5. CASE n.pc = "returned"
    <3>1. ~Opened(n) /\ ~Closed(n) BY <2>5 DEF Opened, Closed, Made
    <3>2. \A k \in Key : Middle(n, k) <=> Middle(c, k) BY <2>4, <2>5, <3>1 DEF Middle
    <3>3. MiddleOK(call[t])' BY <3>1 DEF MiddleOK
    <3>4. QED BY <1>1, <2>1, <3>2, <3>3, KeysQuiet
  <2>6. CASE n.pc = "aclPost"
    <3>1. (Opened(n) <=> Opened(c)) /\ (Closed(n) <=> Closed(c))
      BY <1>1, <2>2, <2>6 DEF Opened, Closed, Made
    <3>2. \A k \in Key : Middle(n, k) <=> Middle(c, k) BY <1>1, <3>1 DEF Middle
    <3>3. MiddleOK(call[t])' BY <1>1, <2>1, <2>2, <2>3, <3>1 DEF MiddleOK, Known
    <3>4. QED BY <1>1, <2>1, <3>2, <3>3, KeysQuiet
  <2>7. QED BY <1>1, <2>5, <2>6
<1>4. QED BY <1>2, <1>3

\* What is known of each key that no call is opening or closing, and of each that
\* one is, in every reachable state, when imports and closes by acl, whose hooks
\* report without looking, do not fail.
THEOREM KeysInductive ==
  ASSUME SteadyShares
  PROVE  Spec => [](Base /\ KeysOK)
<1>1. Init => KeysOK
  <2>1. SUFFICES ASSUME Init PROVE KeysOK OBVIOUS
  <2>2. \A t \in Thread : call[t].pc = "idle" BY <2>1, IdleIs DEF Init
  <2>3. DOMAIN ipcMemInfoMap = {} /\ shares = {} /\ known = {} BY <2>1 DEF Init
  <2>4. ASSUME NEW k \in Key PROVE ToldOK(k) BY <2>3 DEF ToldOK, Known, Real
  <2>5. QED BY <2>2, <2>4 DEF KeysOK
<1>2. (Base /\ Sharing) /\ (Base /\ Sharing)' /\ KeysOK /\ [Next]_vars => KeysOK'
  <2>1. ASSUME Base, Base', Sharing, Sharing', KeysOK, Next PROVE KeysOK'
    <3>1. PICK t \in Thread : \/ Begins(t) \/ Descends(t) \/ Fails(t)
                              \/ Drives(t) \/ Leaves(t) \/ Returns(t)
      BY <2>1, StepIs
    <3>2. QED BY <2>1, <3>1, KeysBegin, KeysDrives, KeysLeave
  <2>2. ASSUME KeysOK, UNCHANGED vars PROVE KeysOK'
    BY <2>2 DEF vars, KeysOK, MiddleOK, ToldOK, Known, Real
  <2>3. QED BY <2>1, <2>2
<1>3. QED BY <1>1, <1>2, SharingInductive, PTL DEF Spec

\* ToolFollowsShares: the tool knows each key that no call is on by the role and
\* the address it really has, whatever is closed and opened again beside it, but
\* for one that was opened where a close was yet to be told of.
THEOREM SharesFollowed ==
  ASSUME SteadyShares
  PROVE  Spec => []ToolFollowsShares
<1>1. Base /\ KeysOK => ToolFollowsShares
  <2>1. SUFFICES ASSUME Base, KeysOK, NEW k \in Key, Unused(k), k \notin overtaken
                 PROVE  Known(k) = Real(k)
    BY DEF ToolFollowsShares, Known, Real
  <2>2. \A t \in Thread : ~Middle(call[t], k) BY <2>1, KeyTaken DEF Middle
  <2>3. QED BY <2>1, <2>2 DEF KeysOK, ToldOK
<1>2. QED BY <1>1, KeysInductive, PTL

\* Of any key that no call is on, overtaken or not, the tool believes nothing that
\* is not so: a closed share is forgotten, and what is opened anew is no other.
THEOREM NothingInvented ==
  ASSUME SteadyShares
  PROVE  Spec => [](\A k \in Key : Unused(k) =>
                       \A i \in known : i.key = k => \E s \in shares : s.info = i)
<1>1. Base /\ KeysOK => \A k \in Key : Unused(k) =>
                            \A i \in known : i.key = k => \E s \in shares : s.info = i
  <2>1. SUFFICES ASSUME Base, KeysOK, NEW k \in Key, Unused(k), NEW i \in known, i.key = k
                 PROVE  \E s \in shares : s.info = i
    OBVIOUS
  <2>2. \A t \in Thread : ~Middle(call[t], k) BY <2>1, KeyTaken DEF Middle
  <2>3. i \in Real(k) BY <2>1, <2>2 DEF KeysOK, ToldOK, Known
  <2>4. QED BY <2>3 DEF Real
<1>2. QED BY <1>1, KeysInductive, PTL
=============================================================================
