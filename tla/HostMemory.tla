----------------------------- MODULE HostMemory -----------------------------
(***************************************************************************)
(* MemoryManage (runtime/inject_helpers/MemoryDataCollect.cpp): what device*)
(* memory a kernel may touch, kept for the checks an instrumented kernel   *)
(* makes itself.  The hooks of the application's allocations record them   *)
(* in a set with a count beside it; a launch adds what belongs to the      *)
(* kernel, notes the count in the heads of the record buffer               *)
(* (hostMemoryNum), copies the set, merged into a table and padded to the  *)
(* count, behind the head of every block, and takes its own entries away.  *)
(*                                                                         *)
(* Launches are those of one thread (SanitizerLaunch); another thread may  *)
(* allocate and free at any time.  Each operation on the set is one step,  *)
(* which the code leaves to luck: only MergeHostMems takes memoryMutex_.   *)
(***************************************************************************)
EXTENDS Integers, Sequences, SequencesExt, FiniteSets, FiniteSetsExt

CONSTANTS Block,      \* the ranges the application may allocate
          HeapRange,  \* those it may register as a heap of its own
          RegionRange,\* those it may register as a region of a heap
          ManualRange,\* those it may report by __sanitizer_report_malloc
          Section,    \* the sections of its kernel, and its overflow address
          Launch,     \* the launches it may make
          Shape,      \* of each atomic index: what adump's area says of lengths
          ContextSize,\* sizeof(HcclCombinOpParam)
          None,       \* no index, or an adump area that was not to be had
          BlockDim,   \* the blocks of a launch
          MaxOp,      \* bound on the application's operations
          MaxLaunch,  \* bound on its launches
          MayFail     \* whether a launch may fail

MemRange == [addr : Nat, length : Nat]
Api == {"rtKernelLaunch", "rtKernelLaunchWithFlagV2", "aclrtLaunchKernel",
        "aclrtLaunchKernelWithHostArgs"}

ASSUME RangeAssumption ==
    /\ IsFiniteSet(Section) /\ Section # {}
    /\ \A r \in Block \cup HeapRange \cup RegionRange \cup ManualRange \cup Section :
          r \in MemRange /\ r.addr > 0 /\ r.length > 0
\* A launch has its tensors, its tiling data, if it has any, and the index that
\* is in it; an mc2 operator's first tensor is its context, with a window of
\* each rank's device, the own device's first.  "double" are the arguments whose
\* metadata say they are pointers to pointers, "hosts" the placeholders of the
\* arguments and what is behind each.
Host == [at : Nat, to : Seq(MemRange)]
ASSUME LaunchAssumption ==
    /\ Launch \subseteq
          [api : Api, inputs : Seq(MemRange), tiling : Seq(MemRange),
           index : DOMAIN Shape \cup {None}, mc2 : BOOLEAN,
           windows : Seq(MemRange), double : SUBSET Nat, hosts : Seq(Host)]
    /\ Shape \in [DOMAIN Shape -> Seq(Nat)] /\ ContextSize \in Nat
ASSUME BoundAssumption ==
    BlockDim \in Nat /\ MaxOp \in Nat /\ MaxLaunch \in Nat /\ MayFail \in BOOLEAN

VARIABLES
    mem,       \* memoryOpAddrInfos_ and mallocCount_
    app,       \* the entries of what the application holds now
    pc,        \* where the launching thread is
    cur,       \* the launch it makes
    adump,     \* ArgsManager::atomicIndexToAddr_
    through,   \* ArgsManager::isThroughAdump_
    rtInfo,    \* the OpMemInfo of KernelContext
    aclInfo,   \* the OpMemInfo of LaunchManager
    headNum,   \* hostMemoryNum_, as the heads have it
    table,     \* what was last copied behind a head
    copied,    \* how many blocks have their table
    disturbed, \* another thread has changed the set since headNum was read
    failed,    \* a launch has failed
    ops, nr    \* operations and launches so far

infoVars == <<through, rtInfo, aclInfo>>
launchVars == <<pc, cur, infoVars, headNum, table, copied, failed, nr>>
vars == <<mem, app, adump, launchVars, disturbed, ops>>

SrcNumber == [BYPASS |-> 0, HAL |-> 1, RT |-> 2, ACL |-> 3, EXTRA |-> 4,
              MANUAL |-> 5, MSTX_HEAP |-> 6, MSTX_REGION |-> 7]
MemInfoSrc == DOMAIN SrcNumber
AddrInfo == [addr : Nat, length : Nat, src : MemInfoSrc]

Entry(r, s) == [addr |-> r.addr, length |-> r.length, src |-> s]
Entries(S, s) == {Entry(r, s) : r \in S}
Of(S, srcs) == {e \in S : e.src \in srcs}

\* AddrInfo::operator<
Before(e, f) ==
    \/ e.addr < f.addr
    \/ e.addr = f.addr /\ e.length < f.length
    \/ e.addr = f.addr /\ e.length = f.length /\ SrcNumber[e.src] < SrcNumber[f.src]

Lowest(S) == CHOOSE e \in S : \A f \in S \ {e} : Before(e, f)

-----------------------------------------------------------------------------
(* The set and its count.                                                   *)

\* CacheMemory<MALLOC>, with and without its count.
CacheMalloc(m, e) == [entries |-> m.entries \cup {e}, count |-> m.count + 1]
CacheUncounted(m, e) == [m EXCEPT !.entries = @ \cup {e}]
CacheAll(m, S) ==
    [entries |-> m.entries \cup S, count |-> m.count + Cardinality(S)]

SameSrc(s, t) == s = t \/ {s, t} \subseteq {"RT", "ACL"}

AfterIllegal(m) == m

CacheFree(m, a, s) ==
    LET found == {e \in m.entries : e.addr = a /\ SameSrc(e.src, s)}
    IN  IF found = {} THEN AfterIllegal(m)
        ELSE [entries |-> m.entries \ {Lowest(found)}, count |-> m.count - 1]

FreeAll(m, S) == FoldSet(LAMBDA e, acc : CacheFree(acc, e.addr, e.src), m, S)

\* UpdateMemoryOp
Kept_all(e) == TRUE
Kept(e) == e.addr # 0 /\ e.length # 0

UpdateMemoryOp(m) ==
    LET kept == {e \in m.entries : Kept(e)}
    IN  [entries |-> kept, count |-> Cardinality(kept)]

-----------------------------------------------------------------------------
(* The table.                                                               *)

Piece(e) == [addr |-> e.addr, length |-> e.length]
End(r) == r.addr + r.length
InRange(h, b) == h.addr >= b.addr /\ End(h) <= End(b)

\* ProcessMstxHeapMem: the heap goes out of the first block around it, which
\* leaves what is on its left and on its right.
Pieces_noRight(b, h) == {[addr |-> b.addr, length |-> h.addr - b.addr]}
Pieces(b, h) == {[addr |-> b.addr, length |-> h.addr - b.addr],
                 [addr |-> End(h), length |-> End(b) - End(h)]}

CutHeap(blocks, h) ==
    LET around == {b \in blocks : InRange(h, b)}
        b == CHOOSE c \in around : \A d \in around :
                 c.addr < d.addr \/ (c.addr = d.addr /\ c.length <= d.length)
    IN  IF around = {} THEN blocks
        ELSE (blocks \ {b}) \cup {p \in Pieces(b, h) : p.length > 0}

\* The heaps are cut in the order of the set, out of the blocks before them.
Uncut(S) ==
    FoldLeft(LAMBDA blocks, e :
                CASE e.src \in {"RT", "ACL"} -> blocks \cup {Piece(e)}
                  [] e.src = "MSTX_HEAP" -> CutHeap(blocks, e)
                  [] OTHER -> blocks,
             {}, SetToSortSeq(S, Before))

\* ExtractValidMems: with an EXTRA entry only the tensors of the operator and
\* what was reported for it count.
ExtractValidMems(S) ==
    LET sized == {e \in S : e.length > 0}
    IN  IF Of(S, {"EXTRA"}) # {}
        THEN {Piece(e) : e \in Of(sized, {"EXTRA", "MANUAL", "BYPASS"})}
        ELSE Uncut(sized) \cup
             {Piece(e) : e \in Of(sized, MemInfoSrc \ {"RT", "ACL", "MSTX_HEAP"})}

\* Ranges that touch become one.
MergeNext(merged, r) ==
    LET last == merged[Len(merged)]
    IN  IF merged # <<>> /\ r.addr <= End(last)
        THEN [merged EXCEPT ![Len(merged)].length =
                 (IF End(r) > End(last) THEN End(r) ELSE End(last)) - last.addr]
        ELSE Append(merged, r)

Merged(S) ==
    FoldLeft(MergeNext, <<>>,
             SetToSortSeq(ExtractValidMems(S), LAMBDA p, q : p.addr < q.addr))

\* ... and the table is filled up to the count with empty ranges.
Empty == [addr |-> 0, length |-> 0]
Padded(ranges, n) ==
    ranges \o [i \in 1..(IF n > Len(ranges) THEN n - Len(ranges) ELSE 0) |-> Empty]

MergeHostMems(m) ==
    IF m.entries = {} \/ m.count = 0 THEN <<>>
    ELSE Padded(Merged(m.entries), m.count)

\* CopyExtraMallocToHostMemory: the lengths of the tensors and of the tiling
\* data, whose addresses the kernel knows, go into the first empty ranges.
Used(t) == Cardinality({i \in 1..Len(t) : \A j \in 1..i : t[j] # Empty})

Sizes == [i \in DOMAIN rtInfo.tensors |-> rtInfo.tensors[i].length] \o rtInfo.tiling

CopyExtraMallocToHostMemory(m) ==
    LET t == MergeHostMems(m)
        k == Used(t)
        sizes == Sizes
    IN  [i \in 1..Len(t) |->
            IF i - k \in 1..Len(sizes) THEN [t[i] EXCEPT !.length = sizes[i - k]]
            ELSE t[i]]

-----------------------------------------------------------------------------
(* The application, on any of its threads: what it allocates and reports.   *)

AppStep ==
    /\ ops < MaxOp
    /\ ops' = ops + 1
    /\ disturbed' = (disturbed \/ pc = "copy")
    /\ UNCHANGED launchVars

AppMem == AppStep /\ UNCHANGED adump

Gain(e) == mem' = CacheMalloc(mem, e) /\ app' = app \cup {e}
Lose(e, src) == mem' = CacheFree(mem, e.addr, src) /\ app' = app \ {e}

Overlap(e, f) == e.addr < End(f) /\ f.addr < End(e)
Inside(e, srcs) == {f \in Of(app, srcs) : InRange(f, e)}

\* rtMalloc and aclrtMalloc: memory nobody holds; b is what the hook records, for
\* acl the size rounded up to 32 and 32 more.
Malloc(b, src) ==
    /\ AppMem
    /\ \A e \in Of(app, {"RT", "ACL"}) : ~Overlap(b, e)
    /\ Gain(Entry(b, src))

\* rtFree and aclrtFree, either for either; its heaps are gone before a block.
Free(e, src) ==
    /\ AppMem
    /\ e.src \in {"RT", "ACL"}
    /\ Inside(e, {"MSTX_HEAP", "MSTX_REGION"}) = {}
    /\ Lose(e, src)

\* The free of a null pointer is allowed to the application.
FreeNull(src) ==
    /\ AppMem
    /\ mem' = CacheFree(mem, 0, src)
    /\ UNCHANGED app

MstxMemHeapRegister(h) ==
    /\ AppMem
    /\ \E b \in Of(app, {"RT", "ACL"}) : InRange(h, b)
    /\ \A g \in Of(app, {"MSTX_HEAP"}) : ~Overlap(h, g)
    /\ Gain(Entry(h, "MSTX_HEAP"))

MstxMemHeapUnregister(h) ==
    /\ AppMem
    /\ h.src = "MSTX_HEAP"
    /\ Inside(h, {"MSTX_REGION"}) = {}
    /\ Lose(h, "MSTX_HEAP")

\* Only what lies in its heap is recorded.
MstxMemRegionsRegister(r) ==
    /\ AppMem
    /\ \E h \in Of(app, {"MSTX_HEAP"}) : InRange(r, h)
    /\ \A g \in Of(app, {"MSTX_REGION"}) : ~Overlap(r, g)
    /\ Gain(Entry(r, "MSTX_REGION"))

MstxMemRegionsUnregister(r) ==
    /\ AppMem
    /\ r.src = "MSTX_REGION"
    /\ Lose(r, "MSTX_REGION")

__sanitizer_report_malloc(r) ==
    /\ AppMem
    /\ \A e \in Of(app, {"MANUAL"}) : ~Overlap(r, e)
    /\ Gain(Entry(r, "MANUAL"))

__sanitizer_report_free(r) ==
    /\ AppMem
    /\ r.src = "MANUAL"
    /\ Lose(r, "MANUAL")

\* AdumpGetDFXInfoAddrForDynamic: the framework asks for an area where it will
\* write the lengths of a dynamic operator's tensors, and may get none.
AdumpGetDFXInfoAddrForDynamic(i, info) ==
    /\ AppStep
    /\ adump' = [j \in DOMAIN adump \cup {i} |-> IF j = i THEN info ELSE adump[j]]
    /\ UNCHANGED <<mem, app>>

-----------------------------------------------------------------------------
(* What a launch knows of its operator's memory (OpMemInfo).                *)

Tensor(n, s) == [length |-> n, src |-> s]
Cleared == [tensors |-> <<>>, tiling |-> <<>>, mc2 |-> FALSE, double |-> {}]

\* The metadata of the kernel's binary.
ParseMetaInput(l) == [i \in DOMAIN l.inputs |-> Tensor(l.inputs[i].length, "EXTRA")]
Parsed(l) ==
    [tensors |-> ParseMetaInput(l), mc2 |-> l.mc2, double |-> l.double,
     tiling |-> [i \in DOMAIN l.tiling |-> l.tiling[i].length]]

RefreshMc2CtxInfo ==
    [Cleared EXCEPT !.tensors = <<Tensor(ContextSize, "BYPASS")>>, !.mc2 = TRUE]

\* What adump's area says of the operator with this index, if there is one.
GetAdumpInfo(index) == IF index \in DOMAIN adump THEN adump[index] ELSE None

\* The metadata's lengths of a dynamic operator are not to be trusted: they come
\* from the area, or are forgotten.
UpdateInputSizeWithTilingData(info, index) ==
    LET shape == GetAdumpInfo(index)
        Known(i) == i \in DOMAIN shape /\ ~(info.mc2 /\ i = 1)
    IN  IF shape # None
        THEN [info EXCEPT !.tensors = [i \in DOMAIN @ |->
                 IF Known(i) THEN Tensor(shape[i], @[i].src) ELSE @[i]]]
        ELSE IF info.mc2 THEN RefreshMc2CtxInfo ELSE Cleared

\* Only an operator with tiling data is dynamic, and only it says whether the
\* framework uses adump at all.
Dynamic(l) == l.tiling # <<>>
CompleteInputData(l) ==
    IF Dynamic(l) THEN UpdateInputSizeWithTilingData(Parsed(l), l.index) ELSE Parsed(l)
UpdateOpMemInfoByAdump(l) ==
    /\ aclInfo' = CompleteInputData(l)
    /\ UNCHANGED rtInfo
ThroughAdump(l) == IF Dynamic(l) THEN adump # <<>> ELSE through

\* The windows of an mc2 operator's ranks, but for the one the application has
\* allocated itself.
ParseMc2CtxAddrs(l) ==
    [i \in 1..Len(l.windows) - (IF through THEN 0 ELSE 1) |->
        IF through THEN Entry(l.windows[i], "EXTRA")
        ELSE Entry(l.windows[i + 1], "BYPASS")]

\* KernelContext's OpMemInfo says whether the operator is an mc2 one, for every
\* api.
ProcessMc2CtxAddr(l, i, e) ==
    IF ~rtInfo.mc2 \/ i # 1 THEN <<e>>
    ELSE ParseMc2CtxAddrs(l) \o (IF through THEN <<e>> ELSE <<>>)

\* The pointers behind a pointer argument.
ParseSecondPtrAddrs(l, info) ==
    FlattenSeq([i \in DOMAIN l.hosts |->
        IF l.hosts[i].at \in info.double /\ l.hosts[i].at < Len(info.tensors)
        THEN [k \in DOMAIN l.hosts[i].to |-> Entry(l.hosts[i].to[k], "EXTRA")]
        ELSE <<>>])

\* All of it, with the addresses of this launch's arguments.
Reportable(l, info) ==
    FlattenSeq([i \in DOMAIN info.tensors |->
        ProcessMc2CtxAddr(l, i, [addr |-> l.inputs[i].addr,
            length |-> info.tensors[i].length, src |-> info.tensors[i].src])])
    \o ParseSecondPtrAddrs(l, info)

-----------------------------------------------------------------------------
(* A launch.                                                                *)

IsRt(l) == l.api \in {"rtKernelLaunch", "rtKernelLaunchWithFlagV2"}
IsOp(l) == l.api = "rtKernelLaunchWithFlagV2"
Sections == Entries(Section, "BYPASS")

\* Room for every tensor and the tiling data of an operator.
Reserved_noTiling(info) == Len(info.tensors)
Reserved(info) == Len(info.tensors) + 1

LaunchStep == UNCHANGED <<app, adump, disturbed, ops>>

\* What the hook of the launch holds goes with it.
NoLaunch == [api |-> "none"]
LaunchEnds ==
    /\ pc' = "idle" /\ cur' = NoLaunch
    /\ headNum' = 0 /\ table' = <<>> /\ copied' = 0 /\ disturbed' = FALSE

\* InitParam and SanitizerPre of rtKernelLaunch and of the launches of operators.
\* An entry of no length stands for the tensors: its source makes MergeHostMems
\* choose.
RtPre(l) ==
    LET loaded == CacheAll(mem, Sections)
        info == IF IsOp(l) THEN CompleteInputData(l) ELSE Parsed(l)
        roomy == [loaded EXCEPT !.count = @ + Reserved(info)]
    IN  /\ pc = "idle" /\ nr < MaxLaunch /\ IsRt(l)
        /\ pc' = "init" /\ cur' = l /\ nr' = nr + 1
        /\ rtInfo' = info
        /\ through' = IF IsOp(l) THEN ThroughAdump(l) ELSE through
        /\ mem' = IF ~IsOp(l) THEN loaded
                  ELSE IF info.tensors = <<>> THEN roomy
                  ELSE CacheUncounted(roomy, Entry(Empty, info.tensors[1].src))
        /\ LaunchStep /\ UNCHANGED <<aclInfo, headNum, table, copied, failed>>

\* SanitizerPre of the acl launches leaves the set alone.
AclPre(l) ==
    /\ pc = "idle" /\ nr < MaxLaunch /\ ~IsRt(l)
    /\ pc' = "init" /\ cur' = l /\ nr' = nr + 1
    /\ UpdateOpMemInfoByAdump(l) /\ through' = ThroughAdump(l)
    /\ LaunchStep /\ UNCHANGED <<mem, headNum, table, copied, failed>>

\* Its Init: the count goes into the heads.
SanitizerLaunchInit ==
    /\ pc = "init"
    /\ pc' = "copy"
    /\ headNum' = mem.count
    /\ copied' = 0
    /\ disturbed' = FALSE
    /\ UNCHANGED <<mem, app, adump, ops, cur, infoVars, table, failed, nr>>

\* HostMallocH2D of the next block.
HostMallocH2D ==
    /\ pc = "copy"
    /\ table' = CopyExtraMallocToHostMemory(mem)
    /\ copied' = copied + 1
    /\ pc' = IF copied' = BlockDim THEN "run" ELSE pc
    /\ LaunchStep /\ UNCHANGED <<mem, cur, infoVars, headNum, failed, nr>>

\* Without a record buffer SanitizerPost does nothing.
InitFails ==
    /\ MayFail /\ pc \in {"init", "copy"}
    /\ LaunchEnds
    /\ failed' = (failed \/ IsRt(cur))
    /\ UNCHANGED <<mem, app, adump, ops, infoVars, nr>>

\* One entry an address, as long as the longest tensor there, with the source of
\* the first.
Unique(es) ==
    LET First(i) == \A j \in 1..i - 1 : es[j].addr # es[i].addr
        Longest(a) == Max({es[j].length : j \in {k \in DOMAIN es : es[k].addr = a}})
    IN  {Entry([addr |-> es[i].addr, length |-> Longest(es[i].addr)], es[i].src) :
            i \in {j \in DOMAIN es :
                      First(j) /\ es[j].addr # 0 /\ Longest(es[j].addr) # 0}}

\* ReportOpMallocInfo and ReportOpFreeInfo of an rt launch,
Tiling(l) == Entries({l.tiling[i] : i \in DOMAIN l.tiling}, "BYPASS")
ReportOpMallocInfo(m, l) ==
    CacheAll(CacheAll(m, Unique(Reportable(l, rtInfo))), Tiling(l))

\* and of an acl launch, whose tiling data are behind the last placeholder.
AclTiling(l) ==
    {Entry(l.hosts[i].to[1], "BYPASS") : i \in {j \in DOMAIN l.hosts :
        \A k \in DOMAIN l.hosts : l.hosts[k].at <= l.hosts[j].at}}
ReportAclOpMallocInfo(m, l) ==
    CacheAll(CacheAll(m, Unique(Reportable(l, aclInfo))), AclTiling(l))

ReportOpFreeInfo(m, tensors, tiling) ==
    UpdateMemoryOp(FreeAll(FreeAll(m, tiling), tensors))

\* SanitizerPost: the acl launches report what belongs to the kernel when it has
\* run; the operators bring their tensors then.
PostMem(m, l) ==
    CASE l.api = "rtKernelLaunch" -> FreeAll(m, Sections)
      [] l.api = "rtKernelLaunchWithFlagV2" ->
            ReportOpFreeInfo(FreeAll(ReportOpMallocInfo(m, l), Sections),
                             Unique(Reportable(l, rtInfo)), Tiling(l))
      [] l.api = "aclrtLaunchKernel" -> FreeAll(CacheAll(m, Sections), Sections)
      [] l.api = "aclrtLaunchKernelWithHostArgs" ->
            ReportOpFreeInfo(
                FreeAll(CacheAll(ReportAclOpMallocInfo(m, l), Sections), Sections),
                Unique(Reportable(l, aclInfo)), AclTiling(l))

Post ==
    /\ pc = "run"
    /\ LaunchEnds
    /\ mem' = PostMem(mem, cur)
    /\ rtInfo' = IF IsOp(cur) THEN Cleared ELSE rtInfo
    /\ aclInfo' = IF cur.api = "aclrtLaunchKernelWithHostArgs" THEN Cleared ELSE aclInfo
    /\ UNCHANGED <<app, adump, through, ops, failed, nr>>

-----------------------------------------------------------------------------
Init ==
    /\ mem = [entries |-> {}, count |-> 0] /\ app = {}
    /\ adump = <<>> /\ through = TRUE /\ rtInfo = Cleared /\ aclInfo = Cleared
    /\ pc = "idle" /\ cur = NoLaunch
    /\ headNum = 0 /\ table = <<>> /\ copied = 0
    /\ disturbed = FALSE /\ failed = FALSE /\ ops = 0 /\ nr = 0

Next ==
    \/ \E b \in Block, src \in {"RT", "ACL"} : Malloc(b, src)
    \/ \E e \in app, src \in {"RT", "ACL"} : Free(e, src)
    \/ \E src \in {"RT", "ACL"} : FreeNull(src)
    \/ \E h \in HeapRange : MstxMemHeapRegister(h)
    \/ \E h \in app : MstxMemHeapUnregister(h)
    \/ \E r \in RegionRange : MstxMemRegionsRegister(r)
    \/ \E r \in app : MstxMemRegionsUnregister(r)
    \/ \E r \in ManualRange : __sanitizer_report_malloc(r)
    \/ \E r \in app : __sanitizer_report_free(r)
    \/ \E i \in DOMAIN Shape : \E info \in {Shape[i], None} :
          AdumpGetDFXInfoAddrForDynamic(i, info)
    \/ \E l \in Launch : RtPre(l) \/ AclPre(l)
    \/ SanitizerLaunchInit \/ HostMallocH2D \/ InitFails \/ Post

Spec == Init /\ [][Next]_vars

-----------------------------------------------------------------------------
(* What must hold.                                                          *)

\* After the launches, of which none failed on its way, the set is that of the
\* application again and the count its size.
LaunchLeavesNothing ==
    pc = "idle" /\ ~failed =>
        mem.entries = app /\ mem.count = Cardinality(app)

Points(S) == UNION {r.addr..(End(r) - 1) : r \in S}

\* What a kernel of this launch may touch, the tensors of an operator apart.
Meant(l) ==
    LET own == IF IsRt(l) THEN Section ELSE {}
        given == Points(Of(app, {"MANUAL"}) \cup own)
        sized == rtInfo.tensors # <<>> /\ rtInfo.tensors[1].src = "EXTRA"
    IN  IF IsOp(l) /\ sized THEN given
        ELSE given \cup Points(Of(app, {"MSTX_REGION"})) \cup
                (Points(Of(app, {"RT", "ACL"})) \ Points(Of(app, {"MSTX_HEAP"})))

\* Sorted, with a gap between any two, and no point too few or too many.
Exact(t, l) ==
    LET known == SelectSeq(t, LAMBDA r : r.addr # 0)
    IN  /\ \A i \in 1..(Len(known) - 1) : End(known[i]) < known[i + 1].addr
        /\ Points({known[i] : i \in DOMAIN known}) = Meant(l)

\* Every heap comes after its block in the order of the set.
HeapsBehind ==
    \A h \in Of(app, {"MSTX_HEAP"}), b \in Of(app, {"RT", "ACL"}) :
        InRange(h, b) => Before(b, h)

Copies == pc = "copy" /\ copied' = copied + 1

\* The table of a block is exactly what the application holds then and the
\* kernel owns, without the heaps and with their regions, as long as the heaps
\* come after their blocks.
TableExact == [][Copies /\ ~failed /\ HeapsBehind => Exact(table', cur)]_vars

\* While no other thread changes the set, the table has as many ranges as the
\* heads announce, and room for the tensors and the tiling data of an operator:
\* a longer one would be copied over the records, a shorter one read beyond.
TableAsAnnounced ==
    [][Copies /\ ~disturbed /\ ~failed =>
        /\ Len(table') = headNum
        /\ IsOp(cur) => Len(Merged(mem.entries)) + Len(Sizes) <= Len(table')]_vars
=============================================================================
