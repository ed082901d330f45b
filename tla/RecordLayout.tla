---------------------------- MODULE RecordLayout ----------------------------
(***************************************************************************)
(* The record buffer a checked kernel writes on the device, as the host    *)
(* lays it out before the launch (SanitizerLaunchInit) and reads it back   *)
(* after it (SanitizerLaunchFinalize), runtime/inject_helpers/             *)
(* LaunchInitFinalize.cpp.  After the global head comes one part per       *)
(* (sub)block:                                                             *)
(*   BlockHead | HostMalloc | SimdRecord | SimtRecord | ShadowMemory       *)
(* of which the last two exist on devices that support SIMT.  A behaviour  *)
(* is one launch with one configuration.                                   *)
(*                                                                         *)
(* Sizes and offsets are in cache lines of 64 bytes, to which the code     *)
(* aligns all of them; a uint32_t of bytes wraps at Width lines.  The      *)
(* kernel is external: each block's head says how much it recorded, which  *)
(* is at most what the layout leaves it.                                   *)
(***************************************************************************)
EXTENDS Integers, Sequences

CONSTANTS
    Config,     \* the launches
    GlobalHead, \* lines of a RecordGlobalHead
    BlockHead,  \* lines of a RecordBlockHead
    CopyFails   \* whether a copy between host and device may fail

\* cache is the size per block in MB, check the block to check, blockDim that of
\* the launch; sub: HasSubBlocks; simt: SupportSimt; host: hostMemoryNum_.
ASSUME ConfigAssumption ==
    Config \subseteq [cache : Nat, check : Nat \cup {-1}, blockDim : 1..100,
                      sub : BOOLEAN, simt : BOOLEAN, host : Nat]
ASSUME HeadAssumption ==
    GlobalHead \in Nat /\ BlockHead \in Nat \ {0} /\ CopyFails \in BOOLEAN

VARIABLES
    cfg,        \* the launch
    phase,      \* which loop runs, or how it ended
    at,         \* memInfo, memInfoBackUp_: where the next block starts
    start,      \* where BlockHeadsH2D put each block so far
    sent        \* what was read of each block and sent to the tool

layoutVars == <<cfg, phase, at, start, sent>>

-----------------------------------------------------------------------------
(* The sizes of a configuration.                                            *)

LinesPerMb == 16384                  \* MB_TO_BYTES
Width == 67108864                    \* 2^32 bytes
CheckAll == -1                       \* CHECK_ALL_BLOCK
MaxEach == 8 * 1024                  \* MAX_RECORD_BUF_SIZE_EACH_BLOCK
MaxAll == 24 * 1024                  \* MAX_RECORD_BUF_SIZE_ALL_BLOCK
Threads == 2048                      \* SIMT_THREAD_MAX_SIZE
MinShadow == 12                      \* SHADOW_MEM_MIN_BYTE_SIZE, in MB

U32(n) == n % Width

\* totalBlockDim
Blocks(c) == IF c.sub THEN 3 * c.blockDim ELSE c.blockDim

\* IsTargetBlockIdx: the sub-blocks are vec, vec, cube in turn, and a vec and a
\* cube block are checked.
Targets(c) ==
    IF c.sub THEN {(c.check \div 2) * 3 + (c.check % 2), c.check * 3 + 2}
    ELSE {c.check}

Whole(c, i) == c.check = CheckAll \/ i \in Targets(c)

TotalCacheSize(c) ==
    IF c.check = CheckAll THEN c.cache * Blocks(c)
    ELSE IF c.sub THEN c.cache * 2 + Blocks(c) - 2
    ELSE c.cache + Blocks(c) - 1

\* A tenth of the cache in whole lines for each thread, its head included.
ThreadLines(c) == (c.cache * LinesPerMb) \div (10 * Threads)
AllThreads(c) == ThreadLines(c) * Threads

\* AssignGlobalHead and AssignMemSize find the sizes possible.
Accepted(c) ==
    /\ c.simt => ThreadLines(c) >= 1
    /\ c.cache # 0 /\ c.cache <= MaxEach /\ TotalCacheSize(c) <= MaxAll

\* GetRecordHeadSize: the block head, and 16 bytes for each host memory.
HeadSize(c) == U32(BlockHead + (c.host + 3) \div 4)

\* The cache times 1 - SIMT_CACHE_SIZE_RATIO - SHADOW_MEM_CACHE_SIZE_RATIO, which
\* in float arithmetic is 6710886 / 2^24 and a little less than two fifths (the
\* rounding of the product, of two lines at most, is left out).
SimdLines_roundedUp(c) == (c.cache * 2 * LinesPerMb) \div 5 + 1
SimdLines(c) == c.cache * 6553 + (c.cache * 614) \div 1024

SimtHeadOffset(c) == U32(SimdLines(c) + HeadSize(c))

\* Half of the cache, if that is enough for the shadow memory to work at all.
ShadowOn(c) == c.cache >= 2 * MinShadow
ShadowSize(c) == IF ShadowOn(c) THEN U32(c.cache * (LinesPerMb \div 2)) ELSE 0
ShadowOffset(c) == U32(SimtHeadOffset(c) + AllThreads(c))

\* What a block is given of the buffer.
Share(c, i) == HeadSize(c) + (IF Whole(c, i) THEN c.cache ELSE 1) * LinesPerMb

\* GetBlockSize returns uint32_t.
GetBlockSize_noHead(c, i) == U32(Share(c, i) - HeadSize(c))
GetBlockSize(c, i) == U32(Share(c, i))

\* Process: what is allocated, in uint64_t.
MemSize(c) ==
    TotalCacheSize(c) * LinesPerMb + GlobalHead + Blocks(c) * HeadSize(c)

\* The SIMD records of block i go from its head to its SIMT records, or to its end.
SimdRoom(c, i) ==
    IF c.simt /\ Whole(c, i) THEN SimdLines(c) ELSE Share(c, i) - HeadSize(c)

-----------------------------------------------------------------------------
LayoutInit ==
    /\ cfg \in Config /\ phase = "assign"
    /\ at = 0 /\ start = <<>> /\ sent = <<>>

\* AssignGlobalHead says no, or there is a buffer and its global head is written.
Assign ==
    /\ phase = "assign"
    /\ IF Accepted(cfg) THEN phase' = "heads" /\ at' = GlobalHead
       ELSE phase' = "refused" /\ UNCHANGED at
    /\ UNCHANGED <<cfg, start, sent>>

MoreHeads == Len(start) + 1 < Blocks(cfg)

HeadsH2D ==
    /\ phase = "heads"
    /\ start' = Append(start, at)
    /\ at' = at + GetBlockSize(cfg, Len(start))
    /\ phase' = IF MoreHeads THEN "heads" ELSE "kernel"
    /\ UNCHANGED <<cfg, sent>>

\* A copy of the heads fails: the buffer is freed and there is nothing to check.
HeadsFail ==
    /\ CopyFails /\ phase \in {"assign", "heads"} /\ Accepted(cfg)
    /\ phase' = "refused"
    /\ UNCHANGED <<cfg, at, start, sent>>

\* The kernel has ended; GlobalHeadD2H and RegistersD2H.
GlobalHeadD2H ==
    /\ phase = "kernel"
    /\ phase' = "read" /\ at' = GlobalHead
    /\ UNCHANGED <<cfg, start, sent>>

HostRoom(c) == c.cache * LinesPerMb

HostHolds(c, i, w) ==
    /\ w <= HostRoom(c)
    /\ c.simt /\ Whole(c, i) =>
          /\ AllThreads(c) <= HostRoom(c) - w
          /\ ShadowSize(c) <= U32(HostRoom(c) - w - AllThreads(c))

\* A turn of ReportBlockInfo, for a block that recorded w lines: the last block is
\* sent as a request, the others one way.  Where a copy does not fit the loop
\* breaks, and the tool waits for the last block.
ReadBlock(w) ==
    LET i == Len(sent)
    IN  /\ phase = "read"
        /\ IF HostHolds(cfg, i, w)
           THEN /\ sent' = Append(sent, [from |-> at, simd |-> w])
                /\ at' = at + GetBlockSize(cfg, i)
                /\ phase' = IF i + 1 < Blocks(cfg) THEN "read" ELSE "synced"
           ELSE phase' = "short" /\ UNCHANGED <<at, sent>>
        /\ UNCHANGED <<cfg, start>>

\* A copy fails, with the same effect.
BreaksFailed ==
    /\ CopyFails /\ phase \in {"kernel", "read"}
    /\ phase' = "broken"
    /\ UNCHANGED <<cfg, at, start, sent>>

\* Without shadow memory ShadowMemoryD2H copies nothing and goes on to parse the
\* tables of a heap that is not there: it may also fail on the copy of nothing,
\* or follow what the host's memory happens to hold.
ParsesNoShadow ==
    /\ phase = "read" /\ cfg.simt /\ Whole(cfg, Len(sent)) /\ ~ShadowOn(cfg)
    /\ phase' \in {"broken", "crashed"}
    /\ UNCHANGED <<cfg, at, start, sent>>

\* What the kernel may have recorded in block i.
Recorded(c, i) == {0, 1, SimdRoom(c, i)}

LayoutNext ==
    \/ Assign \/ HeadsH2D \/ HeadsFail \/ GlobalHeadD2H
    \/ \E w \in Recorded(cfg, Len(sent)) : ReadBlock(w)
    \/ BreaksFailed \/ ParsesNoShadow

LayoutSpec == LayoutInit /\ [][LayoutNext]_layoutVars

-----------------------------------------------------------------------------
(* What must hold.                                                          *)

\* What one block may write ends before the head of the next one starts.
Disjoint ==
    \A i, j \in 1..Len(start) :
        i < j => start[i] + Share(cfg, i - 1) <= start[j]

\* Every block ends within what Process has allocated: the total of
\* AssignMemSize, which counts the blocks to check, is enough for what
\* GetBlockSize, which asks of each block whether it is one, hands out.
InBuffer ==
    \A i \in 1..Len(start) : start[i] + Share(cfg, i - 1) <= MemSize(cfg)

\* No block changes the head or the records of another, nor anything behind
\* the buffer (CACHE_LINE_SIZE, GetBlockSize, AssignMemSize).
BlocksApart == Disjoint /\ InBuffer

\* Within a block with SIMT records these follow the SIMD records, the shadow
\* memory follows all threads, and it ends with the block: the shares of the
\* cache are rounded so that they never add up to more than the whole.
PartsApart ==
    start # <<>> /\ cfg.simt =>
        /\ SimtHeadOffset(cfg) >= HeadSize(cfg) + SimdLines(cfg)
        /\ ShadowOn(cfg) =>
              /\ ShadowOffset(cfg) >= SimtHeadOffset(cfg) + AllThreads(cfg)
              /\ ShadowOffset(cfg) + ShadowSize(cfg)
                    <= HeadSize(cfg) + cfg.cache * LinesPerMb

=============================================================================
