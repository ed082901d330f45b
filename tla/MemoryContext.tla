--------------------------- MODULE MemoryContext ---------------------------
(***************************************************************************)
(* MemoryContext: the thread's sections of device memory, a snapshot of    *)
(* each, and the copies between them (runtime/inject_helpers/              *)
(* MemoryContext.cpp).  Its callers are the hooks of the allocation        *)
(* functions and the replays of ProfReplay.                                *)
(*                                                                         *)
(* The content of a section is the number of kernels it has been through;  *)
(* Garbage is what a copy that failed halfway leaves.  Sections are        *)
(* numbers because Backup and Restore walk the map in the order of the     *)
(* addresses and stop at the first failure.                                *)
(***************************************************************************)
EXTENDS Naturals, FiniteSets

CONSTANTS Section,     \* addresses of device memory
          Shared,      \* those allocated with a P2P policy, never appended
          NoSnapshot,  \* snapshotAddr is null
          Garbage      \* the content after a failed copy

ASSUME SectionAssumption == Section \subseteq Nat /\ Shared \subseteq Section
ASSUME MarkAssumption == NoSnapshot \notin Nat /\ Garbage \notin Nat /\ NoSnapshot # Garbage

VARIABLES
    mem,       \* the content of device memory
    live,      \* the sections that are allocated
    sections,  \* the keys of memSectionMap_
    snapshot,  \* the content of each section's snapshot
    lost       \* the sections that a launch went on without restoring (history)

memoryVars == <<mem, live, sections, snapshot, lost>>

MemoryInit ==
    /\ mem = [s \in Section |-> 0] /\ live = {}
    /\ sections = {} /\ snapshot = [s \in Section |-> NoSnapshot] /\ lost = {}

\* n executions of a kernel, on any content.
Ran(content, n) ==
    [s \in Section |-> IF s \in live /\ content[s] # Garbage
                       THEN content[s] + n ELSE content[s]]

-----------------------------------------------------------------------------
(* The hooks of allocation.  Append is called only where kernels are going *)
(* to be replayed and for ordinary memory.                                 *)

Appended(s, replayed) == replayed /\ s \notin Shared

AppendSection(s, replayed) ==
    /\ s \notin live
    /\ live' = live \cup {s} /\ mem' = [mem EXCEPT ![s] = 0] /\ lost' = lost \ {s}
    /\ IF Appended(s, replayed)
       THEN sections' = sections \cup {s} /\ snapshot' = [snapshot EXCEPT ![s] = NoSnapshot]
       ELSE UNCHANGED <<sections, snapshot>>

Discarded(s) == sections \ {s}

Discard(s) ==
    /\ s \in live
    /\ live' = live \ {s} /\ mem' = [mem EXCEPT ![s] = 0] /\ lost' = lost \ {s}
    /\ sections' = Discarded(s)
    /\ snapshot' = [snapshot EXCEPT ![s] = NoSnapshot]

-----------------------------------------------------------------------------
(* Backup and Restore.                                                     *)

Saved(s) == mem[s]

BackedUp(snap) ==
    snap = [s \in Section |-> IF s \in sections THEN Saved(s) ELSE snapshot[s]]

\* It fails at section f, where nothing could be allocated or the copy broke.
BackupStopped(snap) ==
    \E f \in sections, atFailure \in {NoSnapshot, Garbage} :
        /\ atFailure = NoSnapshot => snapshot[f] = NoSnapshot
        /\ snap = [s \in Section |-> IF s \in sections /\ s < f THEN Saved(s)
                                     ELSE IF s = f THEN atFailure ELSE snapshot[s]]

\* Restore copies every snapshot back.
RestoredTo(saved, content) ==
    [s \in Section |-> IF s \in sections THEN saved[s] ELSE content[s]]

Restored == RestoredTo(snapshot, mem)

AllSaved(saved) == \A s \in sections : saved[s] # NoSnapshot
CanRestore == AllSaved(snapshot)

\* It stops at section f, which has no snapshot, or whose copy or synchronization
\* fails: then f holds what it held, what was copied or a part of it.
RestoreStopped(saved, content, left, mayFail) ==
    \E f \in sections : \E atFailure \in {content[f], saved[f], Garbage} :
        /\ \A s \in sections : s < f => saved[s] # NoSnapshot
        /\ IF saved[f] = NoSnapshot THEN atFailure = content[f] ELSE mayFail
        /\ left = [s \in Section |-> IF s \in sections /\ s < f THEN saved[s]
                                     ELSE IF s = f THEN atFailure ELSE content[s]]

\* A Restore whose outcome nobody looks at.
PutBack(saved, content, mayFail) ==
    /\ \/ AllSaved(saved) /\ mem' = RestoredTo(saved, content)
       \/ RestoreStopped(saved, content, mem', mayFail)
    /\ lost' = lost \cup {s \in sections : mem'[s] # saved[s]}
=============================================================================
