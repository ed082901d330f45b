--------------------------- MODULE PipeCallProofs ---------------------------
(***************************************************************************)
(* Proofs about PipeCall for any set of calls, any descriptors and any     *)
(* commands.  The invariants that matter (ListMatchesTable, OnlyOwnEnds,   *)
(* SlotsValid, ReturnLeavesNothing) are not inductive: they need to know   *)
(* what the table and the list look like inside a critical section, which  *)
(* slots are open at each point of PipeCall, and what a child inherited.   *)
(* At the end: where each chunk of a call is (Flow), from which            *)
(* TrueMeansComplete follows.                                              *)
(***************************************************************************)
EXTENDS PipeCall, TLAPS

Opened(c, s) == pipe[<<c, s>>] # NoFd

\* The slots that are open at each point of the calling thread and of Write.
SlotsOf(c) ==
  /\ pc[c] = "createStdin" => \A s \in Slot : ~Opened(c, s)
  /\ pc[c] \in {"listStdin", "createStdout"} =>
       Opened(c, StdinR) /\ Opened(c, StdinW) /\ ~Opened(c, StdoutR) /\ ~Opened(c, StdoutW)
  /\ pc[c] \in {"listStdout", "fork", "closeStdinR"} => \A s \in Slot : Opened(c, s)
  /\ pc[c] = "closeStdoutW" =>
       ~Opened(c, StdinR) /\ Opened(c, StdinW) /\ Opened(c, StdoutR) /\ Opened(c, StdoutW)
  /\ pc[c] \in {"read", "closeStdoutR"} =>
       ~Opened(c, StdinR) /\ Opened(c, StdoutR) /\ ~Opened(c, StdoutW)
  /\ pc[c] \in {"wait", "join"} =>
       ~Opened(c, StdinR) /\ ~Opened(c, StdoutR) /\ ~Opened(c, StdoutW)
  /\ pc[c] = "done" => \A s \in Slot : ~Opened(c, s)
  /\ wpc[c] \in {"write", "close"} => Opened(c, StdinW)
  /\ wpc[c] = "exited" => ~Opened(c, StdinW)
  /\ pc[c] \in {"read", "closeStdoutR", "wait", "join"} => wpc[c] # "none"
  /\ pc[c] \notin {"read", "closeStdoutR", "wait", "join", "done"} => wpc[c] = "none"

SlotsByPc == \A c \in Call : SlotsOf(c)

\* Where the holder of mtx is.
HolderByPc ==
  \A c \in Call :
    /\ pc[c] \in {"listStdin", "listStdout"} => mtx = <<c, "caller">>
    /\ mtx = <<c, "caller">> =>
         pc[c] \in {"listStdin", "listStdout"} \/ \E s \in Slot : AtClose(<<c, "caller">>, s)
    /\ mtx = <<c, "writer">> => wpc[c] = "close"

\* The slot e has its descriptors, but they are not on the list yet.
Listing(e) ==
  \/ pc[e[1]] = "listStdin" /\ e[2] \in {StdinR, StdinW}
  \/ pc[e[1]] = "listStdout" /\ e[2] \in {StdoutR, StdoutW}

\* The table of the process against the slots.
TableBySlot ==
  /\ fds[0] = App /\ fds[1] = App /\ fds[2] = App
  /\ \A f \in Fd : fds[f] \in End => pipe[fds[f]] = f
  /\ \A e \in End : pipe[e] # NoFd /\ ~BeingClosed(e) => fds[pipe[e]] = e
  /\ \A e \in End : BeingClosed(e) => pipe[e] # NoFd /\ fds[pipe[e]] = Free

\* The list against the table, inside and outside of critical sections.
ListByTable ==
  \A f \in Fd :
    f \in fdsForClose <=> \/ fds[f] \in End /\ ~Listing(fds[f])
                          \/ \E e \in End : BeingClosed(e) /\ pipe[e] = f

\* What a child holds before and after it prepares to become the command.
ChildHolds ==
  \A c \in Call :
    /\ stage[c] = "forked" =>
         /\ \A f \in Fd : cfds[c][f] \in End => f \in clist[c]
         /\ \A f \in {0, 1, 2} : f \notin clist[c] /\ cfds[c][f] = App
         /\ \A s \in Slot : cpipe[c][s] \in Fd \ {0, 1, 2} /\ cfds[c][cpipe[c][s]] = <<c, s>>
    /\ stage[c] = "running" =>
         /\ cfds[c][0] = <<c, StdinR>> /\ cfds[c][1] = <<c, StdoutW>> /\ cfds[c][2] = <<c, StdoutW>>
         /\ \A f \in Fd \ {0, 1, 2} : cfds[c][f] \notin End

\* The child of a call that has returned is gone, if waitpid did not fail.
StageByPc ==
  \A c \in Call :
    /\ pc[c] \in {"createStdin", "listStdin", "createStdout", "listStdout", "fork", "unwind"} =>
         stage[c] = "none"
    /\ pc[c] \in {"join", "done"} /\ "waitpid" \notin failed[c] =>
         stage[c] \in {"none", "reapedOk", "reapedBad"}

IInv ==
  /\ TypeOK
  /\ SlotsByPc
  /\ HolderByPc
  /\ TableBySlot
  /\ ListByTable
  /\ ChildHolds
  /\ StageByPc

-----------------------------------------------------------------------------
\* The two threads of a call, and that the sentinels name none of them.
LEMMA WorkerFacts ==
  ASSUME NEW c \in Call, NEW d \in Call
  PROVE  /\ <<c, "caller">> \in Worker /\ <<c, "writer">> \in Worker
         /\ <<c, "caller">> # NoWorker /\ <<c, "writer">> # NoWorker
         /\ <<c, "caller">> # <<d, "writer">>
         /\ c # d => <<c, "caller">> # <<d, "caller">> /\ <<c, "writer">> # <<d, "writer">>
BY NoWorkerAssumption DEF Worker

\* An end is the pair of its call and its slot.
LEMMA EndFacts ==
  ASSUME NEW e \in End
  PROVE  e[1] \in Call /\ e[2] \in Slot /\ e = <<e[1], e[2]>>
BY DEF End

\* The holder of mtx closes at most one slot.
LEMMA AtCloseUnique ==
  ASSUME NEW c \in Call, NEW k \in {"caller", "writer"},
         NEW s \in Slot, NEW t \in Slot,
         AtClose(<<c, k>>, s), AtClose(<<c, k>>, t)
  PROVE  s = t
BY DEF AtClose, ClosedBefore, Slot, StdinR, StdinW, StdoutR, StdoutW

\* No call has done anything: the list is empty and no end is in a table.
THEOREM InitIInv == Init => IInv
<1> SUFFICES ASSUME Init PROVE IInv
  OBVIOUS
<1> USE DEF Init
<1>1. TypeOK
  BY FdAssumption, JobAssumption DEF TypeOK, Owner, Empty, NoPipes, CallerAt, WriterAt, ChildAt
<1>2. SlotsByPc
  BY DEF SlotsByPc, SlotsOf, Opened, End, Slot, StdinR, StdinW, StdoutR, StdoutW
<1>3. HolderByPc
  BY WorkerFacts DEF HolderByPc
<1>4. \A e \in End : ~BeingClosed(e) /\ pipe[e] = NoFd
  BY WorkerFacts, EndFacts DEF BeingClosed
<1>5. TableBySlot
  BY <1>4, FdAssumption, OwnerAssumption DEF TableBySlot
<1>6. ListByTable
  BY <1>4, OwnerAssumption DEF ListByTable
<1>7. ChildHolds /\ StageByPc
  BY DEF ChildHolds, StageByPc
<1> QED BY <1>1, <1>2, <1>3, <1>5, <1>6, <1>7 DEF IInv

-----------------------------------------------------------------------------
(* Steps that leave the table, the list, the mutex and the slots alone.    *)

HostSame == UNCHANGED <<fds, fdsForClose, mtx, pipe>>

\* Such a step preserves the relations between them if the holder of mtx stays
\* where it is.
LEMMA HostFrame ==
  ASSUME IInv, HostSame,
         \A e \in End : BeingClosed(e)' <=> BeingClosed(e),
         \A e \in End : Listing(e)' <=> Listing(e)
  PROVE  TableBySlot' /\ ListByTable'
<1>1. TableBySlot'
  BY DEF IInv, TableBySlot, HostSame
<1>2. ListByTable'
  <2> SUFFICES ASSUME NEW f \in Fd
               PROVE (f \in fdsForClose <=> \/ fds[f] \in End /\ ~Listing(fds[f])
                                            \/ \E e \in End : BeingClosed(e) /\ pipe[e] = f)'
    BY DEF ListByTable
  <2> QED BY DEF IInv, ListByTable, HostSame
<1> QED BY <1>1, <1>2

\* The calling thread of c, not holding mtx, moves on.
LEMMA PcFrame ==
  ASSUME IInv, HostSame, NEW c \in Call, NEW q,
         pc' = [pc EXCEPT ![c] = q], UNCHANGED wpc,
         mtx # <<c, "caller">>,
         q \notin {"listStdin", "listStdout"}
  PROVE  TableBySlot' /\ ListByTable' /\ HolderByPc'
<1> USE DEF HostSame
<1>0. pc \in [Call -> CallerAt] /\ pc[c] \notin {"listStdin", "listStdout"}
  BY DEF IInv, HolderByPc, TypeOK
<1>1. \A d \in Call, s \in Slot :
        /\ mtx = <<d, "caller">> => (AtClose(<<d, "caller">>, s)' <=> AtClose(<<d, "caller">>, s))
        /\ AtClose(<<d, "writer">>, s)' <=> AtClose(<<d, "writer">>, s)
  BY <1>0 DEF AtClose
<1>2. ASSUME NEW e \in End PROVE BeingClosed(e)' <=> BeingClosed(e)
  BY <1>1, EndFacts DEF BeingClosed
<1>3. ASSUME NEW e \in End PROVE Listing(e)' <=> Listing(e)
  BY <1>0, EndFacts DEF Listing
<1>4. HolderByPc'
  BY <1>0, <1>1, WorkerFacts DEF IInv, HolderByPc
<1> QED BY <1>2, <1>3, <1>4, HostFrame

\* The thread that runs Write, not holding mtx, moves on.
LEMMA WpcFrame ==
  ASSUME IInv, HostSame, NEW c \in Call, NEW q,
         wpc' = [wpc EXCEPT ![c] = q], UNCHANGED pc,
         mtx # <<c, "writer">>
  PROVE  TableBySlot' /\ ListByTable' /\ HolderByPc'
<1> USE DEF HostSame
<1>0. wpc \in [Call -> WriterAt]
  BY DEF IInv, TypeOK
<1>1. \A d \in Call, s \in Slot :
        /\ AtClose(<<d, "caller">>, s)' <=> AtClose(<<d, "caller">>, s)
        /\ mtx = <<d, "writer">> => (AtClose(<<d, "writer">>, s)' <=> AtClose(<<d, "writer">>, s))
  BY <1>0 DEF AtClose
<1>2. ASSUME NEW e \in End PROVE BeingClosed(e)' <=> BeingClosed(e)
  BY <1>1, EndFacts DEF BeingClosed
<1>3. ASSUME NEW e \in End PROVE Listing(e)' <=> Listing(e)
  BY DEF Listing
<1>4. HolderByPc'
  BY <1>0, <1>1, WorkerFacts DEF IInv, HolderByPc
<1> QED BY <1>2, <1>3, <1>4, HostFrame

\* Steps of the commands and of the kernel's buffers.
LEMMA HostVarsFrame ==
  ASSUME IInv, UNCHANGED hostVars
  PROVE  TableBySlot' /\ ListByTable' /\ HolderByPc' /\ SlotsByPc'
<1> USE DEF hostVars
<1>1. ASSUME NEW e \in End
      PROVE  (BeingClosed(e)' <=> BeingClosed(e)) /\ (Listing(e)' <=> Listing(e))
  BY DEF BeingClosed, AtClose, Listing
<1>2. HolderByPc'
  BY DEF IInv, HolderByPc, AtClose
<1>3. SlotsByPc'
  BY DEF IInv, SlotsByPc, SlotsOf, Opened
<1> QED BY <1>1, <1>2, <1>3, HostFrame DEF HostSame

\* SlotsOf of the calls whose threads do not move.
LEMMA SlotsFrame ==
  ASSUME IInv, NEW c \in Call, SlotsOf(c)',
         \A d \in Call \ {c} : /\ pc'[d] = pc[d] /\ wpc'[d] = wpc[d]
                             /\ \A s \in Slot : pipe'[<<d, s>>] = pipe[<<d, s>>]
  PROVE  SlotsByPc'
<1> SUFFICES ASSUME NEW d \in Call PROVE SlotsOf(d)'
  BY DEF SlotsByPc
<1>1. CASE d # c
  <2>1. StdinR \in Slot /\ StdinW \in Slot /\ StdoutR \in Slot /\ StdoutW \in Slot
    BY DEF Slot
  <2> QED BY <1>1, <2>1 DEF IInv, SlotsByPc, SlotsOf, Opened
<1> QED BY <1>1

-----------------------------------------------------------------------------
(* A child becomes the command: what it inherited from any thread is gone.  *)

\* What the child holds after its three dup2, its four Close and CloseAll: the
\* two ends of its own call as standard streams, and no other end of any call,
\* if its copies of the table and of the list agree.
LEMMA PreparedHolds ==
  ASSUME NEW c \in Call, NEW table \in [Fd -> Owner], NEW list \in SUBSET Fd,
         NEW p \in [Slot -> Fd \cup {NoFd}],
         \A f \in Fd : table[f] \in End => f \in list,
         \A f \in {0, 1, 2} : f \notin list /\ table[f] = App,
         \A s \in Slot : p[s] \in Fd \ {0, 1, 2} /\ table[p[s]] = <<c, s>>
  PROVE  LET t == Prepared(table, list, p) IN
           /\ t \in [Fd -> Owner]
           /\ t[0] = <<c, StdinR>> /\ t[1] = <<c, StdoutW>> /\ t[2] = <<c, StdoutW>>
           /\ \A f \in Fd \ {0, 1, 2} : t[f] \notin End
<1> DEFINE r == Redirected(table, p)
           own == {p[s] : s \in Slot}
<1>1. {0, 1, 2} \subseteq Fd /\ StdinR \in Slot /\ StdoutW \in Slot
  BY FdAssumption DEF Slot
<1>2. r \in [Fd -> Owner]
  BY <1>1 DEF Redirected
<1>3. r[0] = <<c, StdinR>> /\ r[1] = <<c, StdoutW>> /\ r[2] = <<c, StdoutW>>
  BY <1>1 DEF Redirected
<1>4. \A f \in Fd \ {0, 1, 2} : r[f] = table[f]
  BY <1>1 DEF Redirected
<1>5. own \cap {0, 1, 2} = {} /\ (list \ own) \cap {0, 1, 2} = {}
  OBVIOUS
<1>6. Prepared(table, list, p) = Without(Without(r, own), list \ own)
  BY DEF Prepared
<1> HIDE DEF r, own
<1>7. Free \in Owner /\ Free \notin End
  BY OwnerAssumption DEF Owner
<1>8. ASSUME NEW f \in Fd \ {0, 1, 2}
      PROVE  Without(Without(r, own), list \ own)[f] \notin End
  <2>1. CASE f \in own \/ f \in list
    BY <2>1, <1>7 DEF Without
  <2>2. CASE f \notin own /\ f \notin list
    BY <2>2, <1>4 DEF Without
  <2> QED BY <2>1, <2>2
<1>9. Without(Without(r, own), list \ own) \in [Fd -> Owner]
  BY <1>2, <1>7 DEF Without
<1> QED BY <1>1, <1>3, <1>5, <1>6, <1>8, <1>9 DEF Without

-----------------------------------------------------------------------------
(* One lemma per group of actions.                                         *)

\* The conjunct about the child of a call, where neither the child nor what it
\* was given has changed.
LEMMA ChildFrame ==
  ASSUME IInv, UNCHANGED <<stage, cfds, clist, cpipe>>
  PROVE  ChildHolds'
BY DEF IInv, ChildHolds

\* The calling thread moves on without touching descriptors: failures, end of
\* the output, waitpid, the returns.
LEMMA CallerMoves ==
  ASSUME IInv, NEW c \in Call,
         \/ CreateFails(c) \/ ForkFails(c) \/ ReadEof(c) \/ Reap(c) \/ Join(c) \/ Fail(c)
         \/ ReadFails(c) \/ WaitFails(c)
  PROVE  IInv'
<1> USE DEF CreateFails, ForkFails, ReadEof, Reap, Join, Fail, ReadFails, WaitFails,
            ForkAllowed, AfterFailure, AtEof, Returns, Statuses, procVars, dataVars, otherData
<1>0. pc \in [Call -> CallerAt] /\ stage \in [Call -> ChildAt]
  BY DEF IInv, TypeOK
<1>1. TypeOK'
  <2>1. pc' \in [Call -> CallerAt] /\ stage' \in [Call -> ChildAt]
    BY <1>0 DEF CallerAt, ChildAt
  <2>2. result' \in [Call -> {"none", "true", "false"}]
    BY DEF IInv, TypeOK
  <2>3. failed' \in [Call -> SUBSET {"read", "write", "waitpid"}]
    BY DEF IInv, TypeOK
  <2> QED BY <2>1, <2>2, <2>3 DEF IInv, TypeOK
<1>2. mtx # <<c, "caller">>
  BY WorkerFacts DEF IInv, HolderByPc, AtClose
<1>3. PICK q \in CallerAt : pc' = [pc EXCEPT ![c] = q] /\ q \notin {"listStdin", "listStdout"}
  BY DEF CallerAt
<1>4. HostSame /\ UNCHANGED wpc
  BY DEF HostSame
<1>5. TableBySlot' /\ ListByTable' /\ HolderByPc'
  BY <1>2, <1>3, <1>4, PcFrame
<1>6. SlotsByPc'
  <2>1. SlotsOf(c)
    BY DEF IInv, SlotsByPc
  <2>2. SlotsOf(c)'
    BY <1>0, <1>4, <2>1 DEF SlotsOf, Opened, Slot, HostSame
  <2> QED BY <1>0, <1>4, <2>2, SlotsFrame DEF HostSame
<1>7. ChildHolds'
  <2>1. UNCHANGED <<cfds, clist, cpipe>>
    OBVIOUS
  <2>2. \A d \in Call : stage'[d] \in {"forked", "running"} => stage'[d] = stage[d]
    BY <1>0
  <2> QED BY <2>1, <2>2 DEF IInv, ChildHolds
<1>8. StageByPc'
  <2>1. failed \in [Call -> SUBSET {"read", "write", "waitpid"}]
    BY DEF IInv, TypeOK
  <2>2. \A d \in Call \ {c} : pc'[d] = pc[d] /\ stage'[d] = stage[d] /\ failed'[d] = failed[d]
    BY <1>0, <2>1
  <2>3. /\ pc'[c] = "unwind" => stage'[c] = "none"
        /\ pc'[c] \in {"unwind", "closeStdoutR", "join", "done"}
        /\ pc'[c] \in {"join", "done"} /\ "waitpid" \notin failed'[c] =>
             stage'[c] \in {"none", "reapedOk", "reapedBad"}
    BY <1>0, <2>1 DEF IInv, StageByPc
  <2> QED BY <2>2, <2>3 DEF IInv, StageByPc
<1> QED BY <1>1, <1>5, <1>6, <1>7, <1>8 DEF IInv

LEMMA WriterMoves ==
  ASSUME IInv, NEW c \in Call, WriteEnds(c) \/ WriteBroken(c) \/ WriteFails(c)
  PROVE  IInv'
<1> USE DEF WriteEnds, WriteBroken, WriteFails, Returns, procVars, dataVars, otherData
<1>0. wpc \in [Call -> WriterAt]
  BY DEF IInv, TypeOK
<1>7. failed \in [Call -> SUBSET {"read", "write", "waitpid"}]
  BY DEF IInv, TypeOK
<1>8. failed' = failed \/ failed' = [failed EXCEPT ![c] = failed[c] \cup {"write"}]
  OBVIOUS
<1>1. TypeOK'
  <2>1. wpc' \in [Call -> WriterAt]
    BY <1>0 DEF WriterAt
  <2>2. hostUp' \in BOOLEAN
    BY DEF IInv, TypeOK
  <2>3. failed' \in [Call -> SUBSET {"read", "write", "waitpid"}]
    BY <1>7, <1>8
  <2>4. UNCHANGED <<fds, fdsForClose, mtx, pipe, pc, result, procVars, otherData, job>>
    BY DEF hostVars
  <2> QED BY <2>1, <2>2, <2>3, <2>4 DEF IInv, TypeOK
<1>2. mtx # <<c, "writer">>
  BY DEF IInv, HolderByPc
<1>3. PICK q \in {"write", "close"} : wpc' = [wpc EXCEPT ![c] = q]
  BY <1>0
<1>4. TableBySlot' /\ ListByTable' /\ HolderByPc'
  BY <1>2, <1>3, WpcFrame DEF HostSame
<1>5. SlotsByPc'
  <2>1. SlotsOf(c)
    BY DEF IInv, SlotsByPc
  <2>2. SlotsOf(c)'
    BY <1>0, <2>1 DEF SlotsOf, Opened
  <2> QED BY <1>0, <2>2, SlotsFrame
<1>6. ChildHolds' /\ StageByPc'
  <2>1. \A d \in Call : pc'[d] = pc[d] /\ stage'[d] = stage[d]
    OBVIOUS
  <2>2. \A d \in Call : "waitpid" \in failed[d] => "waitpid" \in failed'[d]
    <3>1. TAKE d \in Call
    <3>2. CASE failed' = failed
      BY <3>2
    <3>3. CASE failed' = [failed EXCEPT ![c] = failed[c] \cup {"write"}]
      BY <1>7, <3>3
    <3> QED BY <1>8, <3>2, <3>3
  <2>3. UNCHANGED <<cfds, clist, cpipe>>
    OBVIOUS
  <2> QED BY <2>1, <2>2, <2>3, ChildFrame DEF IInv, StageByPc
<1> QED BY <1>1, <1>4, <1>5, <1>6 DEF IInv

\* Data moves through the pipes.
LEMMA DataMoves ==
  ASSUME IInv, NEW c \in Call,
         \/ ReadChunk(c) \/ WriteChunk(c) \/ ProgRead(c) \/ ProgEof(c) \/ ProgWrite(c)
  PROVE  IInv'
<1> USE DEF ReadChunk, WriteChunk, ProgRead, ProgEof, ProgWrite, MoreToWrite
<1>1. TypeOK'
  <2>1. UNCHANGED <<hostUp, hostVars, result, stage, cfds, clist, cpipe, failed, job>>
    BY DEF procVars, dataVars
  <2>2. /\ unsent' \in [Call -> Nat] /\ output' \in [Call -> Nat] /\ held' \in [Call -> Nat]
        /\ inBuf' \in [Call -> Nat] /\ outBuf' \in [Call -> Nat]
        /\ sawEof' \in [Call -> BOOLEAN]
    <3> USE DEF IInv, TypeOK, procVars, dataVars
    <3>1. CASE ReadChunk(c)  BY <3>1
    <3>2. CASE WriteChunk(c)  BY <3>2
    <3>3. CASE ProgRead(c)  BY <3>3
    <3>4. CASE ProgEof(c)  BY <3>4
    <3>5. CASE ProgWrite(c)  BY <3>5
    <3> QED BY <3>1, <3>2, <3>3, <3>4, <3>5
  <2> QED BY <2>1, <2>2 DEF IInv, TypeOK, hostVars
<1>2. UNCHANGED hostVars /\ UNCHANGED <<stage, cfds, clist, cpipe, failed>>
  BY DEF procVars, dataVars
<1>3. TableBySlot' /\ ListByTable' /\ HolderByPc' /\ SlotsByPc'
  BY <1>2, HostVarsFrame
<1>4. ChildHolds' /\ StageByPc'
  BY <1>2, ChildFrame DEF IInv, StageByPc, hostVars, dataVars
<1> QED BY <1>1, <1>3, <1>4 DEF IInv

\* The child becomes the command, or ends.
LEMMA ChildMoves ==
  ASSUME IInv, NEW c \in Call,
         Exec(c) \/ ExecFails(c) \/ ProgExit(c) \/ ProgBroken(c) \/ ProgFails(c)
  PROVE  IInv'
<1> USE DEF Exec, ExecFails, ProgExit, ProgBroken, ProgFails, Exits, Moved
<1>0. /\ stage \in [Call -> ChildAt] /\ cfds \in [Call -> [Fd -> Owner]]
      /\ clist \in [Call -> SUBSET Fd] /\ cpipe \in [Call -> [Slot -> Fd \cup {NoFd}]]
  BY DEF IInv, TypeOK
<1>1. UNCHANGED hostVars
  OBVIOUS
<1>2. TableBySlot' /\ ListByTable' /\ HolderByPc' /\ SlotsByPc'
  BY <1>1, HostVarsFrame
<1>3. stage' \in [Call -> ChildAt] /\ stage[c] \in {"forked", "running"}
  BY <1>0 DEF ChildAt
<1>4. \A d \in Call : d # c => /\ stage'[d] = stage[d] /\ cfds'[d] = cfds[d]
                              /\ clist'[d] = clist[d] /\ cpipe'[d] = cpipe[d]
  BY <1>0
<1>5. clist' \in [Call -> SUBSET Fd] /\ cpipe' \in [Call -> [Slot -> Fd \cup {NoFd}]]
  <2>1. NoPipes \in [Slot -> Fd \cup {NoFd}]
    BY DEF NoPipes
  <2>2. clist' = [clist EXCEPT ![c] = {}] /\ cpipe' = [cpipe EXCEPT ![c] = NoPipes]
    OBVIOUS
  <2> QED BY <1>0, <2>1, <2>2
<1>6. /\ cfds' \in [Call -> [Fd -> Owner]]
      /\ stage'[c] # "forked"
      /\ stage'[c] = "running" =>
           /\ cfds'[c][0] = <<c, StdinR>> /\ cfds'[c][1] = <<c, StdoutW>>
           /\ cfds'[c][2] = <<c, StdoutW>>
           /\ \A f \in Fd \ {0, 1, 2} : cfds'[c][f] \notin End
  <2>1. CASE Exec(c)
    <3> DEFINE t == Prepared(cfds[c], clist[c], cpipe[c])
    <3>1. stage[c] = "forked"
      BY <2>1
    <3>2. cfds[c] \in [Fd -> Owner] /\ clist[c] \in SUBSET Fd
          /\ cpipe[c] \in [Slot -> Fd \cup {NoFd}]
      BY <1>0
    <3>3. /\ \A f \in Fd : cfds[c][f] \in End => f \in clist[c]
          /\ \A f \in {0, 1, 2} : f \notin clist[c] /\ cfds[c][f] = App
          /\ \A s \in Slot : cpipe[c][s] \in Fd \ {0, 1, 2} /\ cfds[c][cpipe[c][s]] = <<c, s>>
      BY <3>1 DEF IInv, ChildHolds
    <3>4. /\ t \in [Fd -> Owner]
          /\ t[0] = <<c, StdinR>> /\ t[1] = <<c, StdoutW>> /\ t[2] = <<c, StdoutW>>
          /\ \A f \in Fd \ {0, 1, 2} : t[f] \notin End
      BY <3>2, <3>3, PreparedHolds
    <3>5. cfds' = [cfds EXCEPT ![c] = t] /\ stage' = [stage EXCEPT ![c] = "running"]
      BY <2>1
    <3> HIDE DEF t
    <3> QED BY <1>0, <3>4, <3>5
  <2>2. CASE ~Exec(c)
    <3>1. cfds' = [cfds EXCEPT ![c] = Empty] /\ stage'[c] \in {"exitedOk", "exitedBad"}
      BY <2>2, <1>0
    <3>2. Empty \in [Fd -> Owner]
      BY DEF Empty, Owner
    <3> QED BY <1>0, <3>1, <3>2
  <2> QED BY <2>1, <2>2
<1>7. UNCHANGED <<hostUp, result, held, sawEof, dataVars, job>>
  OBVIOUS
<1>8. TypeOK'
  BY <1>1, <1>3, <1>5, <1>6, <1>7 DEF IInv, TypeOK, hostVars, dataVars
<1>9. ChildHolds'
  BY <1>4, <1>6 DEF IInv, ChildHolds
<1>10. StageByPc'
  BY <1>1, <1>3, <1>4 DEF IInv, StageByPc, hostVars, dataVars
<1> QED BY <1>2, <1>8, <1>9, <1>10 DEF IInv

-----------------------------------------------------------------------------
(* The critical sections.                                                  *)

\* fork: the guard on mtx makes the child's copy of the list exact for its copy
\* of the table.
LEMMA ForkStep ==
  ASSUME IInv, NEW c \in Call, Fork(c)
  PROVE  IInv'
<1> USE DEF Fork, ForkAllowed
<1>0. /\ pc \in [Call -> CallerAt] /\ stage \in [Call -> ChildAt]
      /\ fds \in [Fd -> Owner] /\ fdsForClose \in SUBSET Fd /\ pipe \in [End -> Fd \cup {NoFd}]
      /\ cfds \in [Call -> [Fd -> Owner]] /\ clist \in [Call -> SUBSET Fd]
      /\ cpipe \in [Call -> [Slot -> Fd \cup {NoFd}]]
  BY DEF IInv, TypeOK
<1>1. mtx # <<c, "caller">>
  BY WorkerFacts
<1>2. HostSame /\ UNCHANGED wpc /\ pc' = [pc EXCEPT ![c] = "closeStdinR"]
  BY DEF HostSame
<1>3. TableBySlot' /\ ListByTable' /\ HolderByPc'
  BY <1>1, <1>2, PcFrame
<1>4. SlotsByPc'
  <2>1. SlotsOf(c)
    BY DEF IInv, SlotsByPc
  <2>2. SlotsOf(c)'
    BY <1>0, <1>2, <2>1 DEF SlotsOf, Opened, HostSame
  <2> QED BY <1>0, <1>2, <2>2, SlotsFrame DEF HostSame
<1>5. \A e \in End : ~BeingClosed(e) /\ ~Listing(e)
  <2> TAKE e \in End
  <2>1. ~BeingClosed(e)
    BY WorkerFacts, EndFacts DEF BeingClosed
  <2>2. ~Listing(e)
    BY WorkerFacts, EndFacts DEF Listing, IInv, HolderByPc
  <2> QED BY <2>1, <2>2
<1>6. \A f \in Fd : fds[f] \in End => f \in fdsForClose
  BY <1>5 DEF IInv, ListByTable
<1>7. \A f \in {0, 1, 2} : f \notin fdsForClose /\ fds[f] = App
  BY <1>5, FdAssumption, OwnerAssumption DEF IInv, ListByTable, TableBySlot
<1>8. \A s \in Slot : pipe[<<c, s>>] \in Fd \ {0, 1, 2} /\ fds[pipe[<<c, s>>]] = <<c, s>>
  <2> TAKE s \in Slot
  <2>1. <<c, s>> \in End
    BY DEF End
  <2>2. pipe[<<c, s>>] # NoFd
    BY DEF IInv, SlotsByPc, SlotsOf, Opened
  <2>3. fds[pipe[<<c, s>>]] = <<c, s>>
    BY <1>5, <2>1, <2>2 DEF IInv, TableBySlot
  <2> QED BY <1>0, <2>1, <2>2, <2>3, OwnerAssumption DEF IInv, TableBySlot
<1>9. ChildHolds'
  <2> DEFINE p == [s \in Slot |-> pipe[<<c, s>>]]
  <2>1. /\ stage'[c] = "forked" /\ cfds'[c] = fds /\ clist'[c] = fdsForClose /\ cpipe'[c] = p
        /\ \A d \in Call \ {c} : /\ stage'[d] = stage[d] /\ cfds'[d] = cfds[d]
                               /\ clist'[d] = clist[d] /\ cpipe'[d] = cpipe[d]
    BY <1>0
  <2>2. \A s \in Slot : p[s] \in Fd \ {0, 1, 2} /\ fds[p[s]] = <<c, s>>
    BY <1>8
  <2> HIDE DEF p, Fork, ForkAllowed
  <2>3. ASSUME NEW d \in Call, d # c, stage'[d] \in {"forked", "running"}
        PROVE  stage[d] = stage'[d] /\ cfds'[d] = cfds[d] /\ clist'[d] = clist[d] /\ cpipe'[d] = cpipe[d]
    BY <2>1, <2>3
  <2> SUFFICES ASSUME NEW d \in Call
               PROVE  /\ stage'[d] = "forked" =>
                          /\ \A f \in Fd : cfds'[d][f] \in End => f \in clist'[d]
                          /\ \A f \in {0, 1, 2} : f \notin clist'[d] /\ cfds'[d][f] = App
                          /\ \A s \in Slot : /\ cpipe'[d][s] \in Fd \ {0, 1, 2}
                                            /\ cfds'[d][cpipe'[d][s]] = <<d, s>>
                      /\ stage'[d] = "running" =>
                          /\ cfds'[d][0] = <<d, StdinR>> /\ cfds'[d][1] = <<d, StdoutW>>
                          /\ cfds'[d][2] = <<d, StdoutW>>
                          /\ \A f \in Fd \ {0, 1, 2} : cfds'[d][f] \notin End
    BY DEF ChildHolds
  <2>4. CASE d = c
    <3> USE <2>1, <2>4
    <3>1. \A f \in Fd : cfds'[d][f] \in End => f \in clist'[d]
      BY <1>6
    <3>2. \A f \in {0, 1, 2} : f \notin clist'[d] /\ cfds'[d][f] = App
      BY <1>7
    <3>3. \A s \in Slot : cpipe'[d][s] \in Fd \ {0, 1, 2} /\ cfds'[d][cpipe'[d][s]] = <<d, s>>
      BY <2>2
    <3>4. stage'[d] # "running"
      OBVIOUS
    <3> QED BY <3>1, <3>2, <3>3, <3>4
  <2>5. CASE d # c /\ stage'[d] \in {"forked", "running"}
    BY <2>3, <2>5 DEF IInv, ChildHolds
  <2> QED BY <2>4, <2>5
<1>10. StageByPc'
  BY <1>0 DEF IInv, StageByPc, dataVars
<1>11. TypeOK'
  <2>1. pc' \in [Call -> CallerAt] /\ stage' \in [Call -> ChildAt]
    BY <1>0 DEF CallerAt, ChildAt
  <2>2. cfds' \in [Call -> [Fd -> Owner]] /\ clist' \in [Call -> SUBSET Fd]
    BY <1>0
  <2>3. cpipe' \in [Call -> [Slot -> Fd \cup {NoFd}]]
    <3>1. [s \in Slot |-> pipe[<<c, s>>]] \in [Slot -> Fd \cup {NoFd}]
      BY <1>8
    <3> QED BY <1>0, <3>1
  <2> QED BY <2>1, <2>2, <2>3 DEF IInv, TypeOK, dataVars
<1> QED BY <1>3, <1>4, <1>9, <1>10, <1>11 DEF IInv

\* Pipe::Create up to pipe(2): the two new numbers were free, and mtx is held.
LEMMA CreateOpenStep ==
  ASSUME IInv, NEW c \in Call, NEW k \in {"stdin", "stdout"}, CreateOpen(c, k)
  PROVE  IInv'
<1> USE DEF CreateOpen
<1>0. /\ pc \in [Call -> CallerAt] /\ fds \in [Fd -> Owner]
      /\ fdsForClose \in SUBSET Fd /\ pipe \in [End -> Fd \cup {NoFd}]
  BY DEF IInv, TypeOK
<1>1. PICK r \in Fd, w \in Fd :
        /\ fds[r] = Free /\ fds[w] = Free /\ r # w
        /\ fds' = [fds EXCEPT ![r] = <<c, ReadSlot(k)>>, ![w] = <<c, WriteSlot(k)>>]
        /\ pipe' = [pipe EXCEPT ![<<c, ReadSlot(k)>>] = r, ![<<c, WriteSlot(k)>>] = w]
  <2>1. PICK r \in Fd, w \in Fd :
          /\ LowestTwo(fds, r, w)
          /\ fds' = [fds EXCEPT ![r] = <<c, ReadSlot(k)>>, ![w] = <<c, WriteSlot(k)>>]
          /\ pipe' = [pipe EXCEPT ![<<c, ReadSlot(k)>>] = r, ![<<c, WriteSlot(k)>>] = w]
    OBVIOUS
  <2>2. fds[r] = Free /\ fds[w] = Free /\ r < w
    BY <2>1 DEF LowestTwo, FreeFds
  <2>3. r # w
    BY <2>2, FdAssumption
  <2> QED BY <2>1, <2>2, <2>3
<1>2. /\ <<c, ReadSlot(k)>> \in End /\ <<c, WriteSlot(k)>> \in End
      /\ <<c, ReadSlot(k)>> # <<c, WriteSlot(k)>>
  BY DEF End, ReadSlot, WriteSlot, Slot, StdinR, StdinW, StdoutR, StdoutW
<1> DEFINE er == <<c, ReadSlot(k)>>
           ew == <<c, WriteSlot(k)>>
<1>3. r # NoFd /\ w # NoFd
  BY <1>1, FdAssumption
<1>4. pipe[er] = NoFd /\ pipe[ew] = NoFd
  BY DEF IInv, SlotsByPc, SlotsOf, Opened, ReadSlot, WriteSlot, Slot
<1>5. /\ \A e \in End : ~BeingClosed(e) /\ ~Listing(e)
      /\ \A e \in End : ~BeingClosed(e)'
      /\ \A e \in End : Listing(e)' <=> e \in {er, ew}
  <2>1. \A e \in End : ~BeingClosed(e)
    BY WorkerFacts, EndFacts DEF BeingClosed
  <2>2. \A e \in End : ~Listing(e)
    BY WorkerFacts, EndFacts DEF Listing, IInv, HolderByPc
  <2>3. ASSUME NEW e \in End PROVE ~BeingClosed(e)'
    BY <1>0, WorkerFacts, EndFacts DEF BeingClosed, AtClose
  <2>4. ASSUME NEW e \in End PROVE Listing(e)' <=> e \in {er, ew}
    <3>1. Listing(e)' <=> e[1] = c /\ e[2] \in {ReadSlot(k), WriteSlot(k)}
      BY <1>0, <2>2, EndFacts DEF Listing, ReadSlot, WriteSlot, StdinR, StdinW, StdoutR, StdoutW
    <3> QED BY <3>1, EndFacts
  <2> QED BY <2>1, <2>2, <2>3, <2>4
<1>6. /\ fds'[r] = er /\ fds'[w] = ew
      /\ \A f \in Fd \ {r, w} : fds'[f] = fds[f]
      /\ pipe'[er] = r /\ pipe'[ew] = w
      /\ \A e \in End \ {er, ew} : pipe'[e] = pipe[e]
      /\ fdsForClose' = fdsForClose
  BY <1>0, <1>1, <1>2
<1> HIDE DEF er, ew, CreateOpen
<1>7. TableBySlot'
  <2>1. (fds[0] = App /\ fds[1] = App /\ fds[2] = App)'
    BY <1>1, <1>6, FdAssumption, OwnerAssumption DEF IInv, TableBySlot
  <2>2. \A f \in Fd : fds'[f] \in End => pipe'[fds'[f]] = f
    <3> TAKE f \in Fd
    <3> HAVE fds'[f] \in End
    <3>1. CASE f \in {r, w}
      BY <3>1, <1>6
    <3>2. CASE f \notin {r, w}
      <4>1. fds'[f] = fds[f] /\ pipe[fds[f]] = f
        BY <3>2, <1>6 DEF IInv, TableBySlot
      <4>2. fds[f] \notin {er, ew}
        BY <4>1, <1>4, FdAssumption
      <4> QED BY <4>1, <4>2, <1>6
    <3> QED BY <3>1, <3>2
  <2>3. ASSUME NEW e \in End, pipe'[e] # NoFd PROVE fds'[pipe'[e]] = e
    <3>1. CASE e \in {er, ew}
      BY <3>1, <1>6
    <3>2. CASE e \notin {er, ew}
      <4>1. pipe'[e] = pipe[e] /\ pipe[e] # NoFd /\ pipe[e] \in Fd
        BY <1>0, <1>6, <2>3, <3>2
      <4>2. fds[pipe[e]] = e
        BY <4>1, <1>5 DEF IInv, TableBySlot
      <4>3. pipe[e] \notin {r, w}
        BY <4>2, <1>1, OwnerAssumption
      <4> QED BY <4>1, <4>2, <4>3, <1>6
    <3> QED BY <3>1, <3>2
  <2> QED BY <2>1, <2>2, <2>3, <1>5 DEF TableBySlot
<1>8. ListByTable'
  <2> SUFFICES ASSUME NEW f \in Fd
               PROVE f \in fdsForClose' <=> fds'[f] \in End /\ fds'[f] \notin {er, ew}
    BY <1>5 DEF ListByTable
  <2>1. f \in fdsForClose <=> fds[f] \in End
    BY <1>5 DEF IInv, ListByTable
  <2>2. CASE f \in {r, w}
    <3>1. fds[f] \notin End /\ fds'[f] \in {er, ew}
      BY <2>2, <1>1, <1>6, OwnerAssumption
    <3> QED BY <2>1, <3>1, <1>6
  <2>3. CASE f \notin {r, w}
    <3>1. fds'[f] = fds[f]
      BY <2>3, <1>6
    <3>2. fds[f] \in End => fds[f] \notin {er, ew}
      BY <1>3, <1>4, FdAssumption DEF IInv, TableBySlot
    <3> QED BY <2>1, <3>1, <3>2, <1>6
  <2> QED BY <2>2, <2>3
<1>9. SlotsByPc'
  <2>1. SlotsOf(c)
    BY DEF IInv, SlotsByPc
  <2>2. SlotsOf(c)'
    BY <1>0, <1>3, <1>6, <2>1 DEF CreateOpen, SlotsOf, Opened, er, ew, End, ReadSlot, WriteSlot, Slot,
       StdinR, StdinW, StdoutR, StdoutW
  <2>3. ASSUME NEW d \in Call \ {c}, NEW s \in Slot PROVE pipe'[<<d, s>>] = pipe[<<d, s>>]
    BY <1>6 DEF er, ew, End
  <2> QED BY <1>0, <2>2, <2>3, SlotsFrame DEF CreateOpen
<1>10. HolderByPc'
  BY <1>0, WorkerFacts DEF CreateOpen, IInv, HolderByPc
<1>11. ChildHolds' /\ StageByPc'
  <2>1. UNCHANGED <<stage, cfds, clist, cpipe>>
    BY DEF CreateOpen, procVars
  <2>2. StageByPc'
    BY <1>0, <2>1 DEF CreateOpen, IInv, StageByPc, dataVars
  <2> QED BY <2>1, <2>2, ChildFrame
<1>12. TypeOK'
  <2>1. pc' \in [Call -> CallerAt] /\ mtx' \in Worker \cup {NoWorker}
    BY <1>0, WorkerFacts DEF CreateOpen, CallerAt
  <2>2. fds' \in [Fd -> Owner] /\ pipe' \in [End -> Fd \cup {NoFd}]
    BY <1>0, <1>1, <1>2 DEF Owner
  <2> QED BY <2>1, <2>2 DEF CreateOpen, IInv, TypeOK, procVars, dataVars
<1> QED BY <1>7, <1>8, <1>9, <1>10, <1>11, <1>12 DEF IInv

\* The rest of Pipe::Create: with the two numbers the list is exact again.
LEMMA CreateListStep ==
  ASSUME IInv, NEW c \in Call, NEW k \in {"stdin", "stdout"}, CreateList(c, k)
  PROVE  IInv'
<1> DEFINE er == <<c, ReadSlot(k)>>
           ew == <<c, WriteSlot(k)>>
<1>0. /\ pc \in [Call -> CallerAt] /\ fds \in [Fd -> Owner]
      /\ fdsForClose \in SUBSET Fd /\ pipe \in [End -> Fd \cup {NoFd}]
  BY DEF IInv, TypeOK
<1>1. /\ pc[c] \in {"listStdin", "listStdout"} /\ mtx = <<c, "caller">> /\ mtx' = NoWorker
      /\ fdsForClose' = fdsForClose \cup {pipe[er], pipe[ew]}
      /\ UNCHANGED <<fds, pipe, wpc, stage, cfds, clist, cpipe>>
      /\ pc' = [pc EXCEPT ![c] = IF k = "stdin" THEN "createStdout" ELSE "fork"]
  BY DEF CreateList, IInv, HolderByPc, procVars
<1>2. er \in End /\ ew \in End
  BY DEF End, ReadSlot, WriteSlot, Slot, StdinR, StdinW, StdoutR, StdoutW
<1>3. pipe[er] # NoFd /\ pipe[ew] # NoFd
  BY DEF CreateList, IInv, SlotsByPc, SlotsOf, Opened, ReadSlot, WriteSlot, Slot
<1>4. /\ \A e \in End : ~BeingClosed(e) /\ ~BeingClosed(e)' /\ ~Listing(e)'
      /\ \A e \in End : Listing(e) <=> e \in {er, ew}
  <2>1. ASSUME NEW e \in End PROVE ~BeingClosed(e) /\ ~BeingClosed(e)'
    BY <1>1, WorkerFacts, EndFacts DEF BeingClosed, AtClose
  <2>2. \A d \in Call \ {c} : pc[d] \notin {"listStdin", "listStdout"} /\ pc'[d] = pc[d]
    BY <1>0, <1>1, WorkerFacts DEF IInv, HolderByPc
  <2>3. ASSUME NEW e \in End PROVE ~Listing(e)'
    BY <1>0, <1>1, <2>2, EndFacts DEF Listing
  <2>4. ASSUME NEW e \in End PROVE Listing(e) <=> e \in {er, ew}
    <3>1. Listing(e) <=> e[1] = c /\ e[2] \in {ReadSlot(k), WriteSlot(k)}
      BY <2>2, EndFacts DEF CreateList, Listing, ReadSlot, WriteSlot, StdinR, StdinW, StdoutR, StdoutW
    <3> QED BY <3>1, EndFacts
  <2> QED BY <2>1, <2>3, <2>4
<1> HIDE DEF er, ew
<1>5. TableBySlot'
  BY <1>1, <1>4 DEF IInv, TableBySlot
<1>6. ListByTable'
  <2> SUFFICES ASSUME NEW f \in Fd PROVE f \in fdsForClose' <=> fds[f] \in End
    BY <1>1, <1>4 DEF ListByTable
  <2>1. f \in fdsForClose <=> fds[f] \in End /\ fds[f] \notin {er, ew}
    BY <1>4 DEF IInv, ListByTable
  <2>2. fds[pipe[er]] = er /\ fds[pipe[ew]] = ew
    BY <1>2, <1>3, <1>4 DEF IInv, TableBySlot
  <2>3. (fds[f] = er => pipe[er] = f) /\ (fds[f] = ew => pipe[ew] = f)
    BY <1>2 DEF IInv, TableBySlot
  <2> QED BY <1>1, <1>2, <2>1, <2>2, <2>3
<1>7. SlotsByPc'
  <2>1. SlotsOf(c)
    BY DEF IInv, SlotsByPc
  <2>2. SlotsOf(c)'
    BY <1>0, <1>1, <2>1 DEF CreateList, SlotsOf, Opened
  <2> QED BY <1>0, <1>1, <2>2, SlotsFrame
<1>8. HolderByPc'
  BY <1>0, <1>1, WorkerFacts DEF IInv, HolderByPc
<1>9. ChildHolds' /\ StageByPc'
  <2>0. UNCHANGED failed
    BY DEF CreateList, dataVars
  <2>1. StageByPc'
    BY <2>0, <1>0, <1>1 DEF IInv, StageByPc
  <2> QED BY <1>1, <2>1, ChildFrame
<1>10. TypeOK'
  <2>1. pc' \in [Call -> CallerAt] /\ fdsForClose' \in SUBSET Fd
    BY <1>0, <1>1, <1>2, <1>3 DEF CallerAt
  <2> QED BY <1>1, <2>1 DEF CreateList, IInv, TypeOK, procVars, dataVars
<1> QED BY <1>5, <1>6, <1>7, <1>8, <1>9, <1>10 DEF IInv

\* Where Close is called, its slot is open.
LEMMA CloseOpened ==
  ASSUME IInv, NEW c \in Call, NEW k \in {"caller", "writer"}, NEW s \in Slot,
         AtClose(<<c, k>>, s)
  PROVE  <<c, s>> \in End /\ pipe[<<c, s>>] \in Fd
<1>1. <<c, s>> \in End
  BY DEF End
<1>2. pipe[<<c, s>>] # NoFd
  BY DEF AtClose, IInv, SlotsByPc, SlotsOf, Opened, Slot
<1> QED BY <1>1, <1>2 DEF IInv, TypeOK

\* Pipe::Close up to close(2): the number is the slot's own, and mtx is held.
LEMMA CloseFdStep ==
  ASSUME IInv, NEW c \in Call, NEW k \in {"caller", "writer"}, NEW s \in Slot,
         CloseFd(<<c, k>>, s)
  PROVE  IInv'
<1> DEFINE e0 == <<c, s>>
           n == pipe[e0]
<1>0. /\ fds \in [Fd -> Owner] /\ pipe \in [End -> Fd \cup {NoFd}]
  BY DEF IInv, TypeOK
<1>1. /\ AtClose(<<c, k>>, s) /\ mtx = NoWorker /\ mtx' = <<c, k>>
      /\ fds' = [fds EXCEPT ![n] = Free]
      /\ UNCHANGED <<fdsForClose, pipe, pc, wpc, stage, cfds, clist, cpipe>>
  BY DEF CloseFd, procVars
<1>2. e0 \in End /\ n \in Fd /\ n # NoFd
  BY <1>1, CloseOpened, FdAssumption
<1>3. /\ \A e \in End : ~BeingClosed(e) /\ ~Listing(e) /\ ~Listing(e)'
      /\ \A e \in End : BeingClosed(e)' <=> e = e0
  <2>1. ASSUME NEW e \in End PROVE ~BeingClosed(e) /\ ~Listing(e)
    BY <1>1, WorkerFacts, EndFacts DEF BeingClosed, Listing, IInv, HolderByPc
  <2>2. ASSUME NEW e \in End PROVE ~Listing(e)'
    BY <1>1, <2>1 DEF Listing
  <2>3. \A d \in Call, j \in {"caller", "writer"}, t \in Slot :
          AtClose(<<d, j>>, t)' <=> AtClose(<<d, j>>, t)
    BY <1>1 DEF AtClose
  <2>4. ASSUME NEW e \in End PROVE BeingClosed(e)' <=> e = e0
    <3>1. ASSUME BeingClosed(e)' PROVE e = e0
      <4>1. PICK j \in {"caller", "writer"} : <<c, k>> = <<e[1], j>> /\ AtClose(<<e[1], j>>, e[2])
        BY <1>1, <2>3, <3>1, EndFacts DEF BeingClosed
      <4>2. e[1] = c /\ e[2] \in Slot /\ AtClose(<<c, k>>, e[2])
        BY <4>1, EndFacts
      <4> QED BY <1>1, <4>2, AtCloseUnique, EndFacts
    <3>2. ASSUME e = e0 PROVE BeingClosed(e)'
      BY <1>1, <2>3, <3>2 DEF BeingClosed
    <3> QED BY <3>1, <3>2
  <2> QED BY <2>1, <2>2, <2>4
<1> HIDE DEF e0
<1>4. fds[n] = e0
  BY <1>2, <1>3 DEF IInv, TableBySlot
<1>5. fds'[n] = Free /\ \A f \in Fd \ {n} : fds'[f] = fds[f]
  BY <1>0, <1>1, <1>2
<1>6. TableBySlot'
  <2>1. n \notin {0, 1, 2}
    BY <1>2, <1>4, OwnerAssumption DEF IInv, TableBySlot
  <2>2. (fds[0] = App /\ fds[1] = App /\ fds[2] = App)'
    BY <2>1, <1>5, FdAssumption DEF IInv, TableBySlot
  <2>3. \A f \in Fd : fds'[f] \in End => pipe'[fds'[f]] = f
    BY <1>1, <1>5, OwnerAssumption DEF IInv, TableBySlot
  <2>4. ASSUME NEW e \in End, pipe[e] # NoFd, e # e0 PROVE fds'[pipe[e]] = e
    <3>1. fds[pipe[e]] = e /\ pipe[e] \in Fd
      BY <1>0, <1>3, <2>4 DEF IInv, TableBySlot
    <3> QED BY <1>4, <1>5, <2>4, <3>1
  <2> QED BY <1>1, <1>2, <1>3, <1>5, <2>2, <2>3, <2>4 DEF TableBySlot
<1>7. ListByTable'
  <2> SUFFICES ASSUME NEW f \in Fd
               PROVE f \in fdsForClose <=> fds'[f] \in End \/ f = n
    BY <1>1, <1>2, <1>3 DEF ListByTable
  <2>1. f \in fdsForClose <=> fds[f] \in End
    BY <1>3 DEF IInv, ListByTable
  <2> QED BY <1>2, <1>4, <1>5, <2>1
<1>8. SlotsByPc'
  BY <1>1 DEF IInv, SlotsByPc, SlotsOf, Opened
<1>9. HolderByPc'
  <2>1. \A d \in Call, t \in Slot : AtClose(<<d, "caller">>, t)' <=> AtClose(<<d, "caller">>, t)
    BY <1>1 DEF AtClose
  <2>2. k = "writer" => wpc[c] = "close"
    BY <1>1 DEF AtClose
  <2> QED BY <1>1, <2>1, <2>2, WorkerFacts DEF IInv, HolderByPc
<1>10. ChildHolds' /\ StageByPc'
  <2>0. UNCHANGED failed
    BY DEF CloseFd, dataVars
  <2>1. StageByPc'
    BY <2>0, <1>1 DEF IInv, StageByPc
  <2> QED BY <1>1, <2>1, ChildFrame
<1>11. TypeOK'
  <2>1. fds' \in [Fd -> Owner] /\ mtx' \in Worker \cup {NoWorker}
    BY <1>0, <1>1 DEF Owner, Worker
  <2> QED BY <1>1, <2>1 DEF CloseFd, IInv, TypeOK, procVars, dataVars
<1> QED BY <1>6, <1>7, <1>8, <1>9, <1>10, <1>11 DEF IInv

\* The rest of Pipe::Close: without the number the list is exact again.
LEMMA CloseEraseStep ==
  ASSUME IInv, NEW c \in Call, NEW k \in {"caller", "writer"}, NEW s \in Slot,
         CloseErase(<<c, k>>, s)
  PROVE  IInv'
<1> DEFINE e0 == <<c, s>>
           n == pipe[e0]
<1>0. /\ fds \in [Fd -> Owner] /\ pipe \in [End -> Fd \cup {NoFd}]
      /\ pc \in [Call -> CallerAt] /\ wpc \in [Call -> WriterAt] /\ fdsForClose \in SUBSET Fd
  BY DEF IInv, TypeOK
<1>1. /\ AtClose(<<c, k>>, s) /\ mtx = <<c, k>> /\ mtx' = NoWorker
      /\ fdsForClose' = fdsForClose \ {n}
      /\ pipe' = [pipe EXCEPT ![e0] = NoFd]
      /\ UNCHANGED <<fds, stage, cfds, clist, cpipe>>
  BY DEF CloseErase, Erased, SlotReset, procVars
<1>2. e0 \in End /\ n \in Fd
  BY <1>1, CloseOpened
<1>3. /\ k = "caller" => /\ pc' = [pc EXCEPT ![c] = AfterClose(pc[c])]
                         /\ wpc' = [wpc EXCEPT ![c] = IF pc[c] = "closeStdoutW" THEN "write" ELSE @]
      /\ k = "writer" => wpc' = [wpc EXCEPT ![c] = "exited"] /\ UNCHANGED pc
  BY DEF CloseErase
<1>4. /\ \A d \in Call : pc[d] \notin {"listStdin", "listStdout"}
      /\ \A d \in Call : pc'[d] \notin {"listStdin", "listStdout"}
  <2>1. ASSUME NEW d \in Call PROVE pc[d] \notin {"listStdin", "listStdout"}
    BY <1>1, WorkerFacts DEF IInv, HolderByPc, AtClose
  <2>2. ASSUME NEW d \in Call PROVE pc'[d] \notin {"listStdin", "listStdout"}
    BY <1>0, <1>3, <2>1 DEF AfterClose
  <2> QED BY <2>1, <2>2
<1>5. \A e \in End : /\ ~BeingClosed(e)' /\ ~Listing(e) /\ ~Listing(e)'
                     /\ BeingClosed(e) <=> e = e0
  <2>1. ASSUME NEW e \in End PROVE ~BeingClosed(e)'
    BY <1>1, WorkerFacts, EndFacts DEF BeingClosed
  <2>2. ASSUME NEW e \in End PROVE ~Listing(e) /\ ~Listing(e)'
    BY <1>4, EndFacts DEF Listing
  <2>3. ASSUME NEW e \in End PROVE BeingClosed(e) <=> e = e0
    <3>1. ASSUME BeingClosed(e) PROVE e = e0
      <4>1. PICK j \in {"caller", "writer"} : <<c, k>> = <<e[1], j>> /\ AtClose(<<e[1], j>>, e[2])
        BY <1>1, <3>1 DEF BeingClosed
      <4>2. e[1] = c /\ e[2] \in Slot /\ AtClose(<<c, k>>, e[2])
        BY <4>1, EndFacts
      <4> QED BY <1>1, <4>2, AtCloseUnique, EndFacts
    <3>2. ASSUME e = e0 PROVE BeingClosed(e)
      BY <1>1, <3>2 DEF BeingClosed
    <3> QED BY <3>1, <3>2
  <2> QED BY <2>1, <2>2, <2>3
<1>6. pipe'[e0] = NoFd /\ \A e \in End \ {e0} : pipe'[e] = pipe[e]
  BY <1>0, <1>1, <1>2
<1> HIDE DEF e0
<1>7. fds[n] = Free
  BY <1>2, <1>5 DEF IInv, TableBySlot
<1>8. TableBySlot'
  <2>1. \A f \in Fd : fds[f] \in End => fds[f] # e0 /\ pipe[fds[f]] = f
    BY <1>7, OwnerAssumption DEF IInv, TableBySlot
  <2>2. \A e \in End : pipe'[e] # NoFd => fds[pipe'[e]] = e
    BY <1>5, <1>6 DEF IInv, TableBySlot
  <2> QED BY <1>1, <1>5, <1>6, <2>1, <2>2 DEF IInv, TableBySlot
<1>9. ListByTable'
  <2> SUFFICES ASSUME NEW f \in Fd PROVE f \in fdsForClose' <=> fds[f] \in End
    BY <1>1, <1>5 DEF ListByTable
  <2>1. f \in fdsForClose <=> fds[f] \in End \/ n = f
    BY <1>2, <1>5 DEF IInv, ListByTable
  <2> QED BY <1>1, <1>7, <2>1, OwnerAssumption
<1>10. SlotsByPc'
  <2>1. SlotsOf(c)
    BY DEF IInv, SlotsByPc
  <2>2. \A t \in Slot : pipe'[<<c, t>>] = (IF t = s THEN NoFd ELSE pipe[<<c, t>>])
    BY <1>6 DEF e0, End
  <2>3. SlotsOf(c)'
    <3>1. CASE k = "caller"
      BY <1>0, <1>1, <1>3, <2>1, <2>2, <3>1 DEF SlotsOf, Opened, AtClose, AfterClose, Slot, CallerAt,
         StdinR, StdinW, StdoutR, StdoutW
    <3>2. CASE k = "writer"
      BY <1>0, <1>1, <1>3, <2>1, <2>2, <3>2 DEF SlotsOf, Opened, AtClose, Slot, CallerAt,
         StdinR, StdinW, StdoutR, StdoutW
    <3> QED BY <3>1, <3>2
  <2>4. \A d \in Call \ {c} : /\ pc'[d] = pc[d] /\ wpc'[d] = wpc[d]
                            /\ \A t \in Slot : pipe'[<<d, t>>] = pipe[<<d, t>>]
    <3>1. \A d \in Call \ {c} : pc'[d] = pc[d] /\ wpc'[d] = wpc[d]
      BY <1>0, <1>3
    <3>2. \A d \in Call \ {c}, t \in Slot : pipe'[<<d, t>>] = pipe[<<d, t>>]
      BY <1>6 DEF e0, End
    <3> QED BY <3>1, <3>2
  <2> QED BY <2>3, <2>4, SlotsFrame
<1>11. HolderByPc'
  BY <1>1, <1>4, WorkerFacts DEF HolderByPc
<1>12. ChildHolds' /\ StageByPc'
  <2>0. UNCHANGED failed
    BY DEF CloseErase, dataVars
  <2>1. StageByPc'
    BY <2>0, <1>0, <1>1, <1>3 DEF IInv, StageByPc, AtClose, AfterClose
  <2> QED BY <1>1, <2>1, ChildFrame
<1>13. TypeOK'
  <2>1. pc' \in [Call -> CallerAt] /\ wpc' \in [Call -> WriterAt]
    BY <1>0, <1>3 DEF AfterClose, CallerAt, WriterAt
  <2>2. pipe' \in [End -> Fd \cup {NoFd}] /\ fdsForClose' \in SUBSET Fd
    BY <1>0, <1>1
  <2> QED BY <1>1, <2>1, <2>2 DEF CloseErase, IInv, TypeOK, procVars, dataVars
<1> QED BY <1>8, <1>9, <1>10, <1>11, <1>12, <1>13 DEF IInv

\* Steps of other parts of a larger system.
LEMMA StutterStep ==
  ASSUME IInv, UNCHANGED vars
  PROVE  IInv'
<1> USE DEF vars
<1>1. TypeOK'
  BY DEF IInv, TypeOK, hostVars, procVars, dataVars
<1>2. TableBySlot' /\ ListByTable' /\ HolderByPc' /\ SlotsByPc'
  BY HostVarsFrame
<1>3. ChildHolds' /\ StageByPc'
  BY ChildFrame DEF procVars, dataVars, hostVars, IInv, StageByPc
<1> QED BY <1>1, <1>2, <1>3 DEF IInv

\* Every step of any thread, child or command preserves the inductive invariant.
THEOREM StepIInv == IInv /\ [Next]_vars => IInv'
<1> SUFFICES ASSUME IInv, [Next]_vars PROVE IInv'
  OBVIOUS
<1>1. ASSUME NEW c \in Call, CallerStep(c) PROVE IInv'
  <2>1. ASSUME NEW k \in {"stdin", "stdout"}, CreateOpen(c, k) \/ CreateList(c, k) PROVE IInv'
    BY <2>1, CreateOpenStep, CreateListStep
  <2>2. ASSUME NEW s \in Slot, CloseFd(<<c, "caller">>, s) \/ CloseErase(<<c, "caller">>, s)
        PROVE IInv'
    BY <2>2, CloseFdStep, CloseEraseStep
  <2> QED BY <1>1, <2>1, <2>2, ForkStep, DataMoves, CallerMoves DEF CallerStep
<1>2. ASSUME NEW c \in Call, WriterStep(c) PROVE IInv'
  <2>1. ASSUME NEW s \in Slot, CloseFd(<<c, "writer">>, s) \/ CloseErase(<<c, "writer">>, s)
        PROVE IInv'
    BY <2>1, CloseFdStep, CloseEraseStep
  <2> QED BY <1>2, <2>1, DataMoves, WriterMoves DEF WriterStep
<1>3. ASSUME NEW c \in Call, ChildStep(c) \/ Failure(c) PROVE IInv'
  BY <1>3, ChildMoves, DataMoves, CallerMoves, WriterMoves DEF ChildStep, Failure
<1> QED BY <1>1, <1>2, <1>3, StutterStep DEF Next

\* The inductive invariant holds in every reachable state of every instance.
THEOREM Inductive == Spec => []IInv
BY InitIInv, StepIInv, PTL DEF Spec

\* The variables of PipeCall keep their types.
THEOREM TypeCorrect == Spec => []TypeOK
<1>1. IInv => TypeOK
  BY DEF IInv
<1> QED BY <1>1, Inductive, PTL

\* A command never starts with a pipe end of another call, nor with an end of
\* its own pipes other than its standard streams: the purpose of fdsForClose.
THEOREM CommandsGetOnlyTheirEnds == Spec => []OnlyOwnEnds
<1>1. IInv => OnlyOwnEnds
  BY DEF IInv, ChildHolds, OnlyOwnEnds
<1> QED BY <1>1, Inductive, PTL

\* Outside of the critical sections of mtx the list is exact.
THEOREM ListIsExact == Spec => []ListMatchesTable
<1>1. IInv => ListMatchesTable
  <2> SUFFICES ASSUME IInv, mtx = NoWorker PROVE fdsForClose = {f \in Fd : fds[f] \in End}
    BY DEF ListMatchesTable
  <2>1. \A e \in End : ~BeingClosed(e) /\ ~Listing(e)
    BY WorkerFacts, EndFacts DEF BeingClosed, Listing, IInv, HolderByPc
  <2>2. \A f \in Fd : f \in fdsForClose <=> fds[f] \in End
    BY <2>1 DEF IInv, ListByTable
  <2> QED BY <2>2 DEF IInv, TypeOK
<1> QED BY <1>1, Inductive, PTL

\* Close never hits a descriptor that its slot does not own.
THEOREM SlotsStayValid == Spec => []SlotsValid
<1>1. IInv => SlotsValid
  BY DEF IInv, TableBySlot, SlotsValid
<1> QED BY <1>1, Inductive, PTL

\* A call that has returned, in success or in failure, has left no descriptor,
\* no thread behind, and no child unless its waitpid failed.
THEOREM NothingLeft == Spec => []ReturnLeavesNothing
<1>1. IInv => ReturnLeavesNothing
  <2> SUFFICES ASSUME IInv, NEW c \in Call, pc[c] = "done"
               PROVE  /\ \A f \in Fd : fds[f] \notin {c} \X Slot
                      /\ wpc[c] \in {"none", "exited"}
                      /\ "waitpid" \notin failed[c] => stage[c] \in {"none", "reapedOk", "reapedBad"}
    BY DEF ReturnLeavesNothing
  <2>1. \A s \in Slot : pipe[<<c, s>>] = NoFd
    BY DEF IInv, SlotsByPc, SlotsOf, Opened
  <2>2. \A f \in Fd : fds[f] \notin {c} \X Slot
    <3> SUFFICES ASSUME NEW f \in Fd, NEW s \in Slot, fds[f] = <<c, s>> PROVE FALSE
      OBVIOUS
    <3>1. <<c, s>> \in End
      BY DEF End
    <3>2. pipe[<<c, s>>] = f
      BY <3>1 DEF IInv, TableBySlot
    <3> QED BY <2>1, <3>2, FdAssumption
  <2>3. wpc[c] \in {"none", "exited"}
    BY <2>1 DEF IInv, SlotsByPc, SlotsOf, Opened, TypeOK, WriterAt, Slot
  <2> QED BY <2>2, <2>3 DEF IInv, StageByPc
<1> QED BY <1>1, Inductive, PTL
-----------------------------------------------------------------------------
(* The chunks of a call, from its input to its output.                      *)

IsCat(c) == job[c].prog = "cat"
Gone == {"exitedOk", "exitedBad", "reapedOk", "reapedBad"}

\* No chunk is lost.  As long as no system call of c has failed, Write has written all
\* when it closes while a child could still read, the command sees the end of its input
\* only once it has read and written all, and Read ends only once the command has.
Flow(c) ==
  /\ IsCat(c) => job[c].size = unsent[c] + inBuf[c] + held[c] + outBuf[c] + output[c]
  /\ stage[c] \in {"exitedOk", "reapedOk"} /\ IsCat(c) => sawEof[c]
  /\ pc[c] \in {"closeStdinR", "closeStdoutW", "read", "closeStdoutR", "wait", "join"} =>
       stage[c] # "none"
  /\ result[c] = "true" => pc[c] = "done"
  /\ failed[c] = {} =>
       /\ hostUp /\ wpc[c] \in {"close", "exited"} /\ stage[c] \in {"forked", "running"} =>
            unsent[c] = 0
       /\ hostUp /\ sawEof[c] => unsent[c] = 0 /\ inBuf[c] = 0 /\ held[c] = 0
       /\ pc[c] \in {"closeStdoutR", "wait", "join"} => stage[c] \in Gone /\ outBuf[c] = 0
       /\ result[c] = "true" /\ IsCat(c) => output[c] = job[c].size

FlowInv == \A c \in Call : Flow(c)

\* A child and its command keep both of their ends open.
LEMMA ChildKeepsEnds ==
  ASSUME IInv, NEW c \in Call, stage[c] \in {"forked", "running"}
  PROVE  Held(<<c, StdinR>>) /\ Held(<<c, StdoutW>>)
<1>1. {0, 1, 2} \subseteq Fd /\ StdinR \in Slot /\ StdoutW \in Slot
  BY FdAssumption DEF Slot
<1>2. CASE stage[c] = "forked"
  <2>1. \A s \in Slot : cpipe[c][s] \in Fd /\ cfds[c][cpipe[c][s]] = <<c, s>>
    BY <1>2 DEF IInv, ChildHolds
  <2> QED BY <1>1, <2>1 DEF Held
<1>3. CASE stage[c] = "running"
  <2>1. cfds[c][0] = <<c, StdinR>> /\ cfds[c][1] = <<c, StdoutW>>
    BY <1>3 DEF IInv, ChildHolds
  <2> QED BY <1>1, <2>1 DEF Held
<1> QED BY <1>2, <1>3

\* The command sees the end of its input only after Write is through.
LEMMA EndOfInput ==
  ASSUME IInv, hostUp, NEW c \in Call, stage[c] = "running", ~Held(<<c, StdinW>>),
         failed[c] = {}
  PROVE  wpc[c] \in {"close", "exited"}
<1> DEFINE e == <<c, StdinW>>
<1>1. e \in End /\ StdinW \in Slot
  BY DEF End, Slot
<1>2. pc[c] \in {"closeStdinR", "closeStdoutW", "read", "closeStdoutR", "wait"}
  BY DEF IInv, TypeOK, CallerAt, StageByPc
<1>3. CASE pipe[e] = NoFd
  BY <1>2, <1>3 DEF IInv, TypeOK, WriterAt, SlotsByPc, SlotsOf, Opened, Slot
<1>4. CASE pipe[e] # NoFd
  <2>1. pipe[e] \in Fd
    BY <1>1, <1>4 DEF IInv, TypeOK
  <2>2. BeingClosed(e)
    BY <1>1, <1>4, <2>1 DEF IInv, TableBySlot, Held
  <2>3. PICK k \in {"caller", "writer"} : AtClose(<<c, k>>, StdinW)
    BY <2>2 DEF BeingClosed
  <2> QED BY <1>2, <2>3 DEF AtClose, StdinR, StdinW, StdoutR, StdoutW
<1> QED BY <1>3, <1>4

\* A step of c changes nothing of another call, unless the process ends.
LEMMA FlowFrame ==
  ASSUME FlowInv, NEW c \in Call, hostUp' => hostUp, job' = job,
         \A d \in Call \ {c} :
           /\ pc'[d] = pc[d] /\ wpc'[d] = wpc[d] /\ stage'[d] = stage[d] /\ result'[d] = result[d]
           /\ unsent'[d] = unsent[d] /\ output'[d] = output[d] /\ held'[d] = held[d]
           /\ sawEof'[d] = sawEof[d] /\ inBuf'[d] = inBuf[d] /\ outBuf'[d] = outBuf[d]
           /\ failed'[d] = failed[d],
         Flow(c)'
  PROVE  FlowInv'
<1>1. ASSUME NEW d \in Call \ {c} PROVE Flow(d)'
  BY <1>1 DEF FlowInv, Flow, IsCat
<1> QED BY <1>1 DEF FlowInv

\* The numbers of a call.
LEMMA Counts ==
  ASSUME IInv, NEW c \in Call
  PROVE  /\ unsent[c] \in Nat /\ inBuf[c] \in Nat /\ held[c] \in Nat /\ outBuf[c] \in Nat
         /\ output[c] \in Nat /\ job[c].size \in Nat
BY JobAssumption DEF IInv, TypeOK

\* The steps of the calling thread that move no data.
LEMMA CallerFlow ==
  ASSUME IInv, FlowInv, NEW c \in Call,
         UNCHANGED <<hostUp, procVars, dataVars, job, result>>,
         \A d \in Call \ {c} : pc'[d] = pc[d] /\ wpc'[d] = wpc[d],
         wpc'[c] = wpc[c] \/ wpc'[c] = "write" \/ (wpc[c] = "close" /\ wpc'[c] = "exited"),
         pc[c] = "done" => pc'[c] = "done",
         pc'[c] \in {"closeStdinR", "closeStdoutW", "read", "closeStdoutR", "wait", "join"} =>
           pc[c] \in {"closeStdinR", "closeStdoutW", "read", "closeStdoutR", "wait", "join"},
         pc'[c] \in {"closeStdoutR", "wait", "join"} =>
           pc[c] \in {"closeStdoutR", "wait", "join"} \/ (stage[c] \in Gone /\ outBuf[c] = 0)
  PROVE  FlowInv'
<1>1. UNCHANGED <<hostUp, job, stage, held, sawEof, unsent, output, inBuf, outBuf, failed, result>>
  BY DEF procVars, dataVars
<1>2. Flow(c)'
  BY <1>1 DEF FlowInv, Flow, IsCat
<1> QED BY <1>1, <1>2, FlowFrame

LEMMA CallerStepFlow ==
  ASSUME IInv, FlowInv, NEW c \in Call, CallerStep(c)
  PROVE  FlowInv'
<1>0. /\ pc \in [Call -> CallerAt] /\ wpc \in [Call -> WriterAt] /\ stage \in [Call -> ChildAt]
      /\ output \in [Call -> Nat] /\ outBuf \in [Call -> Nat]
      /\ result \in [Call -> {"none", "true", "false"}]
  BY DEF IInv, TypeOK
<1>1. ASSUME NEW s \in {"stdin", "stdout"}, CreateOpen(c, s) \/ CreateList(c, s) PROVE FlowInv'
  BY <1>0, <1>1, CallerFlow DEF CreateOpen, CreateList
<1>2. ASSUME NEW s \in Slot, CloseFd(<<c, "caller">>, s) PROVE FlowInv'
  BY <1>2, CallerFlow DEF CloseFd
<1>3. ASSUME NEW s \in Slot, CloseErase(<<c, "caller">>, s) PROVE FlowInv'
  <2>1. /\ AtClose(<<c, "caller">>, s) /\ UNCHANGED <<hostUp, procVars, dataVars, job, result>>
        /\ pc' = [pc EXCEPT ![c] = AfterClose(pc[c])]
        /\ wpc' = [wpc EXCEPT ![c] = IF pc[c] = "closeStdoutW" THEN "write" ELSE wpc[c]]
    BY <1>3 DEF CloseErase
  <2>2. pc[c] \in {"closeStdinR", "closeStdoutW", "closeStdoutR", "unwind"}
    BY <2>1 DEF AtClose
  <2> QED BY <1>0, <2>1, <2>2, CallerFlow DEF AfterClose
<1>4. CASE Fork(c)
  <2>1. /\ pc[c] = "fork" /\ pc' = [pc EXCEPT ![c] = "closeStdinR"]
        /\ stage' = [stage EXCEPT ![c] = "forked"]
        /\ UNCHANGED <<hostUp, wpc, result, held, sawEof, unsent, output, inBuf, outBuf, failed, job>>
    BY <1>4 DEF Fork, dataVars
  <2>2. wpc[c] = "none"
    BY <2>1 DEF IInv, SlotsByPc, SlotsOf
  <2>3. Flow(c)'
    BY <1>0, <2>1, <2>2 DEF FlowInv, Flow, IsCat
  <2> QED BY <1>0, <2>1, <2>3, FlowFrame
<1>5. CASE ReadChunk(c)
  <2>1. /\ pc[c] = "read" /\ outBuf[c] > 0 /\ outBuf' = [outBuf EXCEPT ![c] = outBuf[c] - 1]
        /\ output' = [output EXCEPT ![c] = output[c] + 1]
        /\ UNCHANGED <<hostUp, pc, wpc, stage, result, held, sawEof, unsent, inBuf, failed, job>>
    BY <1>5 DEF ReadChunk, hostVars, procVars
  <2>2. outBuf'[c] = outBuf[c] - 1 /\ output'[c] = output[c] + 1 /\ outBuf[c] # 0
    BY <1>0, <2>1
  <2>3. outBuf'[c] + output'[c] = outBuf[c] + output[c]
    BY <2>2, Counts
  <2>4. IsCat(c) => job[c].size = unsent[c] + inBuf[c] + held[c] + outBuf'[c] + output'[c]
    BY <2>2, Counts DEF FlowInv, Flow
  <2>5. pc[c] \notin {"closeStdoutR", "wait", "join", "done"} /\ result[c] # "true"
    BY <2>1 DEF FlowInv, Flow
  <2>6. Flow(c)'
    BY <2>1, <2>4, <2>5 DEF FlowInv, Flow, IsCat
  <2> QED BY <1>0, <2>1, <2>6, FlowFrame
<1>6. CASE ReadEof(c)
  <2>1. /\ pc[c] = "read" /\ outBuf[c] = 0 /\ ~Held(<<c, StdoutW>>)
        /\ pc' = [pc EXCEPT ![c] = "closeStdoutR"] /\ wpc' = wpc
        /\ UNCHANGED <<hostUp, procVars, dataVars, job, result>>
    BY <1>6 DEF ReadEof, AtEof
  <2>2. stage[c] \in Gone
    <3>1. stage[c] # "none" /\ stage[c] \notin {"forked", "running"}
      BY <2>1, ChildKeepsEnds DEF FlowInv, Flow
    <3> QED BY <1>0, <3>1 DEF ChildAt, Gone
  <2> QED BY <1>0, <2>1, <2>2, CallerFlow
<1>7. CASE Reap(c)
  <2>1. /\ pc[c] = "wait" /\ stage[c] \in {"exitedOk", "exitedBad"}
        /\ stage' = [stage EXCEPT ![c] = IF stage[c] = "exitedOk" THEN "reapedOk" ELSE "reapedBad"]
        /\ pc' = [pc EXCEPT ![c] = "join"]
        /\ UNCHANGED <<hostUp, wpc, result, held, sawEof, unsent, output, inBuf, outBuf, failed, job>>
    BY <1>7 DEF Reap, dataVars
  <2>2. Flow(c)'
    BY <1>0, <2>1 DEF FlowInv, Flow, IsCat, Gone
  <2> QED BY <1>0, <2>1, <2>2, FlowFrame
<1>8. CASE Join(c)
  <2>1. /\ hostUp /\ pc[c] = "join" /\ pc' = [pc EXCEPT ![c] = "done"]
        /\ \E r \in Statuses(c) : result' = [result EXCEPT ![c] = r]
        /\ UNCHANGED <<hostUp, wpc, stage, held, sawEof, unsent, output, inBuf, outBuf, failed, job>>
    BY <1>8 DEF Join, procVars, dataVars
  <2>2. failed[c] = {} /\ stage[c] = "reapedOk" /\ IsCat(c) => output[c] = job[c].size
    <3>1. IsCat(c) => job[c].size = unsent[c] + inBuf[c] + held[c] + outBuf[c] + output[c]
      BY DEF FlowInv, Flow
    <3>2. failed[c] = {} /\ stage[c] = "reapedOk" /\ IsCat(c) =>
            unsent[c] = 0 /\ inBuf[c] = 0 /\ held[c] = 0 /\ outBuf[c] = 0
      BY <2>1 DEF FlowInv, Flow
    <3> QED BY <3>1, <3>2, Counts
  <2>3. failed[c] = {} /\ result'[c] = "true" => stage[c] = "reapedOk"
    BY <1>0, <2>1 DEF Statuses
  <2>4. Flow(c)'
    BY <1>0, <2>1, <2>2, <2>3 DEF FlowInv, Flow, IsCat
  <2> QED BY <1>0, <2>1, <2>4, FlowFrame
<1>9. CASE Fail(c)
  <2>1. /\ pc[c] = "unwind" /\ pc' = [pc EXCEPT ![c] = "done"]
        /\ result' = [result EXCEPT ![c] = "false"]
        /\ UNCHANGED <<hostUp, wpc, stage, held, sawEof, unsent, output, inBuf, outBuf, failed, job>>
    BY <1>9 DEF Fail, procVars, dataVars
  <2>2. Flow(c)'
    BY <1>0, <2>1 DEF FlowInv, Flow, IsCat
  <2> QED BY <1>0, <2>1, <2>2, FlowFrame
<1> QED BY <1>1, <1>2, <1>3, <1>4, <1>5, <1>6, <1>7, <1>8, <1>9 DEF CallerStep

LEMMA WriterStepFlow ==
  ASSUME IInv, FlowInv, NEW c \in Call, WriterStep(c)
  PROVE  FlowInv'
<1>0. /\ wpc \in [Call -> WriterAt] /\ unsent \in [Call -> Nat] /\ inBuf \in [Call -> Nat]
  BY DEF IInv, TypeOK
<1>1. CASE WriteChunk(c)
  <2>1. /\ hostUp /\ wpc[c] = "write" /\ unsent[c] > 0
        /\ inBuf' = [inBuf EXCEPT ![c] = inBuf[c] + 1]
        /\ unsent' = [unsent EXCEPT ![c] = unsent[c] - 1]
        /\ UNCHANGED <<hostUp, pc, wpc, stage, result, held, sawEof, output, outBuf, failed, job>>
    BY <1>1 DEF WriteChunk, MoreToWrite, hostVars, procVars
  <2>2. failed[c] = {} => ~sawEof[c]
    BY <2>1 DEF FlowInv, Flow
  <2>3. inBuf'[c] = inBuf[c] + 1 /\ unsent'[c] = unsent[c] - 1
    BY <1>0, <2>1
  <2>4. IsCat(c) => job[c].size = unsent'[c] + inBuf'[c] + held[c] + outBuf[c] + output[c]
    <3>1. IsCat(c) => job[c].size = unsent[c] + inBuf[c] + held[c] + outBuf[c] + output[c]
      BY DEF FlowInv, Flow
    <3>2. unsent'[c] + inBuf'[c] = unsent[c] + inBuf[c]
      BY <2>3, Counts
    <3>3. unsent'[c] \in Nat /\ inBuf'[c] \in Nat
      BY <2>1, <2>3, Counts
    <3> QED BY <3>1, <3>2, <3>3, Counts
  <2>5. Flow(c)'
    BY <2>1, <2>2, <2>4 DEF FlowInv, Flow, IsCat
  <2> QED BY <1>0, <2>1, <2>5, FlowFrame
<1>2. CASE WriteEnds(c) \/ WriteBroken(c)
  <2>1. /\ UNCHANGED <<pc, stage, result, held, sawEof, unsent, output, inBuf, outBuf, failed, job>>
        /\ hostUp' => hostUp /\ wpc[c] = "write"
        /\ wpc' = wpc \/ wpc' = [wpc EXCEPT ![c] = "close"]
    BY <1>2 DEF WriteEnds, WriteBroken, procVars, dataVars
  <2>2. wpc' # wpc /\ stage[c] \in {"forked", "running"} => unsent[c] = 0
    <3>1. WriteEnds(c) => unsent[c] = 0
      BY Counts DEF WriteEnds, MoreToWrite
    <3>2. WriteBroken(c) => stage[c] \notin {"forked", "running"}
      BY ChildKeepsEnds DEF WriteBroken
    <3> QED BY <1>2, <3>1, <3>2
  <2>3. Flow(c)'
    BY <1>0, <2>1, <2>2 DEF FlowInv, Flow, IsCat
  <2>4. \A d \in Call \ {c} : wpc'[d] = wpc[d]
    BY <1>0, <2>1
  <2> QED BY <2>1, <2>3, <2>4, FlowFrame
<1>3. ASSUME NEW s \in Slot, CloseFd(<<c, "writer">>, s) PROVE FlowInv'
  BY <1>3, CallerFlow DEF CloseFd
<1>4. ASSUME NEW s \in Slot, CloseErase(<<c, "writer">>, s) PROVE FlowInv'
  <2>1. /\ wpc[c] = "close" /\ UNCHANGED <<hostUp, procVars, dataVars, job, result>>
        /\ pc' = pc /\ wpc' = [wpc EXCEPT ![c] = "exited"]
    BY <1>4 DEF CloseErase, AtClose
  <2> QED BY <1>0, <2>1, CallerFlow
<1> QED BY <1>1, <1>2, <1>3, <1>4 DEF WriterStep

LEMMA ChildStepFlow ==
  ASSUME IInv, FlowInv, NEW c \in Call, ChildStep(c)
  PROVE  FlowInv'
<1>0. /\ stage \in [Call -> ChildAt] /\ held \in [Call -> Nat] /\ inBuf \in [Call -> Nat]
      /\ outBuf \in [Call -> Nat] /\ sawEof \in [Call -> BOOLEAN]
  BY DEF IInv, TypeOK
<1>1. CASE Exec(c) \/ ProgExit(c)
  <2>1. /\ UNCHANGED <<hostUp, pc, wpc, result, held, sawEof, unsent, output, inBuf, outBuf, failed, job>>
        /\ \/ stage[c] = "forked" /\ stage' = [stage EXCEPT ![c] = "running"]
           \/ /\ stage[c] = "running" /\ stage' = [stage EXCEPT ![c] = "exitedOk"]
              /\ IsCat(c) => sawEof[c]
    BY <1>1 DEF Exec, ProgExit, Exits, Moved, IsCat, hostVars, dataVars
  <2>2. Flow(c)'
    BY <1>0, <2>1 DEF FlowInv, Flow, IsCat, Gone
  <2> QED BY <1>0, <2>1, <2>2, FlowFrame
<1>2. CASE ProgRead(c)
  <2>1. /\ held[c] = 0 /\ inBuf[c] > 0 /\ stage[c] = "running"
        /\ inBuf' = [inBuf EXCEPT ![c] = inBuf[c] - 1] /\ held' = [held EXCEPT ![c] = 1]
        /\ UNCHANGED <<hostUp, pc, wpc, stage, result, sawEof, unsent, output, outBuf, failed, job>>
    BY <1>2 DEF ProgRead, hostVars
  <2>2. failed[c] = {} => ~(hostUp /\ sawEof[c])
    BY <2>1 DEF FlowInv, Flow
  <2>3. Flow(c)'
    BY <1>0, <2>1, <2>2, Counts DEF FlowInv, Flow, IsCat
  <2> QED BY <1>0, <2>1, <2>3, FlowFrame
<1>3. CASE ProgEof(c)
  <2>1. /\ held[c] = 0 /\ inBuf[c] = 0 /\ stage[c] = "running" /\ ~Held(<<c, StdinW>>)
        /\ sawEof' = [sawEof EXCEPT ![c] = TRUE]
        /\ UNCHANGED <<hostUp, pc, wpc, stage, result, held, unsent, output, inBuf, outBuf, failed, job>>
    BY <1>3 DEF ProgEof, hostVars, dataVars
  <2>2. hostUp /\ failed[c] = {} => unsent[c] = 0
    BY <2>1, EndOfInput DEF FlowInv, Flow
  <2>3. Flow(c)'
    BY <1>0, <2>1, <2>2 DEF FlowInv, Flow, IsCat
  <2> QED BY <1>0, <2>1, <2>3, FlowFrame
<1>4. CASE ProgWrite(c)
  <2>1. /\ held[c] > 0 /\ stage[c] = "running"
        /\ outBuf' = [outBuf EXCEPT ![c] = outBuf[c] + 1] /\ held' = [held EXCEPT ![c] = held[c] - 1]
        /\ UNCHANGED <<hostUp, pc, wpc, stage, result, sawEof, unsent, output, inBuf, failed, job>>
    BY <1>4 DEF ProgWrite, hostVars
  <2>2. failed[c] = {} => ~(hostUp /\ sawEof[c]) /\ pc[c] \notin {"closeStdoutR", "wait", "join"}
    BY <2>1 DEF FlowInv, Flow, Gone
  <2>3. outBuf'[c] = outBuf[c] + 1 /\ held'[c] = held[c] - 1
    BY <1>0, <2>1
  <2>4. IsCat(c) => job[c].size = unsent[c] + inBuf[c] + held'[c] + outBuf'[c] + output[c]
    BY <2>3, Counts DEF FlowInv, Flow
  <2>5. Flow(c)'
    BY <2>1, <2>2, <2>4 DEF FlowInv, Flow, IsCat
  <2> QED BY <1>0, <2>1, <2>5, FlowFrame
<1>5. CASE ProgBroken(c)
  <2>1. /\ UNCHANGED <<hostUp, pc, wpc, result, held, sawEof, unsent, output, inBuf, outBuf, failed, job>>
        /\ stage[c] = "running" /\ stage' = [stage EXCEPT ![c] = "exitedBad"]
    BY <1>5 DEF ProgBroken, Exits, Moved, hostVars, dataVars
  <2>2. Flow(c)'
    BY <1>0, <2>1 DEF FlowInv, Flow, IsCat, Gone
  <2> QED BY <1>0, <2>1, <2>2, FlowFrame
<1> QED BY <1>1, <1>2, <1>3, <1>4, <1>5 DEF ChildStep

LEMMA FailureFlow ==
  ASSUME IInv, FlowInv, NEW c \in Call, Failure(c)
  PROVE  FlowInv'
<1>0. /\ pc \in [Call -> CallerAt] /\ wpc \in [Call -> WriterAt] /\ stage \in [Call -> ChildAt]
      /\ failed \in [Call -> SUBSET {"read", "write", "waitpid"}]
  BY DEF IInv, TypeOK
<1>1. CASE CreateFails(c) \/ ForkFails(c)
  BY <1>0, <1>1, CallerFlow DEF CreateFails, ForkFails, AfterFailure
<1>2. CASE ExecFails(c) \/ ProgFails(c)
  <2>1. /\ UNCHANGED <<hostUp, pc, wpc, result, held, sawEof, unsent, output, inBuf, outBuf, failed, job>>
        /\ stage[c] \in {"forked", "running"} /\ stage' = [stage EXCEPT ![c] = "exitedBad"]
    BY <1>2 DEF ExecFails, ProgFails, Exits, Moved, hostVars, dataVars
  <2>2. Flow(c)'
    BY <1>0, <2>1 DEF FlowInv, Flow, IsCat, Gone
  <2> QED BY <1>0, <2>1, <2>2, FlowFrame
<1>3. CASE ReadFails(c) \/ WriteFails(c) \/ WaitFails(c)
  <2>1. /\ UNCHANGED <<hostUp, stage, result, held, sawEof, unsent, output, inBuf, outBuf, job>>
        /\ \E call \in {"read", "write", "waitpid"} :
             failed' = [failed EXCEPT ![c] = failed[c] \cup {call}]
        /\ \/ /\ pc[c] \in {"read", "wait"} /\ wpc' = wpc
              /\ \E q \in {"closeStdoutR", "join"} : pc' = [pc EXCEPT ![c] = q]
           \/ pc' = pc /\ wpc' = [wpc EXCEPT ![c] = "close"]
    BY <1>3 DEF ReadFails, WriteFails, WaitFails, Returns, procVars, otherData
  <2>2. failed'[c] # {} /\ \A d \in Call \ {c} : failed'[d] = failed[d]
    BY <1>0, <2>1
  <2>3. \A d \in Call \ {c} : pc'[d] = pc[d] /\ wpc'[d] = wpc[d]
    BY <1>0, <2>1
  <2>4. Flow(c)'
    BY <1>0, <2>1, <2>2 DEF FlowInv, Flow, IsCat
  <2> QED BY <2>1, <2>2, <2>3, <2>4, FlowFrame
<1> QED BY <1>1, <1>2, <1>3 DEF Failure

LEMMA InitFlow == Init => FlowInv
<1> SUFFICES ASSUME Init, NEW c \in Call PROVE Flow(c)
  BY DEF FlowInv
<1>1. job[c] \in Job /\ job[c].size \in Nat
  BY JobAssumption DEF Init
<1>2. /\ pc[c] = "createStdin" /\ wpc[c] = "none" /\ stage[c] = "none" /\ result[c] = "none"
      /\ unsent[c] = job[c].size /\ output[c] = 0 /\ inBuf[c] = 0 /\ outBuf[c] = 0
      /\ held[c] = IF job[c].prog = "tool" THEN 1 ELSE 0
      /\ sawEof[c] = FALSE
  BY DEF Init
<1> QED BY <1>1, <1>2 DEF Flow, IsCat

LEMMA StepFlow == IInv /\ FlowInv /\ [Next]_vars => FlowInv'
<1> SUFFICES ASSUME IInv, FlowInv, [Next]_vars PROVE FlowInv'
  OBVIOUS
<1>1. CASE UNCHANGED vars
  BY <1>1 DEF FlowInv, Flow, IsCat, vars, hostVars, procVars, dataVars
<1> QED BY <1>1, CallerStepFlow, WriterStepFlow, ChildStepFlow, FailureFlow DEF Next

\* When PipeCall returns true for a command that copies its input, the output is the
\* whole input, unless a read, a write or the waitpid of this very call returned -1: for
\* any number of calls, sizes and pipes of any capacity, whichever side blocks, whatever
\* else fails in this call and whatever fails in another (PipeCall, Read, Write).
THEOREM TrueIsComplete == Spec => []TrueMeansComplete
<1>1. FlowInv => TrueMeansComplete
  BY DEF FlowInv, Flow, IsCat, TrueMeansComplete
<1> QED BY <1>1, InitFlow, StepFlow, Inductive, PTL DEF Spec
=============================================================================
