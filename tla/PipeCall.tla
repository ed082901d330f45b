------------------------------ MODULE PipeCall ------------------------------
(***************************************************************************)
(* utils/PipeCall.cpp: run an external command synchronously, feeding its  *)
(* standard input and collecting its standard output.  Several threads of  *)
(* one process may be inside PipeCall at once, and fork gives every child  *)
(* a copy of all the descriptors of the process, so the file keeps a       *)
(* process-wide list of pipe descriptors (fdsForClose, under mtx) that a   *)
(* child closes before execvp.                                             *)
(*                                                                         *)
(* An element of Call is one invocation, running on a thread of its own;   *)
(* calls made one after the other by one thread are the interleavings in   *)
(* which the second starts after the first returned.  Descriptors are      *)
(* numbers, because the list and the locals of PipeCall hold numbers and   *)
(* the kernel reuses them.  Contents are counted in chunks.                *)
(***************************************************************************)
EXTENDS Naturals, FiniteSets

CONSTANTS
  Call,            \* the invocations of PipeCall
  Fd,              \* the descriptor numbers a process may use
  App,             \* what a descriptor opened by the application refers to
  Free,            \* the table entry of a descriptor that is not open
  Job,             \* the calls that may be made: records [prog, size, fails]
  PipeCapacity,    \* chunks a pipe holds before a write blocks
  SigpipeIgnored,  \* the host application ignores SIGPIPE (CPython does)
  NoFd,            \* the value -1 of a closed slot of Pipe::pipe
  NoWorker         \* nobody holds the mutex

ASSUME FdAssumption == Fd \subseteq Nat /\ {0, 1, 2} \subseteq Fd /\ NoFd \notin Fd
\* A command is "cat", which copies its input, or "tool", which never reads it;
\* size counts the chunks of the input; fails is what may fail in the call: system
\* calls, and the command itself.
Fallible == {"pipe", "fork", "execvp", "read", "write", "waitpid", "command"}
ASSUME JobAssumption ==
  Job \subseteq [prog : {"cat", "tool"}, size : Nat, fails : SUBSET Fallible]
ASSUME CapacityAssumption == PipeCapacity \in Nat \ {0}
ASSUME FlagAssumption == SigpipeIgnored \in BOOLEAN

\* The two slots of pipeStdin and of pipeStdout: [0] reads, [1] writes.
StdinR == "pipeStdin[0]"
StdinW == "pipeStdin[1]"
StdoutR == "pipeStdout[0]"
StdoutW == "pipeStdout[1]"
Slot == {StdinR, StdinW, StdoutR, StdoutW}

ReadSlot(s) == IF s = "stdin" THEN StdinR ELSE StdoutR
WriteSlot(s) == IF s = "stdin" THEN StdinW ELSE StdoutW

End == Call \X Slot                     \* a slot of one call

ASSUME OwnerAssumption == App # Free /\ App \notin End /\ Free \notin End

Owner == End \cup {App, Free}

Worker == Call \X {"caller", "writer"}  \* the threads PipeCall runs on
ASSUME NoWorkerAssumption == NoWorker \notin Worker

CallerAt == {"createStdin", "listStdin", "createStdout", "listStdout", "fork",
             "closeStdinR", "closeStdoutW", "read", "closeStdoutR", "wait", "join",
             "unwind", "done"}
WriterAt == {"none", "write", "close", "exited"}
ChildAt == {"none", "forked", "running", "exitedOk", "exitedBad", "reapedOk", "reapedBad"}

VARIABLES
  hostUp,      \* FALSE once a signal has killed the process
  fds,         \* descriptor table of the host process: [Fd -> Owner]
  fdsForClose, \* Pipe::fdsForClose, the numbers a child must close
  mtx,         \* holder of Pipe::mtx
  pipe,        \* Pipe::pipe of both pipes of each call: [End -> Fd or NoFd]
  pc,          \* where the calling thread of each call is
  wpc,         \* where the thread running Write is
  unsent,      \* chunks of the input that Write has not written
  output,      \* chunks Read has appended to the output
  failed,      \* the system calls of each call that returned -1 (history)
  result,      \* what PipeCall returned
  stage,       \* where the child process of each call is
  cfds,        \* descriptor table of the child
  clist,       \* the child's copy of fdsForClose
  cpipe,       \* the child's copy of pipeStdin and pipeStdout
  job,         \* the arguments of each call: the command and its input
  held,        \* chunks the program has yet to write
  sawEof,      \* the program's read returned 0
  inBuf,       \* chunks in the stdin pipe of each call
  outBuf       \* chunks in the stdout pipe

hostVars == <<fds, fdsForClose, mtx, pipe, pc, wpc>>
procVars == <<stage, cfds, clist, cpipe, held, sawEof>>
dataVars == <<unsent, output, inBuf, outBuf, failed>>
vars == <<hostUp, hostVars, result, procVars, dataVars, job>>

-----------------------------------------------------------------------------
(* Descriptors and pipes.                                                  *)

\* Some process still has an open descriptor for end e.
Held(e) ==
  \/ hostUp /\ \E f \in Fd : fds[f] = e
  \/ \E c \in Call : \E f \in Fd : cfds[c][f] = e

FreeFds(table) == {f \in Fd : table[f] = Free}

\* pipe(2): the two lowest free numbers, the read end first.
LowestTwo(table, r, w) ==
  /\ r \in FreeFds(table) /\ w \in FreeFds(table) /\ r < w
  /\ \A f \in FreeFds(table) : f < w => f = r

NoPipes == [s \in Slot |-> NoFd]
Empty == [f \in Fd |-> Free]

Init ==
  /\ hostUp = TRUE
  /\ fds = [f \in Fd |-> IF f \in {0, 1, 2} THEN App ELSE Free]
  /\ fdsForClose = {}
  /\ mtx = NoWorker
  /\ pipe = [e \in End |-> NoFd]
  /\ pc = [c \in Call |-> "createStdin"]
  /\ wpc = [c \in Call |-> "none"]
  /\ job \in [Call -> Job]
  /\ unsent = [c \in Call |-> job[c].size]
  /\ output = [c \in Call |-> 0]
  /\ failed = [c \in Call |-> {}]
  /\ result = [c \in Call |-> "none"]
  /\ stage = [c \in Call |-> "none"]
  /\ cfds = [c \in Call |-> Empty]
  /\ clist = [c \in Call |-> {}]
  /\ cpipe = [c \in Call |-> NoPipes]
  /\ held = [c \in Call |-> IF job[c].prog = "tool" THEN 1 ELSE 0]
  /\ sawEof = [c \in Call |-> FALSE]
  /\ inBuf = [c \in Call |-> 0]
  /\ outBuf = [c \in Call |-> 0]

-----------------------------------------------------------------------------
(* Small steps the actions are made of; a name that ends in a word after an *)
(* underscore is the same step with a plausible fault in it.               *)

\* The guard of PipeCall around fork: no critical section of the list is open.
ForkAllowed_unguarded == TRUE
ForkAllowed == mtx = NoWorker

Erased(list, n) == list \ {n}

\* fileno = -1 at the end of Pipe::Close.
SlotReset_kept(e) == pipe
SlotReset(e) == [pipe EXCEPT ![e] = NoFd]

\* return false with two Pipe objects in scope: their destructors run.
AfterFailure_noRaii == "done"
AfterFailure == "unwind"

\* read returns 0: the pipe is empty and nobody can write to it any more.
AtEof_short(c) == outBuf[c] = 0
AtEof(c) == outBuf[c] = 0 /\ ~Held(<<c, StdoutW>>)

MoreToWrite(c) == unsent[c] > 0

-----------------------------------------------------------------------------
(* Pipe::Create and Pipe::Close: two steps each, the system call and the   *)
(* update of the list, with mtx held in between.                           *)

\* Pipe::Create, up to the return of pipe(2).
CreateOpen(c, s) ==
  /\ hostUp
  /\ pc[c] = (IF s = "stdin" THEN "createStdin" ELSE "createStdout")
  /\ mtx = NoWorker
  /\ \E r, w \in Fd :
       /\ LowestTwo(fds, r, w)
       /\ fds' = [fds EXCEPT ![r] = <<c, ReadSlot(s)>>, ![w] = <<c, WriteSlot(s)>>]
       /\ pipe' = [pipe EXCEPT ![<<c, ReadSlot(s)>>] = r, ![<<c, WriteSlot(s)>>] = w]
  /\ mtx' = <<c, "caller">>
  /\ pc' = [pc EXCEPT ![c] = IF s = "stdin" THEN "listStdin" ELSE "listStdout"]
  /\ UNCHANGED <<hostUp, fdsForClose, wpc, result, procVars, dataVars, job>>

\* Pipe::Create, the two emplace_back and the end of the critical section.
CreateList(c, s) ==
  /\ hostUp
  /\ pc[c] = (IF s = "stdin" THEN "listStdin" ELSE "listStdout")
  /\ fdsForClose' = fdsForClose \cup {pipe[<<c, ReadSlot(s)>>], pipe[<<c, WriteSlot(s)>>]}
  /\ mtx' = NoWorker
  /\ pc' = [pc EXCEPT ![c] = IF s = "stdin" THEN "createStdout" ELSE "fork"]
  /\ UNCHANGED <<hostUp, fds, pipe, wpc, result, procVars, dataVars, job>>

\* pipe(2) fails (no descriptor left, in the process or in the system):
\* return false, the destructors of the two Pipe objects run.
CreateFails(c) ==
  /\ hostUp
  /\ pc[c] \in {"createStdin", "createStdout"} /\ mtx = NoWorker
  /\ pc' = [pc EXCEPT ![c] = AfterFailure]
  /\ UNCHANGED <<hostUp, fds, fdsForClose, mtx, pipe, wpc, result, procVars,
                 dataVars, job>>

\* The slot that worker w is at Pipe::Close for.  In "unwind" the destructors
\* close what is still open: pipeStdout first, in each the read end first.
ClosedBefore(s) ==
  {t \in {StdoutR, StdoutW, StdinR} :
     \/ s = StdinW
     \/ s = StdinR /\ t # StdinR
     \/ s = StdoutW /\ t = StdoutR}

AtClose(w, s) ==
  LET c == w[1] IN
  \/ w[2] = "caller" /\ pc[c] = "closeStdinR"  /\ s = StdinR
  \/ w[2] = "caller" /\ pc[c] = "closeStdoutW" /\ s = StdoutW
  \/ w[2] = "caller" /\ pc[c] = "closeStdoutR" /\ s = StdoutR
  \/ w[2] = "writer" /\ wpc[c] = "close"       /\ s = StdinW
  \/ /\ w[2] = "caller" /\ pc[c] = "unwind"
     /\ pipe[<<c, s>>] # NoFd
     /\ \A t \in ClosedBefore(s) : pipe[<<c, t>>] = NoFd

\* Pipe::Close, up to the return of close(2).
CloseFd(w, s) ==
  /\ hostUp
  /\ AtClose(w, s) /\ mtx = NoWorker
  /\ fds' = [fds EXCEPT ![pipe[<<w[1], s>>]] = Free]
  /\ mtx' = w
  /\ UNCHANGED <<hostUp, fdsForClose, pipe, pc, wpc, result, procVars, dataVars,
                 job>>

\* The command is waited for before its output is read.
AfterClose_waitFirst(p) ==
  IF p = "closeStdinR" THEN "closeStdoutW"
  ELSE IF p = "closeStdoutW" THEN "wait"
  ELSE IF p = "closeStdoutR" THEN "wait" ELSE "unwind"

AfterClose(p) ==
  IF p = "closeStdinR" THEN "closeStdoutW"
  ELSE IF p = "closeStdoutW" THEN "read"
  ELSE IF p = "closeStdoutR" THEN "wait" ELSE "unwind"

\* Pipe::Close, the erase, the slot set to -1 and the end of the critical section.
\* After the second Close of the parent the input gets a thread of its own.
CloseErase(w, s) ==
  /\ hostUp
  /\ AtClose(w, s) /\ mtx = w
  /\ fdsForClose' = Erased(fdsForClose, pipe[<<w[1], s>>])
  /\ pipe' = SlotReset(<<w[1], s>>)
  /\ mtx' = NoWorker
  /\ IF w[2] = "caller"
     THEN /\ pc' = [pc EXCEPT ![w[1]] = AfterClose(@)]
          /\ wpc' = [wpc EXCEPT ![w[1]] = IF pc[w[1]] = "closeStdoutW" THEN "write" ELSE @]
     ELSE wpc' = [wpc EXCEPT ![w[1]] = "exited"] /\ UNCHANGED pc
  /\ UNCHANGED <<hostUp, fds, result, procVars, dataVars, job>>

-----------------------------------------------------------------------------
(* The calling thread.                                                     *)

\* fork, under the guard: the child gets a copy of the descriptors, of the
\* list and of the locals.
Fork(c) ==
  /\ hostUp
  /\ pc[c] = "fork" /\ ForkAllowed
  /\ stage' = [stage EXCEPT ![c] = "forked"]
  /\ cfds' = [cfds EXCEPT ![c] = fds]
  /\ clist' = [clist EXCEPT ![c] = fdsForClose]
  /\ cpipe' = [cpipe EXCEPT ![c] = [s \in Slot |-> pipe[<<c, s>>]]]
  /\ pc' = [pc EXCEPT ![c] = "closeStdinR"]
  /\ UNCHANGED <<hostUp, fds, fdsForClose, mtx, pipe, wpc, result, held, sawEof,
                 dataVars, job>>

ForkFails(c) ==
  /\ hostUp
  /\ pc[c] = "fork" /\ ForkAllowed
  /\ pc' = [pc EXCEPT ![c] = AfterFailure]
  /\ UNCHANGED <<hostUp, fds, fdsForClose, mtx, pipe, wpc, result, procVars,
                 dataVars, job>>

\* Read: a chunk of the command's output.
ReadChunk(c) ==
  /\ hostUp
  /\ pc[c] = "read" /\ outBuf[c] > 0
  /\ outBuf' = [outBuf EXCEPT ![c] = @ - 1]
  /\ output' = [output EXCEPT ![c] = @ + 1]
  /\ UNCHANGED <<hostUp, hostVars, result, procVars, unsent, inBuf, failed, job>>

\* A system call of call c returns -1: a signal without SA_RESTART, or for waitpid
\* also a SIGCHLD that the application ignores.  Nothing looks at errno.
Returns(c, call) == failed' = [failed EXCEPT ![c] = @ \cup {call}]
otherData == <<unsent, output, inBuf, outBuf>>

\* Read: end of file, once nobody holds the write end.
ReadEof(c) ==
  /\ hostUp
  /\ pc[c] = "read" /\ AtEof(c)
  /\ pc' = [pc EXCEPT ![c] = "closeStdoutR"]
  /\ UNCHANGED <<hostUp, fds, fdsForClose, mtx, pipe, wpc, result, procVars,
                 dataVars, job>>

\* read returns -1, which ends the loop like an end of file.
ReadFails(c) ==
  /\ hostUp
  /\ pc[c] = "read" /\ Returns(c, "read")
  /\ pc' = [pc EXCEPT ![c] = "closeStdoutR"]
  /\ UNCHANGED <<hostUp, fds, fdsForClose, mtx, pipe, wpc, result, procVars,
                 otherData, job>>

\* waitpid.
Reap(c) ==
  /\ hostUp
  /\ pc[c] = "wait" /\ stage[c] \in {"exitedOk", "exitedBad"}
  /\ stage' = [stage EXCEPT ![c] = IF @ = "exitedOk" THEN "reapedOk" ELSE "reapedBad"]
  /\ pc' = [pc EXCEPT ![c] = "join"]
  /\ UNCHANGED <<hostUp, fds, fdsForClose, mtx, pipe, wpc, result, cfds, clist,
                 cpipe, held, sawEof, dataVars, job>>

\* waitpid returns -1, and status is not written.
WaitFails(c) ==
  /\ hostUp
  /\ pc[c] = "wait" /\ Returns(c, "waitpid")
  /\ pc' = [pc EXCEPT ![c] = "join"]
  /\ UNCHANGED <<hostUp, fds, fdsForClose, mtx, pipe, wpc, result, procVars,
                 otherData, job>>

\* What status says; one that was not written says anything.
Statuses(c) ==
  IF "waitpid" \in failed[c] THEN {"true", "false"}
  ELSE IF stage[c] = "reapedOk" THEN {"true"} ELSE {"false"}

\* writeAsync.join(): PipeCall returns, its destructors find every slot closed.
Join(c) ==
  /\ hostUp
  /\ pc[c] = "join" /\ wpc[c] = "exited"
  /\ pc' = [pc EXCEPT ![c] = "done"]
  /\ \E r \in Statuses(c) : result' = [result EXCEPT ![c] = r]
  /\ UNCHANGED <<hostUp, fds, fdsForClose, mtx, pipe, wpc, procVars, dataVars,
                 job>>

\* After a failure, once the destructors have closed what was open.
Fail(c) ==
  /\ hostUp
  /\ pc[c] = "unwind"
  /\ \A s \in Slot : pipe[<<c, s>>] = NoFd
  /\ pc' = [pc EXCEPT ![c] = "done"]
  /\ result' = [result EXCEPT ![c] = "false"]
  /\ UNCHANGED <<hostUp, fds, fdsForClose, mtx, pipe, wpc, procVars, dataVars,
                 job>>

-----------------------------------------------------------------------------
(* The thread that runs Write.                                             *)

WriteChunk(c) ==
  /\ hostUp
  /\ wpc[c] = "write" /\ MoreToWrite(c)
  /\ Held(<<c, StdinR>>) /\ inBuf[c] < PipeCapacity
  /\ inBuf' = [inBuf EXCEPT ![c] = @ + 1]
  /\ unsent' = [unsent EXCEPT ![c] = @ - 1]
  /\ UNCHANGED <<hostUp, hostVars, result, procVars, output, outBuf, failed, job>>

\* write returns 0 once everything is written.
WriteEnds(c) ==
  /\ hostUp
  /\ wpc[c] = "write" /\ ~MoreToWrite(c)
  /\ wpc' = [wpc EXCEPT ![c] = "close"]
  /\ UNCHANGED <<hostUp, fds, fdsForClose, mtx, pipe, pc, result, procVars,
                 dataVars, job>>

\* write returns -1 though the pipe can be read.
WriteFails(c) ==
  /\ hostUp
  /\ wpc[c] = "write" /\ MoreToWrite(c) /\ Returns(c, "write")
  /\ wpc' = [wpc EXCEPT ![c] = "close"]
  /\ UNCHANGED <<hostUp, fds, fdsForClose, mtx, pipe, pc, result, procVars,
                 otherData, job>>

\* Nobody can read the pipe any more: write fails, or SIGPIPE ends the process.
WriteBroken(c) ==
  /\ hostUp
  /\ wpc[c] = "write" /\ MoreToWrite(c) /\ ~Held(<<c, StdinR>>)
  /\ IF SigpipeIgnored
     THEN wpc' = [wpc EXCEPT ![c] = "close"] /\ UNCHANGED hostUp
     ELSE hostUp' = FALSE /\ UNCHANGED wpc
  /\ UNCHANGED <<fds, fdsForClose, mtx, pipe, pc, result, procVars, dataVars,
                 job>>

-----------------------------------------------------------------------------
(* The child, from fork to execvp: it runs alone in its copy of the process, *)
(* so others see only which descriptors it holds when it becomes the command. *)

\* The three dup2, in order; p holds the numbers of pipeStdin and pipeStdout.
Redirected(table, p) ==
  LET in  == [table EXCEPT ![0] = table[p[StdinR]]]
      out == [in EXCEPT ![1] = in[p[StdoutW]]]
  IN  [out EXCEPT ![2] = out[1]]

\* The descriptors in nums are closed.
Without(table, nums) == [f \in Fd |-> IF f \in nums THEN Free ELSE table[f]]

\* Redirection, Pipe::Close of the four slots of this call (which takes them off
\* the child's list), then Pipe::CloseAll.
Prepared(table, list, p) ==
  LET own == {p[s] : s \in Slot}
  IN  Without(Without(Redirected(table, p), own), list \ own)

Moved(c, from, to) ==
  /\ stage[c] = from
  /\ stage' = [stage EXCEPT ![c] = to]

\* execvp succeeds.
Exec(c) ==
  /\ Moved(c, "forked", "running")
  /\ cfds' = [cfds EXCEPT ![c] = Prepared(@, clist[c], cpipe[c])]
  /\ clist' = [clist EXCEPT ![c] = {}]
  /\ cpipe' = [cpipe EXCEPT ![c] = NoPipes]
  /\ UNCHANGED <<hostUp, hostVars, result, held, sawEof, dataVars, job>>

\* The process ends and the kernel closes what it held.
Exits(c, from, to) ==
  /\ Moved(c, from, to)
  /\ cfds' = [cfds EXCEPT ![c] = Empty]
  /\ clist' = [clist EXCEPT ![c] = {}]
  /\ cpipe' = [cpipe EXCEPT ![c] = NoPipes]
  /\ UNCHANGED <<hostUp, hostVars, result, held, sawEof, dataVars, job>>

\* execvp fails (no such command): _exit(EXIT_FAILURE).
ExecFails(c) == Exits(c, "forked", "exitedBad")

-----------------------------------------------------------------------------
(* The command.                                                            *)

ProgRead(c) ==
  /\ stage[c] = "running" /\ job[c].prog = "cat" /\ held[c] = 0
  /\ cfds[c][0] = <<c, StdinR>> /\ inBuf[c] > 0
  /\ inBuf' = [inBuf EXCEPT ![c] = @ - 1]
  /\ held' = [held EXCEPT ![c] = 1]
  /\ UNCHANGED <<hostUp, hostVars, result, stage, cfds, clist, cpipe, sawEof,
                 unsent, output, outBuf, failed, job>>

ProgEof(c) ==
  /\ stage[c] = "running" /\ job[c].prog = "cat" /\ held[c] = 0 /\ ~sawEof[c]
  /\ cfds[c][0] = <<c, StdinR>> /\ inBuf[c] = 0 /\ ~Held(<<c, StdinW>>)
  /\ sawEof' = [sawEof EXCEPT ![c] = TRUE]
  /\ UNCHANGED <<hostUp, hostVars, result, stage, cfds, clist, cpipe, held,
                 dataVars, job>>

ProgWrite(c) ==
  /\ stage[c] = "running" /\ held[c] > 0
  /\ cfds[c][1] = <<c, StdoutW>> /\ outBuf[c] < PipeCapacity /\ Held(<<c, StdoutR>>)
  /\ outBuf' = [outBuf EXCEPT ![c] = @ + 1]
  /\ held' = [held EXCEPT ![c] = @ - 1]
  /\ UNCHANGED <<hostUp, hostVars, result, stage, cfds, clist, cpipe, sawEof,
                 unsent, output, inBuf, failed, job>>

ProgExit(c) ==
  /\ held[c] = 0 /\ (job[c].prog = "cat" => sawEof[c])
  /\ Exits(c, "running", "exitedOk")

\* Nobody reads its output any more: SIGPIPE, or a failed write.
ProgBroken(c) ==
  /\ held[c] > 0 /\ ~Held(<<c, StdoutR>>)
  /\ Exits(c, "running", "exitedBad")

\* The command gives up with an error status, or a signal ends it.
ProgFails(c) == Exits(c, "running", "exitedBad")

-----------------------------------------------------------------------------
CallerStep(c) ==
  \/ \E s \in {"stdin", "stdout"} : CreateOpen(c, s) \/ CreateList(c, s)
  \/ Fork(c) \/ ReadChunk(c) \/ ReadEof(c) \/ Reap(c) \/ Join(c) \/ Fail(c)
  \/ \E s \in Slot : CloseFd(<<c, "caller">>, s) \/ CloseErase(<<c, "caller">>, s)

WriterStep(c) ==
  \/ WriteChunk(c) \/ WriteEnds(c) \/ WriteBroken(c)
  \/ \E s \in Slot : CloseFd(<<c, "writer">>, s) \/ CloseErase(<<c, "writer">>, s)

ChildStep(c) ==
  \/ Exec(c) \/ ProgRead(c) \/ ProgEof(c) \/ ProgWrite(c) \/ ProgExit(c)
  \/ ProgBroken(c)

Failure(c) ==
  \/ "pipe" \in job[c].fails /\ CreateFails(c)
  \/ "fork" \in job[c].fails /\ ForkFails(c)
  \/ "execvp" \in job[c].fails /\ ExecFails(c)
  \/ "command" \in job[c].fails /\ ProgFails(c)
  \/ "read" \in job[c].fails /\ ReadFails(c)
  \/ "write" \in job[c].fails /\ WriteFails(c)
  \/ "waitpid" \in job[c].fails /\ WaitFails(c)

Next == \E c \in Call : CallerStep(c) \/ WriterStep(c) \/ ChildStep(c) \/ Failure(c)

\* Every thread and every child is scheduled; nothing is said of the failures.
Fairness == \A c \in Call : WF_vars(CallerStep(c)) /\ WF_vars(WriterStep(c)) /\ WF_vars(ChildStep(c))

Spec == Init /\ [][Next]_vars /\ Fairness

-----------------------------------------------------------------------------
(* Properties.                                                             *)

\* Types of the variables of PipeCall, of its kernel objects and of the children.
TypeOK ==
  /\ hostUp \in BOOLEAN
  /\ fds \in [Fd -> Owner] /\ fdsForClose \subseteq Fd
  /\ mtx \in Worker \cup {NoWorker}
  /\ pipe \in [End -> Fd \cup {NoFd}]
  /\ pc \in [Call -> CallerAt] /\ wpc \in [Call -> WriterAt] /\ stage \in [Call -> ChildAt]
  /\ cfds \in [Call -> [Fd -> Owner]] /\ clist \in [Call -> SUBSET Fd]
  /\ cpipe \in [Call -> [Slot -> Fd \cup {NoFd}]]
  /\ job \in [Call -> Job] /\ sawEof \in [Call -> BOOLEAN] /\ unsent \in [Call -> Nat]
  /\ output \in [Call -> Nat] /\ held \in [Call -> Nat]
  /\ inBuf \in [Call -> Nat] /\ outBuf \in [Call -> Nat]
  /\ failed \in [Call -> SUBSET {"read", "write", "waitpid"}]
  /\ result \in [Call -> {"none", "true", "false"}]

\* A command starts with the two pipes of its own call as standard streams and
\* with no other pipe end of any call, whatever the other threads were doing
\* when its process was forked (the comment on fdsForClose).
OnlyOwnEnds ==
  \A c \in Call : stage[c] = "running" =>
    /\ cfds[c][0] = <<c, StdinR>> /\ cfds[c][1] = <<c, StdoutW>> /\ cfds[c][2] = <<c, StdoutW>>
    /\ \A f \in Fd \ {0, 1, 2} : cfds[c][f] \notin End

\* Whenever mtx is free, the list names exactly the descriptors of pipes that
\* are open: a number is never left behind for a descriptor that was reused,
\* and erase is never called on an iterator at the end.
ListMatchesTable ==
  mtx = NoWorker => fdsForClose = {f \in Fd : fds[f] \in End}

\* The slot e is being closed: close(2) was called and the slot still names the number.
BeingClosed(e) ==
  \E k \in {"caller", "writer"} : mtx = <<e[1], k>> /\ AtClose(<<e[1], k>>, e[2])

\* A slot that is not -1 names the descriptor of its own end, so that Close
\* never hits a descriptor that another thread obtained meanwhile.
SlotsValid ==
  \A e \in End : pipe[e] # NoFd /\ ~BeingClosed(e) => fds[pipe[e]] = e

\* On every path out of PipeCall, the failed ones included, the pipes of the
\* call are closed, its writer has ended and its child has been waited for, unless
\* waitpid itself failed: nothing then waits for the child again.
ReturnLeavesNothing ==
  \A c \in Call : pc[c] = "done" =>
    /\ \A f \in Fd : fds[f] \notin {c} \X Slot
    /\ wpc[c] \in {"none", "exited"}
    /\ "waitpid" \notin failed[c] => stage[c] \in {"none", "reapedOk", "reapedBad"}

\* When PipeCall returns true for a command that copies its input, the output
\* is the whole input (pipe_call_cat_with_really_large_stdin in PipeCallTest), unless
\* a read, write or waitpid of this call was interrupted, which the code takes for an
\* end or leaves without a status; those of other calls do it no harm.
TrueMeansComplete ==
  \A c \in Call : result[c] = "true" /\ job[c].prog = "cat" /\ failed[c] = {} =>
                   output[c] = job[c].size

Progress == \E c \in Call : CallerStep(c) \/ WriterStep(c) \/ ChildStep(c)

\* As long as a call has not returned, some thread or child can take a step
\* that is no failure: no reader waits for an end of file that a sibling's
\* child holds back, and no writer and reader wait for each other.  No step is
\* ever undone, so that under Fairness every call returns.
CallsReturn == (\A c \in Call : pc[c] = "done") \/ ENABLED Progress
=============================================================================
