--------------------------- MODULE SanitizerLaunch ---------------------------
(***************************************************************************)
(* The life of the record buffer of checked kernels: DevMemManager, which  *)
(* owns it, __sanitizer_init and __sanitizer_finalize, and the hooks of    *)
(* the seven launch interfaces, which call both around the launch.  In a   *)
(* kernel compiled for the sanitizer the compiler calls both as well,      *)
(* around the launch as the application wrote it (<<<>>>).  DevMemManager  *)
(* is thread_local, so a behaviour is what one thread does, and all that   *)
(* runs beside it is the kernel on the device.                             *)
(*                                                                         *)
(* Buffers are numbered in the order of their allocation, and a number is  *)
(* not used again, so that a pointer to freed memory is seen to be one.    *)
(* The layout of a buffer is RecordLayout's.                               *)
(***************************************************************************)
EXTENDS Naturals, Sequences

CONSTANTS Device,       \* the devices the thread may set
          Size,         \* the sizes that checked kernels ask for
          MaxLaunch,    \* bound on the launches
          MayFail,      \* allocations, copies, launches, lookups may fail
          NoDevice      \* deviceId_ of a manager without a buffer

ASSUME SizeAssumption == Size # {} /\ Size \subseteq Nat \ {0, 1}
ASSUME BoundAssumption == MaxLaunch \in Nat /\ MayFail \in BOOLEAN
ASSUME DeviceAssumption == NoDevice \notin Device

Null == 0               \* the null pointer
SkipSize == 1           \* the megabyte of SkipKernelProcess

-----------------------------------------------------------------------------
(* The launch interfaces differ in what their hooks do:                     *)
(*   "updates": SanitizerPre sets the skip flag and also calls              *)
(*              __sanitizer_init for a kernel that is not to be checked     *)
(*   "clears":  SanitizerPost clears the init flag for such a kernel        *)
(*   "always":  Post does its work also after a launch that failed          *)
(*   "dbiFirst": the kernel is instrumented before there is a buffer        *)
(*   "lookup":  SanitizerPost may not find what it needs, and returns       *)
(*   "bypass":  the arguments may be such that the hook does nothing        *)
(*   "compiled": <<<>>> comes down to it, as the comments on "clears" say   *)

RtKernelLaunch == {"updates", "clears", "always", "dbiFirst", "lookup", "compiled"}
RtKernelLaunchWithFlagV2 == {"updates", "always", "dbiFirst", "bypass"}
RtKernelLaunchWithHandleV2 == {"updates", "always", "dbiFirst", "bypass"}
AclrtLaunchKernel == {"updates", "clears", "lookup", "bypass", "compiled"}
AclrtLaunchKernelV2 == {"clears", "lookup", "bypass"}
AclrtLaunchKernelWithConfig == {"clears", "lookup", "bypass", "compiled"}
AclrtLaunchKernelWithHostArgs == {"clears", "lookup", "bypass", "compiled"}

Api == {RtKernelLaunch, RtKernelLaunchWithFlagV2, RtKernelLaunchWithHandleV2,
        AclrtLaunchKernel, AclrtLaunchKernelV2, AclrtLaunchKernelWithConfig,
        AclrtLaunchKernelWithHostArgs}

\* static: the compiler instrumented the kernel; skip: SkipSanitizer says not to
\* check it; sink: it is launched on a stream that is being captured.
Launch == {l \in [api : Api, static : BOOLEAN, skip : BOOLEAN, sink : BOOLEAN,
                  size : Size] :
              l.static => "compiled" \in l.api}

VARIABLES
    device,     \* the device of the thread
    mem,        \* DevMemManager: memPtr_, memSize_, deviceId_ and the two flags
    buf,        \* the buffers so far
    nr,         \* how many launches there were
    cur,        \* the last of them, a record of Launch (any before the first)
    pc,         \* how far it is
    cptr,       \* what the compiler's __sanitizer_init returned
    hptr,       \* memInfo_ of the hook
    kernel,     \* the kernel of the launch
    reads,      \* the buffers finalize read in this launch, in order
    trouble     \* what went wrong in this launch

launchVars == <<nr, cur, cptr, hptr, kernel, reads, trouble>>
vars == <<device, mem, buf, pc, launchVars>>

Init ==
    /\ device \in Device
    /\ mem = [ptr |-> Null, size |-> 0, device |-> NoDevice,
              init |-> FALSE, skip |-> FALSE]
    /\ buf = <<>> /\ nr = 0 /\ pc = "idle" /\ cur = (CHOOSE l \in Launch : TRUE)
    /\ cptr = Null /\ hptr = Null /\ kernel = "none"
    /\ reads = <<>> /\ trouble = {}

-----------------------------------------------------------------------------
(* DevMemManager and __sanitizer_init, as functions of a manager m and the  *)
(* buffers b to the set of their outcomes.                                  *)

FreedMem(m) == [m EXCEPT !.ptr = Null, !.size = 0, !.device = NoDevice]
FreedBuf_leaks(m, b) == b
FreedBuf(m, b) == IF m.ptr = Null THEN b ELSE [b EXCEPT ![m.ptr].live = FALSE]

Outcome(m, b, p) == [mem |-> m, buf |-> b, ptr |-> p]
Failure(m, b) ==
    IF MayFail THEN {Outcome(m, b, Null)} ELSE {}

Reusable(m, size) == m.device = device /\ m.size >= size

\* MallocMemory: aclrtGetDevice may fail, and aclrtMalloc, after the Free.
MallocMemory(m, b, size) ==
    Failure(m, b) \cup
    (IF Reusable(m, size) THEN {Outcome(m, b, m.ptr)}
     ELSE LET freed == FreedBuf(m, b)
              new == Append(freed, [live |-> TRUE, device |-> device, heads |-> 0,
                                    size |-> size])
              p == Len(new)
          IN  Failure(FreedMem(m), freed) \cup
              {Outcome([m EXCEPT !.ptr = p, !.size = size, !.device = device,
                                 !.init = FALSE], new, p)})

\* BlockHeadsH2D writes the heads anew also into a buffer that has some.
HeadsWritten_once(o) ==
    IF o.mem.init THEN o
    ELSE [o EXCEPT !.mem.init = TRUE, !.buf[o.ptr].heads = nr]
HeadsWritten_unset(o) == [o EXCEPT !.buf[o.ptr].heads = nr]
HeadsWritten(o) == [o EXCEPT !.mem.init = TRUE, !.buf[o.ptr].heads = nr]

\* SanitizerLaunchInit::Process and SkipKernelProcess.
SanitizerInit(m, b) ==
    IF m.skip THEN MallocMemory(m, b, SkipSize)
    ELSE Failure(m, b) \cup
         UNION {IF o.ptr = Null THEN {o}
                ELSE {HeadsWritten(o)} \cup Failure(FreedMem(o.mem), FreedBuf(o.mem, o.buf)) :
                    o \in MallocMemory(m, b, cur.size)}

\* __sanitizer_finalize reads the buffer p, if the init flag is set, and the
\* destructor of SanitizerLaunchFinalize clears the flag.
ReadFrom(p) == [live |-> buf[p].live, heads |-> buf[p].heads, ptr |-> p]
Finalizes(p) == mem.init /\ p # Null
InitAfterFinalize(p) == mem.init /\ ~Finalizes(p)
ReadsAfterFinalize(p) == IF Finalizes(p) THEN Append(reads, ReadFrom(p)) ELSE reads

-----------------------------------------------------------------------------
(* The application.                                                         *)

\* aclrtSetDevice; the hook only reports it.
SetDevice(d) ==
    /\ pc = "idle" /\ d # device
    /\ device' = d
    /\ UNCHANGED <<mem, buf, pc, launchVars>>

\* The hooks of rtDeviceReset, rtDeviceResetEx and aclrtResetDevice free the
\* buffer before the reset.
ResetDevice ==
    /\ pc = "idle" /\ mem.ptr # Null
    /\ mem' = FreedMem(mem) /\ buf' = FreedBuf(mem, buf)
    /\ kernel' = IF kernel = "running" THEN "ended" ELSE kernel
    /\ UNCHANGED <<device, pc, nr, cur, cptr, hptr, reads, trouble>>

BeginLaunch(l) ==
    /\ pc = "idle" /\ nr < MaxLaunch
    /\ nr' = nr + 1 /\ cur' = l
    /\ pc' = IF l.static THEN "compilerInit" ELSE "pre"
    /\ cptr' = Null /\ hptr' = Null /\ kernel' = "none"
    /\ reads' = <<>> /\ trouble' = {}
    /\ UNCHANGED <<device, mem, buf>>

\* What the compiler put before the launch.  Nobody has said yet whether this
\* kernel is to be skipped.
CompilerInit ==
    /\ pc = "compilerInit"
    /\ pc' = "pre"
    /\ \E o \in SanitizerInit(mem, buf) :
          /\ mem' = o.mem /\ buf' = o.buf /\ cptr' = o.ptr
          /\ trouble' = (IF o.ptr = Null THEN {"init"} ELSE {})
                        \cup (IF mem.skip # cur.skip THEN {"staleSkip"} ELSE {})
    /\ UNCHANGED <<device, nr, cur, hptr, kernel, reads>>

-----------------------------------------------------------------------------
(* A hook.                                                                  *)

\* InitParam finds no context for the function, or the arguments are null.
PreBypassed ==
    /\ pc = "pre" /\ MayFail /\ "bypass" \in cur.api
    /\ trouble' = trouble \cup {"bypassed"}
    /\ pc' = "call"
    /\ UNCHANGED <<device, mem, buf, nr, cur, cptr, hptr, kernel, reads>>

\* SetSkipKernelFlag.
SkipFlag == IF "updates" \in cur.api THEN cur.skip ELSE mem.skip

\* SanitizerPre returns before __sanitizer_init.
NoInit == IF cur.skip THEN "updates" \notin cur.api ELSE cur.sink

PreWithoutInit ==
    /\ pc = "pre" /\ NoInit
    /\ mem' = [mem EXCEPT !.skip = SkipFlag]
    /\ pc' = "call"
    /\ UNCHANGED <<device, buf, launchVars>>

\* The binary or its sections are not found once the kernel is instrumented.
PreGivesUp ==
    /\ pc = "pre" /\ MayFail /\ "dbiFirst" \in cur.api /\ ~cur.skip /\ ~cur.sink
    /\ mem' = [mem EXCEPT !.skip = SkipFlag]
    /\ trouble' = trouble \cup {"init"}
    /\ pc' = "call"
    /\ UNCHANGED <<device, buf, nr, cur, cptr, hptr, kernel, reads>>

PreInit ==
    /\ pc = "pre" /\ ~NoInit
    /\ \E o \in SanitizerInit([mem EXCEPT !.skip = SkipFlag], buf) :
          /\ mem' = o.mem /\ buf' = o.buf /\ hptr' = o.ptr
          /\ trouble' = trouble
                \cup (IF o.ptr = Null THEN {"init"} ELSE {})
                \cup (IF SkipFlag # cur.skip THEN {"staleSkip"} ELSE {})
    /\ pc' = "call"
    /\ UNCHANGED <<device, nr, cur, cptr, kernel, reads>>

\* The interface itself launches the kernel, or fails.
CallSucceeds ==
    /\ pc = "call"
    /\ kernel' = IF cur.sink THEN "captured" ELSE "running"
    /\ pc' = IF "bypassed" \in trouble THEN "compilerFinalize" ELSE "sync"
    /\ UNCHANGED <<device, mem, buf, nr, cur, cptr, hptr, reads, trouble>>

CallFails ==
    /\ pc = "call" /\ MayFail
    /\ trouble' = trouble \cup {"launch"}
    /\ pc' = IF "always" \in cur.api /\ "bypassed" \notin trouble
             THEN "sync" ELSE "compilerFinalize"
    /\ UNCHANGED <<device, mem, buf, nr, cur, cptr, hptr, kernel, reads>>

\* The kernel comes to its end on the device.
KernelEnds ==
    /\ kernel = "running"
    /\ kernel' = "ended"
    /\ UNCHANGED <<device, mem, buf, pc, nr, cur, cptr, hptr, reads, trouble>>

\* SanitizerPost waits for the stream, unless the kernel is skipped or there is
\* no buffer.
Waits_never == FALSE
Waits == ~cur.skip /\ (cur.sink \/ hptr # Null)

Sync ==
    /\ pc = "sync" /\ (Waits => kernel # "running")
    /\ pc' = "post"
    /\ UNCHANGED <<device, mem, buf, launchVars>>

InitAfterSkip ==
    IF cur.skip /\ "clears" \in cur.api THEN FALSE ELSE mem.init

PostUnchecked ==
    /\ pc = "post" /\ (cur.skip \/ cur.sink \/ hptr = Null)
    /\ mem' = [FreedMem(mem) EXCEPT !.init = InitAfterSkip]
    /\ buf' = FreedBuf(mem, buf)
    /\ pc' = "compilerFinalize"
    /\ UNCHANGED <<device, launchVars>>

\* For a checked kernel: __sanitizer_finalize and Free.
PostChecked ==
    /\ pc = "post" /\ ~cur.skip /\ ~cur.sink /\ hptr # Null
    /\ reads' = ReadsAfterFinalize(hptr)
    /\ mem' = [FreedMem(mem) EXCEPT !.init = InitAfterFinalize(hptr)]
    /\ buf' = FreedBuf(mem, buf)
    /\ pc' = "compilerFinalize"
    /\ UNCHANGED <<device, nr, cur, cptr, hptr, kernel, trouble>>

\* The section headers or the launch event are not found: SanitizerPost
\* returns, and Free follows.
PostGivesUp ==
    /\ pc = "post" /\ ~cur.skip /\ ~cur.sink /\ hptr # Null
    /\ MayFail /\ "lookup" \in cur.api
    /\ trouble' = trouble \cup {"lookup"}
    /\ mem' = FreedMem(mem) /\ buf' = FreedBuf(mem, buf)
    /\ pc' = "compilerFinalize"
    /\ UNCHANGED <<device, nr, cur, cptr, hptr, kernel, reads>>

\* What the compiler put after the launch.
CompilerFinalize ==
    /\ pc = "compilerFinalize"
    /\ IF cur.static
       THEN /\ reads' = ReadsAfterFinalize(cptr)
            /\ mem' = [mem EXCEPT !.init = InitAfterFinalize(cptr)]
       ELSE UNCHANGED <<reads, mem>>
    /\ pc' = "idle"
    /\ UNCHANGED <<device, buf, nr, cur, cptr, hptr, kernel, trouble>>

-----------------------------------------------------------------------------
Hook == \/ PreBypassed \/ PreWithoutInit \/ PreGivesUp \/ PreInit
        \/ CallSucceeds \/ CallFails \/ Sync
        \/ PostUnchecked \/ PostChecked \/ PostGivesUp

Next == \/ (\E d \in Device : SetDevice(d)) \/ ResetDevice
        \/ (\E l \in Launch : BeginLaunch(l))
        \/ CompilerInit \/ Hook \/ CompilerFinalize \/ KernelEnds

Spec == Init /\ [][Next]_vars

-----------------------------------------------------------------------------
(* What must hold.                                                          *)

Buffer == [live : BOOLEAN, device : Device, heads : Nat, size : Size \cup {SkipSize}]
Trouble == {"init", "bypassed", "staleSkip", "launch", "lookup"}

\* The types of the variables; a manager without a buffer has no size or device.
TypeOK ==
    /\ device \in Device
    /\ mem.ptr \in 0..Len(buf) /\ mem.init \in BOOLEAN /\ mem.skip \in BOOLEAN
    /\ IF mem.ptr = Null THEN mem.size = 0 /\ mem.device = NoDevice
       ELSE mem.size = buf[mem.ptr].size /\ mem.device = buf[mem.ptr].device
    /\ buf \in Seq(Buffer)
    /\ nr \in 0..MaxLaunch /\ cur \in Launch
    /\ pc \in {"idle", "compilerInit", "pre", "call", "sync", "post",
               "compilerFinalize"}
    /\ cptr \in 0..Len(buf) /\ hptr \in 0..Len(buf)
    /\ kernel \in {"none", "running", "captured", "ended"}
    /\ reads \in Seq([live : BOOLEAN, heads : Nat, ptr : 1..Len(buf)])
    /\ trouble \subseteq Trouble

\* The manager always holds the one buffer that is allocated, so that none is
\* lost on any path, nor freed twice (MallocMemory, Free).
NoLeak == \A p \in 1..Len(buf) : buf[p].live <=> p = mem.ptr

\* While a checked kernel runs, the buffer its hook made for it stays
\* allocated, on the device the kernel runs on: Post waits for the stream
\* before it frees anything, and a buffer left by a launch that failed is not
\* taken over on another device.
KernelBufferStays ==
    kernel = "running" /\ ~cur.skip /\ hptr # Null =>
        buf[hptr].live /\ buf[hptr].device = device

\* A launch is reported at most once, although the hook and the compiler both
\* finalize, and from a buffer that is allocated and was prepared for this
\* launch, if nothing went wrong, or nothing but the launch of a checked kernel.
\* (A compiled kernel on a captured stream is read by the compiler's finalize
\* after the hook's Free.)
ReportsAreFresh ==
    /\ Len(reads) <= 1
    /\ (\/ trouble = {} /\ (cur.sink => cur.skip)
        \/ trouble = {"launch"} /\ ~cur.skip /\ ~cur.sink) =>
          \A i \in 1..Len(reads) : reads[i].live /\ reads[i].heads = nr

\* A checked kernel that was launched in order is reported when the launch
\* returns to the application.
CheckedIsReported ==
    (/\ pc = "idle" /\ nr > 0 /\ trouble = {}
     /\ ~cur.skip /\ ~cur.sink) =>
        Len(reads) = 1 /\ reads[1].ptr = hptr

=============================================================================
