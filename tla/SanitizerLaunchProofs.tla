------------------------ MODULE SanitizerLaunchProofs ------------------------
(***************************************************************************)
(* Proofs about the launch of a checked kernel.  First SanitizerLaunch,    *)
(* for any devices, sizes and number of launches: its types, that the      *)
(* manager never loses nor doubly frees a buffer, and that the buffer of a *)
(* checked kernel stays while it runs.  Then RecordLayout, what the hooks  *)
(* write into that buffer: its blocks are apart and within what is         *)
(* allocated.                                                              *)
(***************************************************************************)
EXTENDS SanitizerLaunch, RecordLayout, SequenceTheorems, TLAPS

Manager == [ptr : Nat, size : Nat, device : Device \cup {NoDevice},
            init : BOOLEAN, skip : BOOLEAN]

\* A manager and the buffers there are: it has the one that is allocated.
Owns(m, b) ==
    /\ m \in Manager /\ b \in Seq(Buffer)
    /\ m.ptr \in 0..Len(b)
    /\ m.ptr = Null => m.size = 0 /\ m.device = NoDevice
    /\ m.ptr # Null => m.size = b[m.ptr].size /\ m.device = b[m.ptr].device
    /\ \A p \in 1..Len(b) : b[p].live <=> p = m.ptr

\* An outcome of an allocation from m and b: the pointer is the manager's
\* buffer, on the device of the thread, or null.
Allocated(o, m, b) ==
    /\ Owns(o.mem, o.buf)
    /\ Len(o.buf) >= Len(b)
    /\ o.ptr \in 0..Len(o.buf)
    /\ o.ptr # Null => o.ptr = o.mem.ptr /\ o.mem.device = device

-----------------------------------------------------------------------------
(* DevMemManager.                                                           *)

\* A buffer with another field is a buffer.
LEMMA BufferFields ==
    ASSUME NEW x \in Buffer, NEW n \in Nat
    PROVE  [x EXCEPT !.live = FALSE] \in Buffer /\ [x EXCEPT !.heads = n] \in Buffer
BY DEF Buffer

\* Free leaves the manager without a buffer and every buffer freed.
LEMMA FreeOwns ==
    ASSUME NEW m, NEW b, Owns(m, b)
    PROVE  /\ Owns(FreedMem(m), FreedBuf(m, b))
           /\ Len(FreedBuf(m, b)) = Len(b)
           /\ FreedMem(m).ptr = Null
<1> DEFINE fm == FreedMem(m)
           fb == FreedBuf(m, b)
<1>1. /\ fm \in Manager /\ fm.ptr = Null /\ fm.size = 0 /\ fm.device = NoDevice
  BY DEF Owns, Manager, FreedMem, Null
<1>2. CASE m.ptr = Null
  <2>1. fb = b
    BY <1>2 DEF FreedBuf
  <2> QED BY <1>1, <1>2, <2>1 DEF Owns, Null
<1>3. CASE m.ptr # Null
  <2>1. fb = [b EXCEPT ![m.ptr].live = FALSE]
    BY <1>3 DEF FreedBuf
  <2>2. m.ptr \in 1..Len(b) /\ b \in Seq(Buffer)
    BY <1>3 DEF Owns, Null
  <2> DEFINE e == [b[m.ptr] EXCEPT !.live = FALSE]
  <2>3. b[m.ptr] \in Buffer /\ 0 \in Nat
    BY <2>2
  <2>4. e \in Buffer
    BY <2>3, BufferFields
  <2>5. fb = [b EXCEPT ![m.ptr] = e]
    BY <2>1
  <2> HIDE DEF e
  <2>6. fb \in Seq(Buffer) /\ Len(fb) = Len(b)
    BY <2>2, <2>4, <2>5
  <2>7. \A p \in 1..Len(b) : ~fb[p].live
    BY <2>1, <2>2, <1>3 DEF Owns, Buffer
  <2> QED BY <1>1, <2>6, <2>7 DEF Owns, Null
<1> QED BY <1>2, <1>3

\* MallocMemory: the buffer that is there, a new one, or none.
LEMMA MallocOwns ==
    ASSUME NEW m, NEW b, Owns(m, b), device \in Device,
           NEW size \in Size \cup {SkipSize},
           NEW o \in MallocMemory(m, b, size)
    PROVE  Allocated(o, m, b)
<1> USE DEF Null
<1>1. device # NoDevice /\ size \in Nat
  BY DeviceAssumption, SizeAssumption DEF SkipSize
<1>2. CASE o \in Failure(m, b)
  <2>1. o = Outcome(m, b, Null)
    BY <1>2 DEF Failure
  <2> QED BY <2>1 DEF Outcome, Allocated, Owns
<1>3. CASE o \notin Failure(m, b) /\ Reusable(m, size)
  <2>1. o = Outcome(m, b, m.ptr)
    BY <1>3 DEF MallocMemory
  <2> QED BY <1>3, <2>1 DEF Outcome, Allocated, Owns, Reusable
<1>4. CASE o \notin Failure(m, b) /\ ~Reusable(m, size)
  <2> DEFINE fm == FreedMem(m)
             fb == FreedBuf(m, b)
             e == [live |-> TRUE, device |-> device, heads |-> 0, size |-> size]
             new == Append(fb, e)
             nm == [m EXCEPT !.ptr = Len(new), !.size = size, !.device = device,
                             !.init = FALSE]
  <2>1. Owns(fm, fb) /\ Len(fb) = Len(b) /\ fm.ptr = Null
    BY FreeOwns
  <2>2. o \in Failure(fm, fb) \cup {Outcome(nm, new, Len(new))}
    BY <1>4 DEF MallocMemory
  <2>3. CASE o \in Failure(fm, fb)
    <3>1. o = Outcome(fm, fb, Null)
      BY <2>3 DEF Failure
    <3> QED BY <2>1, <3>1 DEF Outcome, Allocated, Owns
  <2>4. CASE o = Outcome(nm, new, Len(new))
    <3>1. e \in Buffer
      BY DEF Buffer
    <3>2. fb \in Seq(Buffer)
      BY <2>1 DEF Owns
    <3>3. /\ new \in Seq(Buffer) /\ Len(new) = Len(b) + 1
          /\ new[Len(new)] = e /\ \A p \in 1..Len(b) : new[p] = fb[p]
      BY <2>1, <3>1, <3>2
    <3>4. Len(b) \in Nat
      BY DEF Owns
    <3>5. /\ nm \in Manager /\ nm.ptr = Len(new) /\ nm.size = size
          /\ nm.device = device
      <4> HIDE DEF new
    <4>1. m \in Manager /\ Len(new) \in Nat
      BY <3>3, <3>4 DEF Owns
    <4> QED BY <1>1, <4>1 DEF Manager
    <3>6. \A p \in 1..Len(new) : new[p].live <=> p = nm.ptr
      BY <2>1, <3>3, <3>4, <3>5 DEF Owns
    <3>7. Owns(nm, new)
      BY <3>3, <3>4, <3>5, <3>6 DEF Owns
    <3> HIDE DEF nm, new
    <3> QED BY <2>4, <3>3, <3>4, <3>5, <3>7 DEF Outcome, Allocated
  <2> QED BY <2>2, <2>3, <2>4
<1> QED BY <1>2, <1>3, <1>4

\* Writing the heads leaves the ownership as it is.
LEMMA HeadsOwn ==
    ASSUME NEW m, NEW b, NEW o, Allocated(o, m, b), o.ptr # Null, nr \in Nat,
           o = Outcome(o.mem, o.buf, o.ptr)
    PROVE  Allocated(HeadsWritten(o), m, b)
<1> USE DEF Null
<1> DEFINE h == HeadsWritten(o)
<1>1. o.ptr \in 1..Len(o.buf) /\ o.buf \in Seq(Buffer) /\ o.ptr = o.mem.ptr
  BY DEF Allocated, Owns
<1>2. /\ h.mem = [o.mem EXCEPT !.init = TRUE]
      /\ h.buf = [o.buf EXCEPT ![o.ptr].heads = nr]
      /\ h.ptr = o.ptr
  BY DEF HeadsWritten, Outcome
<1> DEFINE e == [o.buf[o.ptr] EXCEPT !.heads = nr]
<1>3. o.buf[o.ptr] \in Buffer
  BY <1>1
<1>4. e \in Buffer
  BY <1>3, BufferFields
<1>5. h.buf = [o.buf EXCEPT ![o.ptr] = e]
  BY <1>2
<1>6. h.buf \in Seq(Buffer) /\ Len(h.buf) = Len(o.buf)
  <2> HIDE DEF e, h
  <2> QED BY <1>1, <1>4, <1>5
<1>7. \A p \in 1..Len(o.buf) : /\ h.buf[p].live = o.buf[p].live
                               /\ h.buf[p].size = o.buf[p].size
                               /\ h.buf[p].device = o.buf[p].device
  BY <1>1, <1>2 DEF Buffer
<1>8. h.mem \in Manager /\ h.mem.ptr = o.mem.ptr /\ h.mem.size = o.mem.size
      /\ h.mem.device = o.mem.device
  BY <1>2 DEF Manager, Allocated, Owns
<1>9. Owns(h.mem, h.buf)
  BY SMTT(20), <1>1, <1>6, <1>7, <1>8 DEF Allocated, Owns
<1> QED BY <1>2, <1>6, <1>8, <1>9 DEF Allocated

\* __sanitizer_init, for any kernel.
LEMMA InitOwns ==
    ASSUME NEW m, NEW b, Owns(m, b), device \in Device, nr \in Nat,
           cur.size \in Size, NEW o \in SanitizerInit(m, b)
    PROVE  Allocated(o, m, b)
<1> USE DEF Null
<1>1. CASE m.skip
  BY <1>1, MallocOwns DEF SanitizerInit
<1>2. CASE ~m.skip /\ o \in Failure(m, b)
  BY <1>2 DEF Failure, Outcome, Allocated, Owns
<1>3. CASE ~m.skip /\ o \notin Failure(m, b)
  <2>1. PICK a \in MallocMemory(m, b, cur.size) :
            o \in (IF a.ptr = Null THEN {a}
                   ELSE {HeadsWritten(a)} \cup
                        Failure(FreedMem(a.mem), FreedBuf(a.mem, a.buf)))
    BY <1>3 DEF SanitizerInit
  <2>2. Allocated(a, m, b)
    BY MallocOwns
  <2>3. a = Outcome(a.mem, a.buf, a.ptr)
    BY DEF MallocMemory, Failure, Outcome
  <2>4. CASE a.ptr = Null
    BY <2>1, <2>2, <2>4
  <2>5. CASE a.ptr # Null /\ o = HeadsWritten(a)
    BY <2>2, <2>3, <2>5, HeadsOwn
  <2>6. CASE o \in Failure(FreedMem(a.mem), FreedBuf(a.mem, a.buf))
    <3>1. o = Outcome(FreedMem(a.mem), FreedBuf(a.mem, a.buf), Null)
      BY <2>6 DEF Failure
    <3>2. /\ Owns(FreedMem(a.mem), FreedBuf(a.mem, a.buf))
          /\ Len(FreedBuf(a.mem, a.buf)) = Len(a.buf)
      BY <2>2, FreeOwns DEF Allocated
    <3>3. Len(a.buf) \in Nat /\ Len(a.buf) >= Len(b)
      BY <2>2 DEF Allocated, Owns
    <3> QED BY <3>1, <3>2, <3>3 DEF Outcome, Allocated
  <2> QED BY <2>1, <2>4, <2>5, <2>6
<1> QED BY <1>1, <1>2, <1>3

-----------------------------------------------------------------------------
(* The invariant.                                                           *)

\* Where a launch is, and what its hook has by then: no buffer before its init,
\* the manager's up to the wait for the stream, and behind the wait no kernel
\* runs that has one.
BufferByPc ==
    /\ pc \in {"compilerInit", "pre"} =>
          hptr = Null /\ kernel = "none" /\ "bypassed" \notin trouble
    /\ pc = "call" => kernel = "none"
    /\ "bypassed" \in trouble => hptr = Null
    /\ pc \in {"call", "sync"} /\ hptr # Null =>
          mem.ptr = hptr /\ mem.device = device
    /\ kernel = "running" /\ ~cur.skip /\ hptr # Null => pc = "sync"

\* The types of what Owns does not tell.
Types ==
    /\ device \in Device
    /\ nr \in 0..MaxLaunch /\ cur \in Launch
    /\ pc \in {"idle", "compilerInit", "pre", "call", "sync", "post",
               "compilerFinalize"}
    /\ kernel \in {"none", "running", "captured", "ended"}
    /\ trouble \subseteq Trouble

\* Pointers that were handed out, and what was read through them.
Pointers ==
    /\ cptr \in 0..Len(buf) /\ hptr \in 0..Len(buf)
    /\ reads \in Seq([live : BOOLEAN, heads : Nat, ptr : 1..Len(buf)])

IInv == Types /\ Owns(mem, buf) /\ Pointers /\ BufferByPc

\* What the properties need of it.
LEMMA IInvImplies == IInv => TypeOK /\ NoLeak /\ KernelBufferStays
<1> SUFFICES ASSUME IInv PROVE TypeOK /\ NoLeak /\ KernelBufferStays
  OBVIOUS
<1>1. TypeOK
  BY DEF IInv, Types, Owns, Manager, Pointers, TypeOK, Null
<1>2. NoLeak
  BY DEF IInv, Owns, NoLeak
<1>3. KernelBufferStays
  <2> SUFFICES ASSUME kernel = "running", ~cur.skip, hptr # Null
               PROVE  buf[hptr].live /\ buf[hptr].device = device
    BY DEF KernelBufferStays
  <2>1. mem.ptr = hptr /\ mem.device = device
    BY DEF IInv, BufferByPc
  <2> QED BY <2>1 DEF IInv, Owns, Pointers, Null
<1> QED BY <1>1, <1>2, <1>3

\* It holds before the first launch.
LEMMA InitIInv == Init => IInv
<1> SUFFICES ASSUME Init PROVE IInv
  OBVIOUS
<1> USE DEF Init, Null
<1>1. cur \in Launch
  <2>1. PICK s \in Size : TRUE
    BY SizeAssumption
  <2> DEFINE l == [api |-> RtKernelLaunch, static |-> FALSE, skip |-> FALSE,
                   sink |-> FALSE, size |-> s]
  <2>2. l \in Launch
    BY <2>1 DEF Launch, Api
  <2> QED BY <2>2
<1>2. Types
  BY <1>1, BoundAssumption DEF Types
<1>3. Owns(mem, buf)
  BY DEF Owns, Manager
<1>4. Pointers
  BY DEF Pointers
<1>5. BufferByPc
  BY DEF BufferByPc
<1> QED BY <1>2, <1>3, <1>4, <1>5 DEF IInv

\* Pointers stay what they are when buffers are added.
LEMMA PointersGrow ==
    ASSUME Pointers, buf \in Seq(Buffer), buf' \in Seq(Buffer),
           Len(buf') >= Len(buf), cptr' = cptr \/ cptr' \in 0..Len(buf'),
           hptr' = hptr \/ hptr' \in 0..Len(buf'),
           reads' = reads \/ reads' = <<>>
    PROVE  Pointers'
<1>1. Len(buf) \in Nat /\ Len(buf') \in Nat
  OBVIOUS
<1> DEFINE R == [live : BOOLEAN, heads : Nat, ptr : 1..Len(buf)]
           Q == [live : BOOLEAN, heads : Nat, ptr : 1..Len(buf')]
<1>2. R \subseteq Q
  BY <1>1
<1>3. reads \in Seq(R)
  BY DEF Pointers
<1>4. reads' \in Seq(Q)
  <2> HIDE DEF R, Q
  <2>1. /\ Len(reads) \in Nat /\ \A i \in 1..Len(reads) : reads[i] \in Q
        /\ reads = [i \in 1..Len(reads) |-> reads[i]]
    BY <1>2, <1>3
  <2>2. [i \in 1..Len(reads) |-> reads[i]] \in Seq(Q)
    BY <2>1
  <2>3. reads \in Seq(Q) /\ <<>> \in Seq(Q)
    <3>1. reads \in Seq(Q)
      BY <2>1, <2>2, Zenon
    <3> QED BY <3>1
  <2> QED BY <2>3, Zenon
<1> QED BY <1>1, <1>4 DEF Pointers

\* A finalize adds at most one reading, through a pointer that was handed out.
LEMMA PointersRead ==
    ASSUME Pointers, buf \in Seq(Buffer), buf' \in Seq(Buffer),
           Len(buf') = Len(buf), UNCHANGED <<cptr, hptr>>,
           NEW p \in {cptr, hptr}, reads' = ReadsAfterFinalize(p)
    PROVE  Pointers'
<1> DEFINE R == [live : BOOLEAN, heads : Nat, ptr : 1..Len(buf)]
<1>1. reads \in Seq(R)
  BY DEF Pointers
<1>2. CASE Finalizes(p)
  <2>1. p \in 1..Len(buf)
    BY <1>2 DEF Finalizes, Pointers, Null
  <2>2. buf[p] \in Buffer
    BY <2>1
  <2>3. ReadFrom(p) \in R
    BY <2>1, <2>2 DEF ReadFrom, Buffer
  <2>4. reads' \in Seq(R)
    <3> HIDE DEF R
    <3> QED BY <1>1, <1>2, <2>3 DEF ReadsAfterFinalize
  <2> QED BY <2>4 DEF Pointers
<1>3. CASE ~Finalizes(p)
  BY <1>1, <1>3 DEF Pointers, ReadsAfterFinalize
<1> QED BY <1>2, <1>3

-----------------------------------------------------------------------------
(* Every step keeps it.  The actions that leave the manager alone first.    *)

\* Nothing that a pointer leads to has changed.
LEMMA QuietStep ==
    ASSUME IInv, UNCHANGED <<mem, buf, cptr, hptr, reads>>, Types', BufferByPc'
    PROVE  IInv'
BY DEF IInv, Owns, Pointers

\* aclrtSetDevice between launches, and the start of a launch.
LEMMA ApplicationKeeps ==
    ASSUME IInv,
           \/ \E d \in Device : SetDevice(d)
           \/ \E l \in Launch : BeginLaunch(l)
    PROVE  IInv'
<1>1. CASE \E d \in Device : SetDevice(d)
  <2>1. Types' /\ BufferByPc'
    BY <1>1 DEF IInv, SetDevice, launchVars, Types, BufferByPc
  <2> QED BY <1>1, <2>1, QuietStep DEF SetDevice, launchVars
<1>2. CASE \E l \in Launch : BeginLaunch(l)
  <2>1. Types'
    BY <1>2, BoundAssumption DEF IInv, BeginLaunch, Types, Trouble
  <2>2. BufferByPc'
    BY <1>2 DEF IInv, BeginLaunch, BufferByPc, Null
  <2>3. Owns(mem, buf)'
    BY <1>2 DEF IInv, BeginLaunch, Owns
  <2>4. Pointers'
    <3>1. buf \in Seq(Buffer) /\ Len(buf) \in Nat /\ 0 \in 0..Len(buf)
      BY DEF IInv, Owns
    <3> QED BY <1>2, <3>1, PointersGrow DEF IInv, BeginLaunch, Null
  <2> QED BY <2>1, <2>2, <2>3, <2>4 DEF IInv
<1> QED BY <1>1, <1>2

\* The hook around the launch itself, and the kernel on the device.
LEMMA QuietHookKeeps ==
    ASSUME IInv,
           PreBypassed \/ CallSucceeds \/ CallFails \/ KernelEnds \/ Sync
    PROVE  IInv'
<1>1. CASE PreBypassed
  <2>1. Types' /\ BufferByPc'
    BY <1>1 DEF IInv, PreBypassed, Types, BufferByPc, Trouble
  <2> QED BY <1>1, <2>1, QuietStep DEF PreBypassed
<1>2. CASE CallSucceeds
  <2>1. Types' /\ BufferByPc'
    BY <1>2 DEF IInv, CallSucceeds, Types, BufferByPc
  <2> QED BY <1>2, <2>1, QuietStep DEF CallSucceeds
<1>3. CASE CallFails
  <2>1. Types' /\ BufferByPc'
    BY <1>3 DEF IInv, CallFails, Types, BufferByPc, Trouble
  <2> QED BY <1>3, <2>1, QuietStep DEF CallFails
<1>4. CASE KernelEnds
  <2>1. Types' /\ BufferByPc'
    BY <1>4 DEF IInv, KernelEnds, Types, BufferByPc
  <2> QED BY <1>4, <2>1, QuietStep DEF KernelEnds
<1>5. CASE Sync
  <2>1. Types' /\ BufferByPc'
    BY <1>5 DEF IInv, Sync, Waits, launchVars, Types, BufferByPc
  <2> QED BY <1>5, <2>1, QuietStep DEF Sync, launchVars
<1> QED BY <1>1, <1>2, <1>3, <1>4, <1>5

\* Setting a flag of the manager is no matter of ownership.
LEMMA FlagsOwn ==
    ASSUME NEW m, NEW b, Owns(m, b), NEW i \in BOOLEAN
    PROVE  /\ Owns([m EXCEPT !.init = i], b)
           /\ Owns([m EXCEPT !.skip = i], b)
BY DEF Owns, Manager

\* SanitizerPre that sets the skip flag and makes no buffer.
LEMMA PreFlagKeeps ==
    ASSUME IInv, PreWithoutInit \/ PreGivesUp
    PROVE  IInv'
<1>1. SkipFlag \in BOOLEAN
  BY DEF IInv, Types, Owns, Manager, Launch, SkipFlag
<1>2. Owns(mem, buf)'
  <2>1. mem' = [mem EXCEPT !.skip = SkipFlag] /\ buf' = buf
    BY DEF PreWithoutInit, PreGivesUp
  <2> QED BY <1>1, <2>1, FlagsOwn DEF IInv
<1>3. Types'
  BY DEF IInv, PreWithoutInit, PreGivesUp, launchVars, Types, Trouble
<1>4. Pointers'
  BY DEF IInv, PreWithoutInit, PreGivesUp, launchVars, Pointers
<1>5. BufferByPc'
  BY DEF IInv, PreWithoutInit, PreGivesUp, launchVars, BufferByPc
<1> QED BY <1>2, <1>3, <1>4, <1>5 DEF IInv

-----------------------------------------------------------------------------
(* Those that allocate.                                                     *)

\* The __sanitizer_init of the compiler.
LEMMA CompilerInitKeeps == ASSUME IInv, CompilerInit PROVE IInv'
<1>1. PICK o \in SanitizerInit(mem, buf) :
          /\ mem' = o.mem /\ buf' = o.buf /\ cptr' = o.ptr
          /\ trouble' = (IF o.ptr = Null THEN {"init"} ELSE {})
                        \cup (IF mem.skip # cur.skip THEN {"staleSkip"} ELSE {})
  BY DEF CompilerInit
<1>2. Allocated(o, mem, buf)
  BY InitOwns DEF IInv, Types, Launch
<1>3. Owns(mem, buf)'
  BY <1>1, <1>2 DEF Allocated, Owns
<1>4. Types'
  BY <1>1 DEF IInv, CompilerInit, Types, Trouble
<1>5. Pointers'
  BY <1>1, <1>2, <1>3, PointersGrow DEF IInv, CompilerInit, Allocated, Owns
<1>6. BufferByPc'
  BY <1>1 DEF IInv, CompilerInit, BufferByPc
<1> QED BY <1>3, <1>4, <1>5, <1>6 DEF IInv

\* The __sanitizer_init of the hook: its pointer is the manager's from here to
\* the wait for the stream.
LEMMA PreInitKeeps == ASSUME IInv, PreInit PROVE IInv'
<1> DEFINE m == [mem EXCEPT !.skip = SkipFlag]
<1>1. PICK o \in SanitizerInit(m, buf) :
          /\ mem' = o.mem /\ buf' = o.buf /\ hptr' = o.ptr
          /\ trouble' = trouble
                \cup (IF o.ptr = Null THEN {"init"} ELSE {})
                \cup (IF SkipFlag # cur.skip THEN {"staleSkip"} ELSE {})
  BY DEF PreInit
<1>2. SkipFlag \in BOOLEAN
  BY DEF IInv, Types, Owns, Manager, Launch, SkipFlag
<1>3. Owns(m, buf)
  BY <1>2, FlagsOwn DEF IInv
<1> HIDE DEF m
<1>4. Allocated(o, m, buf)
  BY <1>3, InitOwns DEF IInv, Types, Launch
<1>5. Owns(mem, buf)'
  BY <1>1, <1>4 DEF Allocated, Owns
<1>6. Types'
  BY <1>1 DEF IInv, PreInit, Types, Trouble
<1>7. Pointers'
  BY <1>1, <1>4, <1>5, PointersGrow DEF IInv, PreInit, Allocated, Owns
<1>8. BufferByPc'
  BY <1>1, <1>4 DEF IInv, PreInit, BufferByPc, Allocated
<1> QED BY <1>5, <1>6, <1>7, <1>8 DEF IInv

-----------------------------------------------------------------------------
(* Those that free.                                                         *)

\* The manager freed, with any init flag, after the wait.
LEMMA FreeKeeps ==
    ASSUME IInv, NEW i \in BOOLEAN,
           mem' = FreedMem(mem) \/ mem' = [FreedMem(mem) EXCEPT !.init = i],
           buf' = FreedBuf(mem, buf)
    PROVE  Owns(mem, buf)' /\ Len(buf') = Len(buf)
<1>1. /\ Owns(FreedMem(mem), FreedBuf(mem, buf))
      /\ Len(FreedBuf(mem, buf)) = Len(buf)
  BY FreeOwns DEF IInv
<1>2. Owns([FreedMem(mem) EXCEPT !.init = i], FreedBuf(mem, buf))
  BY <1>1, FlagsOwn
<1> QED BY <1>1, <1>2

\* rtDeviceReset and its like, between launches.
LEMMA ResetKeeps == ASSUME IInv, ResetDevice PROVE IInv'
<1>1. Owns(mem, buf)' /\ Len(buf') = Len(buf)
  BY FreeKeeps DEF ResetDevice
<1>2. Pointers'
  BY <1>1 DEF IInv, ResetDevice, Pointers
<1>3. Types' /\ BufferByPc'
  BY DEF IInv, ResetDevice, Types, BufferByPc
<1> QED BY <1>1, <1>2, <1>3 DEF IInv

\* Every way through SanitizerPost ends in a Free.
LEMMA PostKeeps ==
    ASSUME IInv, PostUnchecked \/ PostChecked \/ PostGivesUp
    PROVE  IInv'
<1>1. mem.init \in BOOLEAN /\ InitAfterSkip \in BOOLEAN
      /\ InitAfterFinalize(hptr) \in BOOLEAN
  BY DEF IInv, Owns, Manager, InitAfterSkip, InitAfterFinalize
<1>2. Owns(mem, buf)' /\ Len(buf') = Len(buf)
  <2>1. CASE PostUnchecked
    BY <1>1, <2>1, FreeKeeps DEF PostUnchecked
  <2>2. CASE PostChecked
    BY <1>1, <2>2, FreeKeeps DEF PostChecked
  <2>3. CASE PostGivesUp
    BY <2>3, FreeKeeps DEF PostGivesUp
  <2> QED BY <2>1, <2>2, <2>3
<1>3. Pointers'
  <2>1. CASE PostChecked
    <3>1. buf \in Seq(Buffer) /\ buf' \in Seq(Buffer)
      BY <1>2 DEF IInv, Owns
    <3> QED BY <1>2, <2>1, <3>1, PointersRead DEF IInv, PostChecked
  <2>2. CASE PostUnchecked \/ PostGivesUp
    BY <1>2, <2>2 DEF IInv, PostUnchecked, PostGivesUp, launchVars, Pointers
  <2> QED BY <2>1, <2>2
<1>4. Types' /\ BufferByPc'
  BY DEF IInv, PostUnchecked, PostChecked, PostGivesUp, launchVars, Types,
         BufferByPc, Trouble
<1> QED BY <1>2, <1>3, <1>4 DEF IInv

\* The __sanitizer_finalize of the compiler reads and frees nothing.
LEMMA CompilerFinalizeKeeps == ASSUME IInv, CompilerFinalize PROVE IInv'
<1>1. InitAfterFinalize(cptr) \in BOOLEAN
  BY DEF IInv, Owns, Manager, InitAfterFinalize
<1>2. Owns(mem, buf)'
  <2>1. Owns([mem EXCEPT !.init = InitAfterFinalize(cptr)], buf)
    BY <1>1, FlagsOwn DEF IInv
  <2> QED BY <2>1 DEF IInv, CompilerFinalize
<1>3. Pointers'
  <2>1. CASE cur.static
    BY <2>1, PointersRead DEF IInv, CompilerFinalize, Owns
  <2>2. CASE ~cur.static
    BY <2>2 DEF IInv, CompilerFinalize, Pointers
  <2> QED BY <2>1, <2>2
<1>4. Types' /\ BufferByPc'
  BY DEF IInv, CompilerFinalize, Types, BufferByPc
<1> QED BY <1>2, <1>3, <1>4 DEF IInv

-----------------------------------------------------------------------------
\* IInv is inductive: it holds in every reachable state.
THEOREM Inductive == Spec => []IInv
<1>1. IInv /\ [Next]_vars => IInv'
  <2> SUFFICES ASSUME IInv, [Next]_vars PROVE IInv'
    OBVIOUS
  <2>1. CASE UNCHANGED vars
    BY <2>1 DEF vars, launchVars, IInv, Types, Owns, Pointers, BufferByPc
  <2>2. CASE Next
    BY <2>2, ApplicationKeeps, QuietHookKeeps, PreFlagKeeps, CompilerInitKeeps,
       PreInitKeeps, ResetKeeps, PostKeeps, CompilerFinalizeKeeps DEF Next, Hook
  <2> QED BY <2>1, <2>2
<1> QED BY <1>1, InitIInv, PTL DEF Spec

\* The types are right in every reachable state: a manager without a buffer has
\* neither size nor device, and one with a buffer has the buffer's.
THEOREM TypeCorrect == Spec => []TypeOK
BY Inductive, IInvImplies, PTL

\* Whatever fails between MallocMemory and Free, the buffer that is allocated is
\* the manager's and no other is: none is lost, none freed twice.
THEOREM NothingLeaks == Spec => []NoLeak
BY Inductive, IInvImplies, PTL

\* Post waits for the stream before it frees: the buffer of a checked kernel is
\* allocated, on its device, as long as the kernel runs.
THEOREM BufferOutlivesKernel == Spec => []KernelBufferStays
BY Inductive, IInvImplies, PTL

-----------------------------------------------------------------------------
(* What is reported.  The properties of the reports are about the end of a  *)
(* launch; what makes them hold is what its beginning has prepared.         *)

\* The pointer p is to the manager's buffer, with the heads of this launch.
Prepared(p) == p # Null /\ p = mem.ptr /\ mem.init /\ buf[p].heads = nr

ReadsFresh == \A i \in 1..Len(reads) : reads[i].live /\ reads[i].heads = nr

Checked == ~cur.skip /\ ~cur.sink

\* Before the hook: a compiled kernel for which all went well so far has the
\* manager's buffer, and the hook's init will take the same.
BeforeHook ==
    /\ pc = "compilerInit" => cur.static /\ reads = <<>> /\ trouble = {}
    /\ pc = "pre" =>
          /\ reads = <<>> /\ trouble \subseteq {"init", "staleSkip"}
          /\ cur.static /\ ~cur.skip /\ trouble = {} =>
                Prepared(cptr) /\ mem.device = device /\ mem.size >= cur.size

\* From the hook's init to its finalize.
InHook ==
    pc \in {"call", "sync", "post"} =>
        /\ reads = <<>>
        /\ pc # "call" => "bypassed" \notin trouble
        /\ ~cur.skip /\ hptr # Null /\ "staleSkip" \notin trouble => Prepared(hptr)
        /\ Checked /\ trouble \subseteq {"launch"} =>
              hptr # Null /\ (cur.static => cptr = hptr)

\* Between the hook and the compiler's finalize, which must not read again.
AfterHook ==
    pc = "compilerFinalize" =>
        /\ Len(reads) <= 1 /\ (reads # <<>> => ~mem.init)
        /\ cur.skip => reads = <<>>
        /\ cur.skip /\ cur.static /\ trouble = {} => ~mem.init
        /\ Checked /\ trouble = {} =>
              ~mem.init /\ Len(reads) = 1 /\ reads[1].ptr = hptr
        /\ Checked /\ trouble \subseteq {"launch"} =>
              /\ ReadsFresh
              /\ cur.static /\ mem.init => buf[cptr].live /\ buf[cptr].heads = nr

Reported == pc = "idle" => ReportsAreFresh /\ CheckedIsReported

Reports == BeforeHook /\ InHook /\ AfterHook /\ Reported

\* What __sanitizer_init returns for a kernel that is to be checked: the
\* manager's buffer with the heads of this launch, and the one that was there if
\* it would do.
LEMMA InitPrepares ==
    ASSUME NEW m, NEW b, Owns(m, b), ~m.skip, device \in Device, nr \in Nat,
           cur.size \in Size, NEW o \in SanitizerInit(m, b), o.ptr # Null
    PROVE  /\ o.ptr = o.mem.ptr /\ o.mem.init /\ o.buf[o.ptr].heads = nr
           /\ o.mem.device = device /\ o.mem.size >= cur.size
           /\ Reusable(m, cur.size) => o.ptr = m.ptr
<1> USE DEF Null
<1>1. PICK a \in MallocMemory(m, b, cur.size) : a.ptr # Null /\ o = HeadsWritten(a)
  <2>1. o \notin Failure(m, b)
    BY DEF Failure, Outcome
  <2>2. PICK a \in MallocMemory(m, b, cur.size) :
            o \in (IF a.ptr = Null THEN {a}
                   ELSE {HeadsWritten(a)} \cup
                        Failure(FreedMem(a.mem), FreedBuf(a.mem, a.buf)))
    BY <2>1 DEF SanitizerInit
  <2>3. a.ptr # Null
    BY <2>2
  <2>4. o \notin Failure(FreedMem(a.mem), FreedBuf(a.mem, a.buf))
    BY DEF Failure, Outcome
  <2> QED BY <2>2, <2>3, <2>4
<1>2. Allocated(a, m, b) /\ cur.size \in Nat /\ m \in Manager
  BY MallocOwns, SizeAssumption DEF Owns
<1>3. a.ptr = a.mem.ptr /\ a.mem.device = device /\ a.ptr \in 1..Len(a.buf)
      /\ a.buf \in Seq(Buffer) /\ a.mem \in Manager
  BY <1>1, <1>2 DEF Allocated, Owns
<1>4. a.mem.size >= cur.size /\ (Reusable(m, cur.size) => a.ptr = m.ptr)
  <2>1. a \notin Failure(m, b)
    BY <1>1 DEF Failure, Outcome
  <2>2. CASE Reusable(m, cur.size)
    <3>1. a = Outcome(m, b, m.ptr)
      BY <2>1, <2>2 DEF MallocMemory
    <3> QED BY <2>2, <3>1 DEF Outcome, Reusable
  <2>3. CASE ~Reusable(m, cur.size)
    <3>1. a \notin Failure(FreedMem(m), FreedBuf(m, b))
      BY <1>1 DEF Failure, Outcome
    <3>2. PICK new : a = Outcome([m EXCEPT !.ptr = Len(new), !.size = cur.size,
                                  !.device = device, !.init = FALSE], new, Len(new))
      BY <2>1, <2>3, <3>1 DEF MallocMemory
    <3>3. a.mem.size = cur.size
      BY <1>2, <3>2 DEF Outcome, Manager
    <3> QED BY <1>2, <2>3, <3>3
  <2> QED BY <2>2, <2>3
<1>5. a = Outcome(a.mem, a.buf, a.ptr)
  BY DEF MallocMemory, Failure, Outcome
<1>6. o.mem = [a.mem EXCEPT !.init = TRUE] /\ o.buf = [a.buf EXCEPT ![a.ptr].heads = nr]
      /\ o.ptr = a.ptr
  BY <1>1, <1>5 DEF HeadsWritten, Outcome
<1>7. o.mem.ptr = a.mem.ptr /\ o.mem.init /\ o.mem.device = a.mem.device
      /\ o.mem.size = a.mem.size
  BY <1>3, <1>6 DEF Manager
<1>8. o.buf[o.ptr].heads = nr
  BY <1>3, <1>6 DEF Buffer
<1> QED BY <1>3, <1>4, <1>6, <1>7, <1>8

-----------------------------------------------------------------------------
(* Every step keeps Reports.                                                *)

\* The device is set or reset, a launch begins, the kernel ends, the wait ends.
LEMMA QuietReports ==
    ASSUME IInv, Reports,
           \/ (\E d \in Device : SetDevice(d)) \/ ResetDevice
           \/ (\E l \in Launch : BeginLaunch(l)) \/ KernelEnds \/ Sync
    PROVE  Reports'
<1>1. CASE (\E d \in Device : SetDevice(d)) \/ ResetDevice
  <2>1. pc = "idle" /\ UNCHANGED <<pc, nr, cur, hptr, reads, trouble>>
    BY <1>1 DEF SetDevice, ResetDevice, launchVars
  <2> QED BY <2>1 DEF Reports, BeforeHook, InHook, AfterHook, Reported, ReportsAreFresh,
                      CheckedIsReported
<1>2. CASE \E l \in Launch : BeginLaunch(l)
  <2>1. pc' \in {"compilerInit", "pre"} /\ reads' = <<>> /\ trouble' = {}
        /\ cur'.static = (pc' = "compilerInit")
    BY <1>2 DEF BeginLaunch, Launch
  <2> QED BY <2>1 DEF Reports, BeforeHook, InHook, AfterHook, Reported
<1>3. CASE KernelEnds
  <2>1. UNCHANGED <<device, mem, buf, pc, nr, cur, cptr, hptr, reads, trouble>>
    BY <1>3 DEF KernelEnds
  <2> QED BY <2>1 DEF Reports, BeforeHook, InHook, AfterHook, Reported, ReportsAreFresh,
                      CheckedIsReported, ReadsFresh, Prepared, Checked
<1>4. CASE Sync
  <2>1. /\ pc = "sync" /\ pc' = "post"
        /\ UNCHANGED <<device, mem, buf, nr, cur, cptr, hptr, reads, trouble>>
    BY <1>4 DEF Sync, launchVars
  <2> QED BY <2>1 DEF Reports, BeforeHook, InHook, AfterHook, Reported, Prepared, Checked
<1> QED BY <1>1, <1>2, <1>3, <1>4

\* The compiler's init prepares the buffer, or says what went wrong.
LEMMA CompilerInitReports == ASSUME IInv, Reports, CompilerInit PROVE Reports'
<1>1. PICK o \in SanitizerInit(mem, buf) :
          /\ mem' = o.mem /\ buf' = o.buf /\ cptr' = o.ptr
          /\ trouble' = (IF o.ptr = Null THEN {"init"} ELSE {})
                        \cup (IF mem.skip # cur.skip THEN {"staleSkip"} ELSE {})
  BY DEF CompilerInit
<1>2. pc' = "pre" /\ reads' = <<>> /\ UNCHANGED <<device, nr, cur>>
  BY DEF CompilerInit, Reports, BeforeHook
<1>3. ASSUME ~cur.skip, trouble' = {}
      PROVE  Prepared(cptr)' /\ mem'.device = device /\ mem'.size >= cur.size
  <2>1. o.ptr # Null /\ ~mem.skip
    BY <1>1, <1>3
  <2>2. Owns(mem, buf) /\ device \in Device /\ nr \in Nat /\ cur.size \in Size
    BY DEF IInv, Types, Launch
  <2>3. /\ o.ptr = o.mem.ptr /\ o.mem.init /\ o.buf[o.ptr].heads = nr
        /\ o.mem.device = device /\ o.mem.size >= cur.size
    BY <2>1, <2>2, InitPrepares
  <2> QED BY <1>1, <1>2, <2>1, <2>3 DEF Prepared
<1>4. trouble' \subseteq {"init", "staleSkip"}
  BY <1>1
<1> QED BY <1>2, <1>3, <1>4 DEF Reports, BeforeHook, InHook, AfterHook, Reported

\* The hook's, after which a buffer that is at hand is the launch's own.
LEMMA PreInitReports == ASSUME IInv, Reports, PreInit PROVE Reports'
<1> DEFINE m == [mem EXCEPT !.skip = SkipFlag]
<1>1. PICK o \in SanitizerInit(m, buf) :
          /\ mem' = o.mem /\ buf' = o.buf /\ hptr' = o.ptr
          /\ trouble' = trouble
                \cup (IF o.ptr = Null THEN {"init"} ELSE {})
                \cup (IF SkipFlag # cur.skip THEN {"staleSkip"} ELSE {})
  BY DEF PreInit
<1>2. /\ pc = "pre" /\ pc' = "call" /\ reads' = <<>> /\ UNCHANGED <<device, nr, cur, cptr>>
      /\ trouble \subseteq {"init", "staleSkip"}
  BY DEF PreInit, Reports, BeforeHook
<1>3. SkipFlag \in BOOLEAN /\ cur.skip \in BOOLEAN /\ mem \in Manager
  BY DEF IInv, Types, Owns, Manager, Launch, SkipFlag
<1>4. Owns(m, buf) /\ m.skip = SkipFlag /\ m.device = mem.device /\ m.size = mem.size
      /\ m.ptr = mem.ptr
  BY <1>3, FlagsOwn DEF IInv, Manager
<1> HIDE DEF m
<1>5. device \in Device /\ nr \in Nat /\ cur.size \in Size
  BY DEF IInv, Types, Launch
<1>6. ASSUME ~cur.skip, hptr' # Null, "staleSkip" \notin trouble'
      PROVE  Prepared(hptr)' /\ (Reusable(m, cur.size) => hptr' = mem.ptr)
  <2>1. o.ptr # Null /\ ~m.skip
    BY <1>1, <1>3, <1>4, <1>6
  <2>2. /\ o.ptr = o.mem.ptr /\ o.mem.init /\ o.buf[o.ptr].heads = nr
        /\ Reusable(m, cur.size) => o.ptr = m.ptr
    BY <1>4, <1>5, <2>1, InitPrepares
  <2> QED BY <1>1, <1>2, <1>4, <2>1, <2>2 DEF Prepared
<1>7. ASSUME Checked, trouble' \subseteq {"launch"}
      PROVE  hptr' # Null /\ (cur.static => cptr = hptr')
  <2>1. trouble = {} /\ trouble' = {}
    BY <1>1, <1>2, <1>7
  <2>2. hptr' # Null
    BY <1>1, <2>1
  <2>3. ASSUME cur.static PROVE cptr = hptr'
    <3>1. cptr = mem.ptr /\ mem.device = device /\ mem.size >= cur.size
      BY <1>2, <1>7, <2>1, <2>3 DEF Checked, Reports, BeforeHook, Prepared
    <3>2. Reusable(m, cur.size)
      BY <1>4, <3>1 DEF Reusable
    <3> QED BY <1>6, <1>7, <2>1, <2>2, <3>1, <3>2 DEF Checked
  <2> QED BY <2>2, <2>3
<1>8. InHook'
  BY <1>2, <1>6, <1>7 DEF InHook, Checked
<1> QED BY <1>2, <1>8 DEF Reports, BeforeHook, AfterHook, Reported

\* The hook's other ways to the launch.
LEMMA PreReports ==
    ASSUME IInv, Reports, PreBypassed \/ PreWithoutInit \/ PreGivesUp
    PROVE  Reports'
<1>1. /\ pc = "pre" /\ pc' = "call" /\ reads' = <<>> /\ hptr' = Null /\ cur' = cur
      /\ (cur.skip \/ cur.sink \/ "bypassed" \in trouble' \/ "init" \in trouble')
  BY DEF IInv, BufferByPc, Reports, BeforeHook, PreBypassed, PreWithoutInit, PreGivesUp,
         NoInit, launchVars
<1>2. InHook'
  BY <1>1 DEF InHook, Checked
<1> QED BY <1>1, <1>2 DEF Reports, BeforeHook, AfterHook, Reported

\* The launch itself.
LEMMA CallReports ==
    ASSUME IInv, Reports, CallSucceeds \/ CallFails
    PROVE  Reports'
<1>1. /\ pc = "call" /\ UNCHANGED <<device, mem, buf, nr, cur, cptr, hptr, reads>>
      /\ reads = <<>> /\ pc' \in {"sync", "compilerFinalize"}
      /\ trouble \subseteq trouble'
      /\ pc' = "sync" => "bypassed" \notin trouble'
      /\ pc' = "compilerFinalize" => "bypassed" \in trouble' \/ "launch" \in trouble'
  BY DEF CallSucceeds, CallFails, Reports, InHook
<1>2. trouble' \subseteq {"launch"} => trouble \subseteq {"launch"}
  BY <1>1
<1>3. InHook'
  BY <1>1, <1>2 DEF Reports, InHook, Prepared, Checked
<1>4. AfterHook'
  <2>1. ASSUME Checked, trouble' \subseteq {"launch"}, cur.static, mem.init
        PROVE  buf[cptr].live /\ buf[cptr].heads = nr
    <3>1. hptr # Null /\ cptr = hptr /\ Prepared(hptr)
      BY <1>1, <1>2, <2>1 DEF Reports, InHook, Checked
    <3> QED BY <3>1 DEF IInv, Owns, Prepared, Null
  <2>2. Len(reads) = 0 /\ ReadsFresh'
    BY <1>1 DEF ReadsFresh
  <2>3. pc' = "compilerFinalize" => trouble' # {}
    BY <1>1
  <2> QED BY <1>1, <2>1, <2>2, <2>3 DEF AfterHook, Checked
<1> QED BY <1>1, <1>3, <1>4 DEF Reports, BeforeHook, Reported

\* The hook's finalize reads the buffer of the launch and clears the flag.
LEMMA PostReports ==
    ASSUME IInv, Reports, PostUnchecked \/ PostChecked \/ PostGivesUp
    PROVE  Reports'
<1>1. /\ pc = "post" /\ pc' = "compilerFinalize" /\ reads = <<>>
      /\ UNCHANGED <<nr, cur, cptr, hptr>> /\ mem \in Manager
      /\ cur.static => "clears" \in cur.api
  BY DEF PostUnchecked, PostChecked, PostGivesUp, launchVars, Reports, InHook, IInv, Owns,
         Types, Launch, Api, RtKernelLaunch, RtKernelLaunchWithFlagV2,
         RtKernelLaunchWithHandleV2, AclrtLaunchKernel, AclrtLaunchKernelV2,
         AclrtLaunchKernelWithConfig, AclrtLaunchKernelWithHostArgs
<1>2. CASE PostUnchecked
  <2>1. /\ UNCHANGED <<reads, trouble>> /\ (cur.skip \/ cur.sink \/ hptr = Null)
        /\ mem'.init = InitAfterSkip
    BY <1>1, <1>2 DEF PostUnchecked, launchVars, FreedMem, Manager
  <2>2. Checked => ~(trouble' \subseteq {"launch"})
    <3>1. Checked /\ trouble \subseteq {"launch"} => hptr # Null
      BY <1>1 DEF Reports, InHook
    <3>2. trouble' = trouble /\ (Checked => hptr = Null)
      BY <2>1 DEF Checked
    <3> QED BY <3>1, <3>2
  <2>3. cur.skip /\ cur.static => ~mem'.init
    BY <1>1, <2>1 DEF InitAfterSkip
  <2>4. Len(reads) = 0 /\ ReadsFresh'
    BY <1>1, <2>1 DEF ReadsFresh
  <2>5. AfterHook'
    <3>1. Checked' = Checked /\ reads' = <<>> /\ Len(reads') = 0
      BY <1>1, <2>1 DEF Checked
    <3>2. Checked' => ~(trouble' = {}) /\ ~(trouble' \subseteq {"launch"})
      BY <2>2, <3>1
    <3> QED BY <1>1, <2>3, <3>1, <3>2 DEF AfterHook
  <2> QED BY <1>1, <2>5 DEF Reports, BeforeHook, InHook, Reported
<1>3. CASE PostChecked
  <2>1. /\ Checked /\ hptr # Null /\ trouble' = trouble /\ reads' = ReadsAfterFinalize(hptr)
        /\ mem'.init = InitAfterFinalize(hptr)
    BY <1>1, <1>3 DEF PostChecked, Checked, FreedMem, Manager
  <2>2. ~mem'.init
    BY <1>1, <2>1 DEF InitAfterFinalize, Finalizes, Manager
  <2>3. Len(reads') <= 1
    BY <1>1, <2>1 DEF ReadsAfterFinalize
  <2>4. ASSUME trouble' \subseteq {"launch"}
        PROVE  /\ Len(reads') = 1 /\ reads'[1].ptr = hptr
               /\ reads'[1].live /\ reads'[1].heads = nr
    <3>1. Prepared(hptr)
      BY <1>1, <2>1, <2>4 DEF Checked, Reports, InHook
    <3>2. reads' = <<ReadFrom(hptr)>> /\ buf[hptr].live /\ buf[hptr].heads = nr
      <4>1. buf[hptr].live
        BY <3>1 DEF IInv, Owns, Prepared, Null
      <4> QED BY <1>1, <2>1, <3>1, <4>1 DEF ReadsAfterFinalize, Finalizes, Prepared
    <3> QED BY <3>2 DEF ReadFrom
  <2>5. trouble' \subseteq {"launch"} => ReadsFresh'
    BY <1>1, <2>4 DEF ReadsFresh
  <2> QED BY <1>1, <2>1, <2>2, <2>3, <2>4, <2>5
          DEF Reports, BeforeHook, InHook, AfterHook, Reported, Checked
<1>4. CASE PostGivesUp
  <2>1. reads' = reads /\ "lookup" \in trouble' /\ ~cur.skip
    BY <1>4 DEF PostGivesUp
  <2>2. Len(reads) = 0
    BY <1>1
  <2> QED BY <1>1, <2>1, <2>2 DEF Reports, BeforeHook, InHook, AfterHook, Reported
<1> QED BY <1>2, <1>3, <1>4

\* The compiler's finalize reads only what the hook's has not.
LEMMA CompilerFinalizeReports == ASSUME IInv, Reports, CompilerFinalize PROVE Reports'
<1>1. /\ pc = "compilerFinalize" /\ pc' = "idle" /\ UNCHANGED <<nr, cur, hptr, trouble>>
      /\ reads' = reads \/ (cur.static /\ mem.init /\ reads' = Append(reads, ReadFrom(cptr)))
  BY DEF CompilerFinalize, ReadsAfterFinalize, Finalizes
<1>2. CASE reads' = reads
  BY <1>1, <1>2 DEF Reports, BeforeHook, InHook, AfterHook, Reported, ReportsAreFresh,
                    CheckedIsReported, ReadsFresh, Checked
<1>3. CASE cur.static /\ mem.init /\ reads' = Append(reads, ReadFrom(cptr))
  <2>0. reads = <<>>
    BY <1>1, <1>3 DEF Reports, AfterHook
  <2>1. reads' = <<ReadFrom(cptr)>>
    BY <1>3, <2>0
  <2>2. ~(cur.skip /\ trouble = {}) /\ ~(Checked /\ trouble = {})
    BY <1>1, <1>3 DEF Reports, AfterHook
  <2>3. ASSUME Checked, trouble = {"launch"}
        PROVE  ReadFrom(cptr).live /\ ReadFrom(cptr).heads = nr
    BY <1>1, <1>3, <2>3 DEF Reports, AfterHook, ReadFrom
  <2>4. ReportsAreFresh' /\ CheckedIsReported'
    BY <1>1, <2>1, <2>2, <2>3 DEF ReportsAreFresh, CheckedIsReported, Checked
  <2> QED BY <1>1, <2>4 DEF Reports, BeforeHook, InHook, AfterHook, Reported
<1> QED BY <1>1, <1>2, <1>3

-----------------------------------------------------------------------------
\* Reports is inductive beside IInv.
THEOREM ReportsInductive == Spec => []Reports
<1>1. Init => Reports
  BY DEF Init, Reports, BeforeHook, InHook, AfterHook, Reported, ReportsAreFresh,
         CheckedIsReported
<1>2. IInv /\ Reports /\ [Next]_vars => Reports'
  <2> SUFFICES ASSUME IInv, Reports, [Next]_vars PROVE Reports'
    OBVIOUS
  <2>1. CASE UNCHANGED vars
    BY <2>1 DEF vars, launchVars, Reports, BeforeHook, InHook, AfterHook, Reported, Prepared,
                ReportsAreFresh, CheckedIsReported, ReadsFresh, Checked
  <2>2. CASE Next
    BY <2>2, QuietReports, CompilerInitReports, PreInitReports, PreReports, CallReports,
       PostReports, CompilerFinalizeReports DEF Next, Hook
  <2> QED BY <2>1, <2>2
<1> QED BY <1>1, <1>2, Inductive, PTL DEF Spec

\* The hook and the compiler both finalize, but a launch is reported at most
\* once, and from memory that was prepared for it and is still allocated.
THEOREM ReportsStayFresh == Spec => []ReportsAreFresh
<1>1. Reports /\ IInv => ReportsAreFresh
  <2> SUFFICES ASSUME Reports, IInv PROVE ReportsAreFresh
    OBVIOUS
  <2>1. pc \in {"idle", "compilerInit", "pre", "call", "sync", "post", "compilerFinalize"}
    BY DEF IInv, Types
  <2>2. CASE pc = "idle"
    BY <2>2 DEF Reports, Reported
  <2>3. CASE pc \in {"compilerInit", "pre", "call", "sync", "post"}
    BY <2>3 DEF Reports, BeforeHook, InHook, ReportsAreFresh
  <2>4. CASE pc = "compilerFinalize"
    BY <2>4 DEF Reports, AfterHook, ReportsAreFresh, ReadsFresh, Checked
  <2> QED BY <2>1, <2>2, <2>3, <2>4
<1> QED BY <1>1, ReportsInductive, Inductive, PTL

\* A checked kernel for which nothing went wrong has its one report, read from
\* the buffer its hook made, when the launch returns.
THEOREM EveryCheckedIsReported == Spec => []CheckedIsReported
<1>1. Reports => CheckedIsReported
  BY DEF Reports, Reported, CheckedIsReported
<1> QED BY <1>1, ReportsInductive, PTL

-----------------------------------------------------------------------------
(***************************************************************************)
(* The layout of the record buffer, for any configurations, any sizes of   *)
(* the heads and any number of blocks.  That the blocks are apart and end  *)
(* within the buffer follows from where the next block starts while the    *)
(* heads are written: behind the last block there is, and no further than  *)
(* the blocks so far may have used up of what is allocated.  That they are *)
(* apart needs GetBlockSize not to wrap, and WrappedOverlap shows that it  *)
(* does need it.                                                           *)
(***************************************************************************)


\* A launch as Config may have it.
Cfg(c) ==
    /\ c.cache \in Nat /\ c.check \in Nat \cup {-1} /\ c.blockDim \in 1..100
    /\ c.sub \in BOOLEAN /\ c.simt \in BOOLEAN /\ c.host \in Nat

\* How many of the first n blocks are to be checked.
WholeBefore(c, n) ==
    IF c.check = CheckAll THEN n
    ELSE (IF (IF c.sub THEN (c.check \div 2) * 3 + (c.check % 2) ELSE c.check) < n THEN 1 ELSE 0)
         + (IF c.sub /\ c.check * 3 + 2 < n THEN 1 ELSE 0)

\* What the first n blocks may use.
Used(c, n) == n * (HeadSize(c) + LinesPerMb) + WholeBefore(c, n) * ((c.cache - 1) * LinesPerMb)

LayoutOK ==
    /\ cfg \in Config
    /\ phase \in {"assign", "refused", "heads", "kernel", "read", "synced", "short", "broken",
                  "crashed"}
    /\ at \in Nat /\ start \in Seq(Nat)
    /\ sent \in Seq([from : Nat, simd : Nat])

\* Only an accepted launch has blocks, one more with each turn.
HeadsByPhase ==
    /\ phase = "assign" => start = <<>>
    /\ phase # "assign" /\ phase # "refused" => Accepted(cfg)
    /\ phase = "heads" => Len(start) < Blocks(cfg) /\ at <= GlobalHead + Used(cfg, Len(start))
    /\ start # <<>> => Accepted(cfg) /\ Len(start) <= Blocks(cfg)

\* The size of each of the first n blocks fits in what GetBlockSize returns.
Narrow(c, n) == \A i \in 0..(n - 1) : Share(c, i) < Width

\* As long as the sizes fit the blocks are apart, and so is the next one.
ApartIfNarrow ==
    /\ Narrow(cfg, Len(start) - 1) => Disjoint
    /\ phase = "heads" /\ Narrow(cfg, Len(start)) =>
          \A i \in 1..Len(start) : start[i] + Share(cfg, i - 1) <= at

\* Each block starts where GetBlockSize says the one before it ends.
Consecutive ==
    /\ \A i \in 1..(Len(start) - 1) : start[i + 1] = start[i] + GetBlockSize(cfg, i - 1)
    /\ phase = "heads" /\ start # <<>> =>
          at = start[Len(start)] + GetBlockSize(cfg, Len(start) - 1)

LayoutInv == LayoutOK /\ HeadsByPhase /\ InBuffer /\ ApartIfNarrow /\ Consecutive

-----------------------------------------------------------------------------
(* Lemmas about the sizes of a configuration.                               *)

\* Every size is a number of lines, and the heads have room.
LEMMA SizesAreNat ==
    ASSUME NEW c \in Config
    PROVE  /\ Cfg(c) /\ Blocks(c) \in Nat \ {0}
           /\ HeadSize(c) \in Nat
           /\ \A i \in Int : Share(c, i) \in Nat /\ GetBlockSize(c, i) \in Nat
                             /\ GetBlockSize(c, i) <= Share(c, i)
<1>1. Cfg(c)
  BY ConfigAssumption DEF Cfg
<1>2. Blocks(c) \in Nat \ {0}
  BY <1>1 DEF Cfg, Blocks
<1>3. HeadSize(c) \in Nat
  BY <1>1, HeadAssumption DEF Cfg, HeadSize, U32, Width
<1>4. ASSUME NEW i \in Int
      PROVE  Share(c, i) \in Nat /\ GetBlockSize(c, i) \in Nat /\ GetBlockSize(c, i) <= Share(c, i)
  <2>1. Share(c, i) \in Nat
    BY <1>1, <1>3 DEF Cfg, Share, LinesPerMb
  <2> QED BY <2>1 DEF GetBlockSize, U32, Width
<1> QED BY <1>1, <1>2, <1>3, <1>4

\* A block to check is counted when it is passed, any other is not.
LEMMA WholeCounts ==
    ASSUME NEW c \in Config, NEW n \in Nat
    PROVE  /\ WholeBefore(c, n) \in Nat
           /\ WholeBefore(c, n + 1) = WholeBefore(c, n) + (IF Whole(c, n) THEN 1 ELSE 0)
<1>1. Cfg(c)
  BY SizesAreNat
<1>2. CASE c.check = CheckAll
  BY <1>1, <1>2 DEF Cfg, WholeBefore, Whole
<1>3. CASE c.check # CheckAll /\ ~c.sub
  <2>1. c.check \in Nat
    BY <1>1, <1>3 DEF Cfg, CheckAll
  <2> QED BY <1>3, <2>1 DEF WholeBefore, Whole, Targets
<1>4. CASE c.check # CheckAll /\ c.sub
  <2>1. c.check \in Nat
    BY <1>1, <1>4 DEF Cfg, CheckAll
  <2> DEFINE a == (c.check \div 2) * 3 + (c.check % 2)
             b == c.check * 3 + 2
  <2>2. a \in Nat /\ b \in Nat /\ a # b
    BY <2>1
  <2>3. Whole(c, n) <=> n = a \/ n = b
    BY <1>4 DEF Whole, Targets
  <2>4. \A k \in Nat : WholeBefore(c, k) = (IF a < k THEN 1 ELSE 0) + (IF b < k THEN 1 ELSE 0)
    BY <1>4 DEF WholeBefore
  <2> HIDE DEF a, b
  <2> QED BY <2>2, <2>3, <2>4
<1> QED BY <1>2, <1>3, <1>4

\* Each block uses its share ...
LEMMA UsedGrows ==
    ASSUME NEW c \in Config, NEW n \in Nat
    PROVE  Used(c, n) \in Int /\ Used(c, n + 1) = Used(c, n) + Share(c, n)
<1>1. Cfg(c) /\ HeadSize(c) \in Nat
  BY SizesAreNat
<1> DEFINE h == HeadSize(c)
           w == WholeBefore(c, n)
           d == (c.cache - 1) * LinesPerMb
<1>2. h \in Nat /\ w \in Nat /\ d \in Int /\ d = c.cache * LinesPerMb - LinesPerMb
  BY <1>1, WholeCounts DEF Cfg, LinesPerMb
<1>3. Used(c, n) = n * (h + LinesPerMb) + w * d
  BY DEF Used
<1>4. Used(c, n + 1) = (n + 1) * (h + LinesPerMb) + WholeBefore(c, n + 1) * d
  BY DEF Used
<1>5. Share(c, n) = h + LinesPerMb + (IF Whole(c, n) THEN d ELSE 0)
  BY <1>1, <1>2 DEF Share, Cfg, LinesPerMb
<1>6. WholeBefore(c, n + 1) = w + (IF Whole(c, n) THEN 1 ELSE 0)
  BY WholeCounts
<1>7. (n + 1) * (h + LinesPerMb) = n * (h + LinesPerMb) + (h + LinesPerMb)
  BY <1>2 DEF LinesPerMb
<1>8. (w + 1) * d = w * d + d /\ (w + 0) * d = w * d /\ w * d \in Int
      /\ n * (h + LinesPerMb) \in Int
  BY <1>2 DEF LinesPerMb
<1> DEFINE blocks == n * (h + LinesPerMb)
           wholes == w * d
           each == h + LinesPerMb
<1>9. WholeBefore(c, n + 1) * d = wholes + (IF Whole(c, n) THEN d ELSE 0)
  BY <1>6, <1>8
<1>10. /\ Used(c, n) = blocks + wholes
       /\ Used(c, n + 1) = blocks + each + (wholes + (IF Whole(c, n) THEN d ELSE 0))
       /\ Share(c, n) = each + (IF Whole(c, n) THEN d ELSE 0)
       /\ blocks \in Int /\ wholes \in Int /\ each \in Int /\ d \in Int
  <2>1. blocks \in Int /\ wholes \in Int /\ each \in Int /\ d \in Int
    BY <1>2, <1>8 DEF LinesPerMb
  <2> QED BY <2>1, <1>3, <1>4, <1>5, <1>7, <1>9
<1> HIDE DEF blocks, wholes, each, d
<1> QED BY <1>10

\* ... and the buffer has room for all of them.
LEMMA UsedFits ==
    ASSUME NEW c \in Config, c.cache # 0, NEW n \in Nat, n <= Blocks(c)
    PROVE  GlobalHead + Used(c, n) <= MemSize(c)
<1>1. Cfg(c) /\ HeadSize(c) \in Nat /\ Blocks(c) \in Nat
  BY SizesAreNat
<1> DEFINE h == HeadSize(c)
           k == Blocks(c)
           x == c.cache - 1
           w == WholeBefore(c, n)
<1>2. x \in Nat /\ h \in Nat /\ k \in Nat /\ c.cache = x + 1 /\ GlobalHead \in Nat
  BY <1>1, HeadAssumption DEF Cfg
<1>3. n * h <= k * h
  BY <1>2
<1>4. w \in Nat
  BY WholeCounts
<1>5. Used(c, n) = n * h + LinesPerMb * (n + w * x)
  BY <1>2, <1>4 DEF Used, LinesPerMb
<1>6. MemSize(c) = TotalCacheSize(c) * LinesPerMb + GlobalHead + k * h
  BY DEF MemSize
<1>7. n + w * x <= TotalCacheSize(c) /\ TotalCacheSize(c) \in Int
  <2>1. CASE c.check = CheckAll
    <3>1. w = n /\ TotalCacheSize(c) = (x + 1) * k
      BY <1>2, <2>1 DEF WholeBefore, TotalCacheSize
    <3>2. n * x <= k * x /\ (x + 1) * k = k + k * x
      BY <1>2
    <3> QED BY <1>2, <3>1, <3>2
  <2>2. CASE c.check # CheckAll /\ c.sub
    <3>1. w <= 2 /\ TotalCacheSize(c) = (x + 1) * 2 + k - 2
      BY <1>2, <2>2 DEF WholeBefore, TotalCacheSize
    <3>2. w * x <= 2 * x
      BY <1>2, <1>4, <3>1
    <3> QED BY <1>2, <1>4, <3>1, <3>2
  <2>3. CASE c.check # CheckAll /\ ~c.sub
    <3>1. w <= 1 /\ TotalCacheSize(c) = (x + 1) + k - 1
      BY <1>2, <2>3 DEF WholeBefore, TotalCacheSize
    <3>2. w * x <= x
      BY <1>2, <1>4, <3>1
    <3> QED BY <1>2, <1>4, <3>1, <3>2
  <2> QED BY <2>1, <2>2, <2>3
<1> HIDE DEF h, k, x, w
<1>8. n * h \in Int /\ k * h \in Int /\ w * x \in Int
  BY <1>2, <1>4
<1> QED BY <1>2, <1>3, <1>5, <1>6, <1>7, <1>8 DEF LinesPerMb

\* What a kernel records of a block is a number of lines.
LEMMA RecordedIsNat ==
    ASSUME NEW c \in Config, NEW i \in Int
    PROVE  Recorded(c, i) \subseteq Nat
<1>1. Cfg(c) /\ HeadSize(c) \in Nat
  BY SizesAreNat
<1>2. SimdLines(c) \in Nat
  BY <1>1 DEF Cfg, SimdLines
<1>3. Share(c, i) - HeadSize(c) \in Nat
  BY <1>1 DEF Cfg, Share, LinesPerMb
<1> QED BY <1>2, <1>3 DEF Recorded, SimdRoom

-----------------------------------------------------------------------------
(* The inductive invariant.                                                 *)

LEMMA InitLayout == LayoutInit => LayoutInv
<1> SUFFICES ASSUME LayoutInit PROVE LayoutInv
  OBVIOUS
<1>1. cfg \in Config /\ phase = "assign" /\ at = 0 /\ start = <<>> /\ sent = <<>>
  BY DEF LayoutInit
<1>2. Len(start) = 0
  BY <1>1
<1>3. LayoutOK
  BY <1>1 DEF LayoutOK
<1>4. InBuffer /\ Disjoint
  BY <1>2 DEF InBuffer, Disjoint
<1> QED
  BY <1>1, <1>2, <1>3, <1>4 DEF LayoutInv, HeadsByPhase, ApartIfNarrow, Consecutive

\* A step that leaves the blocks where they are and is not at the heads afterwards
\* keeps what is said of them.
LEMMA BlocksStay ==
    ASSUME LayoutInv, cfg' = cfg, start' = start, phase' # "heads", phase' # "assign",
           phase' # "refused" => Accepted(cfg)
    PROVE  HeadsByPhase' /\ InBuffer' /\ ApartIfNarrow' /\ Consecutive'
<1>1. HeadsByPhase'
  BY DEF LayoutInv, HeadsByPhase
<1>2. InBuffer' /\ Disjoint' = Disjoint
  BY DEF LayoutInv, InBuffer, Disjoint
<1>3. ApartIfNarrow'
  BY <1>2 DEF LayoutInv, ApartIfNarrow
<1>4. Consecutive'
  BY DEF LayoutInv, Consecutive
<1> QED BY <1>1, <1>2, <1>3, <1>4

LEMMA AssignStep == ASSUME LayoutInv, Assign PROVE LayoutInv'
<1>1. /\ cfg' = cfg /\ start' = start /\ sent' = sent /\ start = <<>> /\ cfg \in Config
      /\ Len(start) = 0
  BY DEF LayoutInv, HeadsByPhase, LayoutOK, Assign
<1>2. CASE Accepted(cfg)
  <2>1. phase' = "heads" /\ at' = GlobalHead
    BY <1>2 DEF Assign
  <2>2. LayoutOK'
    BY <1>1, <2>1, HeadAssumption DEF LayoutInv, LayoutOK
  <2>3. Used(cfg, 0) = 0
    <3>1. Cfg(cfg) /\ HeadSize(cfg) \in Nat
      BY <1>1, SizesAreNat
    <3>2. WholeBefore(cfg, 0) = 0
      BY <3>1 DEF Cfg, WholeBefore, CheckAll
    <3> QED BY <3>1, <3>2 DEF Used, Cfg, LinesPerMb
  <2>4. HeadsByPhase'
    <3>1. 0 < Blocks(cfg) /\ Blocks(cfg) \in Nat
      BY <1>1, SizesAreNat
    <3> QED BY <1>1, <1>2, <2>1, <2>3, <3>1, HeadAssumption DEF HeadsByPhase
  <2>5. InBuffer' /\ Disjoint'
    BY <1>1 DEF InBuffer, Disjoint
  <2>6. ApartIfNarrow' /\ Consecutive'
    BY <1>1, <2>5 DEF ApartIfNarrow, Consecutive
  <2> QED BY <2>2, <2>4, <2>5, <2>6 DEF LayoutInv
<1>3. CASE ~Accepted(cfg)
  <2>1. phase' = "refused" /\ at' = at
    BY <1>3 DEF Assign
  <2>2. LayoutOK'
    BY <1>1, <2>1 DEF LayoutInv, LayoutOK
  <2> QED BY <1>1, <2>1, <2>2, BlocksStay DEF LayoutInv
<1> QED BY <1>2, <1>3

\* The block appended starts at the end of the last one, and has room in the buffer.
LEMMA HeadsH2DStep == ASSUME LayoutInv, HeadsH2D PROVE LayoutInv'
<1>1. /\ phase = "heads" /\ cfg \in Config /\ at \in Nat /\ start \in Seq(Nat)
      /\ start' = Append(start, at) /\ cfg' = cfg /\ sent' = sent
      /\ at' = at + GetBlockSize(cfg, Len(start))
      /\ phase' = IF Len(start) + 1 < Blocks(cfg) THEN "heads" ELSE "kernel"
  BY DEF LayoutInv, LayoutOK, HeadsH2D, MoreHeads
<1>2. PICK n \in Nat : n = Len(start)
  BY <1>1
<1>3. PICK c \in Config : c = cfg
  BY <1>1
<1>4. /\ Len(start') = n + 1 /\ start' \in Seq(Nat) /\ start'[n + 1] = at
      /\ \A i \in 1..n : start'[i] = start[i]
  BY <1>1, <1>2
<1>5. /\ Share(c, n) \in Nat /\ GetBlockSize(c, n) \in Nat /\ GetBlockSize(c, n) <= Share(c, n)
      /\ Blocks(c) \in Nat \ {0} /\ HeadSize(c) \in Nat
  BY <1>2, SizesAreNat
<1>6. Accepted(c) /\ n < Blocks(c) /\ at <= GlobalHead + Used(c, n)
  BY <1>1, <1>2, <1>3 DEF LayoutInv, HeadsByPhase
<1>7. Used(c, n) \in Int /\ Used(c, n + 1) = Used(c, n) + Share(c, n)
  BY <1>2, UsedGrows
<1>8. at' = at + GetBlockSize(c, n) /\ at' \in Nat /\ at' <= at + Share(c, n)
  <2>1. at' = at + GetBlockSize(c, n)
    BY <1>1, <1>2, <1>3
  <2> QED BY <1>1, <1>5, <2>1
<1>9. /\ at' <= GlobalHead + Used(c, n + 1)
       /\ at + Share(c, n) <= GlobalHead + Used(c, n + 1)
  BY SMTT(20), <1>1, <1>5, <1>6, <1>7, <1>8, HeadAssumption
<1>10. LayoutOK'
  BY <1>1, <1>3, <1>4, <1>5, <1>2 DEF LayoutInv, LayoutOK
<1>11. HeadsByPhase'
  <2>1. at' <= GlobalHead + Used(c, n + 1)
    BY <1>9
  <2>2. phase' = "heads" => n + 1 < Blocks(c)
    BY <1>1, <1>2, <1>3
  <2>3. phase' # "assign" /\ phase' # "refused"
    BY <1>1
  <2> QED BY <1>1, <1>2, <1>3, <1>4, <1>5, <1>6, <2>1, <2>2, <2>3 DEF HeadsByPhase
<1>12. InBuffer'
  <2>1. at + Share(c, n) <= MemSize(c)
    <3>1. GlobalHead + Used(c, n + 1) <= MemSize(c)
      BY <1>2, <1>5, <1>6, UsedFits DEF Accepted
    <3>2. MemSize(c) \in Int
      BY SizesAreNat, HeadAssumption DEF MemSize, TotalCacheSize, Cfg, LinesPerMb
    <3>3. GlobalHead + Used(c, n + 1) \in Int /\ at + Share(c, n) \in Int
      BY <1>1, <1>5, <1>7, HeadAssumption
    <3> QED BY <1>9, <3>1, <3>2, <3>3
  <2>2. \A i \in 1..(n + 1) : start'[i] + Share(c, i - 1) <= MemSize(c)
    <3> SUFFICES ASSUME NEW i \in 1..(n + 1)
                 PROVE  start'[i] + Share(c, i - 1) <= MemSize(c)
      OBVIOUS
    <3>1. CASE i = n + 1
      BY <1>2, <1>4, <2>1, <3>1
    <3>2. CASE i \in 1..n
      BY <1>2, <1>3, <1>4, <3>2 DEF LayoutInv, InBuffer
    <3> QED BY <1>2, <3>1, <3>2
  <2> QED BY <1>1, <1>3, <1>4, <2>2 DEF InBuffer
<1>13. Narrow(c, n) => Narrow(c, n - 1)
  BY <1>2 DEF Narrow
<1>14. Narrow(c, n + 1) => Narrow(c, n) /\ Share(c, n) < Width
  BY <1>2 DEF Narrow
<1>15. Narrow(c, n) => Disjoint'
  <2> SUFFICES ASSUME Narrow(c, n), NEW i \in 1..(n + 1), NEW j \in 1..(n + 1), i < j
               PROVE  start'[i] + Share(c, i - 1) <= start'[j]
    BY <1>1, <1>3, <1>4 DEF Disjoint
  <2>1. CASE j = n + 1
    BY <1>1, <1>2, <1>3, <1>4, <2>1 DEF LayoutInv, ApartIfNarrow
  <2>2. CASE j \in 1..n
    <3>1. i \in 1..n /\ start'[i] = start[i] /\ start'[j] = start[j]
      BY <1>2, <1>4, <2>2
    <3>2. Disjoint
      BY <1>2, <1>3, <1>13 DEF LayoutInv, ApartIfNarrow
    <3> QED BY <1>2, <1>3, <2>2, <3>1, <3>2 DEF Disjoint
  <2> QED BY <1>2, <2>1, <2>2
<1>16. ASSUME phase' = "heads", Narrow(c, n + 1)
       PROVE  \A i \in 1..(n + 1) : start'[i] + Share(c, i - 1) <= at'
  <2>1. at' = at + Share(c, n)
    <3>1. Share(c, n) \in Nat /\ Share(c, n) < 67108864
      BY <1>5, <1>14, <1>16, SMT DEF Width
    <3>2. GetBlockSize(c, n) = Share(c, n)
      BY <3>1, SMT DEF GetBlockSize, U32, Width
    <3> QED BY <1>8, <3>2
  <2> SUFFICES ASSUME NEW i \in 1..(n + 1)
               PROVE  start'[i] + Share(c, i - 1) <= at'
    OBVIOUS
  <2>2. CASE i = n + 1
    BY <1>2, <1>4, <1>1, <1>5, <2>1, <2>2
  <2>3. CASE i \in 1..n
    <3>1. start[i] + Share(c, i - 1) <= at
      BY <1>1, <1>2, <1>3, <1>14, <1>16, <2>3 DEF LayoutInv, ApartIfNarrow
    <3>2. start[i] \in Nat /\ Share(c, i - 1) \in Nat
      <4>1. i - 1 \in Int /\ start[i] \in Nat
        BY <1>1, <1>2, <2>3
      <4> QED BY <4>1, SizesAreNat
    <3>3. start'[i] = start[i]
      BY <1>4, <2>3
    <3>4. at <= at'
      BY <1>1, <1>5, <2>1
    <3>5. start[i] + Share(c, i - 1) \in Int /\ at \in Int /\ at' \in Int
      BY <1>1, <1>8, <3>2
    <3> QED BY <3>1, <3>3, <3>4, <3>5
  <2> QED BY <1>2, <2>2, <2>3
<1>17. ApartIfNarrow'
  <2>1. Len(start') - 1 = n /\ Len(start') = n + 1
    BY <1>2, <1>4
  <2> QED BY <1>1, <1>3, <1>15, <1>16, <2>1 DEF ApartIfNarrow, Narrow
<1>18. Consecutive'
  <2>1. \A i \in 1..n : start'[i + 1] = start'[i] + GetBlockSize(c, i - 1)
    <3> SUFFICES ASSUME NEW i \in 1..n
                 PROVE  start'[i + 1] = start'[i] + GetBlockSize(c, i - 1)
      OBVIOUS
    <3>1. CASE i = n
      BY <1>1, <1>2, <1>3, <1>4, <3>1 DEF LayoutInv, Consecutive
    <3>2. CASE i \in 1..(n - 1)
      BY <1>2, <1>3, <1>4, <3>2 DEF LayoutInv, Consecutive
    <3> QED BY <1>2, <3>1, <3>2
  <2>2. at' = start'[n + 1] + GetBlockSize(c, n)
    BY <1>1, <1>2, <1>3, <1>4
  <2>3. Len(start') - 1 = n /\ Len(start') = n + 1
    BY <1>2, <1>4
  <2> QED BY <1>1, <1>3, <2>1, <2>2, <2>3 DEF Consecutive
<1> QED BY <1>10, <1>11, <1>12, <1>17, <1>18 DEF LayoutInv

\* A copy of the heads fails before the first block, or behind it.
LEMMA HeadsFailStep == ASSUME LayoutInv, HeadsFail PROVE LayoutInv'
<1>1. cfg' = cfg /\ start' = start /\ phase' = "refused"
  BY DEF HeadsFail
<1>2. LayoutOK'
  BY DEF LayoutInv, LayoutOK, HeadsFail
<1> QED BY <1>1, <1>2, BlocksStay DEF LayoutInv

LEMMA GlobalHeadD2HStep == ASSUME LayoutInv, GlobalHeadD2H PROVE LayoutInv'
<1>1. cfg' = cfg /\ start' = start /\ phase' = "read" /\ Accepted(cfg)
  BY DEF LayoutInv, HeadsByPhase, GlobalHeadD2H
<1>2. LayoutOK'
  BY HeadAssumption DEF LayoutInv, LayoutOK, GlobalHeadD2H
<1> QED BY <1>1, <1>2, BlocksStay DEF LayoutInv

LEMMA ReadBlockStep ==
    ASSUME LayoutInv, NEW w \in Recorded(cfg, Len(sent)), ReadBlock(w)
    PROVE  LayoutInv'
<1>1. /\ cfg' = cfg /\ start' = start /\ phase' \in {"read", "synced", "short"} /\ Accepted(cfg)
  BY DEF LayoutInv, HeadsByPhase, ReadBlock
<1>2. w \in Nat /\ GetBlockSize(cfg, Len(sent)) \in Nat
  BY RecordedIsNat, SizesAreNat DEF LayoutInv, LayoutOK
<1>3. CASE HostHolds(cfg, Len(sent), w)
  <2>1. /\ sent' = Append(sent, [from |-> at, simd |-> w])
        /\ at' = at + GetBlockSize(cfg, Len(sent))
    BY <1>3 DEF ReadBlock
  <2>2. at' \in Nat /\ sent' \in Seq([from : Nat, simd : Nat])
    BY <1>2, <2>1 DEF LayoutInv, LayoutOK
  <2>3. LayoutOK'
    BY <1>1, <2>2 DEF LayoutInv, LayoutOK
  <2> QED BY <1>1, <2>3, BlocksStay DEF LayoutInv
<1>4. CASE ~HostHolds(cfg, Len(sent), w)
  <2>1. LayoutOK'
    BY <1>1, <1>4 DEF LayoutInv, LayoutOK, ReadBlock
  <2> QED BY <1>1, <2>1, BlocksStay DEF LayoutInv
<1> QED BY <1>3, <1>4

LEMMA BrokenStep == ASSUME LayoutInv, BreaksFailed \/ ParsesNoShadow PROVE LayoutInv'
<1>1. /\ cfg' = cfg /\ start' = start /\ phase' \in {"broken", "crashed"} /\ Accepted(cfg)
      /\ at' = at /\ sent' = sent
  BY DEF LayoutInv, HeadsByPhase, BreaksFailed, ParsesNoShadow
<1>2. LayoutOK'
  BY <1>1 DEF LayoutInv, LayoutOK
<1> QED BY <1>1, <1>2, BlocksStay DEF LayoutInv

LEMMA StutterStep == ASSUME LayoutInv, UNCHANGED layoutVars PROVE LayoutInv'
BY DEF LayoutInv, layoutVars, LayoutOK, HeadsByPhase, InBuffer, ApartIfNarrow, Disjoint, Consecutive

LEMMA StepLayout == LayoutInv /\ [LayoutNext]_layoutVars => LayoutInv'
<1> SUFFICES ASSUME LayoutInv, [LayoutNext]_layoutVars PROVE LayoutInv'
  OBVIOUS
<1>1. CASE Assign
  BY <1>1, AssignStep
<1>2. CASE HeadsH2D
  BY <1>2, HeadsH2DStep
<1>3. CASE HeadsFail
  BY <1>3, HeadsFailStep
<1>4. CASE GlobalHeadD2H
  BY <1>4, GlobalHeadD2HStep
<1>5. ASSUME NEW w \in Recorded(cfg, Len(sent)), ReadBlock(w) PROVE LayoutInv'
  BY <1>5, ReadBlockStep
<1>6. CASE BreaksFailed \/ ParsesNoShadow
  BY <1>6, BrokenStep
<1>7. CASE UNCHANGED layoutVars
  BY <1>7, StutterStep
<1> QED BY <1>1, <1>2, <1>3, <1>4, <1>5, <1>6, <1>7 DEF LayoutNext

\* The invariant holds of every launch (SanitizerLaunchInit, SanitizerLaunchFinalize).
THEOREM LayoutInductive == LayoutSpec => []LayoutInv
BY InitLayout, StepLayout, PTL DEF LayoutSpec

\* The offsets stay numbers of lines, and only the phases of the code occur.
THEOREM LayoutTypeCorrect == LayoutSpec => []LayoutOK
<1>1. LayoutInv => LayoutOK
  BY DEF LayoutInv
<1> QED BY <1>1, LayoutInductive, PTL

-----------------------------------------------------------------------------
(* The blocks.                                                              *)

\* No block reaches beyond what Process has allocated, whatever the launch: the
\* total of AssignMemSize is enough for what GetBlockSize hands out, and a size
\* that wraps only moves the next block to the front.
THEOREM BlocksStayInBuffer == LayoutSpec => []InBuffer
<1>1. LayoutInv => InBuffer
  BY DEF LayoutInv
<1> QED BY <1>1, LayoutInductive, PTL

\* If the size of a block does not fit, the next one starts before it ends.
LEMMA WrappedOverlap ==
    ASSUME LayoutInv, NEW i \in 1..(Len(start) - 1), Share(cfg, i - 1) >= Width
    PROVE  ~Disjoint
<1>1. start[i + 1] = start[i] + GetBlockSize(cfg, i - 1)
  BY DEF LayoutInv, Consecutive
<1>2. Share(cfg, i - 1) \in Nat /\ GetBlockSize(cfg, i - 1) \in Nat
  <2>1. i - 1 \in Int /\ cfg \in Config
    BY DEF LayoutInv, LayoutOK
  <2> QED BY <2>1, SizesAreNat
<1>3. GetBlockSize(cfg, i - 1) < Width
  BY <1>2, SMT DEF GetBlockSize, U32, Width
<1>4. i \in 1..Len(start) /\ i + 1 \in 1..Len(start) /\ i < i + 1
  BY DEF LayoutInv, LayoutOK
<1>5. start[i] \in Nat /\ Width \in Nat
  BY <1>4, SMT DEF LayoutInv, LayoutOK, Width
<1>6. ~(start[i] + Share(cfg, i - 1) <= start[i + 1])
  BY <1>1, <1>2, <1>3, <1>5
<1> QED BY <1>4, <1>6 DEF Disjoint

\* The blocks are apart exactly as long as GetBlockSize, which returns uint32_t, does
\* not wrap for a block with another one behind it.
THEOREM ApartUntilWrapped == LayoutSpec => [](BlocksApart <=> Narrow(cfg, Len(start) - 1))
<1>1. ASSUME LayoutInv PROVE BlocksApart <=> Narrow(cfg, Len(start) - 1)
  <2>1. Narrow(cfg, Len(start) - 1) => BlocksApart
    BY <1>1 DEF LayoutInv, ApartIfNarrow, BlocksApart
  <2>2. ASSUME ~Narrow(cfg, Len(start) - 1) PROVE ~BlocksApart
    <3>1. PICK k \in 0..(Len(start) - 1 - 1) : ~(Share(cfg, k) < Width)
      BY <2>2 DEF Narrow
    <3>2. k + 1 \in 1..(Len(start) - 1) /\ (k + 1) - 1 = k
      BY <1>1, <3>1 DEF LayoutInv, LayoutOK
    <3>3. Share(cfg, k) \in Nat /\ Width \in Nat
      <4>1. cfg \in Config /\ k \in Int
        BY <1>1, <3>1 DEF LayoutInv, LayoutOK
      <4>2. Share(cfg, k) \in Nat
        BY <4>1, SizesAreNat
      <4> QED BY <4>2, SMT DEF Width
    <3>4. Share(cfg, (k + 1) - 1) >= Width
      BY <3>1, <3>2, <3>3
    <3> QED BY <1>1, <3>2, <3>4, WrappedOverlap DEF BlocksApart
  <2> QED BY <2>1, <2>2
<1>2. LayoutInv => (BlocksApart <=> Narrow(cfg, Len(start) - 1))
  BY <1>1
<1> QED BY <1>2, LayoutInductive, PTL

\* With a cache of up to 4095 MB for each block, and heads of up to one, no size
\* wraps ...
LEMMA SmallCacheFits ==
    ASSUME NEW c \in Config, c.cache <= 4095, HeadSize(c) < LinesPerMb, NEW n \in Int
    PROVE  Narrow(c, n)
<1>1. Cfg(c) /\ HeadSize(c) \in Nat
  BY SizesAreNat
<1>2. \A i \in 0..(n - 1) : Share(c, i) < Width
  BY <1>1, SMT DEF Cfg, Share, LinesPerMb, Width
<1> QED BY <1>2 DEF Narrow

\* ... and the blocks of every launch are apart, and within the buffer.
THEOREM BlocksStayApart ==
    ASSUME \A c \in Config : c.cache <= 4095 /\ HeadSize(c) < LinesPerMb
    PROVE  LayoutSpec => []BlocksApart
<1>1. ASSUME LayoutInv PROVE BlocksApart
  <2>1. cfg \in Config /\ Len(start) \in Nat
    BY <1>1 DEF LayoutInv, LayoutOK
  <2>2. Len(start) - 1 \in Int
    BY <2>1
  <2>3. Narrow(cfg, Len(start) - 1)
    BY <2>1, <2>2, SmallCacheFits
  <2> QED BY <1>1, <2>3 DEF LayoutInv, ApartIfNarrow, BlocksApart
<1>2. LayoutInv => BlocksApart
  BY <1>1
<1> QED BY <1>2, LayoutInductive, PTL

-----------------------------------------------------------------------------
(* The parts of a block.                                                    *)

\* The SIMD and the SIMT records take no more than half of the cache, whatever the
\* rounding, and of the largest cache a little less.
LEMMA RecordsFitHalf ==
    ASSUME NEW c \in Config
    PROVE  /\ SimdLines(c) \in Nat /\ AllThreads(c) \in Nat
           /\ SimdLines(c) + AllThreads(c) <= c.cache * 8192
           /\ c.cache <= MaxEach => SimdLines(c) + AllThreads(c) < 67107900
<1>1. c.cache \in Nat
  BY SizesAreNat DEF Cfg
<1>2. SimdLines(c) \in Nat /\ 5 * SimdLines(c) <= c.cache * 32768
  BY <1>1, SMT DEF SimdLines
<1>3. ThreadLines(c) \in Nat /\ 20480 * ThreadLines(c) <= c.cache * 16384
  BY <1>1, SMT DEF ThreadLines, LinesPerMb, Threads
<1>4. AllThreads(c) \in Nat /\ 10 * AllThreads(c) <= c.cache * 16384
  BY <1>3, SMT DEF AllThreads, Threads
<1>5. SimdLines(c) + AllThreads(c) <= c.cache * 8192
  BY <1>1, <1>2, <1>4, SMT
<1>6. c.cache <= MaxEach => SimdLines(c) <= 53687088 /\ ThreadLines(c) <= 6553
  BY <1>1, <1>3, SMT DEF SimdLines, MaxEach
<1>7. c.cache <= MaxEach => SimdLines(c) + AllThreads(c) < 67107900
  BY <1>2, <1>3, <1>4, <1>6, SMT DEF AllThreads, Threads
<1> QED BY <1>2, <1>4, <1>5, <1>7

\* Whether all offsets within a block fit in the uint32_t they are computed in.
OffsetsFit(c) ==
    /\ HeadSize(c) + SimdLines(c) < Width
    /\ ShadowOn(c) => HeadSize(c) + SimdLines(c) + AllThreads(c) < Width

\* The parts of a block with SIMT records follow each other and end with the block
\* exactly when these offsets do not wrap.
THEOREM PartsApartUntilWrapped ==
    LayoutSpec => [](start # <<>> /\ cfg.simt => (PartsApart <=> OffsetsFit(cfg)))
<1>1. ASSUME LayoutInv, start # <<>>, cfg.simt PROVE PartsApart <=> OffsetsFit(cfg)
  <2>1. PICK c \in Config : c = cfg
    BY <1>1 DEF LayoutInv, LayoutOK
  <2>2. PICK h \in Nat : h = HeadSize(c)
    BY SizesAreNat
  <2>3. PICK d \in Nat : d = SimdLines(c)
    BY RecordsFitHalf
  <2>4. PICK t \in Nat : t = AllThreads(c)
    BY RecordsFitHalf
  <2>5. PICK x \in Nat : x = c.cache
    BY SizesAreNat DEF Cfg
  <2>6. d + t <= x * 8192
    BY <2>3, <2>4, <2>5, RecordsFitHalf
  <2>7. SimtHeadOffset(c) = (d + h) % 67108864
    BY <2>2, <2>3, SMT DEF SimtHeadOffset, U32, Width
  <2>8. ShadowOffset(c) = (((d + h) % 67108864) + t) % 67108864
    BY <2>4, <2>7, SMT DEF ShadowOffset, U32, Width
  <2>9. ShadowSize(c) \in Nat /\ ShadowSize(c) <= x * 8192
    BY <2>5, SMT DEF ShadowSize, U32, Width, LinesPerMb
  <2>10. SimtHeadOffset(c) >= h + d <=> h + d < 67108864
    BY <2>7, SMT
  <2>11. h + d < 67108864 =>
           (ShadowOffset(c) >= SimtHeadOffset(c) + t <=> h + d + t < 67108864)
    BY <2>7, <2>8, SMT
  <2>12. h + d + t < 67108864 => ShadowOffset(c) + ShadowSize(c) <= h + x * 16384
    BY <2>6, <2>8, <2>9, SMT
  <2>13. PartsApart <=> /\ SimtHeadOffset(c) >= h + d
                        /\ ShadowOn(c) => /\ ShadowOffset(c) >= SimtHeadOffset(c) + t
                                          /\ ShadowOffset(c) + ShadowSize(c) <= h + x * 16384
    BY <1>1, <2>1, <2>2, <2>3, <2>4, <2>5, SMT DEF PartsApart, LinesPerMb
  <2>14. OffsetsFit(c) <=> /\ h + d < 67108864
                           /\ ShadowOn(c) => h + d + t < 67108864
    BY <2>2, <2>3, <2>4, SMT DEF OffsetsFit, Width
  <2> QED BY <2>1, <2>10, <2>11, <2>12, <2>13, <2>14, SMT
<1>2. LayoutInv => (start # <<>> /\ cfg.simt => (PartsApart <=> OffsetsFit(cfg)))
  BY <1>1
<1> QED BY <1>2, LayoutInductive, PTL

\* With heads of up to 900 lines they never wrap, since AssignMemSize refuses a cache of
\* more than 8192 MB: the parts are apart in every launch with SIMT records.
THEOREM PartsStayApart ==
    ASSUME \A c \in Config : HeadSize(c) <= 900
    PROVE  LayoutSpec => []PartsApart
<1>1. ASSUME LayoutInv, start # <<>>, cfg.simt PROVE OffsetsFit(cfg)
  <2>1. PICK c \in Config : c = cfg
    BY <1>1 DEF LayoutInv, LayoutOK
  <2>2. c.cache <= MaxEach
    BY <1>1, <2>1 DEF LayoutInv, HeadsByPhase, Accepted
  <2>3. SimdLines(c) \in Nat /\ AllThreads(c) \in Nat /\ SimdLines(c) + AllThreads(c) < 67107900
    BY <2>2, RecordsFitHalf
  <2>4. HeadSize(c) \in Nat /\ HeadSize(c) <= 900
    BY SizesAreNat
  <2>5. OffsetsFit(c)
    BY <2>3, <2>4, SMT DEF OffsetsFit, Width
  <2> QED BY <2>1, <2>5
<1>2. ~(start # <<>> /\ cfg.simt) => PartsApart
  BY DEF PartsApart
<1>3. LayoutInv /\ (start # <<>> /\ cfg.simt => (PartsApart <=> OffsetsFit(cfg))) => PartsApart
  BY <1>1, <1>2
<1> QED BY <1>3, LayoutInductive, PartsApartUntilWrapped, PTL

=============================================================================
