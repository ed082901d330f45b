-------------------------- MODULE CommServerProofs --------------------------
(***************************************************************************)
(* Proofs about CommServer for any set of connections, any number of slots *)
(* and any sizes of reads, writes and answers.  StreamIntact is about the  *)
(* connections that have a slot; that it goes on holding depends on a      *)
(* connection having at most one place (the backlog or one slot), on what  *)
(* each reader holds at each point of its loop, and on the connections     *)
(* without a slot being as their clients left them.  GoneIsQuiet depends   *)
(* on which threads there are when the owner is at which join.             *)
(***************************************************************************)
EXTENDS CommServer, SequenceTheorems, TLAPS

Byte == Conn \X Nat

\* The values of every variable.
TypeOK ==
  /\ main \in {"built", "serving", "unbound", "joinAccept", "joinReaders", "gone"}
  /\ running \in BOOLEAN
  /\ accept \in {"none", "check", "accept", "spawn", "hook", "done"}
  /\ cfds \in Seq(Conn) /\ Len(cfds) <= MaxClient
  /\ open \subseteq Conn /\ announced \in Nat
  /\ reader \in [Slot -> {"none", "check", "read", "got", "write", "exit"}]
  /\ msg \in [Slot -> Seq(Byte)] /\ handled \in [Slot -> Seq(Byte)]
  /\ backlog \in Seq(Conn) /\ stream \in [Conn -> Seq(Byte)]
  /\ client \in [Conn -> {"idle", "up", "closed", "lost"}]
  /\ sent \in [Conn -> Nat] /\ told \in [Conn -> Nat]
  /\ rest \in [Slot -> Seq(Byte)]
  /\ down \in [Conn -> Seq(Byte)] /\ got \in [Conn -> Seq(Byte)]

\* Which slots have a reader, and which threads there are at each join.
Threads ==
  /\ accept = "accept" => Len(cfds) < MaxClient
  /\ accept \in {"spawn", "hook"} => Len(cfds) > 0
  /\ \A i \in Slot :
       reader[i] = "none" <=> i > Len(cfds) \/ (i = Len(cfds) /\ accept = "spawn")
  /\ main \in {"built", "unbound"} => accept = "none"
  /\ main \in {"joinReaders", "gone"} => accept \in {"none", "done"}
  /\ main = "gone" => /\ \A i \in Slot : reader[i] \in {"none", "exit"}
                      /\ open \cap Listed = {}

\* Connection c is at place k of the sequence s.
At(s, k, c) == k \in 1..Len(s) /\ s[k] = c

\* A connection is on the backlog or has a slot, once, and only if its client
\* ever connected.
OnePlace ==
  /\ \A c \in Conn : \A j, k \in Nat : At(cfds, j, c) /\ At(cfds, k, c) => j = k
  /\ \A c \in Conn : \A j, k \in Nat : At(backlog, j, c) /\ At(backlog, k, c) => j = k
  /\ \A c \in Conn : \A j, k \in Nat : ~(At(cfds, j, c) /\ At(backlog, k, c))
  /\ \A c \in Conn : client[c] \in {"idle", "lost"} =>
       \A k \in Nat : ~At(cfds, k, c) /\ ~At(backlog, k, c)

\* A connection without a slot: nothing of it is read, nothing is answered.
Unlisted ==
  \A c \in Conn : (\A k \in Nat : ~At(cfds, k, c)) =>
    /\ stream[c] = Written(c) /\ told[c] = 0
    /\ down[c] = <<>> /\ got[c] = <<>>

\* What a reader holds at each point of its loop.
Holding ==
  \A i \in Slot :
    /\ reader[i] # "got" => msg[i] = <<>>
    /\ reader[i] # "write" => rest[i] = <<>>
    /\ i > Len(cfds) => handled[i] = <<>>

IInv == TypeOK /\ Threads /\ OnePlace /\ Unlisted /\ Holding /\ StreamIntact

-----------------------------------------------------------------------------
(* Lemmas about the bytes of a stream.                                      *)

\* A sequence cut in two is the sequence again.
LEMMA CutAndJoin ==
  ASSUME NEW s \in Seq(Byte), NEW n \in 0..Len(s)
  PROVE  /\ SubSeq(s, 1, n) \in Seq(Byte) /\ SubSeq(s, n + 1, Len(s)) \in Seq(Byte)
         /\ SubSeq(s, 1, n) \o SubSeq(s, n + 1, Len(s)) = s
<1>1. SubSeq(s, 1, n) \in Seq(Byte) /\ Len(SubSeq(s, 1, n)) = n
  <2>1. \A i \in 1..n : s[i] \in Byte
    BY ElementOfSeq, LenProperties
  <2> QED BY <2>1, SubSeqProperties, LenProperties
<1>2. SubSeq(s, n + 1, Len(s)) \in Seq(Byte) /\ Len(SubSeq(s, n + 1, Len(s))) = Len(s) - n
  <2>1. \A i \in (n + 1)..Len(s) : s[i] \in Byte
    BY ElementOfSeq, LenProperties
  <2>2. n + 1 \in Int /\ Len(s) \in Int
    BY LenProperties
  <2>3. IF n + 1 <= Len(s) THEN Len(s) - (n + 1) + 1 = Len(s) - n ELSE Len(s) - n = 0
    BY LenProperties
  <2> QED BY <2>1, <2>2, <2>3, SubSeqProperties
<1>3. \A i \in 1..n : SubSeq(s, 1, n)[i] = s[i]
  BY SMT, LenProperties
<1>4. \A i \in 1..(Len(s) - n) : SubSeq(s, n + 1, Len(s))[i] = s[n + i]
  BY SMT, LenProperties
<1> DEFINE a == SubSeq(s, 1, n)
           b == SubSeq(s, n + 1, Len(s))
           k == Len(s)
<1>5. a \in Seq(Byte) /\ Len(a) = n /\ \A i \in 1..n : a[i] = s[i]
  BY <1>1, <1>3
<1>6. b \in Seq(Byte) /\ Len(b) = k - n /\ \A i \in 1..(k - n) : b[i] = s[n + i]
  BY <1>2, <1>4
<1>7. k \in Nat /\ n \in 0..k
  BY LenProperties
<1> HIDE DEF a, b
<1>8. a \o b \in Seq(Byte) /\ Len(a \o b) = Len(s)
  BY <1>5, <1>6, <1>7, ConcatProperties, SMT
<1>9. ASSUME NEW i \in 1..Len(a \o b) PROVE (a \o b)[i] = s[i]
  <2>1. (a \o b)[i] = IF i <= n THEN a[i] ELSE b[i - n]
    BY <1>5, <1>6, <1>8, ConcatProperties, SMT
  <2>2. i > n => i - n \in 1..(k - n) /\ n + (i - n) = i
    BY <1>7, <1>8
  <2>3. i <= n => i \in 1..n
    BY <1>7, <1>8
  <2>4. CASE i <= n
    BY <2>1, <2>3, <2>4, <1>5
  <2>5. CASE i > n
    <3>1. (a \o b)[i] = b[i - n]
      BY <2>1, <2>5, <1>7, <1>8
    <3> QED BY <3>1, <2>2, <2>5, <1>6
  <2> QED BY <2>4, <2>5, <1>7, <1>8
<1>10. a \o b = s
  BY <1>8, <1>9, SeqEqual
<1> QED BY <1>5, <1>6, <1>10 DEF a, b

\* The bytes the tool tells are numbered pairs.
LEMMA ToldSeq ==
  ASSUME NEW c \in Conn, NEW m \in Nat, NEW n \in Nat, m <= n
  PROVE  /\ Told(c, m + 1, n) \in Seq(Byte) /\ Len(Told(c, m + 1, n)) = n - m
         /\ \A k \in 1..(n - m) : Told(c, m + 1, n)[k] = <<c, m + k>>
<1> DEFINE T == [k \in 1..(n - m) |-> <<c, m + k>>]
<1>1. Told(c, m + 1, n) = T
  <2>1. n - (m + 1) + 1 = n - m
    OBVIOUS
  <2>2. \A k \in 1..(n - m) : m + 1 + k - 1 = m + k
    OBVIOUS
  <2> QED BY <2>1, <2>2 DEF Told
<1>2. T \in Seq(Byte) /\ Len(T) = n - m
  <2>1. n - m \in Nat /\ T \in [1..(n - m) -> Byte]
    BY DEF Byte
  <2> QED BY <2>1, SMT
<1> QED BY <1>1, <1>2

\* The same for what is told from the first byte on.
LEMMA ToldFirst ==
  ASSUME NEW c \in Conn, NEW n \in Nat
  PROVE  /\ Told(c, 1, n) \in Seq(Byte) /\ Len(Told(c, 1, n)) = n
         /\ \A k \in 1..n : Told(c, 1, n)[k] = <<c, k>>
<1>1. Told(c, 0 + 1, n) \in Seq(Byte) /\ Len(Told(c, 0 + 1, n)) = n - 0
      /\ \A k \in 1..(n - 0) : Told(c, 0 + 1, n)[k] = <<c, 0 + k>>
  BY ToldSeq, 0 \in Nat, 0 <= n
<1>2. 0 + 1 = 1 /\ n - 0 = n /\ \A k \in 1..n : 0 + k = k
  OBVIOUS
<1>3. Told(c, 0 + 1, n) = Told(c, 1, n)
  BY <1>2
<1> QED BY <1>1, <1>2, <1>3

\* Nothing told is the empty sequence.
LEMMA ToldNothing ==
  ASSUME NEW c \in Conn
  PROVE  Told(c, 1, 0) = <<>>
BY ToldSeq, EmptySeq, SMT DEF Told

\* What was told before and what is told now are told in one.
LEMMA ToldJoin ==
  ASSUME NEW c \in Conn, NEW m \in Nat, NEW n \in Nat, m <= n
  PROVE  Told(c, 1, m) \o Told(c, m + 1, n) = Told(c, 1, n)
<1> DEFINE p == Told(c, 1, m)
           q == Told(c, m + 1, n)
           r == Told(c, 1, n)
<1>1. p \in Seq(Byte) /\ Len(p) = m /\ \A k \in 1..m : p[k] = <<c, k>>
  BY ToldFirst
<1>2. q \in Seq(Byte) /\ Len(q) = n - m /\ \A k \in 1..(n - m) : q[k] = <<c, m + k>>
  BY ToldSeq
<1>3. r \in Seq(Byte) /\ Len(r) = n /\ \A k \in 1..n : r[k] = <<c, k>>
  BY ToldFirst
<1> HIDE DEF p, q, r
<1>4. p \o q \in Seq(Byte) /\ Len(p \o q) = n
  <2>1. p \o q \in Seq(Byte) /\ Len(p \o q) = m + (n - m)
    BY <1>1, <1>2, ConcatProperties
  <2> QED BY <2>1, SMT
<1>5. ASSUME NEW i \in 1..n PROVE (p \o q)[i] = r[i]
  <2>1. CASE i <= m
    <3>1. i \in 1..m /\ i \in 1..(m + (n - m))
      BY <2>1
    <3>2. (p \o q)[i] = p[i]
      BY <1>1, <1>2, <2>1, <3>1, ConcatProperties
    <3> QED BY <3>1, <3>2, <1>1, <1>3
  <2>2. CASE i > m
    <3>1. i - m \in 1..(n - m) /\ m + (i - m) = i
      BY <2>2
    <3>2. (p \o q)[i] = q[i - m]
      BY <1>1, <1>2, <2>2, ConcatProperties, i \in 1..(m + (n - m))
    <3> QED BY <3>1, <3>2, <1>2, <1>3
  <2>3. i <= m \/ i > m
    OBVIOUS
  <2> QED BY <2>1, <2>2, <2>3
<1>6. p \o q = r
  BY <1>3, <1>4, <1>5, SeqEqual
<1> QED BY <1>6 DEF p, q, r

\* A beginning of what was told is what was told first.
LEMMA ToldPrefix ==
  ASSUME NEW c \in Conn, NEW n \in Nat, NEW p \in Seq(Byte), NEW q \in Seq(Byte),
         p \o q = Told(c, 1, n)
  PROVE  p = Told(c, 1, Len(p))
<1> DEFINE m == Len(p)
           r == Told(c, 1, n)
           t == Told(c, 1, m)
<1>1. m \in Nat /\ Len(q) \in Nat
  BY LenProperties
<1>2. r \in Seq(Byte) /\ Len(r) = n /\ \A k \in 1..n : r[k] = <<c, k>>
  BY ToldFirst
<1>3. n = m + Len(q) /\ \A k \in 1..m : r[k] = p[k]
  <2>1. Len(p \o q) = m + Len(q) /\ \A k \in 1..(m + Len(q)) : (p \o q)[k] =
                                                IF k <= m THEN p[k] ELSE q[k - m]
    BY ConcatProperties
  <2>2. p \o q = r
    OBVIOUS
  <2> HIDE DEF r
  <2> QED BY <2>1, <2>2, <1>1, <1>2
<1>4. t \in Seq(Byte) /\ Len(t) = m /\ \A k \in 1..m : t[k] = <<c, k>>
  BY <1>1, ToldFirst
<1> HIDE DEF t, r
<1>5. ASSUME NEW k \in 1..m PROVE p[k] = t[k]
  <2>1. k \in 1..n
    BY <1>1, <1>3
  <2>2. p[k] = r[k] /\ r[k] = <<c, k>> /\ t[k] = <<c, k>>
    BY <2>1, <1>2, <1>3, <1>4
  <2> QED BY <2>2
<1>6. p = t
  BY <1>4, <1>5, SeqEqual
<1> QED BY <1>6 DEF t

\* What a client has written is a sequence of numbered pairs, and one more
\* byte extends it.
LEMMA WrittenMore ==
  ASSUME NEW c \in Conn, NEW n \in Nat
  PROVE  /\ [k \in 1..n |-> <<c, k>>] \in Seq(Byte)
         /\ Append([k \in 1..n |-> <<c, k>>], <<c, n + 1>>) = [k \in 1..(n + 1) |-> <<c, k>>]
<1> DEFINE w == [k \in 1..n |-> <<c, k>>]
           v == [k \in 1..(n + 1) |-> <<c, k>>]
<1>1. w \in Seq(Byte) /\ Len(w) = n
  <2>1. w \in [1..n -> Byte]
    BY DEF Byte
  <2> QED BY <2>1, SMT
<1>2. v \in Seq(Byte) /\ Len(v) = n + 1
  <2>1. n + 1 \in Nat /\ v \in [1..(n + 1) -> Byte]
    BY DEF Byte
  <2> QED BY <2>1, SMT
<1>3. <<c, n + 1>> \in Byte
  BY DEF Byte
<1>4. Append(w, <<c, n + 1>>) \in Seq(Byte) /\ Len(Append(w, <<c, n + 1>>)) = n + 1
  BY <1>1, <1>3, AppendProperties
<1>5. ASSUME NEW i \in 1..(n + 1) PROVE Append(w, <<c, n + 1>>)[i] = v[i]
  <2>1. CASE i = n + 1
    BY <2>1, <1>1, <1>3, AppendProperties
  <2>2. CASE i # n + 1
    BY <2>2, <1>1, <1>3, AppendProperties
  <2> QED BY <2>1, <2>2
<1>6. Append(w, <<c, n + 1>>) = v
  BY <1>2, <1>4, <1>5, SeqEqual
<1> QED BY <1>1, <1>6

-----------------------------------------------------------------------------
(* What a step that leaves some variables alone leaves of the invariant.    *)

LEMMA ThreadsFrame ==
  ASSUME Threads, UNCHANGED <<main, accept, cfds, open, reader>>
  PROVE  Threads'
BY DEF Threads, Listed

LEMMA PlaceFrame ==
  ASSUME OnePlace, UNCHANGED <<cfds, backlog, client>>
  PROVE  OnePlace'
BY DEF OnePlace, At

LEMMA UnlistedFrame ==
  ASSUME Unlisted, UNCHANGED <<cfds, sent, stream, told, down, got>>
  PROVE  Unlisted'
BY DEF Unlisted, At, Written

LEMMA HoldingFrame ==
  ASSUME Holding, UNCHANGED <<cfds, reader, msg, handled, rest>>
  PROVE  Holding'
BY DEF Holding

LEMMA StreamFrame ==
  ASSUME StreamIntact,
         UNCHANGED <<cfds, handled, msg, stream, sent, got, down, client, rest, told>>
  PROVE  StreamIntact'
<1>1. \A c : Written(c)' = Written(c)
  BY DEF Written
<1> QED BY <1>1 DEF StreamIntact

\* The listing of StreamIntact for one slot.
SlotIntact(i) ==
  LET c == cfds[i]
  IN  /\ handled[i] \o msg[i] \o stream[c] = Written(c)
      /\ got[c] \o down[c] = Told(c, 1, Len(got[c] \o down[c]))
      /\ client[c] = "up" => got[c] \o down[c] \o rest[i] = Told(c, 1, told[c])

LEMMA StreamBySlot == StreamIntact <=> \A i \in 1..Len(cfds) : SlotIntact(i)
BY DEF StreamIntact, SlotIntact

LEMMA StreamBySlotNext == StreamIntact' <=> \A i \in 1..Len(cfds') : SlotIntact(i)'
BY DEF StreamIntact, SlotIntact

\* The descriptors of the slots.
LEMMA SlotFacts ==
  ASSUME TypeOK, OnePlace, NEW i \in 1..Len(cfds)
  PROVE  /\ i \in Slot /\ cfds[i] \in Conn /\ At(cfds, i, cfds[i])
         /\ \A j \in 1..Len(cfds) : cfds[j] = cfds[i] => j = i
<1>1. Len(cfds) \in Nat /\ Len(cfds) <= MaxClient /\ MaxClient \in Nat
  BY SizeAssumption, LenProperties DEF TypeOK
<1>2. i \in Slot /\ cfds[i] \in Conn
  BY <1>1, ElementOfSeq DEF TypeOK, Slot
<1>3. At(cfds, i, cfds[i])
  BY DEF At
<1>4. ASSUME NEW j \in 1..Len(cfds), cfds[j] = cfds[i] PROVE j = i
  <2>1. At(cfds, j, cfds[i]) /\ j \in Nat /\ i \in Nat
    BY <1>1, <1>4 DEF At
  <2> QED BY <1>2, <1>3, <2>1 DEF OnePlace
<1> QED BY <1>2, <1>3, <1>4

\* A reader that runs has a slot.
LEMMA ReaderSlot ==
  ASSUME TypeOK, Threads, NEW i \in Slot, reader[i] # "none"
  PROVE  i \in 1..Len(cfds) /\ ~(i = Len(cfds) /\ accept = "spawn")
<1>1. Len(cfds) \in Nat /\ i \in Nat /\ i >= 1
  BY LenProperties, SizeAssumption DEF TypeOK, Slot
<1>2. ~(i > Len(cfds) \/ (i = Len(cfds) /\ accept = "spawn"))
  BY DEF Threads
<1> QED BY <1>1, <1>2

\* A step that touches what one slot's connection and reader hold, and nothing
\* of another, keeps the streams if it keeps the slot's own.
LEMMA SlotStep ==
  ASSUME IInv, NEW i \in 1..Len(cfds), UNCHANGED <<cfds, sent>>,
         \A j \in Slot \ {i} : /\ (handled')[j] = handled[j] /\ (msg')[j] = msg[j]
                               /\ (rest')[j] = rest[j],
         \A d \in Conn \ {cfds[i]} :
            /\ (stream')[d] = stream[d] /\ (told')[d] = told[d] /\ (client')[d] = client[d]
            /\ (down')[d] = down[d] /\ (got')[d] = got[d],
         SlotIntact(i)'
  PROVE  StreamIntact' /\ Unlisted'
<1>1. Unlisted'
  <2> SUFFICES ASSUME NEW c \in Conn, \A k \in Nat : ~At(cfds, k, c)
               PROVE  /\ (stream')[c] = Written(c)' /\ (told')[c] = 0
                      /\ (down')[c] = <<>> /\ (got')[c] = <<>>
    BY DEF Unlisted, At
  <2>1. c # cfds[i]
    BY SlotFacts DEF IInv, Slot
  <2> QED BY <2>1 DEF IInv, Unlisted, Written
<1>2. ASSUME NEW j \in 1..Len(cfds), j # i PROVE SlotIntact(j)'
  <2>1. j \in Slot \ {i} /\ cfds[j] \in Conn \ {cfds[i]}
    BY <1>2, SlotFacts DEF IInv
  <2>2. SlotIntact(j)
    BY StreamBySlot DEF IInv
  <2> QED BY <2>1, <2>2 DEF SlotIntact, Written, Told
<1>3. StreamIntact'
  <2>1. ASSUME NEW j \in 1..Len(cfds) PROVE SlotIntact(j)'
    <3>1. CASE j = i
      BY <3>1
    <3>2. CASE j # i
      BY <3>2, <1>2
    <3> QED BY <3>1, <3>2
  <2>2. cfds' = cfds
    OBVIOUS
  <2>3. \A j \in 1..Len(cfds') : SlotIntact(j)'
    BY <2>1, <2>2
  <2> QED BY <2>3, StreamBySlotNext
<1> QED BY <1>1, <1>3

\* No thread has started and no client has connected.
THEOREM InitIInv == Init => IInv
<1> SUFFICES ASSUME Init PROVE IInv
  OBVIOUS
<1>1. Len(cfds) = 0 /\ cfds = <<>> /\ backlog = <<>> /\ Len(backlog) = 0
  BY DEF Init
<1>2. TypeOK
  BY <1>1, SizeAssumption, EmptySeq DEF Init, TypeOK
<1>3. Threads
  BY <1>1, SizeAssumption DEF Init, Threads, Slot
<1>4. OnePlace
  BY <1>1 DEF OnePlace, At
<1>5. Unlisted
  <2>1. \A c \in Conn : Written(c) = <<>>
    BY SMT DEF Init, Written
  <2> QED BY <2>1 DEF Init, Unlisted
<1>6. Holding
  BY DEF Init, Holding
<1>7. StreamIntact
  BY <1>1 DEF StreamIntact
<1> QED BY <1>2, <1>3, <1>4, <1>5, <1>6, <1>7 DEF IInv

-----------------------------------------------------------------------------
(* The types, action by action.                                             *)

LEMMA OwnerTypes == ASSUME TypeOK, Owner PROVE TypeOK'
<1> USE DEF TypeOK, readerVars, clientVars, answerVars, acceptVars
<1>1. CASE Start BY <1>1 DEF Start
<1>2. CASE StartFails BY <1>2 DEF StartFails
<1>3. CASE Stop BY <1>3 DEF Stop
<1>4. CASE JoinAccept BY <1>4 DEF JoinAccept
<1>5. CASE JoinReaders BY <1>5, EmptySeq DEF JoinReaders
<1> QED BY <1>1, <1>2, <1>3, <1>4, <1>5 DEF Owner

LEMMA AcceptTypes == ASSUME TypeOK, Threads, Accept PROVE TypeOK'
<1> USE DEF TypeOK, readerVars, clientVars, answerVars, ownerVars, NextAccept
<1>1. CASE AcceptStarts BY <1>1 DEF AcceptStarts
<1>2. CASE AcceptTimesOut BY <1>2 DEF AcceptTimesOut
<1>3. backlog # <<>> => Head(backlog) \in Conn /\ Tail(backlog) \in Seq(Conn)
  BY HeadTailProperties
<1>4. CASE AcceptUnset BY <1>3, <1>4 DEF AcceptUnset, AfterUnset
<1>5. CASE AcceptRefused BY <1>3, <1>5 DEF AcceptRefused
<1>6. CASE AcceptClient
  <2>1. cfds' \in Seq(Conn) /\ Len(cfds') = Len(cfds) + 1
    BY <1>3, <1>6, AppendProperties DEF AcceptClient
  <2>2. Len(cfds') <= MaxClient
    BY <1>6, <2>1, LenProperties, SizeAssumption DEF AcceptClient, Threads
  <2> QED BY <1>3, <1>6, <2>1, <2>2 DEF AcceptClient
<1>7. CASE SpawnReader
  BY <1>7 DEF SpawnReader
<1>8. CASE ConnectHook BY <1>8 DEF ConnectHook
<1> QED BY <1>1, <1>2, <1>4, <1>5, <1>6, <1>7, <1>8 DEF Accept

LEMMA ReaderTypes ==
  ASSUME TypeOK, Threads, OnePlace, NEW i \in Slot, Reader(i)
  PROVE  TypeOK'
<1>1. reader[i] # "none"
  BY DEF Reader, ReaderStarts, ReadBytes, ReadNothing, Dispatch, Answer, WriteSome,
         WriteFails, Handed
<1>2. FdOf(i) \in Conn
  BY <1>1, ReaderSlot, SlotFacts DEF FdOf
<1> DEFINE c == FdOf(i)
<1> HIDE DEF c
<1>c. c \in Conn /\ c = FdOf(i)
  BY <1>2 DEF c
<1>r. NextRead \in {"read", "exit"}
  BY DEF NextRead
<1>3. CASE ReaderStarts(i)
  BY <1>3, <1>r DEF ReaderStarts, TypeOK, ownerVars, acceptVars, clientVars, answerVars
<1>4. CASE ReadBytes(i)
  <2> DEFINE n == ReadSize(Len(stream[c]))
  <2>1. stream[c] \in Seq(Byte) /\ Len(stream[c]) \in Nat /\ n \in 0..Len(stream[c])
    BY <1>c, LenProperties, SizeAssumption DEF TypeOK, ReadSize
  <2> HIDE DEF n
  <2>2. SubSeq(stream[c], 1, n) \in Seq(Byte)
        /\ SubSeq(stream[c], n + 1, Len(stream[c])) \in Seq(Byte)
    BY <2>1, CutAndJoin
  <2>3. /\ msg' = [msg EXCEPT ![i] = SubSeq(stream[c], 1, n)]
        /\ stream' = [stream EXCEPT ![c] = SubSeq(stream[c], n + 1, Len(stream[c]))]
        /\ reader' = [reader EXCEPT ![i] = "got"]
        /\ UNCHANGED <<ownerVars, acceptVars, handled, clientVars, backlog, answerVars>>
    BY <1>4, <1>c DEF ReadBytes, n
  <2>4. msg' \in [Slot -> Seq(Byte)] /\ stream' \in [Conn -> Seq(Byte)]
        /\ reader' \in [Slot -> {"none", "check", "read", "got", "write", "exit"}]
    BY <2>2, <2>3, <1>c DEF TypeOK
  <2> QED BY <2>3, <2>4 DEF TypeOK, ownerVars, acceptVars, clientVars, answerVars
<1>5. CASE ReadNothing(i)
  BY <1>5, <1>r DEF ReadNothing, AfterNothing, TypeOK, ownerVars, acceptVars, clientVars,
     answerVars
<1>6. ASSUME Handed(i)
      PROVE  handled' \in [Slot -> Seq(Byte)] /\ msg' \in [Slot -> Seq(Byte)]
  <2>1. handled[i] \o msg[i] \in Seq(Byte) /\ <<>> \in Seq(Byte)
    BY ConcatProperties, EmptySeq DEF TypeOK
  <2> QED BY <1>6, <2>1 DEF Handed, TypeOK
<1>7. CASE Dispatch(i)
  BY <1>6, <1>7, <1>r DEF Dispatch, TypeOK, ownerVars, acceptVars, clientVars, answerVars
<1>8. CASE Answer(i)
  <2> DEFINE m == told[c]
  <2>a. /\ told' = [told EXCEPT ![c] = m + AnswerSize]
        /\ rest' = [rest EXCEPT ![i] = Told(c, m + 1, m + AnswerSize)]
    BY <1>8, <1>c DEF Answer
  <2>b. m \in Nat /\ m + AnswerSize \in Nat /\ m <= m + AnswerSize
    BY SMTT(20), <1>c, SizeAssumption DEF TypeOK
  <2> HIDE DEF m
  <2>1. Told(c, m + 1, m + AnswerSize) \in Seq(Byte)
    BY <1>c, <2>b, ToldSeq
  <2>2. told' \in [Conn -> Nat] /\ rest' \in [Slot -> Seq(Byte)]
    BY <1>c, <2>a, <2>b, <2>1 DEF TypeOK
  <2>3. reader' \in [Slot -> {"none", "check", "read", "got", "write", "exit"}]
    BY <1>8 DEF Answer, TypeOK
  <2>4. Handed(i) /\ UNCHANGED <<ownerVars, acceptVars, clientVars, backlog, stream, down, got>>
    BY <1>8 DEF Answer
  <2> QED BY <1>6, <2>2, <2>3, <2>4 DEF TypeOK, ownerVars, acceptVars, clientVars
<1>9. CASE WriteSome(i)
  <2>1. PICK n \in 1..Len(rest[i]) :
          /\ down' = [down EXCEPT ![c] = down[c] \o SubSeq(rest[i], 1, n)]
          /\ rest' = [rest EXCEPT ![i] = Left(rest[i], n)]
          /\ reader' = [reader EXCEPT ![i] = AfterWrite(Left(rest[i], n))]
    BY <1>9, <1>c DEF WriteSome
  <2>2. rest[i] \in Seq(Byte) /\ Len(rest[i]) \in Nat /\ n \in 0..Len(rest[i])
        /\ down[c] \in Seq(Byte)
    BY <1>c, LenProperties DEF TypeOK
  <2>3. SubSeq(rest[i], 1, n) \in Seq(Byte) /\ Left(rest[i], n) \in Seq(Byte)
    BY <2>2, CutAndJoin DEF Left
  <2>4. down[c] \o SubSeq(rest[i], 1, n) \in Seq(Byte)
    BY <2>2, <2>3, ConcatProperties
  <2>5. AfterWrite(Left(rest[i], n)) \in {"read", "exit", "write"}
    BY <1>r DEF AfterWrite
  <2>6. /\ down' \in [Conn -> Seq(Byte)] /\ rest' \in [Slot -> Seq(Byte)]
        /\ reader' \in [Slot -> {"none", "check", "read", "got", "write", "exit"}]
    BY <2>1, <2>3, <2>4, <2>5, <1>c DEF TypeOK
  <2>7. UNCHANGED <<ownerVars, acceptVars, msg, handled, clientVars, backlog, stream, told, got>>
    BY <1>9 DEF WriteSome
  <2> QED BY <2>6, <2>7 DEF TypeOK, ownerVars, acceptVars, clientVars
<1>10. CASE WriteFails(i)
  BY <1>10, <1>r, EmptySeq DEF WriteFails, TypeOK, ownerVars, acceptVars, clientVars
<1> QED BY <1>3, <1>4, <1>5, <1>7, <1>8, <1>9, <1>10 DEF Reader

LEMMA ClientTypes ==
  ASSUME TypeOK, NEW c \in Conn, Client(c)
  PROVE  TypeOK'
<1> USE DEF TypeOK, ownerVars, acceptVars, readerVars
<1>1. CASE Connect(c)
  <2>1. backlog' \in Seq(Conn)
    BY <1>1, AppendProperties DEF Connect
  <2> QED BY <1>1, <2>1 DEF Connect, answerVars
<1>2. CASE GiveUp(c) BY <1>2 DEF GiveUp, answerVars
<1>3. CASE Send(c)
  <2>1. <<c, sent[c] + 1>> \in Byte /\ stream[c] \in Seq(Byte)
    BY DEF Byte
  <2>2. Append(stream[c], <<c, sent[c] + 1>>) \in Seq(Byte)
    BY <2>1, AppendProperties
  <2> QED BY <1>3, <2>2 DEF Send, answerVars
<1>4. CASE Receive(c)
  <2> DEFINE n == TakeSize(Len(down[c]))
             a == SubSeq(down[c], 1, n)
             b == SubSeq(down[c], n + 1, Len(down[c]))
  <2>1. down[c] \in Seq(Byte) /\ n \in 0..Len(down[c])
    BY LenProperties, SizeAssumption DEF TakeSize
  <2> HIDE DEF n
  <2>2. a \in Seq(Byte) /\ b \in Seq(Byte)
    BY <2>1, CutAndJoin
  <2>3. got' = [got EXCEPT ![c] = @ \o a] /\ down' = [down EXCEPT ![c] = b]
    BY <1>4 DEF Receive, n
  <2>4. got[c] \o a \in Seq(Byte)
    BY <2>2, ConcatProperties
  <2> HIDE DEF a, b
  <2>5. got' \in [Conn -> Seq(Byte)] /\ down' \in [Conn -> Seq(Byte)]
    BY <2>2, <2>3, <2>4
  <2> QED BY <1>4, <2>5 DEF Receive, clientVars
<1>5. CASE CloseConn(c) BY <1>5 DEF CloseConn, answerVars
<1> QED BY <1>1, <1>2, <1>3, <1>4, <1>5 DEF Client

-----------------------------------------------------------------------------
(* The owner's steps.                                                       *)

\* A step that only empties the backlog leaves every connection one place.
LEMMA NoBacklog ==
  ASSUME OnePlace, backlog' = <<>>, UNCHANGED <<cfds, client>>
  PROVE  OnePlace'
BY DEF OnePlace, At

LEMMA OwnerStep == ASSUME IInv, Owner PROVE IInv'
<1>1. TypeOK'
  BY OwnerTypes DEF IInv
<1>2. UNCHANGED <<accept, cfds, reader, readerVars, clientVars, stream, answerVars>>
      \/ Start
  BY DEF Owner, StartFails, Stop, JoinAccept, JoinReaders, acceptVars, readerVars
<1>3. UNCHANGED <<cfds, reader, readerVars, clientVars, stream, answerVars>>
  BY <1>2 DEF Start, readerVars
<1>4. UNCHANGED backlog \/ backlog' = <<>>
  BY DEF Owner, Start, StartFails, Stop, JoinAccept, JoinReaders
<1>5. OnePlace'
  BY <1>3, <1>4, PlaceFrame, NoBacklog DEF IInv, clientVars
<1>6. Unlisted' /\ Holding' /\ StreamIntact'
  BY <1>3, UnlistedFrame, HoldingFrame, StreamFrame DEF IInv, clientVars, answerVars, readerVars
<1>7. Threads'
  <2>1. CASE Start
    BY <2>1 DEF IInv, Threads, Start, readerVars
  <2>2. CASE StartFails
    BY <2>2 DEF IInv, Threads, StartFails, acceptVars, readerVars
  <2>3. CASE Stop
    BY <2>3 DEF IInv, Threads, Stop, acceptVars, readerVars
  <2>4. CASE JoinAccept
    BY <2>4 DEF IInv, Threads, JoinAccept, AcceptJoined, acceptVars, readerVars
  <2>5. CASE JoinReaders
    BY <2>5 DEF IInv, Threads, JoinReaders, readerVars, Listed
  <2> QED BY <2>1, <2>2, <2>3, <2>4, <2>5 DEF Owner
<1> QED BY <1>1, <1>5, <1>6, <1>7 DEF IInv

-----------------------------------------------------------------------------
(* The accept thread's steps.                                               *)

\* Taking the first of the backlog away leaves every connection one place.
LEMMA ShorterBacklog ==
  ASSUME OnePlace, backlog \in Seq(Conn), backlog # <<>>, backlog' = Tail(backlog),
         UNCHANGED <<cfds, client>>
  PROVE  OnePlace'
<1>1. \A k \in Nat, c \in Conn : At(backlog', k, c) => k + 1 \in Nat /\ At(backlog, k + 1, c)
  BY HeadTailProperties, LenProperties DEF At
<1>2. \A k \in Nat, c \in Conn : At(cfds', k, c) <=> At(cfds, k, c)
  BY DEF At
<1>3. ASSUME NEW c \in Conn, NEW j \in Nat, NEW k \in Nat, At(backlog', j, c), At(backlog', k, c)
      PROVE  j = k
  <2>1. j + 1 = k + 1
    BY <1>1, <1>3 DEF OnePlace
  <2> QED BY <2>1
<1>4. \A c \in Conn : \A j, k \in Nat : ~(At(cfds', j, c) /\ At(backlog', k, c))
  BY <1>1, <1>2 DEF OnePlace
<1>5. \A c \in Conn : \A j, k \in Nat : At(cfds', j, c) /\ At(cfds', k, c) => j = k
  BY <1>2 DEF OnePlace
<1>6. \A c \in Conn : (client')[c] \in {"idle", "lost"} =>
        \A k \in Nat : ~At(cfds', k, c) /\ ~At(backlog', k, c)
  BY <1>1, <1>2 DEF OnePlace
<1> QED BY <1>3, <1>4, <1>5, <1>6 DEF OnePlace, At

\* The client that gets a slot leaves the backlog.
LEMMA NewSlot ==
  ASSUME IInv, AcceptClient
  PROVE  /\ OnePlace'
         /\ \A k \in Nat, c \in Conn :
              At(cfds', k, c) <=> At(cfds, k, c) \/ (k = Len(cfds) + 1 /\ c = Head(backlog))
         /\ \A k \in Nat : ~At(cfds, k, Head(backlog))
         /\ Len(cfds') = Len(cfds) + 1 /\ Len(cfds) + 1 \in Slot
<1> DEFINE b == Head(backlog)
           n == Len(cfds)
<1>1. backlog \in Seq(Conn) /\ backlog # <<>> /\ cfds \in Seq(Conn) /\ b \in Conn
      /\ n \in Nat /\ n < MaxClient /\ MaxClient \in Nat
  BY HeadTailProperties, LenProperties, SizeAssumption DEF IInv, TypeOK, AcceptClient, Threads
<1>2. cfds' = Append(cfds, b) /\ backlog' = Tail(backlog) /\ client' = client
  BY DEF AcceptClient, clientVars
<1>3. Len(cfds') = n + 1 /\ (cfds')[n + 1] = b /\ \A k \in 1..n : (cfds')[k] = cfds[k]
  BY <1>1, <1>2, AppendProperties
<1> HIDE DEF b
<1>4. At(backlog, 1, b)
  BY <1>1, LenProperties, EmptySeq DEF At, b
<1>5. \A k \in Nat : ~At(cfds, k, b)
  BY <1>1, <1>4 DEF IInv, OnePlace
<1>6. \A k \in Nat, c \in Conn : At(cfds', k, c) <=> At(cfds, k, c) \/ (k = n + 1 /\ c = b)
  BY <1>1, <1>3 DEF At
<1>7. \A k \in Nat, c \in Conn : At(backlog', k, c) => k + 1 \in Nat /\ At(backlog, k + 1, c)
  BY <1>1, <1>2, HeadTailProperties, LenProperties DEF At
<1>8. \A k \in Nat : ~At(backlog', k, b)
  <2> SUFFICES ASSUME NEW k \in Nat, At(backlog', k, b) PROVE FALSE
    OBVIOUS
  <2>1. k + 1 = 1 /\ k >= 1
    BY <1>1, <1>4, <1>7 DEF IInv, OnePlace, At
  <2> QED BY <2>1
<1>9. ASSUME NEW c \in Conn, NEW j \in Nat, NEW k \in Nat, At(cfds', j, c), At(cfds', k, c)
      PROVE  j = k
  BY <1>5, <1>6, <1>9 DEF IInv, OnePlace
<1>10. ASSUME NEW c \in Conn, NEW j \in Nat, NEW k \in Nat, At(backlog', j, c), At(backlog', k, c)
       PROVE  j = k
  <2>1. j + 1 = k + 1
    BY <1>7, <1>10 DEF IInv, OnePlace
  <2> QED BY <2>1
<1>11. \A c \in Conn : \A j, k \in Nat : ~(At(cfds', j, c) /\ At(backlog', k, c))
  BY <1>6, <1>7, <1>8 DEF IInv, OnePlace
<1>12. client[b] \notin {"idle", "lost"}
  BY <1>1, <1>4 DEF IInv, OnePlace
<1>13. \A c \in Conn : (client')[c] \in {"idle", "lost"} =>
        \A k \in Nat : ~At(cfds', k, c) /\ ~At(backlog', k, c)
  BY <1>2, <1>6, <1>7, <1>12 DEF IInv, OnePlace
<1>14. OnePlace'
  BY <1>9, <1>10, <1>11, <1>13 DEF OnePlace, At
<1> QED BY <1>1, <1>3, <1>5, <1>6, <1>14 DEF b, Slot

LEMMA AcceptStep == ASSUME IInv, Accept PROVE IInv'
<1>1. TypeOK'
  BY AcceptTypes DEF IInv
<1>2. NextAccept \in {"accept", "done"} /\ (NextAccept = "accept" => Len(cfds) < MaxClient)
  BY DEF NextAccept, HasRoom
<1>o. main # "gone" /\ main \notin {"built", "unbound", "joinReaders"}
  BY DEF IInv, Threads, Accept, AcceptStarts, AcceptTimesOut, AcceptUnset, AcceptRefused,
         AcceptClient, SpawnReader, ConnectHook
<1>3. CASE AcceptClient
  <2>n. PICK n \in Nat : n = Len(cfds)
    BY LenProperties DEF IInv, TypeOK
  <2>h. Head(backlog) \in Conn
    BY <1>3, HeadTailProperties DEF IInv, TypeOK, AcceptClient
  <2>b. PICK b \in Conn : b = Head(backlog)
    BY <2>h
  <2>1. /\ OnePlace'
        /\ \A k \in Nat, c \in Conn : At(cfds', k, c) <=> At(cfds, k, c) \/ (k = n + 1 /\ c = b)
        /\ Len(cfds') = n + 1 /\ n + 1 \in Slot /\ n \in Nat
        /\ \A k \in Nat : ~At(cfds, k, b)
    BY <1>3, <2>n, <2>b, NewSlot
  <2>2. /\ UNCHANGED <<ownerVars, readerVars, clientVars, stream, answerVars>>
        /\ accept = "accept" /\ accept' = "spawn" /\ cfds' = Append(cfds, b)
    BY <1>3, <2>b DEF AcceptClient
  <2>3. Threads'
    <3>1. \A i \in Slot : i \in Nat /\ i >= 1
      BY DEF Slot
    <3>2. \A i \in Slot : reader[i] = "none" <=> i > n
      BY <2>2, <2>n DEF IInv, Threads
    <3>3. \A i \in Slot : i > n <=> i > n + 1 \/ i = n + 1
      BY <2>1, <3>1
    <3> QED BY <1>o, <2>1, <2>2, <3>2, <3>3 DEF Threads, ownerVars, readerVars
  <2>4. Holding'
    <3>1. \A i \in Slot : i > n + 1 => i > n
      BY <2>1 DEF Slot
    <3> QED BY <2>n, <2>1, <2>2, <3>1 DEF IInv, Holding, readerVars, answerVars
  <2>5. Unlisted'
    <3>1. ASSUME NEW c \in Conn, \A k \in Nat : ~At(cfds', k, c)
          PROVE  \A k \in Nat : ~At(cfds, k, c)
      BY <3>1, <2>1
    <3>2. \A c \in Conn : Written(c)' = Written(c)
      BY <2>2 DEF Written, clientVars
    <3> QED BY <2>2, <3>1, <3>2 DEF IInv, Unlisted, At, answerVars
  <2>6. StreamIntact'
    <3>1. ASSUME NEW i \in 1..n PROVE SlotIntact(i)'
      <4>1. SlotIntact(i)
        BY <2>n, StreamBySlot DEF IInv
      <4>2. (cfds')[i] = cfds[i]
        BY <2>n, <2>2, <2>b, AppendProperties DEF IInv, TypeOK
      <4>3. \A c : Written(c)' = Written(c)
        BY <2>2 DEF Written, clientVars
      <4> QED BY <2>2, <4>1, <4>2, <4>3 DEF SlotIntact, readerVars, clientVars, answerVars
    <3>2. ASSUME NEW i \in Slot, i = n + 1 PROVE SlotIntact(i)'
      <4>1. (cfds')[i] = b
        BY <2>n, <3>2, <2>2, <2>b, AppendProperties DEF IInv, TypeOK
      <4>2. /\ stream[b] = Written(b) /\ told[b] = 0 /\ down[b] = <<>> /\ got[b] = <<>>
        BY <2>1, <2>b DEF IInv, Unlisted
      <4>3. msg[i] = <<>> /\ handled[i] = <<>> /\ rest[i] = <<>>
        <5>1. i > n
          BY <3>2
        <5>2. reader[i] = "none"
          BY <2>n, <5>1 DEF IInv, Threads
        <5> QED BY <2>n, <5>1, <5>2 DEF IInv, Holding
      <4>4. <<>> \o <<>> = <<>> /\ <<>> \o <<>> \o stream[b] = stream[b] /\ Len(<<>>) = 0
        <5>1. stream[b] \in Seq(Byte) /\ <<>> \in Seq(Byte)
          BY <2>b, EmptySeq DEF IInv, TypeOK
        <5> QED BY <5>1, ConcatEmptySeq, EmptySeq
      <4>5. Told(b, 1, 0) = <<>>
        BY <2>b, ToldNothing
      <4>6. Written(b)' = Written(b)
        BY <2>2 DEF Written, clientVars
      <4> QED
        BY <2>2, <4>1, <4>2, <4>3, <4>4, <4>5, <4>6 DEF SlotIntact, readerVars, answerVars
    <3>3. \A i \in 1..(n + 1) : i \in 1..n \/ i = n + 1
      BY <2>1
    <3>4. ASSUME NEW i \in 1..(n + 1) PROVE SlotIntact(i)'
      BY <2>1, <3>1, <3>2, <3>3
    <3> QED BY <2>1, <3>4, StreamBySlotNext
  <2> QED BY <1>1, <2>1, <2>3, <2>4, <2>5, <2>6 DEF IInv
<1>4. CASE SpawnReader
  <2> DEFINE n == Len(cfds)
  <2>1. /\ UNCHANGED <<ownerVars, cfds, open, announced, msg, handled, clientVars, backlog,
                       stream, answerVars>>
        /\ accept = "spawn" /\ accept' = "hook" /\ reader' = [reader EXCEPT ![n] = "check"]
    BY <1>4 DEF SpawnReader
  <2>2. n \in Slot /\ n \in Nat /\ reader[n] = "none"
    BY <2>1, SizeAssumption, LenProperties DEF IInv, TypeOK, Threads, Slot
  <2>3. Threads'
    <3>1. \A i \in Slot : (reader')[i] = "none" <=> i > n
      BY <2>1, <2>2 DEF IInv, TypeOK, Threads, Slot
    <3> QED BY <1>o, <2>1, <3>1 DEF IInv, Threads, ownerVars
  <2>4. Holding'
    <3>1. msg[n] = <<>> /\ rest[n] = <<>>
      BY <2>2 DEF IInv, Holding
    <3> QED BY <2>1, <2>2, <3>1 DEF IInv, TypeOK, Holding, answerVars
  <2>5. OnePlace' /\ Unlisted' /\ StreamIntact'
    BY <2>1, PlaceFrame, UnlistedFrame, StreamFrame DEF IInv, clientVars, answerVars
  <2> QED BY <1>1, <2>3, <2>4, <2>5 DEF IInv
<1>5. ASSUME AcceptStarts \/ AcceptTimesOut \/ AcceptUnset \/ AcceptRefused \/ ConnectHook
      PROVE  IInv'
  <2>1. /\ UNCHANGED <<ownerVars, cfds, readerVars, clientVars, stream, answerVars>>
        /\ accept # "spawn" /\ accept' = NextAccept
        /\ UNCHANGED backlog \/ (backlog # <<>> /\ backlog' = Tail(backlog))
    BY <1>5 DEF AcceptStarts, AcceptTimesOut, AcceptUnset, AcceptRefused, ConnectHook
  <2>2. OnePlace'
    BY <2>1, PlaceFrame, ShorterBacklog DEF IInv, TypeOK, clientVars
  <2>3. Unlisted' /\ Holding' /\ StreamIntact'
    BY <2>1, UnlistedFrame, HoldingFrame, StreamFrame DEF IInv, clientVars, answerVars, readerVars
  <2>4. Threads'
    BY <1>2, <1>o, <2>1 DEF IInv, Threads, ownerVars, readerVars
  <2> QED BY <1>1, <2>2, <2>3, <2>4 DEF IInv
<1> QED BY <1>3, <1>4, <1>5 DEF Accept

\* Brackets of concatenations.
LEMMA Associative ==
  \A p, a, b \in Seq(Byte) : p \o a \o b = p \o (a \o b)
<1> TAKE p, a, b \in Seq(Byte)
<1> QED BY ConcatAssociative

-----------------------------------------------------------------------------
(* The readers' steps.                                                      *)

\* A step of a reader that has a slot keeps the slot; it is none of the
\* accept thread's business, and there is none once the server has gone.
LEMMA ReaderThreads ==
  ASSUME IInv, NEW i \in Slot, reader[i] \notin {"none", "exit"},
         NEW r \in {"read", "got", "write", "exit"}, reader' = [reader EXCEPT ![i] = r],
         UNCHANGED <<main, accept, cfds, open>>
  PROVE  Threads'
<1>1. main # "gone" /\ (reader')[i] # "none" /\ \A j \in Slot : j # i => (reader')[j] = reader[j]
  BY DEF IInv, TypeOK, Threads
<1>2. \A j \in Slot : (reader')[j] = "none" <=> reader[j] = "none"
  BY <1>1
<1> QED BY <1>1, <1>2 DEF IInv, Threads

LEMMA ReaderStep == ASSUME IInv, NEW i \in Slot, Reader(i) PROVE IInv'
<1>1. TypeOK'
  BY ReaderTypes DEF IInv
<1>2. NextRead \in {"read", "exit"}
  BY DEF NextRead
<1>3. reader[i] \in {"check", "read", "got", "write"}
  BY DEF Reader, ReaderStarts, ReadBytes, ReadNothing, Dispatch, Answer, WriteSome,
         WriteFails, Handed
<1>4. i \in 1..Len(cfds) /\ ~(i > Len(cfds))
  BY <1>3, ReaderSlot, LenProperties DEF IInv, TypeOK
<1>5. PICK c \in Conn : c = cfds[i] /\ c = FdOf(i)
  BY <1>4, SlotFacts DEF FdOf, IInv
<1>6. SlotIntact(i)
  BY <1>4, StreamBySlot DEF IInv
<1>7. UNCHANGED <<main, accept, cfds, open, backlog, client, sent>>
  BY DEF Reader, ReaderStarts, ReadBytes, ReadNothing, Dispatch, Answer, WriteSome,
         WriteFails, ownerVars, acceptVars, clientVars
<1>8. OnePlace'
  BY <1>7, PlaceFrame DEF IInv
<1>9. Threads'
  <2>1. PICK r \in {"read", "got", "write", "exit"} : reader' = [reader EXCEPT ![i] = r]
    BY <1>2 DEF Reader, ReaderStarts, ReadBytes, ReadNothing, AfterNothing, Dispatch, Answer,
                WriteSome, WriteFails, AfterWrite
  <2> QED BY <1>3, <1>7, <2>1, ReaderThreads
<1>10. \A d \in Conn : Written(d)' = Written(d)
  BY <1>7 DEF Written
<1>t. /\ handled[i] \in Seq(Byte) /\ msg[i] \in Seq(Byte) /\ rest[i] \in Seq(Byte)
      /\ stream[c] \in Seq(Byte) /\ down[c] \in Seq(Byte) /\ got[c] \in Seq(Byte)
      /\ told[c] \in Nat /\ <<>> \in Seq(Byte)
  BY EmptySeq DEF IInv, TypeOK
<1>11. ASSUME ReaderStarts(i) \/ ReadNothing(i)
       PROVE  Holding' /\ Unlisted' /\ StreamIntact'
  <2>1. /\ UNCHANGED <<cfds, msg, handled, clientVars, stream, answerVars>>
        /\ reader' = [reader EXCEPT ![i] = NextRead] /\ reader[i] \in {"check", "read"}
    BY <1>11 DEF ReaderStarts, ReadNothing, AfterNothing, acceptVars
  <2>2. Holding'
    BY <1>2, <2>1 DEF IInv, TypeOK, Holding, answerVars
  <2> QED BY <2>1, <2>2, UnlistedFrame, StreamFrame DEF IInv, clientVars, answerVars
<1>12. ASSUME ReadBytes(i) PROVE Holding' /\ Unlisted' /\ StreamIntact'
  <2>1. PICK n \in 0..Len(stream[c]) : n = ReadSize(Len(stream[c]))
    BY SMTT(20), <1>t, LenProperties, SizeAssumption DEF ReadSize
  <2>2. PICK a \in Seq(Byte), b \in Seq(Byte) :
          a = SubSeq(stream[c], 1, n) /\ b = SubSeq(stream[c], n + 1, Len(stream[c]))
    BY <1>t, CutAndJoin
  <2>3. a \o b = stream[c]
    BY <1>t, <2>2, CutAndJoin
  <2>4. /\ msg' = [msg EXCEPT ![i] = a] /\ stream' = [stream EXCEPT ![c] = b]
        /\ reader' = [reader EXCEPT ![i] = "got"] /\ reader[i] = "read"
        /\ UNCHANGED <<acceptVars, handled, clientVars, backlog, answerVars>>
    BY <1>5, <1>12, <2>1, <2>2 DEF ReadBytes
  <2>5. msg[i] = <<>> /\ rest[i] = <<>>
    BY <2>4 DEF IInv, Holding
  <2>6. handled[i] \o a \o b = handled[i] \o msg[i] \o stream[c]
    <3>3. \A p \in Seq(Byte) : p \o a \o b = p \o (a \o b)
      BY <2>2, Associative
    <3>1. handled[i] \o a \o b = handled[i] \o (a \o b)
      BY <1>t, <3>3
    <3>2. handled[i] \o msg[i] = handled[i]
      BY <1>t, <2>5, ConcatEmptySeq
    <3> QED BY <2>3, <3>1, <3>2
  <2>7. (msg')[i] = a /\ (stream')[c] = b
    BY <2>4 DEF IInv, TypeOK
  <2>8. SlotIntact(i)'
    BY <1>5, <1>6, <1>7, <1>10, <2>4, <2>6, <2>7 DEF SlotIntact, answerVars
  <2>9. Holding'
    BY <2>4, <2>5 DEF IInv, TypeOK, Holding, acceptVars, answerVars
  <2>10. StreamIntact' /\ Unlisted'
    BY <1>4, <1>5, <2>4, <2>8, SlotStep DEF IInv, TypeOK, acceptVars, clientVars, answerVars
  <2> QED BY <2>9, <2>10
<1>13. ASSUME Handed(i)
       PROVE  /\ (handled')[i] \o (msg')[i] = handled[i] \o msg[i] /\ (msg')[i] = <<>>
              /\ rest[i] = <<>>
              /\ \A j \in Slot \ {i} : (handled')[j] = handled[j] /\ (msg')[j] = msg[j]
  <2>1. (handled')[i] = handled[i] \o msg[i] /\ (msg')[i] = <<>>
    BY <1>13 DEF Handed, IInv, TypeOK
  <2>2. (handled[i] \o msg[i]) \o <<>> = handled[i] \o msg[i]
    BY <1>t, ConcatProperties, ConcatEmptySeq
  <2>3. rest[i] = <<>>
    BY <1>13 DEF Handed, IInv, Holding
  <2> QED BY <1>13, <2>1, <2>2, <2>3 DEF Handed, IInv, TypeOK
<1>14. ASSUME Dispatch(i) PROVE Holding' /\ Unlisted' /\ StreamIntact'
  <2>1. /\ Handed(i) /\ reader' = [reader EXCEPT ![i] = NextRead]
        /\ UNCHANGED <<acceptVars, clientVars, stream, answerVars>>
    BY <1>14 DEF Dispatch
  <2>2. SlotIntact(i)'
    BY <1>5, <1>6, <1>7, <1>10, <1>13, <2>1 DEF SlotIntact, answerVars
  <2>3. Holding'
    BY <1>2, <1>13, <1>4, <2>1 DEF IInv, TypeOK, Holding, acceptVars, answerVars
  <2>4. StreamIntact' /\ Unlisted'
    BY <1>4, <1>5, <1>13, <2>1, <2>2, SlotStep DEF acceptVars, clientVars, answerVars
  <2> QED BY <2>3, <2>4
<1>15. ASSUME Answer(i) PROVE Holding' /\ Unlisted' /\ StreamIntact'
  <2>1. PICK m \in Nat : m = told[c]
    BY <1>t
  <2>2. m + AnswerSize \in Nat /\ m <= m + AnswerSize
    BY SizeAssumption
  <2>3. PICK a \in Seq(Byte) : a = Told(c, m + 1, m + AnswerSize)
    BY <2>2, ToldSeq
  <2>4. /\ Handed(i) /\ told' = [told EXCEPT ![c] = m + AnswerSize]
        /\ rest' = [rest EXCEPT ![i] = a] /\ reader' = [reader EXCEPT ![i] = "write"]
        /\ UNCHANGED <<acceptVars, clientVars, stream, down, got>>
    BY <1>5, <1>15, <2>1, <2>3 DEF Answer
  <2>5. (told')[c] = m + AnswerSize /\ (rest')[i] = a
    BY <2>4 DEF IInv, TypeOK
  <2>6. client[c] = "up" => got[c] \o down[c] \o a = Told(c, 1, m + AnswerSize)
    <3>1. got[c] \o down[c] \o rest[i] = got[c] \o down[c]
      <4>1. got[c] \o down[c] \in Seq(Byte) /\ rest[i] = <<>>
        BY <1>t, <1>13, <2>4, ConcatProperties
      <4> QED BY <4>1, ConcatEmptySeq
    <3>2. client[c] = "up" => got[c] \o down[c] = Told(c, 1, m)
      BY <1>5, <1>6, <2>1, <3>1 DEF SlotIntact
    <3>3. Told(c, 1, m) \o a = Told(c, 1, m + AnswerSize)
      BY <2>2, <2>3, ToldJoin
    <3> QED BY <3>2, <3>3
  <2>7. SlotIntact(i)'
    BY <1>5, <1>6, <1>7, <1>10, <1>13, <2>4, <2>5, <2>6 DEF SlotIntact
  <2>8. Holding'
    BY <1>4, <1>13, <2>4 DEF IInv, TypeOK, Holding, acceptVars
  <2>9. StreamIntact' /\ Unlisted'
    BY <1>4, <1>5, <1>13, <2>4, <2>7, SlotStep DEF IInv, TypeOK, acceptVars, clientVars
  <2> QED BY <2>8, <2>9
<1>16. ASSUME WriteSome(i) PROVE Holding' /\ Unlisted' /\ StreamIntact'
  <2>1. PICK n \in 1..Len(rest[i]) :
          /\ down' = [down EXCEPT ![c] = down[c] \o SubSeq(rest[i], 1, n)]
          /\ rest' = [rest EXCEPT ![i] = Left(rest[i], n)]
          /\ reader' = [reader EXCEPT ![i] = AfterWrite(Left(rest[i], n))]
    BY <1>5, <1>16 DEF WriteSome
  <2>2. n \in 0..Len(rest[i])
    BY <1>t, LenProperties
  <2>3. PICK a \in Seq(Byte), b \in Seq(Byte) :
          a = SubSeq(rest[i], 1, n) /\ b = Left(rest[i], n)
    BY <1>t, <2>2, CutAndJoin DEF Left
  <2>4. a \o b = rest[i]
    BY <1>t, <2>2, <2>3, CutAndJoin DEF Left
  <2>5. /\ client[c] = "up" /\ reader[i] = "write"
        /\ UNCHANGED <<acceptVars, msg, handled, clientVars, stream, told, got>>
    BY <1>5, <1>16 DEF WriteSome
  <2>6. (down')[c] = down[c] \o a /\ (rest')[i] = b /\ (down[c] \o a) \in Seq(Byte)
    BY <1>t, <2>1, <2>3, ConcatProperties DEF IInv, TypeOK
  <2>7. got[c] \o (down[c] \o a) \o b = got[c] \o down[c] \o rest[i]
    <3>1. ASSUME NEW p \in Seq(Byte), NEW q \in Seq(Byte)
          PROVE  p \o (q \o a) \o b = p \o q \o (a \o b)
      <4>1. p \o q \in Seq(Byte) /\ p \o (q \o a) = p \o q \o a
        BY SMTT(20), <2>3, ConcatProperties, ConcatAssociative
      <4>2. \A r \in Seq(Byte) : r \o a \o b = r \o (a \o b)
        BY <2>3, Associative
      <4> QED BY <4>1, <4>2
    <3>2. got[c] \o (down[c] \o a) \o b = got[c] \o down[c] \o (a \o b)
      BY <1>t, <3>1
    <3> QED BY <2>4, <3>2
  <2>8. got[c] \o (down[c] \o a) \o b = Told(c, 1, told[c])
    BY <1>5, <1>6, <2>5, <2>7 DEF SlotIntact
  <2>9. got[c] \o (down[c] \o a) = Told(c, 1, Len(got[c] \o (down[c] \o a)))
    BY <1>t, <2>3, <2>6, <2>8, ToldPrefix, ConcatProperties
  <2>10. SlotIntact(i)'
    BY <1>5, <1>6, <1>7, <1>10, <2>5, <2>6, <2>8, <2>9 DEF SlotIntact
  <2>11. Holding'
    BY <1>4, <2>1, <2>3, <2>5, <2>6 DEF IInv, TypeOK, Holding, acceptVars, AfterWrite, NextRead
  <2>12. StreamIntact' /\ Unlisted'
    BY <1>4, <1>5, <2>1, <2>5, <2>10, SlotStep DEF IInv, TypeOK, acceptVars, clientVars
  <2> QED BY <2>11, <2>12
<1>17. ASSUME WriteFails(i) PROVE Holding' /\ Unlisted' /\ StreamIntact'
  <2>1. /\ client[c] # "up" /\ reader[i] = "write" /\ rest' = [rest EXCEPT ![i] = <<>>]
        /\ reader' = [reader EXCEPT ![i] = NextRead]
        /\ UNCHANGED <<acceptVars, msg, handled, clientVars, stream, told, down, got>>
    BY <1>5, <1>17 DEF WriteFails
  <2>2. SlotIntact(i)'
    BY <1>5, <1>6, <1>7, <1>10, <2>1 DEF SlotIntact
  <2>3. Holding'
    BY <1>2, <2>1 DEF IInv, TypeOK, Holding, acceptVars
  <2>4. StreamIntact' /\ Unlisted'
    BY <1>4, <1>5, <2>1, <2>2, SlotStep DEF IInv, TypeOK, acceptVars, clientVars
  <2> QED BY <2>3, <2>4
<1>18. Holding' /\ Unlisted' /\ StreamIntact'
  BY <1>11, <1>12, <1>14, <1>15, <1>16, <1>17 DEF Reader
<1> QED BY <1>1, <1>8, <1>9, <1>18 DEF IInv

-----------------------------------------------------------------------------
(* The clients' steps.                                                      *)

\* A step that touches one connection and no reader keeps the streams if it
\* keeps that connection's own, with or without a slot.
LEMMA ConnStep ==
  ASSUME IInv, NEW c \in Conn, UNCHANGED <<cfds, handled, msg, rest>>,
         \A d \in Conn \ {c} :
            /\ (stream')[d] = stream[d] /\ (told')[d] = told[d] /\ (client')[d] = client[d]
            /\ (down')[d] = down[d] /\ (got')[d] = got[d] /\ (sent')[d] = sent[d],
         \A i \in 1..Len(cfds) : cfds[i] = c => SlotIntact(i)',
         (\A k \in Nat : ~At(cfds, k, c)) =>
            /\ (stream')[c] = Written(c)' /\ (told')[c] = 0
            /\ (down')[c] = <<>> /\ (got')[c] = <<>>
  PROVE  StreamIntact' /\ Unlisted'
<1>1. \A d \in Conn \ {c} : Written(d)' = Written(d)
  BY DEF Written
<1>2. ASSUME NEW d \in Conn, \A k \in Nat : ~At(cfds, k, d)
      PROVE  /\ (stream')[d] = Written(d)' /\ (told')[d] = 0
             /\ (down')[d] = <<>> /\ (got')[d] = <<>>
  <2>1. CASE d = c
    BY <1>2, <2>1
  <2>2. CASE d # c
    BY <1>1, <1>2, <2>2 DEF IInv, Unlisted
  <2> QED BY <2>1, <2>2
<1>3. Unlisted'
  BY <1>2 DEF Unlisted, At
<1>4. ASSUME NEW j \in 1..Len(cfds) PROVE SlotIntact(j)'
  <2>1. CASE cfds[j] = c
    BY <2>1
  <2>2. CASE cfds[j] # c
    <3>1. SlotIntact(j) /\ cfds[j] \in Conn \ {c}
      BY <2>2, StreamBySlot, SlotFacts DEF IInv
    <3> QED BY <1>1, <3>1 DEF SlotIntact
  <2> QED BY <2>1, <2>2
<1>5. \A j \in 1..Len(cfds') : SlotIntact(j)'
  BY <1>4
<1>6. StreamIntact'
  BY <1>5, StreamBySlotNext
<1> QED BY <1>3, <1>6

\* A client that connects waits at the end of the backlog.
LEMMA ConnectPlace ==
  ASSUME IInv, NEW c \in Conn, Connect(c)
  PROVE  OnePlace'
<1>1. /\ backlog' = Append(backlog, c) /\ client' = [client EXCEPT ![c] = "up"]
      /\ cfds' = cfds /\ client[c] = "idle" /\ backlog \in Seq(Conn)
  BY DEF Connect, acceptVars, IInv, TypeOK
<1>2. PICK n \in Nat : n = Len(backlog)
  BY <1>1, LenProperties
<1>3. \A k \in Nat, d \in Conn : At(backlog', k, d) <=> At(backlog, k, d) \/ (k = n + 1 /\ d = c)
  <2>1. Len(backlog') = n + 1 /\ (backlog')[n + 1] = c
        /\ \A k \in 1..n : (backlog')[k] = backlog[k]
    BY <1>1, <1>2, AppendProperties
  <2> QED BY <1>2, <2>1 DEF At
<1>4. \A k \in Nat : ~At(cfds, k, c) /\ ~At(backlog, k, c)
  BY <1>1 DEF IInv, OnePlace
<1>5. \A d \in Conn : (client')[d] \in {"idle", "lost"} => d # c /\ client[d] \in {"idle", "lost"}
  BY <1>1 DEF IInv, TypeOK
<1>6. ASSUME NEW d \in Conn, NEW j \in Nat, NEW k \in Nat, At(backlog', j, d), At(backlog', k, d)
      PROVE  j = k
  <2>1. CASE d = c
    BY <1>3, <1>4, <1>6, <2>1
  <2>2. CASE d # c
    <3>1. At(backlog, j, d) /\ At(backlog, k, d)
      BY <1>3, <1>6, <2>2
    <3> QED BY <3>1 DEF IInv, OnePlace
  <2> QED BY <2>1, <2>2
<1>7. \A d \in Conn : \A j, k \in Nat : ~(At(cfds, j, d) /\ At(backlog', k, d))
  BY <1>3, <1>4 DEF IInv, OnePlace
<1>8. \A d \in Conn : (client')[d] \in {"idle", "lost"} =>
        \A k \in Nat : ~At(cfds, k, d) /\ ~At(backlog', k, d)
  BY <1>3, <1>5 DEF IInv, OnePlace
<1>9. \A d \in Conn : \A j, k \in Nat : At(cfds, j, d) /\ At(cfds, k, d) => j = k
  BY DEF IInv, OnePlace
<1> QED BY SMTT(20), <1>1, <1>6, <1>7, <1>8, <1>9 DEF OnePlace, At

LEMMA ClientStep == ASSUME IInv, NEW c \in Conn, Client(c) PROVE IInv'
<1>1. TypeOK'
  BY ClientTypes DEF IInv
<1>2. UNCHANGED <<main, accept, cfds, open, reader, msg, handled, rest>>
  BY DEF Client, Connect, GiveUp, Send, Receive, CloseConn, ownerVars, acceptVars, readerVars,
         answerVars
<1>3. Threads' /\ Holding'
  BY <1>2, ThreadsFrame, HoldingFrame DEF IInv
<1>t. /\ stream[c] \in Seq(Byte) /\ down[c] \in Seq(Byte) /\ got[c] \in Seq(Byte)
      /\ sent[c] \in Nat /\ <<>> \in Seq(Byte)
  BY EmptySeq DEF IInv, TypeOK
<1>u. (\A k \in Nat : ~At(cfds, k, c)) =>
        stream[c] = Written(c) /\ told[c] = 0 /\ down[c] = <<>> /\ got[c] = <<>>
  BY DEF IInv, Unlisted
<1>4. ASSUME Connect(c) PROVE OnePlace' /\ StreamIntact' /\ Unlisted'
  <2>1. UNCHANGED <<sent, stream, told, down, got>> /\ client' = [client EXCEPT ![c] = "up"]
    BY <1>4 DEF Connect, answerVars
  <2>2. \A i \in 1..Len(cfds) : cfds[i] # c
    BY <1>4, SlotFacts DEF IInv, OnePlace, Connect, Slot
  <2>3. StreamIntact'
    <3>1. ASSUME NEW j \in 1..Len(cfds) PROVE SlotIntact(j)'
      <4>1. SlotIntact(j) /\ cfds[j] \in Conn \ {c}
        BY <2>2, StreamBySlot, SlotFacts DEF IInv
      <4>2. Written(cfds[j])' = Written(cfds[j]) /\ (client')[cfds[j]] = client[cfds[j]]
        BY <1>2, <2>1, <4>1 DEF Written, IInv, TypeOK
      <4> QED BY <1>2, <2>1, <4>1, <4>2 DEF SlotIntact
    <3>2. \A j \in 1..Len(cfds') : SlotIntact(j)'
      BY <1>2, <3>1
    <3> QED BY <3>2, StreamBySlotNext
  <2> QED BY <1>2, <1>4, <2>1, <2>3, ConnectPlace, UnlistedFrame DEF IInv
<1>5. ASSUME GiveUp(c) \/ CloseConn(c) PROVE OnePlace' /\ StreamIntact' /\ Unlisted'
  <2>1. PICK s \in {"lost", "closed"} :
          /\ client' = [client EXCEPT ![c] = s] /\ (s = "lost" => client[c] = "idle")
          /\ UNCHANGED <<sent, stream, told, down, got, backlog>>
    BY <1>5 DEF GiveUp, CloseConn, answerVars
  <2>2. \A d \in Conn : (client')[d] \in {"idle", "lost"} => client[d] \in {"idle", "lost"}
    BY <2>1 DEF IInv, TypeOK
  <2>3. OnePlace'
    BY <1>2, <2>1, <2>2 DEF IInv, OnePlace, At
  <2>4. Written(c)' = Written(c)
    BY <2>1 DEF Written
  <2>5. ASSUME NEW i \in 1..Len(cfds), cfds[i] = c PROVE SlotIntact(i)'
    <3>1. SlotIntact(i) /\ (client')[c] # "up"
      BY <2>1, StreamBySlot DEF IInv, TypeOK
    <3> QED BY <1>2, <2>1, <2>4, <2>5, <3>1 DEF SlotIntact
  <2>6. \A d \in Conn \ {c} : (client')[d] = client[d]
    BY <2>1 DEF IInv, TypeOK
  <2>7. StreamIntact' /\ Unlisted'
    BY <1>2, <1>u, <2>1, <2>4, <2>5, <2>6, ConnStep
  <2> QED BY <2>3, <2>7
<1>6. ASSUME Send(c) PROVE OnePlace' /\ StreamIntact' /\ Unlisted'
  <2>0. <<c, sent[c] + 1>> \in Byte
    BY <1>t DEF Byte
  <2>1. PICK x \in Byte : x = <<c, sent[c] + 1>>
    BY <2>0
  <2>2. /\ sent' = [sent EXCEPT ![c] = sent[c] + 1]
        /\ stream' = [stream EXCEPT ![c] = Append(stream[c], x)]
        /\ UNCHANGED <<client, backlog, told, down, got>>
    BY <1>6, <2>1 DEF Send, answerVars
  <2>3. OnePlace'
    BY <1>2, <2>2, PlaceFrame DEF IInv
  <2>4. Append(Written(c), x) = Written(c)' /\ Written(c) \in Seq(Byte)
    <3>1. (sent')[c] = sent[c] + 1
      BY <2>2 DEF IInv, TypeOK
    <3>2. Written(c)' = [k \in 1..(sent[c] + 1) |-> <<c, k>>]
      BY <3>1 DEF Written
    <3> QED BY <1>t, <2>1, <3>2, WrittenMore DEF Written
  <2>5. (stream')[c] = Append(stream[c], x)
    BY <2>2 DEF IInv, TypeOK
  <2>6. ASSUME NEW i \in 1..Len(cfds), cfds[i] = c PROVE SlotIntact(i)'
    <3>1. SlotIntact(i)
      BY StreamBySlot DEF IInv
    <3>2. PICK p \in Seq(Byte) : p = handled[i] \o msg[i]
      <4>1. handled[i] \in Seq(Byte) /\ msg[i] \in Seq(Byte)
        BY SlotFacts DEF IInv, TypeOK
      <4> QED BY <4>1, ConcatProperties
    <3>3. p \o Append(stream[c], x) = Append(p \o stream[c], x)
      <4>1. <<x>> \in Seq(Byte) /\ p \o stream[c] \in Seq(Byte)
        BY <1>t, <2>1, <3>2, ConcatProperties, SMT
      <4>2. Append(stream[c], x) = stream[c] \o <<x>>
        BY <1>t, <2>1, AppendIsConcat
      <4>3. Append(p \o stream[c], x) = p \o stream[c] \o <<x>>
        BY <4>1, <2>1, AppendIsConcat
      <4>4. \A s \in Seq(Byte) : p \o s \o <<x>> = p \o (s \o <<x>>)
        BY ZenonT(30), <3>2, <4>1, Associative
      <4> QED BY <1>t, <4>2, <4>3, <4>4
    <3>4. p \o stream[c] = Written(c)
      BY <2>6, <3>1, <3>2 DEF SlotIntact
    <3>5. handled[i] \o msg[i] \o (stream')[c] = Written(c)'
      BY <2>4, <2>5, <3>2, <3>3, <3>4
    <3> QED BY <1>2, <2>2, <2>6, <3>1, <3>5 DEF SlotIntact
  <2>7. /\ \A d \in Conn \ {c} : (sent')[d] = sent[d] /\ (stream')[d] = stream[d]
        /\ (\A k \in Nat : ~At(cfds, k, c)) => (stream')[c] = Written(c)'
    BY <1>u, <2>2, <2>4, <2>5 DEF IInv, TypeOK
  <2>8. StreamIntact' /\ Unlisted'
    BY <1>2, <1>u, <2>2, <2>6, <2>7, ConnStep
  <2> QED BY <2>3, <2>8
<1>7. ASSUME Receive(c) PROVE OnePlace' /\ StreamIntact' /\ Unlisted'
  <2>0. TakeSize(Len(down[c])) \in 0..Len(down[c])
    BY <1>t, LenProperties, SizeAssumption DEF TakeSize
  <2>1. PICK n \in 0..Len(down[c]) : n = TakeSize(Len(down[c]))
    BY <2>0
  <2>2. PICK a \in Seq(Byte), b \in Seq(Byte) :
          a = SubSeq(down[c], 1, n) /\ b = SubSeq(down[c], n + 1, Len(down[c]))
    BY <1>t, <2>1, CutAndJoin
  <2>3. a \o b = down[c]
    BY <1>t, <2>1, <2>2, CutAndJoin
  <2>4. /\ got' = [got EXCEPT ![c] = got[c] \o a] /\ down' = [down EXCEPT ![c] = b]
        /\ down[c] # <<>> /\ UNCHANGED <<client, sent, stream, backlog, told>>
    BY <1>7, <2>1, <2>2 DEF Receive, clientVars
  <2>5. (got')[c] = got[c] \o a /\ (down')[c] = b
    BY <2>4 DEF IInv, TypeOK
  <2>6. got[c] \o a \o b = got[c] \o down[c]
    <3>1. \A p \in Seq(Byte) : p \o a \o b = p \o (a \o b)
      BY ZenonT(30), <2>2, Associative
    <3> QED BY <1>t, <2>3, <3>1
  <2>7. Written(c)' = Written(c)
    BY <2>4 DEF Written
  <2>8. ASSUME NEW i \in 1..Len(cfds), cfds[i] = c PROVE SlotIntact(i)'
    <3>1. SlotIntact(i)
      BY StreamBySlot DEF IInv
    <3> QED BY <1>2, <2>4, <2>5, <2>6, <2>7, <2>8, <3>1 DEF SlotIntact
  <2>9. \A d \in Conn \ {c} : (got')[d] = got[d] /\ (down')[d] = down[d]
    BY <2>4 DEF IInv, TypeOK
  <2>10. StreamIntact' /\ Unlisted'
    BY <1>2, <1>u, <2>4, <2>8, <2>9, ConnStep
  <2>11. OnePlace'
    BY <1>2, <2>4, PlaceFrame DEF IInv
  <2> QED BY <2>10, <2>11
<1>8. OnePlace' /\ StreamIntact' /\ Unlisted'
  BY <1>4, <1>5, <1>6, <1>7 DEF Client
<1> QED BY <1>1, <1>3, <1>8 DEF IInv

-----------------------------------------------------------------------------
(* The theorems.                                                            *)

\* No step of the owner, of a thread or of a client breaks the invariant.
THEOREM StepIInv == IInv /\ [Next]_vars => IInv'
<1> SUFFICES ASSUME IInv, [Next]_vars PROVE IInv'
  OBVIOUS
<1>1. CASE Next
  BY <1>1, OwnerStep, AcceptStep, ReaderStep, ClientStep DEF Next
<1>2. CASE UNCHANGED vars
  <2>1. UNCHANGED <<main, running, accept, cfds, open, announced, reader, msg, handled, client,
                    sent, backlog, stream, told, rest, down, got>>
    BY <1>2 DEF vars, ownerVars, acceptVars, readerVars, clientVars, answerVars
  <2>2. TypeOK'
    BY <2>1 DEF IInv, TypeOK
  <2> QED BY <2>1, <2>2, ThreadsFrame, PlaceFrame, UnlistedFrame, HoldingFrame, StreamFrame
          DEF IInv
<1> QED BY <1>1, <1>2

\* The invariant holds in every reachable state.
THEOREM Inductive == Spec => []IInv
BY InitIInv, StepIInv, PTL DEF Spec

\* Every variable keeps its type.
THEOREM TypeCorrect == Spec => []TypeOK
<1>1. IInv => TypeOK
  BY DEF IInv
<1> QED BY <1>1, Inductive, PTL

\* What SocketServer::Listen hands to the message hook under a ClientId, with
\* what is on its way, is what that client wrote, and what the client reads
\* is what the hook answered it, for any number of clients and any sizes.
THEOREM StreamsStayIntact == Spec => []StreamIntact
<1>1. IInv => StreamIntact
  BY DEF IInv
<1> QED BY <1>1, Inductive, PTL

\* When ~SocketServer has returned, no accept or reader thread runs and no
\* descriptor of cfds_ is open.
THEOREM NoThreadIsLeft == Spec => []GoneIsQuiet
<1>1. IInv => GoneIsQuiet
  BY DEF IInv, Threads, GoneIsQuiet
<1> QED BY <1>1, Inductive, PTL
=============================================================================
