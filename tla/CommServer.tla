----------------------------- MODULE CommServer -----------------------------
(***************************************************************************)
(* The tool's end of the connection: DomainSocketServer                    *)
(* (core/DomainSocket.cpp) driven by SocketServer (core/Communication.cpp).*)
(* One accept thread takes the clients of the listening socket one by one, *)
(* screens them, gives each a slot of cfds_ (its ClientId), starts a       *)
(* reader thread for the slot and then calls the connect hook.  The reader *)
(* threads hand what they read to the message hook until the server is     *)
(* destroyed, which joins the accept thread and then the readers.          *)
(*                                                                         *)
(* The hook may answer the client it is called for (Server::Write).        *)
(*                                                                         *)
(* The clients are the environment: they connect, write, read and close    *)
(* when they like.  The k-th byte of either direction of a connection is   *)
(* the pair <<c, k>>, so that a byte that reaches the wrong end is seen    *)
(* to.  A Unix stream keeps no message boundaries: a read takes up to      *)
(* ReadMax of the bytes that are there, and a write what there is room     *)
(* for.                                                                    *)
(***************************************************************************)
EXTENDS Integers, Sequences, FiniteSets

CONSTANTS Conn,         \* the connections clients may make
          Foreign,      \* those whose peer has another uid or gid
          MaxClient,    \* maxClientNum_ (256 in Server::Server)
          ReadMax,      \* maxSize of SocketServer::Read (1024)
          RecvMax,      \* RECV_BUFF_SIZE of SocketClient::Read
          MaxSent,      \* bound on the bytes a connection's client writes
          MaxTold,      \* bound on the bytes the tool answers a connection
          AnswerSize,   \* the length of an answer
          SockBuf,      \* what a socket holds of a server's bytes
          MayFail       \* socket, bind, listen and setsockopt may fail

ASSUME ForeignAssumption == Foreign \subseteq Conn
ASSUME SizeAssumption ==
    MaxClient \in Nat \ {0} /\ ReadMax \in Nat \ {0}
    /\ RecvMax \in Nat \ {0} /\ SockBuf \in Nat \ {0}
    /\ AnswerSize \in Nat \ {0}
    /\ MaxSent \in [Conn -> Nat] /\ MaxTold \in [Conn -> Nat]
ASSUME FailAssumption == MayFail \in BOOLEAN

VARIABLES
    main,       \* the thread that owns the SocketServer
    running,    \* isRunning_
    accept,     \* where the accept thread is
    cfds,       \* DomainSocketServer::cfds_, a slot per accepted client
    open,       \* the connections whose server end is an open descriptor
    reader,     \* readWorker_: where the reader thread of each slot is
    msg,        \* what each reader has read and not yet handed over
    handled,    \* the bytes each slot's reader has given the message hook
    announced,  \* how many clients the connect hook has been told of
    backlog,    \* connections made and not yet accepted, oldest first
    client,     \* the client's end of each connection
    sent,       \* how many bytes the client has written
    stream,     \* bytes written and not yet read by the server
    told,       \* how many bytes the message hook has answered each client
    rest,       \* what the Write of each slot's reader has still to write
    down,       \* bytes the server wrote and the client has not read
    got         \* the bytes the client has read

ownerVars  == <<main, running>>
acceptVars == <<accept, cfds, open, announced>>
readerVars == <<reader, msg, handled>>
clientVars == <<client, sent>>
answerVars == <<told, rest, down, got>>
vars == <<ownerVars, acceptVars, readerVars, clientVars, backlog, stream,
          answerVars>>

Slot == 1..MaxClient
Listed == {cfds[i] : i \in 1..Len(cfds)}

Init ==
    /\ main = "built" /\ running = TRUE
    /\ accept = "none" /\ cfds = <<>> /\ open = {} /\ announced = 0
    /\ reader = [i \in Slot |-> "none"]
    /\ msg = [i \in Slot |-> <<>>]
    /\ handled = [i \in Slot |-> <<>>]
    /\ backlog = <<>> /\ stream = [c \in Conn |-> <<>>]
    /\ client = [c \in Conn |-> "idle"] /\ sent = [c \in Conn |-> 0]
    /\ told = [c \in Conn |-> 0] /\ rest = [i \in Slot |-> <<>>]
    /\ down = [c \in Conn |-> <<>>] /\ got = [c \in Conn |-> <<>>]

-----------------------------------------------------------------------------
(* The owner of the server: Start, and ~SocketServer followed by the        *)
(* destruction of socket_.                                                  *)

\* ListenAndBind succeeds and the accept thread starts.
Start ==
    /\ main = "built"
    /\ main' = "serving" /\ accept' = "check"
    /\ UNCHANGED <<running, cfds, open, announced, readerVars, clientVars,
                   backlog, stream, answerVars>>

\* ListenAndBind fails: socket_ is dropped and Start returns false.
StartFails ==
    /\ MayFail /\ main = "built"
    /\ main' = "unbound"
    /\ UNCHANGED <<running, acceptVars, readerVars, clientVars, backlog,
                   stream, answerVars>>

\* The destructor clears isRunning_ ...
Stop ==
    /\ main \in {"built", "serving", "unbound"}
    /\ main' = "joinAccept" /\ running' = FALSE
    /\ UNCHANGED <<acceptVars, readerVars, clientVars, backlog, stream,
                   answerVars>>

\* ... joins the accept thread if it was started ...
AcceptJoined_skipped == TRUE
AcceptJoined == accept \in {"none", "done"}

JoinAccept ==
    /\ main = "joinAccept" /\ AcceptJoined
    /\ main' = "joinReaders"
    /\ UNCHANGED <<running, acceptVars, readerVars, clientVars, backlog,
                   stream, answerVars>>

\* ... then every reader, after which socket_ goes and closes cfds_ and the
\* listening socket (the connections nobody accepted go with it).
JoinReaders ==
    /\ main = "joinReaders"
    /\ \A i \in Slot : reader[i] \in {"none", "exit"}
    /\ main' = "gone"
    /\ open' = open \ Listed
    /\ backlog' = <<>>
    /\ UNCHANGED <<running, accept, cfds, announced, readerVars, clientVars,
                   stream, answerVars>>

-----------------------------------------------------------------------------
(* The accept thread.                                                       *)

HasRoom(list) == Len(list) < MaxClient

NextAccept == IF running /\ HasRoom(cfds) THEN "accept" ELSE "done"

AcceptStarts ==
    /\ accept = "check"
    /\ accept' = NextAccept
    /\ UNCHANGED <<ownerVars, cfds, open, announced, readerVars, clientVars,
                   backlog, stream, answerVars>>

\* accept() gives up after the second of SO_RCVTIMEO.
AcceptTimesOut ==
    /\ accept = "accept" /\ backlog = <<>>
    /\ accept' = NextAccept
    /\ UNCHANGED <<ownerVars, cfds, open, announced, readerVars, clientVars,
                   backlog, stream, answerVars>>

AfterUnset(c) == open

AcceptUnset ==
    /\ MayFail /\ accept = "accept" /\ backlog # <<>>
    /\ open' = AfterUnset(Head(backlog))
    /\ backlog' = Tail(backlog)
    /\ accept' = NextAccept
    /\ UNCHANGED <<ownerVars, cfds, announced, readerVars, clientVars, stream,
                   answerVars>>

Trusted(c) == c \notin Foreign

AcceptRefused ==
    /\ accept = "accept" /\ backlog # <<>> /\ ~Trusted(Head(backlog))
    /\ open' = open \cup {Head(backlog)}
    /\ backlog' = Tail(backlog)
    /\ accept' = NextAccept
    /\ UNCHANGED <<ownerVars, cfds, announced, readerVars, clientVars, stream,
                   answerVars>>

\* The client gets the next slot.
AcceptClient ==
    /\ accept = "accept" /\ backlog # <<>> /\ Trusted(Head(backlog))
    /\ open' = open \cup {Head(backlog)}
    /\ cfds' = Append(cfds, Head(backlog))
    /\ backlog' = Tail(backlog)
    /\ accept' = "spawn"
    /\ UNCHANGED <<ownerVars, announced, readerVars, clientVars, stream,
                   answerVars>>

\* The thread of the new slot starts before the hook is told of the client.
SpawnReader ==
    /\ accept = "spawn"
    /\ reader' = [reader EXCEPT ![Len(cfds)] = "check"]
    /\ accept' = "hook"
    /\ UNCHANGED <<ownerVars, cfds, open, announced, msg, handled,
                   clientVars, backlog, stream, answerVars>>

ConnectHook ==
    /\ accept = "hook"
    /\ announced' = announced + 1
    /\ accept' = NextAccept
    /\ UNCHANGED <<ownerVars, cfds, open, readerVars, clientVars, backlog,
                   stream, answerVars>>

-----------------------------------------------------------------------------
(* The reader of slot i: SocketServer::Listen, whose Read finds the         *)
(* descriptor of its ClientId under cfdsMutex_ and reads it unlocked.       *)

KeepReading_always == TRUE
KeepReading == running

NextRead == IF KeepReading THEN "read" ELSE "exit"

ReaderStarts(i) ==
    /\ reader[i] = "check"
    /\ reader' = [reader EXCEPT ![i] = NextRead]
    /\ UNCHANGED <<ownerVars, acceptVars, msg, handled, clientVars, backlog,
                   stream, answerVars>>

\* The connection a ClientId names.
FdOf_newest(i) == cfds[Len(cfds)]
FdOf(i) == cfds[i]

ReadSize(n) == IF n < ReadMax THEN n ELSE ReadMax

ReadBytes(i) ==
    LET s == stream[FdOf(i)]
        n == ReadSize(Len(s))
    IN  /\ reader[i] = "read" /\ s # <<>>
        /\ msg' = [msg EXCEPT ![i] = SubSeq(s, 1, n)]
        /\ stream' = [stream EXCEPT ![FdOf(i)] = SubSeq(s, n + 1, Len(s))]
        /\ reader' = [reader EXCEPT ![i] = "got"]
        /\ UNCHANGED <<ownerVars, acceptVars, handled, clientVars, backlog,
                       answerVars>>

\* Nothing came for a second (read() fails, len is -1) or the peer has closed
\* (read() returns 0, Read succeeds, len is 0, and the next turn follows at
\* once): either way the turn ends without a message.
AfterNothing_break == "exit"
AfterNothing == NextRead

ReadNothing(i) ==
    /\ reader[i] = "read" /\ stream[FdOf(i)] = <<>>
    /\ reader' = [reader EXCEPT ![i] = AfterNothing]
    /\ UNCHANGED <<ownerVars, acceptVars, msg, handled, clientVars, backlog,
                   stream, answerVars>>

\* clientMsgHandlerHook_(clientId, msg), which may answer the client through
\* Server::Write from the reader's own thread.
Handed(i) ==
    /\ reader[i] = "got"
    /\ handled' = [handled EXCEPT ![i] = @ \o msg[i]]
    /\ msg' = [msg EXCEPT ![i] = <<>>]

Dispatch(i) ==
    /\ Handed(i)
    /\ reader' = [reader EXCEPT ![i] = NextRead]
    /\ UNCHANGED <<ownerVars, acceptVars, clientVars, backlog, stream,
                   answerVars>>

\* The bytes m..n of what the tool tells client c.
Told(c, m, n) == [k \in 1..(n - m + 1) |-> <<c, m + k - 1>>]

Answer(i) ==
    LET c == FdOf(i)
    IN  /\ Handed(i)
        /\ told[c] + AnswerSize <= MaxTold[c]
        /\ told' = [told EXCEPT ![c] = @ + AnswerSize]
        /\ rest' = [rest EXCEPT ![i] =
                        Told(c, told[c] + 1, told[c] + AnswerSize)]
        /\ reader' = [reader EXCEPT ![i] = "write"]
        /\ UNCHANGED <<ownerVars, acceptVars, clientVars, backlog, stream,
                       down, got>>

\* What is left of a message of which n bytes were written.
Left(m, n) == SubSeq(m, n + 1, Len(m))

AfterWrite(m) == IF m = <<>> THEN NextRead ELSE "write"

\* One write() of the loop: it takes what there is room for, and blocks while
\* there is none (no SO_SNDTIMEO is set).
WriteSome(i) ==
    LET c == FdOf(i)
    IN  /\ reader[i] = "write" /\ client[c] = "up"
        /\ \E n \in 1..Len(rest[i]) :
               /\ n <= SockBuf - Len(down[c])
               /\ down' = [down EXCEPT ![c] = @ \o SubSeq(rest[i], 1, n)]
               /\ rest' = [rest EXCEPT ![i] = Left(@, n)]
               /\ reader' = [reader EXCEPT ![i] =
                                AfterWrite(Left(rest[i], n))]
        /\ UNCHANGED <<ownerVars, acceptVars, msg, handled, clientVars,
                       backlog, stream, told, got>>

\* The peer has closed: write() returns -1 (in a tool that ignores SIGPIPE)
\* and Write gives up what it had not sent.
WriteFails(i) ==
    /\ reader[i] = "write" /\ client[FdOf(i)] = "closed"
    /\ rest' = [rest EXCEPT ![i] = <<>>]
    /\ reader' = [reader EXCEPT ![i] = NextRead]
    /\ UNCHANGED <<ownerVars, acceptVars, msg, handled, clientVars, backlog,
                   stream, told, down, got>>

-----------------------------------------------------------------------------
(* The clients.  listen()'s backlog of maxClientNum_ lets one more wait.    *)

Listening == accept # "none" /\ main # "gone"

Connect(c) ==
    /\ client[c] = "idle" /\ Listening
    /\ Len(backlog) <= MaxClient
    /\ client' = [client EXCEPT ![c] = "up"]
    /\ backlog' = Append(backlog, c)
    /\ UNCHANGED <<ownerVars, acceptVars, readerVars, sent, stream,
                   answerVars>>

\* Nobody listened at any of a client's retries: its connection stays away.
GiveUp(c) ==
    /\ client[c] = "idle" /\ ~Listening
    /\ client' = [client EXCEPT ![c] = "lost"]
    /\ UNCHANGED <<ownerVars, acceptVars, readerVars, sent, backlog, stream,
                   answerVars>>

Send(c) ==
    /\ client[c] = "up" /\ main # "gone" /\ sent[c] < MaxSent[c]
    /\ sent' = [sent EXCEPT ![c] = @ + 1]
    /\ stream' = [stream EXCEPT ![c] = Append(@, <<c, sent[c] + 1>>)]
    /\ UNCHANGED <<ownerVars, acceptVars, readerVars, client, backlog,
                   answerVars>>

\* SocketClient::Read: what is there, up to RecvMax bytes.
TakeSize(n) == IF n < RecvMax THEN n ELSE RecvMax

Receive(c) ==
    LET n == TakeSize(Len(down[c]))
    IN  /\ client[c] = "up" /\ down[c] # <<>>
        /\ got' = [got EXCEPT ![c] = @ \o SubSeq(down[c], 1, n)]
        /\ down' = [down EXCEPT ![c] = SubSeq(@, n + 1, Len(@))]
        /\ UNCHANGED <<ownerVars, acceptVars, readerVars, clientVars, backlog,
                       stream, told, rest>>

CloseConn(c) ==
    /\ client[c] = "up"
    /\ client' = [client EXCEPT ![c] = "closed"]
    /\ UNCHANGED <<ownerVars, acceptVars, readerVars, sent, backlog, stream,
                   answerVars>>

-----------------------------------------------------------------------------
Owner  == Start \/ StartFails \/ Stop \/ JoinAccept \/ JoinReaders
Accept == \/ AcceptStarts \/ AcceptTimesOut \/ AcceptUnset \/ AcceptRefused
          \/ AcceptClient \/ SpawnReader \/ ConnectHook
Reader(i) == \/ ReaderStarts(i) \/ ReadBytes(i) \/ ReadNothing(i)
             \/ Dispatch(i) \/ Answer(i) \/ WriteSome(i) \/ WriteFails(i)
Client(c) == Connect(c) \/ GiveUp(c) \/ Send(c) \/ Receive(c) \/ CloseConn(c)

Next == \/ Owner
        \/ Accept
        \/ \E i \in Slot : Reader(i)
        \/ \E c \in Conn : Client(c)

\* Threads run; a destructor that has begun goes on.  Nothing is assumed of
\* the clients, nor that the server is ever started or stopped.
Fairness ==
    /\ WF_vars(Accept)
    /\ \A i \in Slot : WF_vars(Reader(i))
    /\ WF_vars(JoinAccept \/ JoinReaders)

Spec == Init /\ [][Next]_vars /\ Fairness

-----------------------------------------------------------------------------
(* What must hold.                                                          *)

\* The bytes client c has written, in order.
Written(c) == [k \in 1..sent[c] |-> <<c, k>>]

\* Every byte a client writes reaches the message hook under that client's
\* id, once and in order: what the hook was given, what the reader holds and
\* what is in the socket are together what the client wrote (Listen, Read).
\* And every answer of the hook goes to the client it is for, once and in
\* order, however many calls of write() it takes: only a client that has
\* closed misses any of it (Write).
StreamIntact ==
    \A i \in 1..Len(cfds) :
        LET c == cfds[i]
            out == got[c] \o down[c]
        IN  /\ handled[i] \o msg[i] \o stream[c] = Written(c)
            /\ out = Told(c, 1, Len(out))
            /\ client[c] = "up" => out \o rest[i] = Told(c, 1, told[c])

\* When ~SocketServer has returned no thread of the server is left that could
\* touch socket_, and none starts later.
GoneIsQuiet ==
    main = "gone" =>
        /\ accept \in {"none", "done"}
        /\ \A i \in Slot : reader[i] \in {"none", "exit"}
        /\ open \cap Listed = {}

\* Slot i's reader waits in write() for a client that does not read.
Held(i) == reader[i] = "write" /\ ~ENABLED (WriteSome(i) \/ WriteFails(i))

\* What a client with a slot has written is read, until the server stops,
\* unless its reader waits for that very client to take an answer: another
\* client's silence holds nobody up (a thread per ClientId in Start).
Served ==
    \A c \in Conn :
        (c \in Listed /\ stream[c] # <<>>) ~>
            \/ stream[c] = <<>> \/ ~running
            \/ \E i \in 1..Len(cfds) : cfds[i] = c /\ Held(i)

\* The destructor returns: the joins are never stuck on a read or an accept
\* of a client that stays silent.  The one thing that can hold it is an
\* answer a client does not take (write() has no timeout).
ShutdownReturns ==
    (main = "joinAccept") ~> (main = "gone" \/ \E i \in Slot : Held(i))
=============================================================================
