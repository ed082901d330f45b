------------------------------ MODULE Interact ------------------------------
(***************************************************************************)
(* The request/response exchanges of an application with its tool, over    *)
(* the LocalProcess connections (core/LocalProcess, LocalDevice).          *)
(*                                                                         *)
(* Under the sanitizer, InteractHelper::Interact: a device has one         *)
(* connection, and a thread uses that of its current device (Devices).     *)
(* The server writes its configuration on it once, from the connect hook,  *)
(* whenever it gets to it, and ConfigManager reads it first; nothing keeps *)
(* the Notify and the Wait of one Interact together.                       *)
(*                                                                         *)
(* Under the profiler, ProfConfig: the process has one connection.  The    *)
(* first use of the instance asks for the configuration, and a lock is     *)
(* held for the whole of an exchange.                                      *)
(*                                                                         *)
(* The server answers the requests of a connection in their order          *)
(* (CommServer).  Messages carry no identity and a Wait takes whatever     *)
(* bytes are there: the ids below are not in the bytes, they let the       *)
(* properties say whose answer was taken.                                  *)
(***************************************************************************)
EXTENDS Devices, Sequences

CONSTANTS Main,         \* the device of the connection of LocalProcess::GetInstance
          Kind,         \* packet types with a response: IPC_RECORD, DATA_PATH, ...
          KindsOf,      \* those each thread's calls send, by tool
          Untimed,      \* those whose answer is waited for without an end
          MaxRequest,   \* bound on the requests of each thread, by tool
          MayTimeout,   \* the tools with which a Wait may run out of its seconds
          NoThread      \* not a thread

ASSUME KindAssumption ==
    /\ KindsOf \in [Tools -> [Thread -> SUBSET Kind]] /\ Untimed \subseteq Kind
    /\ Kind \cap {"none", "config"} = {} /\ Main \in Device
ASSUME BoundAssumption == MaxRequest \in [Tools -> [Thread -> Nat]]
ASSUME TimeoutAssumption == MayTimeout \subseteq Tools
ASSUME NoThreadAssumption == NoThread \notin Thread

VARIABLES
    pc,         \* where each thread is
    kind,       \* the packet type of each thread's exchange, or "none"
    made,       \* how many requests each thread has made
    outcome,    \* what each thread's last Interact took for its answer
    mutex,      \* who holds the mutex of GetConfig or communtionMx_
    config,     \* configMap, or profConfig_: what is stored for each device
    announced,  \* the devices whose connect hook has sent the configuration
    up,         \* requests on their way to the server, by device
    down,       \* what the server has written and nobody has read, by device
    users,      \* the threads that have used each connection under the sanitizer
    gaveUp      \* the devices on which some Wait has timed out

threadVars == <<pc, kind, made, outcome>>
configVars == <<mutex, config>>
serverVars == <<announced, up>>
ghostVars == <<users, gaveUp>>
interactVars == <<tool, deviceVars, threadVars, configVars, serverVars, down, ghostVars>>

Config == [kind |-> "config"]

\* What the server is told and does not answer.
Summary(t) == [kind |-> "DEVICE_SUMMARY", of |-> t]
Silent == {"DEVICE_SUMMARY"}

Connection(t) == IF Profiled THEN Main ELSE Local(t)

InteractInit ==
    /\ DevicesInit
    /\ pc = [t \in Thread |-> "idle"]
    /\ kind = [t \in Thread |-> "none"]
    /\ made = [t \in Thread |-> 0]
    /\ outcome = [t \in Thread |-> "none"]
    /\ mutex = NoThread /\ config = [d \in Device |-> "none"]
    /\ announced = {} /\ up = [d \in Device |-> <<>>]
    /\ down = [d \in Device |-> <<>>]
    /\ users = [d \in Device |-> {}] /\ gaveUp = {}

-----------------------------------------------------------------------------
(* The server of each device's connection (CommServer).                     *)

\* A thread has asked for the connection, to tell of the device or to talk.
Opened(d) == (d \in used /\ devId[d] = d) \/ users[d] # {}

ConnectHook(d) ==
    /\ ~Profiled /\ d \notin announced /\ Opened(d)
    /\ announced' = announced \cup {d}
    /\ down' = [down EXCEPT ![d] = Append(@, Config)]
    /\ UNCHANGED <<tool, deviceVars, threadVars, configVars, up, ghostVars>>

Answer(d) ==
    /\ up[d] # <<>>
    /\ up' = [up EXCEPT ![d] = Tail(@)]
    /\ down' = IF Head(up[d]).kind \in Silent THEN down
               ELSE [down EXCEPT ![d] = Append(@, Head(up[d]))]
    /\ UNCHANGED <<tool, deviceVars, threadVars, configVars, announced, ghostVars>>

-----------------------------------------------------------------------------
(* Interact.                                                                *)

\* A hijacked call starts an exchange: first of all GetConfig.
FirstStep == "getConfig"

Call(t, k) ==
    /\ pc[t] = "idle" /\ made[t] < MaxRequest[tool][t]
    /\ pc' = [pc EXCEPT ![t] = FirstStep]
    /\ kind' = [kind EXCEPT ![t] = k]
    /\ outcome' = [outcome EXCEPT ![t] = "none"]
    /\ threadDevice' = [threadDevice EXCEPT ![t] = Local(t)]
    /\ users' = IF Profiled THEN users ELSE [users EXCEPT ![Connection(t)] = @ \cup {t}]
    /\ UNCHANGED <<tool, driver, devId, used, misplaced, switched, made, configVars, serverVars, down, gaveUp>>

\* ProfConfig::Instance is used, for the first time, by a call that has nothing
\* to ask.
Use(t) ==
    /\ Profiled /\ pc[t] = "idle" /\ config[Main] = "none"
    /\ pc' = [pc EXCEPT ![t] = FirstStep]
    /\ UNCHANGED <<tool, deviceVars, kind, made, outcome, configVars, serverVars, down, ghostVars>>

Used(t) ==
    /\ pc[t] = "notify" /\ kind[t] = "none"
    /\ pc' = [pc EXCEPT ![t] = "idle"]
    /\ UNCHANGED <<tool, deviceVars, kind, made, outcome, configVars, serverVars, down, ghostVars>>

\* The hooks of the device calls, which look at ProfConfig under the profiler;
\* a new device is a new connection.
MayTalk(t) == pc[t] = "idle" /\ (Profiled => config[Main] # "none")

Reported(t, d, reports) ==
    up' = IF reports /\ ~Profiled THEN [up EXCEPT ![d] = Append(@, Summary(t))] ELSE up

SetDevice(t, h, d, ok) ==
    /\ MayTalk(t) /\ Switch(t, h, d, ok)
    /\ Reported(t, d, SetReports(h, d, ok))
    /\ outcome' = [outcome EXCEPT ![t] = "none"]
    /\ UNCHANGED <<tool, pc, kind, made, configVars, announced, down, ghostVars>>

ResetDevice(t, d, ok) ==
    /\ MayTalk(t)
    /\ \/ rtDeviceReset(t, d, ok) /\ Reported(t, d, ResetReports(ok))
       \/ aclrtResetDeviceImpl(t, d, ok) /\ Reported(t, d, ResetReports(ok))
       \/ rtDeviceResetEx(t, d, ok) /\ Reported(t, d, FALSE)
    /\ UNCHANGED <<tool, threadVars, configVars, announced, down, ghostVars>>

\* GetConfig finds a stored configuration under its mutex, or keeps the mutex
\* while it waits for one: threads of other devices wait too.  Under the
\* profiler one lock stands for the guard of the instance and communtionMx_.
Locked == mutex # NoThread

FindConfig(t) ==
    /\ pc[t] = "getConfig" /\ ~Locked
    /\ config[Connection(t)] # "none"
    /\ pc' = [pc EXCEPT ![t] = "notify"]
    /\ UNCHANGED <<tool, deviceVars, kind, made, outcome, configVars, serverVars, down, ghostVars>>

\* The first use of ProfConfig's instance sends a request for it; other
\* threads wait for the instance.
InitProfConfig(t) == up' = [up EXCEPT ![Connection(t)] = Append(@, Config)]

LockConfig(t) ==
    /\ pc[t] = "getConfig" /\ ~Locked
    /\ config[Connection(t)] = "none"
    /\ mutex' = t
    /\ pc' = [pc EXCEPT ![t] = "waitConfig"]
    /\ IF Profiled THEN InitProfConfig(t) ELSE UNCHANGED up
    /\ UNCHANGED <<tool, deviceVars, kind, made, outcome, config, announced, down, ghostVars>>

\* The lock_guard of GetConfig goes out of scope.
Released_leaked == mutex
Released == NoThread

\* The wait of GetConfig is over, with the bytes of msgs: only exactly one
\* SanitizerConfig is taken for the configuration, anything else leaves the
\* default, and either is stored for good.
StoreConfig(t, msgs) ==
    /\ config' = [config EXCEPT ![Connection(t)] =
                    IF msgs = <<Config>> THEN "received" ELSE "default"]
    /\ mutex' = Released
    /\ pc' = [pc EXCEPT ![t] = "notify"]
    /\ UNCHANGED <<tool, deviceVars, kind, made, outcome, serverVars>>

\* Wait reads on while reads are full, so it takes all that is there.
TakeConfig(t) ==
    LET d == Connection(t)
    IN  /\ pc[t] = "waitConfig" /\ down[d] # <<>>
        /\ StoreConfig(t, down[d])
        /\ down' = [down EXCEPT ![d] = <<>>]
        /\ UNCHANGED ghostVars

ConfigTimesOut(t) ==
    LET d == Connection(t)
    IN  /\ tool \in MayTimeout /\ pc[t] = "waitConfig" /\ down[d] = <<>>
        /\ StoreConfig(t, <<>>)
        /\ gaveUp' = gaveUp \cup {d}
        /\ UNCHANGED <<down, users>>

Sent(queue, r) == Append(queue, r)

\* An exchange of the profiler holds communtionMx_ from here to its answer.
Entered_unlocked(t) == UNCHANGED mutex
Entered(t) == IF Profiled THEN ~Locked /\ mutex' = t ELSE UNCHANGED mutex
Left == mutex' = IF Profiled THEN NoThread ELSE mutex

Notify(t) ==
    LET r == [kind |-> kind[t], of |-> t, nr |-> made[t] + 1]
    IN  /\ pc[t] = "notify" /\ kind[t] # "none" /\ Entered(t)
        /\ made' = [made EXCEPT ![t] = @ + 1]
        /\ up' = [up EXCEPT ![Connection(t)] = Sent(@, r)]
        /\ pc' = [pc EXCEPT ![t] = "wait"]
        /\ UNCHANGED <<tool, deviceVars, kind, outcome, config, announced, down, ghostVars>>

\* What Interact makes of the first message it reads: Deserialize looks at
\* the packet type in front and drops the rest.
Taken(t, m) ==
    CASE m = Config -> "config"
      [] m # Config /\ m.kind # kind[t] -> "mismatch"
      [] m # Config /\ m.kind = kind[t] /\ m.of = t /\ m.nr = made[t] -> "own"
      [] m # Config /\ m.kind = kind[t] /\ ~(m.of = t /\ m.nr = made[t])
           -> "other"

TakeAnswer(t) ==
    LET d == Connection(t)
    IN  /\ pc[t] = "wait" /\ down[d] # <<>>
        /\ outcome' = [outcome EXCEPT ![t] = Taken(t, Head(down[d]))]
        /\ down' = [down EXCEPT ![d] = <<>>]
        /\ pc' = [pc EXCEPT ![t] = "idle"]
        /\ kind' = [kind EXCEPT ![t] = "none"]
        /\ Left
        /\ UNCHANGED <<tool, deviceVars, made, config, serverVars, ghostVars>>

\* WaitForPayload gives up after 64 reads, WaitForReply never does.
MayExpire(t) == tool \in MayTimeout /\ kind[t] \notin Untimed

AnswerTimesOut(t) ==
    LET d == Connection(t)
    IN  /\ MayExpire(t) /\ pc[t] = "wait" /\ down[d] = <<>>
        /\ outcome' = [outcome EXCEPT ![t] = "timeout"]
        /\ gaveUp' = gaveUp \cup {d}
        /\ pc' = [pc EXCEPT ![t] = "idle"]
        /\ kind' = [kind EXCEPT ![t] = "none"]
        /\ Left
        /\ UNCHANGED <<tool, deviceVars, made, config, serverVars, down, users>>

-----------------------------------------------------------------------------
Server(d) == ConnectHook(d) \/ Answer(d)
ReadStep(t) == \/ FindConfig(t) \/ LockConfig(t) \/ TakeConfig(t) \/ ConfigTimesOut(t)
               \/ Used(t) \/ TakeAnswer(t) \/ AnswerTimesOut(t)

DeviceCall(t) == \E d \in Device, ok \in BOOLEAN :
    (\E h \in SetHook : SetDevice(t, h, d, ok)) \/ ResetDevice(t, d, ok)

-----------------------------------------------------------------------------
(* What must hold.                                                          *)

\* No other thread has talked over t's connection.
Alone(t) == users[Connection(t)] \subseteq {t}

\* An exchange takes the answer to its own request, between any threads of
\* the profiler (communtionMx_), and under the sanitizer if its thread is the
\* only one that has used its connection.  On no connection the configuration is
\* taken for an answer, since GetConfig comes before the first exchange (its
\* comment, ConfigManager.cpp:33-34).  A Wait that timed out earlier on the
\* connection breaks both: the answers are shifted and nothing in the bytes
\* shows it.
TakesOwn ==
    \A t \in Thread : Connection(t) \notin gaveUp =>
        /\ outcome[t] # "config"
        /\ Profiled \/ Alone(t) => outcome[t] \in {"none", "own"}

\* What GetConfig reads first is exactly the configuration, so that a device has the
\* default only after some wait on its connection ran out: whoever else waits for it
\* meanwhile, or has asked for it (the mutex of GetConfig, ConfigManager.cpp:38).
DefaultAfterTimeout == \A d \in Device : config[d] = "default" => d \in gaveUp

\* Whoever waits, for an answer or for the configuration, takes what it waits for
\* (InteractHelper::Interact, ConfigManager::GetConfig, ProfConfig).
OwnAnswer == TakesOwn /\ DefaultAfterTimeout
=============================================================================
