----------------------------- MODULE Simulator -----------------------------
(***************************************************************************)
(* The collection of the instruction simulator's logs for each launch:     *)
(* DataCollectWithSimulator, driven by the launch hooks, and CamodelHelper *)
(* (src/csrc/camodel), whose sender thread shares the connection of the    *)
(* exchanges of Interact.                                                  *)
(*                                                                         *)
(* A kernel's logs go to files of one directory, copied and cut after the  *)
(* launch, or, where the simulator lets its callbacks be set, into a queue *)
(* whose sender passes them to the tool between a COLLECT_START and a      *)
(* PROF_FINISH.  The tool files what it is sent under the launch of the    *)
(* last COLLECT_START it has not seen the end of.                          *)
(***************************************************************************)
EXTENDS Interact

CONSTANTS Launcher,   \* the threads that launch kernels
          Named,      \* those whose kernels may have a name
          Launches,   \* bound on the launches
          Logs,       \* bound on the logs
          Modes,      \* how the logs may travel
          NoLaunch    \* not a launch

Launch == Launcher \X (1 .. Launches)

ASSUME SimulatorAssumption ==
    /\ Named \subseteq Launcher /\ Launcher \subseteq Thread
    /\ Launches \in Nat /\ Logs \in Nat /\ NoLaunch \notin Launch
    /\ Modes \subseteq {"files", "stream", "refused"} /\ "simulator" \notin MayTimeout

VARIABLES
    mode,      \* files: ENABLE_CA_LOG_TRANS is not set; stream: IsEnableLogTrans; refused: set in vain
    stage,     \* where each thread's launch is
    begun,     \* the launches each thread has begun
    selected,  \* outputPath_ of each thread's launch is not empty
    enabled,   \* CamodelHelper::enable_
    queue,     \* CamodelHelper::queue_: the logs to be sent
    held,      \* what the sender has popped and not sent yet
    window,    \* the launch of the last COLLECT_START without a PROF_FINISH
    running,   \* the kernels that run
    emitted,   \* the logs made so far
    files,     \* the logs in the files of the dump directory
    filed,     \* the logs of each launch's output directory
    done,      \* the selected launches that are over
    disturbed  \* some launches have overlapped, or one was not waited for or not announced

simVars == <<mode, stage, begun, selected, enabled, queue, held, window, running, emitted, files,
             filed, done, disturbed>>
vars == <<interactVars, simVars>>

Id(t) == <<t, begun[t]>>
Begun == {id \in Launch : id[2] <= begun[id[1]]}

Init ==
    /\ InteractInit
    /\ mode \in IF Simulated THEN Modes ELSE {"files"}
    /\ stage = [t \in Thread |-> "none"] /\ begun = [t \in Thread |-> 0]
    /\ selected = {} /\ enabled = FALSE /\ queue = <<>> /\ held = <<>> /\ window = NoLaunch
    /\ running = {} /\ emitted = {} /\ files = {} /\ filed = {} /\ done = {}
    /\ disturbed = FALSE

To(t, s) == stage' = [stage EXCEPT ![t] = s]

-----------------------------------------------------------------------------
(* Before the launch.                                                       *)

\* The constructor of DataCollect asks for the output path of a kernel that has
\* a name; a launch without one has an empty path.
BeginLaunch(t, named) ==
    /\ Simulated /\ stage[t] = "none" /\ Cardinality(Begun) < Launches
    /\ begun' = [begun EXCEPT ![t] = @ + 1]
    /\ selected' = selected \ {t}
    /\ disturbed' = (disturbed \/ running # {} \/ \E u \in Thread : stage[u] # "none")
    /\ IF named THEN To(t, "path") /\ Call(t, "DATA_PATH")
       ELSE MayTalk(t) /\ To(t, "init") /\ UNCHANGED interactVars
    /\ UNCHANGED <<mode, enabled, queue, held, window, running, emitted, files, filed,
                   done>>

\* The tool answers with a path, or with an empty one for a kernel it leaves out.
PathAnswered(t, chosen) ==
    /\ stage[t] = "path" /\ pc[t] = "idle" /\ To(t, "init")
    /\ selected' = IF chosen THEN selected \cup {t} ELSE selected
    /\ UNCHANGED <<interactVars, mode, begun, enabled, queue, held, window, running, emitted, files,
                   filed, done, disturbed>>

\* ProfInit of a launch that is left out stops the transfer for everybody.
InitUnselected(t) ==
    /\ stage[t] = "init" /\ t \notin selected /\ To(t, "launch")
    /\ enabled' = FALSE
    /\ UNCHANGED <<interactVars, mode, begun, selected, queue, held, window, running, emitted, files,
                   filed, done, disturbed>>

\* The output directory cannot be made: the launch is left out, and the transfer
\* stays as it was.
InitFails(t) ==
    /\ stage[t] = "init" /\ t \in selected /\ To(t, "launch")
    /\ selected' = selected \ {t}
    /\ UNCHANGED <<interactVars, mode, begun, enabled, queue, held, window, running, emitted, files,
                   filed, done, disturbed>>

\* The transfer is enabled and the tool told of the launch, or of an empty path
\* where the callbacks could not be set; names too long for the message are not
\* sent.
InitSelected(t, fits) ==
    /\ stage[t] = "init" /\ t \in selected
    /\ mode = "refused" => fits
    /\ IF mode # "files" /\ fits THEN To(t, "announce") /\ Call(t, "COLLECT_START")
       ELSE To(t, "launch") /\ UNCHANGED interactVars
    /\ enabled' = (enabled \/ mode = "stream")
    /\ disturbed' = (disturbed \/ ~fits)
    /\ UNCHANGED <<mode, begun, selected, queue, held, window, running, emitted, files, filed, done>>

Announced(t) ==
    /\ stage[t] = "announce" /\ pc[t] = "idle" /\ To(t, "launch")
    /\ UNCHANGED <<interactVars, mode, begun, selected, enabled, queue, held, window, running, emitted,
                   files, filed, done, disturbed>>

-----------------------------------------------------------------------------
(* The kernel, the callbacks of the simulator and the sender.               *)

StartKernel(t, ok) ==
    /\ stage[t] = "launch" /\ To(t, "run")
    /\ running' = IF ok THEN running \cup {Id(t)} ELSE running
    /\ UNCHANGED <<interactVars, mode, begun, selected, enabled, queue, held, window, emitted, files,
                   filed, done, disturbed>>

\* A log is queued while the transfer is enabled, or written to its file.
Log(id) ==
    LET log == [of |-> id, nr |-> Cardinality(emitted) + 1]
    IN  /\ id \in running /\ Cardinality(emitted) < Logs
        /\ emitted' = emitted \cup {log}
        /\ queue' = IF mode = "stream" /\ enabled THEN Append(queue, log) ELSE queue
        /\ files' = IF mode # "stream" THEN files \cup {log} ELSE files
        /\ UNCHANGED <<interactVars, mode, stage, begun, selected, enabled, held, window, running, filed,
                       done, disturbed>>

EndKernel(id) ==
    /\ id \in running /\ running' = running \ {id}
    /\ UNCHANGED <<interactVars, mode, stage, begun, selected, enabled, queue, held, window, emitted,
                   files, filed, done, disturbed>>

\* PopMessage takes one log at a time from the queue, whatever enable_ says.
MayPop == queue # <<>>

Pop ==
    /\ MayPop /\ held = <<>>
    /\ held' = <<Head(queue)>> /\ queue' = Tail(queue)
    /\ UNCHANGED <<interactVars, mode, stage, begun, selected, enabled, window, running, emitted, files,
                   filed, done, disturbed>>

\* SendMsg, under communtionMx_, without an answer: the requests on the way are
\* not delayed, so the message itself is left out.
Send ==
    /\ held # <<>> /\ ~Locked
    /\ held' = <<>>
    /\ filed' = IF window = NoLaunch THEN filed ELSE filed \cup {<<window, Head(held)>>}
    /\ UNCHANGED <<interactVars, mode, stage, begun, selected, enabled, queue, window, running, emitted,
                   files, done, disturbed>>

-----------------------------------------------------------------------------
(* After the launch.                                                        *)

\* The result of rtStreamSynchronize is not looked at.
Synchronize(t, ok) ==
    /\ stage[t] = "run" /\ (ok => Id(t) \notin running)
    /\ To(t, "sync")
    /\ disturbed' = (disturbed \/ ~ok)
    /\ UNCHANGED <<interactVars, mode, begun, selected, enabled, queue, held, window, running, emitted,
                   files, filed, done>>

\* SendSync waits for the queue to be empty, not for the sender to be idle;
\* NotifyStopTransLog ends the collection.
SendSync_skipped == TRUE
SendSync == queue = <<>>

StopsTransfer == mode = "stream" /\ enabled

StopLogs(t) ==
    /\ stage[t] = "sync" /\ StopsTransfer /\ To(t, "drain")
    /\ UNCHANGED <<interactVars, mode, begun, selected, enabled, queue, held, window, running, emitted,
                   files, filed, done, disturbed>>

Drained(t) ==
    /\ stage[t] = "drain" /\ SendSync
    /\ To(t, "stop") /\ Call(t, "PROF_FINISH")
    /\ UNCHANGED <<mode, begun, selected, enabled, queue, held, window, running, emitted, files, filed,
                   done, disturbed>>

\* HandleDumpLogAfterLaunch copies the files and cuts them, and cuts them also
\* for a launch that is left out.
Collect(t) ==
    /\ \/ stage[t] = "sync" /\ ~StopsTransfer
       \/ stage[t] = "stop" /\ pc[t] = "idle"
    /\ To(t, "none")
    /\ filed' = IF t \in selected THEN filed \cup ({Id(t)} \X files) ELSE filed
    /\ files' = {}
    /\ done' = IF t \in selected THEN done \cup {Id(t)} ELSE done
    /\ UNCHANGED <<interactVars, mode, begun, selected, enabled, queue, held, window, running, emitted,
                   disturbed>>

-----------------------------------------------------------------------------
\* What the tool makes of a request when it is sent.
Window(t) ==
    CASE kind[t] = "COLLECT_START" -> IF mode = "stream" THEN Id(t) ELSE NoLaunch
      [] kind[t] = "PROF_FINISH" -> NoLaunch
      [] OTHER -> window

Notifies(t) ==
    /\ Notify(t)
    /\ window' = IF Simulated THEN Window(t) ELSE window
    /\ UNCHANGED <<mode, stage, begun, selected, enabled, queue, held, running, emitted, files, filed,
                   done, disturbed>>

Exchange(t) == Notifies(t) \/ (ReadStep(t) /\ UNCHANGED simVars)
Asks(t) == ~Simulated /\ (\E k \in KindsOf[tool][t] : Call(t, k)) /\ UNCHANGED simVars
Uses(t) == stage[t] = "none" /\ (Use(t) \/ DeviceCall(t)) /\ UNCHANGED simVars

Begins(t) == \E named \in BOOLEAN : (named => t \in Named) /\ BeginLaunch(t, named)
Goes(t) == \/ \E b \in BOOLEAN : PathAnswered(t, b) \/ InitSelected(t, b) \/ StartKernel(t, b)
                                 \/ Synchronize(t, b)
           \/ InitUnselected(t) \/ InitFails(t) \/ Announced(t) \/ StopLogs(t) \/ Drained(t)
           \/ Collect(t)

Sender == Pop \/ Send

Next == \/ \E d \in Device : Server(d) /\ UNCHANGED simVars
        \/ \E t \in Thread : Exchange(t) \/ Asks(t) \/ Uses(t) \/ Goes(t)
        \/ \E t \in Launcher : Begins(t)
        \/ \E id \in running : Log(id) \/ EndKernel(id)
        \/ Sender

\* The server answers, a thread in a call goes on, kernels end and the sender
\* sends.  Weak fairness is enough for the locks: each is held for a bounded
\* number of exchanges and logs.
Fairness == /\ \A d \in Device : WF_vars(Server(d) /\ UNCHANGED simVars)
            /\ \A t \in Thread : WF_vars(Exchange(t)) /\ WF_vars(Goes(t))
            /\ WF_vars(\E id \in running : EndKernel(id)) /\ WF_vars(Sender)

Spec == Init /\ [][Next]_vars /\ Fairness

-----------------------------------------------------------------------------
(* What must hold, as long as launches do not overlap, their streams are     *)
(* synchronized and the tool is told of them.                                *)

Missing(id) == {log \in emitted : log.of = id /\ <<id, log>> \notin filed}
Foreign(id) == {x \in filed : x[1] = id /\ x[2].of # id}
Late == IF mode = "stream" THEN 1 ELSE 0

\* A selected launch has all its logs filed when it is over, and nothing of other
\* launches, left out or not.  In the stream one log may be missing, and be filed
\* under the next launch: the one the sender held when SendSync found the queue
\* empty (CamodelHelper.h:64-70 looks at the queue only).
LogsFiled ==
    ~disturbed => \A id \in done : /\ Cardinality(Missing(id)) <= Late
                                   /\ Cardinality(Foreign(id)) <= Late

\* Every exchange and every launch ends: threads queue for the lock of the
\* configuration or of the exchange, two threads share a connection and one takes
\* the answers of both, SendSync waits for the sender, which needs the lock of
\* the exchanges, and another thread's launch stops the transfer meanwhile.
\* The calls of a thread are bounded, so that time and again nobody is in one.
CallsEnd == []<>(\A t \in Thread : pc[t] = "idle" /\ stage[t] = "none")
=============================================================================
