------------------------ MODULE CoordinationSession ------------------------
(***************************************************************************)
(* The lifecycle of a coordination session: two state machines, that of    *)
(* the session and that of its transport, and the runtime that binds them  *)
(* to timers and to one stream (packages/coordination/src/runtime:         *)
(* session-state.ts, session-runtime.ts, session-transport.ts).            *)
(*                                                                         *)
(* The session commands the transport by dispatching to it, and the        *)
(* transport handles a command before anything else runs: a command is     *)
(* part of the session's step.  The transport answers through an output    *)
(* queue that the session ingests one at a time, so a call of the user may *)
(* overtake an output.  A timer callback starts when all promise           *)
(* continuations have run: it finds that queue empty.                      *)
(*                                                                         *)
(* The server is external.  It gives out session ids, keeps a session      *)
(* alive for a while after its stream broke, and may stay silent.          *)
(***************************************************************************)
EXTENDS Naturals, Sequences

CONSTANTS
  MaxFaults,   \* bound: streams that end and failures the server sends on its own
  Orderly      \* is close() only called while the transport is up?

ASSUME SessionAssumption == MaxFaults \in Nat /\ Orderly \in BOOLEAN

VARIABLES
  state,       \* the session machine's state
  sessionId,   \* ctx.sessionId, 0 for null
  timers,      \* armed timers
  closeCall,   \* the promise of close()
  transport,   \* the transport machine's state
  outputs,     \* its output queue
  stream,      \* how far the server is with the open stream; "none"
  asked,       \* the session id in the stream's sessionStart, 0 for a new session
  stopSent,    \* was sessionStop sent on it?
  down,        \* responses under way on it
  served,      \* the session the server attached it to
  alive,       \* sessions that exist on the server
  issued,      \* how many ids it has given out
  faults       \* how many faults there were

sessionVars   == <<state, sessionId, timers, closeCall>>
transportVars == <<transport, outputs>>
streamVars    == <<stream, asked, stopSent, down, served>>
serverVars    == <<alive, issued, faults>>
vars == <<sessionVars, transportVars, streamVars, serverVars>>

Terminal  == {"closed", "expired"}
Live      == {"connecting", "ready", "reconnecting"}
State     == Live \cup {"closing"} \cup Terminal
Transport == {"connecting", "ready", "disconnected", "stopping", "closed"}
Timer     == {"start_timeout", "retry_backoff", "recovery_window"}
SessionId == 1 .. MaxFaults + 1   \* a new one needs a new stream, so the last one broke

Message == [type : {"started"}, id : SessionId] \cup [type : {"failure"}, terminal : BOOLEAN]
             \cup [type : {"stopped"}]
Output  == Message \cup [type : {"disconnected"}]

TypeOK ==
  /\ state \in State /\ sessionId \in SessionId \cup {0}
  /\ timers \subseteq Timer
  /\ closeCall \in {"none", "pending", "resolved", "rejected"}
  /\ transport \in Transport /\ outputs \in Seq(Output)
  /\ stream \in {"none", "opening", "attached", "done"}
  /\ asked \in SessionId \cup {0} /\ served \in SessionId \cup {0}
  /\ stopSent \in BOOLEAN /\ down \in Seq(Message)
  /\ stream = "none" => down = << >> /\ ~stopSent
  /\ alive \subseteq SessionId /\ issued \in 0 .. MaxFaults + 1
  /\ faults \in 0 .. MaxFaults

-----------------------------------------------------------------------------
(* The transport: commands of the session, messages and the end of the     *)
(* stream                                                                  *)

\* (broken) the next stream starts as if sessionStop had been sent on it
NoStream_KeepsStop == stream' = "none" /\ down' = << >> /\ UNCHANGED <<asked, stopSent, served>>

NoStream == stream' = "none" /\ stopSent' = FALSE /\ down' = << >> /\ UNCHANGED <<asked, served>>

\* (broken) every stream asks for a new session
ConnectTransport_Anew ==
  \/ /\ transport = "disconnected"
     /\ transport' = "connecting"
     /\ stream' = "opening" /\ asked' = 0
     /\ UNCHANGED <<outputs, stopSent, down, served>>
  \/ transport = "connecting" /\ UNCHANGED <<transportVars, streamVars>>

\* (broken) the first stream is the only one
ConnectTransport_Once ==
  transport \in {"disconnected", "connecting"} /\ UNCHANGED <<transportVars, streamVars>>

\* connect().  While "connecting" it is ignored: a stream that hangs is not replaced.  The
\* transport is never "ready" here (Agreement).
ConnectTransport ==
  \/ /\ transport = "disconnected"
     /\ transport' = "connecting"
     /\ stream' = "opening" /\ asked' = sessionId
     /\ UNCHANGED <<outputs, stopSent, down, served>>
  \/ transport = "connecting" /\ UNCHANGED <<transportVars, streamVars>>

\* stop().  Without a session to stop the transport closes, and emits nothing.
StopTransport ==
  \/ /\ transport = "ready"
     /\ transport' = "stopping" /\ stopSent' = TRUE
     /\ UNCHANGED <<outputs, stream, asked, down, served>>
  \/ /\ transport \in {"connecting", "disconnected"}
     /\ transport' = "closed" /\ NoStream
     /\ UNCHANGED outputs

\* (broken) the stream of a transport that is closed stays open
CloseTransport_KeepsStream ==
  transport' = "closed" /\ UNCHANGED streamVars

\* close()
CloseTransport == transport' = "closed" /\ NoStream

\* A response arrives.
ReceiveStarted ==
  /\ transport = "connecting" /\ down # << >> /\ Head(down).type = "started"
  /\ down' = Tail(down)
  /\ transport' = "ready"
  /\ outputs' = Append(outputs, Head(down))
  /\ UNCHANGED <<sessionVars, stream, asked, stopSent, served, serverVars>>

ReceiveFailure ==
  /\ transport \in {"connecting", "ready", "stopping"}
  /\ down # << >> /\ Head(down).type = "failure"
  /\ down' = Tail(down)
  /\ outputs' = Append(outputs, Head(down))
  /\ UNCHANGED <<sessionVars, transport, stream, asked, stopSent, served, serverVars>>

\* mark_disconnected emits too.
ReceiveStopped ==
  /\ transport = "stopping" /\ down # << >> /\ Head(down).type = "stopped"
  /\ down' = Tail(down)
  /\ outputs' = outputs \o <<Head(down), [type |-> "disconnected"]>>
  /\ UNCHANGED <<sessionVars, transport, stream, asked, stopSent, served, serverVars>>

\* (broken) the responses of a broken stream are handled later
StreamEnds_KeepsResponses ==
  /\ stream # "none" /\ faults < MaxFaults
  /\ stream' = "none" /\ stopSent' = FALSE /\ UNCHANGED <<down, asked, served>>
  /\ transport' = IF transport = "stopping" THEN transport ELSE "disconnected"
  /\ outputs' = Append(outputs, [type |-> "disconnected"])
  /\ faults' = faults + 1
  /\ UNCHANGED <<sessionVars, alive, issued>>

\* (broken) a stream that ends during a stop is not reported
StreamEnds_Unreported ==
  /\ stream # "none" /\ faults < MaxFaults
  /\ NoStream
  /\ \/ /\ transport \in {"connecting", "ready"}
        /\ transport' = "disconnected"
        /\ outputs' = Append(outputs, [type |-> "disconnected"])
     \/ transport = "stopping" /\ UNCHANGED transportVars
  /\ faults' = faults + 1
  /\ UNCHANGED <<sessionVars, alive, issued>>

\* The stream ends or fails; what is under way on it is lost.  While stopping, the
\* transition and mark_disconnected both emit.
StreamEnds ==
  /\ stream # "none" /\ faults < MaxFaults
  /\ NoStream
  /\ \/ /\ transport \in {"connecting", "ready"}
        /\ transport' = "disconnected"
        /\ outputs' = Append(outputs, [type |-> "disconnected"])
     \/ /\ transport = "stopping"
        /\ outputs' = outputs \o <<[type |-> "disconnected"], [type |-> "disconnected"]>>
        /\ UNCHANGED transport
  /\ faults' = faults + 1
  /\ UNCHANGED <<sessionVars, alive, issued>>

-----------------------------------------------------------------------------
(* The session                                                             *)

\* finalize(): the promise of close() resolves, whether closed or expired.
Finalize(terminal) ==
  /\ state' = terminal
  /\ timers' = {}
  /\ closeCall' = IF closeCall = "pending" THEN "resolved" ELSE closeCall
  /\ UNCHANGED sessionId

\* The next output is of this type, and the machine reacts to it in these states.
Ingests(states, type) ==
  /\ state \in states /\ outputs # << >> /\ Head(outputs).type = type
  /\ outputs' = Tail(outputs)

\* (broken) the retry is not scheduled
Reconnecting_NoBackoff ==
  /\ state' = "reconnecting"
  /\ timers' = (timers \ {"start_timeout"}) \cup {"recovery_window"}

\* The recovery window is only started if it is not running.
Reconnecting ==
  /\ state' = "reconnecting"
  /\ timers' = (timers \ {"start_timeout"}) \cup {"retry_backoff", "recovery_window"}

Started ==
  /\ Ingests({"connecting", "reconnecting"}, "started")
  /\ state' = "ready"
  /\ sessionId' = Head(outputs).id
  /\ timers' = {}
  /\ UNCHANGED <<closeCall, transport, streamVars, serverVars>>

\* (broken) only a session that was ready reconnects
Disconnected_WhenReady ==
  /\ Ingests({"connecting", "ready"}, "disconnected")
  /\ \/ state = "ready" /\ Reconnecting
     \/ state = "connecting" /\ UNCHANGED <<state, timers>>
  /\ UNCHANGED <<sessionId, closeCall, transport, streamVars, serverVars>>

Disconnected ==
  /\ Ingests({"connecting", "ready"}, "disconnected")
  /\ Reconnecting
  /\ UNCHANGED <<sessionId, closeCall, transport, streamVars, serverVars>>

\* While closing, the end of the stream is as good as the server's answer.
Stopped ==
  /\ Ingests({"closing"}, "stopped") \/ Ingests({"closing"}, "disconnected")
  /\ Finalize("closed") /\ CloseTransport
  /\ UNCHANGED serverVars

\* (broken) a failure is only looked at during a connect
Failed_WhenConnecting ==
  /\ Ingests(Live, "failure") /\ Head(outputs).terminal
  /\ \/ state # "ready" /\ Finalize("expired")
     \/ state = "ready" /\ UNCHANGED sessionVars
  /\ UNCHANGED <<transport, streamVars, serverVars>>

\* The server has dropped the session.  The transport is left as it is.
Failed ==
  /\ Ingests(Live, "failure") /\ Head(outputs).terminal
  /\ Finalize("expired")
  /\ UNCHANGED <<transport, streamVars, serverVars>>

FailedWhileClosing ==
  /\ Ingests({"closing"}, "failure") /\ Head(outputs).terminal
  /\ Finalize("expired") /\ CloseTransport
  /\ UNCHANGED serverVars

\* Outputs without effect.
IgnoreOutput ==
  /\ \/ Ingests(State \ {"connecting", "reconnecting"}, "started")
     \/ Ingests({"reconnecting"} \cup Terminal, "disconnected")
     \/ Ingests(Terminal, "stopped") \/ Ingests(Terminal, "failure")
     \/ Ingests(State \ Terminal, "failure") /\ ~Head(outputs).terminal
  /\ UNCHANGED <<sessionVars, transport, streamVars, serverVars>>

Due(timer) == timer \in timers /\ outputs = << >>

StartTimeout ==
  /\ Due("start_timeout") /\ state = "connecting"
  /\ Reconnecting
  /\ UNCHANGED <<sessionId, closeCall, transportVars, streamVars, serverVars>>

RetryBackoff ==
  /\ Due("retry_backoff") /\ state = "reconnecting"
  /\ state' = "connecting"
  /\ timers' = (timers \ {"retry_backoff"}) \cup {"start_timeout"}
  /\ ConnectTransport
  /\ UNCHANGED <<sessionId, closeCall, serverVars>>

\* During a connect attempt the event is ignored, and the next one to fail starts the
\* window anew.
RecoveryWindow ==
  /\ Due("recovery_window")
  /\ \/ state = "reconnecting" /\ Finalize("expired")
     \/ /\ state = "connecting"
        /\ timers' = timers \ {"recovery_window"}
        /\ UNCHANGED <<state, sessionId, closeCall>>
  /\ UNCHANGED <<transportVars, streamVars, serverVars>>

\* close(), called once; on a finalized session its signal has already aborted.
Close ==
  /\ closeCall = "none"
  /\ Orderly => transport = "ready" \/ state \in Terminal
  /\ \/ /\ state \in Live
        /\ state' = "closing" /\ closeCall' = "pending" /\ timers' = {}
        /\ StopTransport
     \/ /\ state \in Terminal
        /\ closeCall' = "rejected"
        /\ UNCHANGED <<state, timers, transportVars, streamVars>>
  /\ UNCHANGED <<sessionId, serverVars>>

\* destroy(), or the caller's signal; also for a session that has expired.
Destroy ==
  /\ state # "closed"
  /\ Finalize("closed") /\ CloseTransport
  /\ UNCHANGED <<outputs, serverVars>>

-----------------------------------------------------------------------------
(* The server (external)                                                   *)

\* A new session, or the one asked for if it still exists.
ServerAttaches ==
  /\ stream = "opening"
  /\ \E id \in SessionId :
       /\ \/ asked = 0 /\ id = issued + 1 /\ issued' = id
          \/ asked = id /\ id \in alive /\ UNCHANGED issued
       /\ served' = id /\ alive' = alive \cup {id}
       /\ down' = Append(down, [type |-> "started", id |-> id])
  /\ stream' = "attached"
  /\ UNCHANGED <<sessionVars, transportVars, asked, stopSent, faults>>

ServerRefuses ==
  /\ stream = "opening" /\ asked # 0 /\ asked \notin alive
  /\ stream' = "done"
  /\ down' = Append(down, [type |-> "failure", terminal |-> TRUE])
  /\ UNCHANGED <<sessionVars, transportVars, asked, stopSent, served, serverVars>>

\* A failure on an established stream, with a status that ends the session or another.
ServerFails ==
  /\ stream = "attached" /\ faults < MaxFaults
  /\ faults' = faults + 1
  /\ \E terminal \in BOOLEAN :
       /\ down' = Append(down, [type |-> "failure", terminal |-> terminal])
       /\ stream' = IF terminal THEN "done" ELSE stream
       /\ alive' = IF terminal THEN alive \ {served} ELSE alive
  /\ UNCHANGED <<sessionVars, transportVars, asked, stopSent, served, issued>>

ServerStops ==
  /\ stream = "attached" /\ stopSent
  /\ stream' = "done"
  /\ alive' = alive \ {served}
  /\ down' = Append(down, [type |-> "stopped"])
  /\ UNCHANGED <<sessionVars, transportVars, asked, stopSent, served, issued, faults>>

\* timeoutMillis after its last stream broke, the server drops a session.
ServerForgets ==
  /\ \E id \in alive :
       /\ ~(stream = "attached" /\ served = id)
       /\ alive' = alive \ {id}
  /\ UNCHANGED <<sessionVars, transportVars, streamVars, issued, faults>>

-----------------------------------------------------------------------------

\* The session is created: session.start has been handled.
Init ==
  /\ state = "connecting" /\ sessionId = 0
  /\ timers = {"start_timeout"} /\ closeCall = "none"
  /\ transport = "connecting" /\ outputs = << >>
  /\ stream = "opening" /\ asked = 0 /\ stopSent = FALSE /\ down = << >> /\ served = 0
  /\ alive = {} /\ issued = 0 /\ faults = 0

Ingest == Started \/ Disconnected \/ Stopped \/ Failed \/ FailedWhileClosing \/ IgnoreOutput
Receive == ReceiveStarted \/ ReceiveFailure \/ ReceiveStopped
Server == ServerAttaches \/ ServerRefuses \/ ServerFails \/ ServerStops \/ ServerForgets

Next ==
  \/ Ingest \/ Receive \/ StreamEnds \/ Server
  \/ StartTimeout \/ RetryBackoff \/ RecoveryWindow
  \/ Close \/ Destroy

Spec == Init /\ [][Next]_vars

-----------------------------------------------------------------------------
(* Safety                                                                  *)

\* The two machines agree once the session has ingested what the transport emitted, for
\* every order of timers, calls, late answers and broken streams: a session that is ready
\* has a transport that is, and one that waits has a transport that may still connect.
Agreement ==
  outputs = << >> =>
    /\ state = "ready" => transport = "ready"
    /\ state = "connecting" => transport = "connecting"
    /\ state = "reconnecting" => transport \in {"connecting", "disconnected"}
    /\ state = "closing" => transport \in {"stopping", "closed"}

\* A session that is not ready has a timer that takes it further, and a session that is
\* ready, closing or finalized has none left to disturb it.
Scheduled ==
  /\ state = "connecting" => "start_timeout" \in timers
  /\ state = "reconnecting" => {"retry_backoff", "recovery_window"} \subseteq timers
  /\ state \notin {"connecting", "reconnecting"} => timers = {}

\* No stream outlives its transport, and a closed session has neither.  (A session that
\* has expired keeps its stream until destroy().)
StreamOwned ==
  /\ stream # "none" => transport \in {"connecting", "ready", "stopping"}
  /\ state = "closed" => transport = "closed"

\* A session that is ready exists on the server, with everything it holds there, unless
\* the news is under way: nobody works under a lock that the server has given away.
ReadyIsAlive ==
  state = "ready" /\ outputs = << >> /\ down = << >> => sessionId \in alive

\* A reconnect resumes the session: its id never changes once it is known.
SameSession == [][sessionId # 0 => sessionId' = sessionId]_vars

\* What makes these inductive: what the session has yet to learn from the outputs, ...
Emitted(type) == \E i \in 1 .. Len(outputs) : outputs[i].type = type

Ordered ==
  /\ \A i \in 1 .. Len(outputs) : outputs[i].type = "disconnected" => i = Len(outputs)
  /\ \A i, j \in 1 .. Len(outputs) :
       outputs[i].type = "started" /\ outputs[j].type = "started" => i = j

Follows ==
  /\ state \in Live =>
       /\ Ordered
       /\ transport \in {"connecting", "ready", "disconnected"}
       /\ ~Emitted("stopped")
       /\ Emitted("disconnected") => transport = "disconnected"
       /\ transport = "connecting" => state # "ready" /\ ~Emitted("started")
       /\ transport = "ready" /\ ~Emitted("started") => state = "ready"
       /\ transport = "disconnected" /\ (state # "reconnecting" \/ Emitted("started")) =>
            Emitted("disconnected")
       /\ state = "ready" => ~Emitted("started")
  /\ state = "closing" => transport \in {"stopping", "closed"}

\* ... how far the server is with the stream, ...
Refused(messages) ==
  \E i \in 1 .. Len(messages) : messages[i].type = "failure" /\ messages[i].terminal

StreamStages ==
  /\ transport \in {"connecting", "ready"} => stream # "none"
  /\ stream = "opening" => transport = "connecting" /\ down = << >>
  /\ stream = "attached" => served \in alive
  /\ stopSent => transport = "stopping"
  /\ state \in Live /\ stream = "done" => Refused(down) \/ Refused(outputs)

\* ... and that every answer is about the session the client knows, if it knows one.
Identity ==
  /\ \A i \in 1 .. Len(down) : down[i].type = "started" => down[i].id = served
  /\ state \in Live =>
       \A i \in 1 .. Len(outputs) : outputs[i].type = "started" => outputs[i].id = served
  /\ state = "ready" => sessionId # 0
  /\ sessionId # 0 => served = sessionId
  /\ sessionId # 0 /\ stream = "opening" => asked = sessionId

\* The inductive invariant.
SessionInv ==
  TypeOK /\ Scheduled /\ StreamOwned /\ Follows /\ StreamStages /\ Identity

-----------------------------------------------------------------------------
(* Liveness                                                                *)

\* The event loop runs promise continuations and expired timers, and reads what arrives.
LoopFair ==
  /\ WF_vars(Ingest) /\ WF_vars(Receive)
  /\ WF_vars(StartTimeout) /\ WF_vars(RetryBackoff) /\ WF_vars(RecoveryWindow)

\* A server that answers what it is sent.
ServerFair == WF_vars(ServerAttaches) /\ WF_vars(ServerRefuses) /\ WF_vars(ServerStops)

FairSpec == Spec /\ LoopFair /\ ServerFair
SilentServerSpec == Spec /\ LoopFair

\* A session that lost its stream is ready again or finalized, or is being closed.
Reconnects == state \in {"connecting", "reconnecting"} ~> state \notin {"connecting", "reconnecting"}

\* close() settles, and so does the disposal of `await using` and withSession.
CloseSettles == closeCall = "pending" ~> closeCall # "pending"
=============================================================================
