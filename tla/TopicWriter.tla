---------------------------- MODULE TopicWriter ----------------------------
(***************************************************************************)
(* The topic writer: the state machine of writer-state.ts, the runtime     *)
(* that binds it to timers and to one stream (writer-runtime.ts,           *)
(* transport.ts, transport-state.ts) and the public object (writer.ts),    *)
(* all under packages/topic/src/writer.                                    *)
(*                                                                         *)
(* An action is one callback.  The machine takes one event at a time from  *)
(* its mailbox and appends what it tells the public object to outputs,     *)
(* which #consume takes one at a time: other callbacks run in between.  A  *)
(* timer callback only starts when all promise continuations have run, so  *)
(* it finds the mailbox and the outputs empty and its event is handled at  *)
(* once.  A handler that opens or uses the stream does so before anything  *)
(* else runs, the transport machine being idle.                            *)
(*                                                                         *)
(* Messages are 1, 2, ... in the order of write(), of one unit of bytes    *)
(* each.  The server is external: it answers the requests of the current   *)
(* stream in order and drops the numbers it has seen.                      *)
(***************************************************************************)
EXTENDS WriterWindow

CONSTANTS
  MaxMsg,           \* bound: how many messages are written
  MaxBuffer,        \* maxBufferBytes, in messages
  MaxFaults,        \* bound: broken streams and expired connect watchdogs
  Flusher,          \* callers of flush(), each waiting for one call at a time
  MaxRequests,      \* bound: requests and answers of flush() in the two queues
  Numberings,       \* who may number the messages: "auto" (the writer), "manual" (the caller)
  Recovered,        \* the server's last seqNo for the producer at the start
  Hasty,            \* may a caller whose flush() was rejected call again before the
                    \* continuations under way have run?
  FatalErrors,      \* may a stream break with an error that is not retryable?
  BoundedRecovery,  \* is recoveryWindowMs finite?
  OrderlyClose      \* is close() only called while a session is established, or before
                    \* the first one, and flush() not after it?

ASSUME WriterAssumption ==
  /\ MaxMsg \in Nat /\ MaxBuffer \in Nat \ {0} /\ MaxFaults \in Nat /\ MaxRequests \in Nat
  /\ Recovered \in Nat
  /\ Numberings \subseteq {"auto", "manual"}
  /\ Hasty \in BOOLEAN
  /\ FatalErrors \in BOOLEAN /\ BoundedRecovery \in BOOLEAN /\ OrderlyClose \in BOOLEAN
  /\ IsFiniteSet(Flusher)

VARIABLES
  state,             \* the machine's state
  hasEverConnected,
  seqNoMode,
  lastSeqNo,
  flushRequested,
  window,            \* messages, inflightStart, ... of the context
  mailbox,           \* the machine's event queue
  outputs,           \* the machine's output queue
  timers,            \* armed timers
  stream,            \* is a stream open?
  up, down,          \* requests and responses under way on it
  serverLast,        \* the server's last seqNo for this producer
  log,               \* messages the server has stored, in order
  faults,            \* how many faults there were
  numbering,         \* who numbers the messages, fixed by the first write()
  written, acked,    \* messages accepted by write(), reported to onAck
  budget,            \* #bufferedBytes
  flush,             \* the last flush() of each caller
  target, alone,     \* auxiliary, of a flush() that waits: what was written before it; was
                     \* no earlier request under way when it was called?
  closing, closed,   \* #closing, #closed
  lastError,         \* is #lastError set?
  closeCall          \* the promise of close()

ctxVars    == <<hasEverConnected, seqNoMode, lastSeqNo, flushRequested, window>>
streamVars == <<stream, up, down>>
serverVars == <<serverLast, log>>
userVars   ==
  <<numbering, written, acked, budget, flush, target, alone, closing, closed, lastError,
    closeCall>>
vars == <<state, ctxVars, mailbox, outputs, timers, streamVars, serverVars, faults, userVars>>

Terminal == {"closed", "errored"}
State    == {"connecting", "ready", "reconnecting", "closing"} \cup Terminal
Timer    == {"start_timeout", "retry_backoff", "recovery_window", "graceful_timeout",
             "flush_tick"}
Promise  == {"none", "pending", "resolved", "rejected"}
EventType == {"write", "flush", "close", "destroy", "pump", "init", "acks", "disconnected"}

TypeOK ==
  /\ state \in State
  /\ hasEverConnected \in BOOLEAN /\ flushRequested \in BOOLEAN
  /\ seqNoMode \in {"none", "auto", "manual"}
  /\ lastSeqNo \in 0 .. Recovered + MaxMsg
  /\ window.messages \in Seq([id : 1 .. MaxMsg, seqNo : 0 .. Recovered + MaxMsg])
  /\ \A i \in 1 .. Len(mailbox) : mailbox[i].type \in EventType
  /\ \A i \in 1 .. Len(outputs) : outputs[i].type \in {"acks", "flushed", "error", "closed"}
  /\ timers \subseteq Timer
  /\ stream \in BOOLEAN /\ (~stream => up = << >> /\ down = << >>)
  /\ serverLast \in 0 .. Recovered + MaxMsg
  /\ log \in Seq(1 .. Recovered + MaxMsg)
  /\ faults \in 0 .. MaxFaults
  /\ written \in 0 .. MaxMsg /\ acked \in 0 .. written
  /\ budget \in 0 .. MaxBuffer
  /\ flush \in [Flusher -> Promise] /\ target \in [Flusher -> 0 .. MaxMsg]
  /\ alone \in [Flusher -> BOOLEAN]
  /\ numbering \in Numberings
  /\ closing \in BOOLEAN /\ closed \in BOOLEAN /\ lastError \in BOOLEAN
  /\ closeCall \in Promise

-----------------------------------------------------------------------------
(* What the handlers are made of                                           *)

PumpEvent == [type |-> "pump"]

\* The event being handled is the head of the mailbox.
Event == Head(mailbox)
Handles(states, type) == state \in states /\ mailbox # << >> /\ Event.type = type

\* The mailbox after this event, with the events the handler dispatches to itself.
Then(posted) == mailbox' = Tail(mailbox) \o posted

\* writer.acknowledgments, for the first n messages in flight.
AckOutput(n) ==
  IF n = 0 THEN << >> ELSE <<[type |-> "acks", batch |-> Inflight(window, n)]>>

\* resolveFlushIfDrained, once the window is w.
FlushOutput(w) == IF flushRequested /\ AllDrained(w) THEN <<[type |-> "flushed"]>> ELSE << >>
StillFlushing(w) == flushRequested /\ ~AllDrained(w)

\* terminate, after the outputs of the same transition: the runtime drops the tail of the
\* mailbox, finalize clears the timers and disposes of the stream.
Terminate(terminal, emitted) ==
  /\ state' = terminal
  /\ outputs' = outputs \o emitted
                  \o (IF terminal = "errored" THEN <<[type |-> "error"]>> ELSE << >>)
                  \o <<[type |-> "closed"]>>
  /\ window' = EmptyWindow
  /\ mailbox' = << >>
  /\ timers' = {}
  /\ stream' = FALSE /\ up' = << >> /\ down' = << >>

\* connectEffects: a fresh stream, its init request and the watchdog.
Connect(armed) ==
  /\ stream' = TRUE
  /\ up' = <<[type |-> "init", getLastSeqNo |-> ~hasEverConnected]>>
  /\ down' = << >>
  /\ timers' = armed \cup {"start_timeout"}

\* toReconnecting.  recovery_window is armed once, so its deadline stays.
ToReconnecting(armed) ==
  /\ state' = "reconnecting"
  /\ timers' = (armed \ {"start_timeout", "flush_tick"}) \cup {"retry_backoff"}
                 \cup (IF BoundedRecovery THEN {"recovery_window"} ELSE {})

\* pump, when there is something to send.  A batch pushed without a stream is dropped;
\* its messages stay in flight until the next init.
Pump(rest) ==
  /\ CanSend(window)
  /\ window' = Sent(window, lastSeqNo)
  /\ lastSeqNo' = HighWater(window, lastSeqNo)
  /\ up' = IF stream
           THEN Append(up, [type |-> "write", batch |-> Batch(window, lastSeqNo)])
           ELSE up
  /\ mailbox' = rest \o (IF CanSend(window') THEN <<PumpEvent>> ELSE << >>)

\* closeWhenDrained, once the window is w and after the given outputs.
DrainedClose(w, emitted) == AllDrained(w) /\ Terminate("closed", emitted)

-----------------------------------------------------------------------------
(* Events of the public object                                             *)

\* enqueue; in "closing" the facade has already rejected the write
HandleWrite ==
  /\ Handles({"connecting", "ready", "reconnecting"}, "write")
  /\ window' = Enqueued(window, [id |-> Event.id,
                                 seqNo |-> IF numbering = "manual" THEN Event.id ELSE 0])
  /\ seqNoMode' = numbering
  /\ lastSeqNo' = IF numbering = "manual" /\ Event.id > lastSeqNo THEN Event.id ELSE lastSeqNo
  /\ Then(IF state = "ready" THEN <<PumpEvent>> ELSE << >>)
  /\ UNCHANGED <<state, hasEverConnected, flushRequested, outputs, timers, streamVars,
                 serverVars, faults, userVars>>

\* requestFlush
HandleFlush ==
  /\ Handles(State \ Terminal, "flush")
  /\ IF AllDrained(window)
     THEN /\ flushRequested' = FALSE
          /\ outputs' = Append(outputs, [type |-> "flushed"])
          /\ Then(<< >>)
     ELSE /\ flushRequested' = TRUE
          /\ UNCHANGED outputs
          /\ Then(<<PumpEvent>>)
  /\ UNCHANGED <<state, hasEverConnected, seqNoMode, lastSeqNo, window, timers, streamVars,
                 serverVars, faults, userVars>>

\* (broken) the drain has no deadline
HandleClose_NoDeadline ==
  /\ Handles({"connecting", "ready", "reconnecting"}, "close")
  /\ \/ DrainedClose(window, << >>)
     \/ /\ ~AllDrained(window)
        /\ state' = "closing"
        /\ timers' = timers \ {"recovery_window", "flush_tick"}
        /\ Then(<<PumpEvent>>)
        /\ UNCHANGED <<window, outputs, streamVars>>
  /\ UNCHANGED <<hasEverConnected, seqNoMode, lastSeqNo, flushRequested, serverVars,
                 faults, userVars>>

\* toClosing.  start_timeout and retry_backoff stay armed, to finish the drain.
HandleClose ==
  /\ Handles({"connecting", "ready", "reconnecting"}, "close")
  /\ \/ DrainedClose(window, << >>)
     \/ /\ ~AllDrained(window)
        /\ state' = "closing"
        /\ timers' = (timers \ {"recovery_window", "flush_tick"}) \cup {"graceful_timeout"}
        /\ Then(<<PumpEvent>>)
        /\ UNCHANGED <<window, outputs, streamVars>>
  /\ UNCHANGED <<hasEverConnected, seqNoMode, lastSeqNo, flushRequested, serverVars,
                 faults, userVars>>

HandleDestroy ==
  /\ Handles(State \ Terminal, "destroy")
  /\ Terminate("closed", << >>)
  /\ UNCHANGED <<hasEverConnected, seqNoMode, lastSeqNo, flushRequested, serverVars,
                 faults, userVars>>

\* (broken) a close that races the first init numbers from an unknown mark
MayPump_Closing == state \in {"ready", "closing"}

\* The states that pump; "closing" waits for the recovered mark first.
MayPump == state = "ready" \/ (state = "closing" /\ hasEverConnected)

HandlePump ==
  /\ Handles({"ready", "closing"}, "pump")
  /\ MayPump
  /\ Pump(Tail(mailbox))
  /\ UNCHANGED <<state, hasEverConnected, seqNoMode, flushRequested, outputs, timers,
                 stream, down, serverVars, faults, userVars>>

-----------------------------------------------------------------------------
(* Events of the stream                                                    *)

\* applyInit: the mark is taken from the server once, what is in flight and persisted is
\* dropped, the rest goes back to the buffer.
RecoveredMark(last) ==
  IF ~hasEverConnected /\ seqNoMode # "manual" /\ last > lastSeqNo THEN last ELSE lastSeqNo

Persisted(last) == LeadingInflight(window, 1 .. last)

\* What applyInit and resolveFlushIfDrained emit.
InitOutputs(last) ==
  AckOutput(Persisted(last)) \o FlushOutput(Rewound(window, Persisted(last)))

ApplyInit(last) ==
  /\ hasEverConnected' = TRUE
  /\ lastSeqNo' = RecoveredMark(last)
  /\ flushRequested' = StillFlushing(Rewound(window, Persisted(last)))
  /\ UNCHANGED seqNoMode

\* (broken) a flush that the init drains is not resolved
ToReady_KeepsFlush ==
  /\ Handles({"connecting", "reconnecting"}, "init")
  /\ hasEverConnected' = TRUE
  /\ lastSeqNo' = RecoveredMark(Event.lastSeqNo)
  /\ window' = Rewound(window, Persisted(Event.lastSeqNo))
  /\ outputs' = outputs \o AckOutput(Persisted(Event.lastSeqNo))
  /\ state' = "ready"
  /\ timers' = (timers \ {"start_timeout", "retry_backoff", "recovery_window"})
                 \cup {"flush_tick"}
  /\ Then(<<PumpEvent>>)
  /\ UNCHANGED <<seqNoMode, flushRequested, streamVars, serverVars, faults, userVars>>

\* toReady; an init in "reconnecting" is that of a stream which outlived its watchdog.
ToReady ==
  /\ Handles({"connecting", "reconnecting"}, "init")
  /\ ApplyInit(Event.lastSeqNo)
  /\ window' = Rewound(window, Persisted(Event.lastSeqNo))
  /\ outputs' = outputs \o InitOutputs(Event.lastSeqNo)
  /\ state' = "ready"
  /\ timers' = (timers \ {"start_timeout", "retry_backoff", "recovery_window"})
                 \cup {"flush_tick"}
  /\ Then(<<PumpEvent>>)
  /\ UNCHANGED <<streamVars, serverVars, faults, userVars>>

\* A reconnect completed while closing.
InitWhileClosing ==
  /\ Handles({"closing"}, "init")
  /\ ApplyInit(Event.lastSeqNo)
  /\ LET w == Rewound(window, Persisted(Event.lastSeqNo)) IN
     \/ DrainedClose(w, InitOutputs(Event.lastSeqNo))
     \/ /\ ~AllDrained(w)
        /\ window' = w
        /\ outputs' = outputs \o InitOutputs(Event.lastSeqNo)
        /\ timers' = timers \ {"start_timeout"}
        /\ Then(<<PumpEvent>>)
        /\ UNCHANGED <<state, streamVars>>
  /\ UNCHANGED <<serverVars, faults, userVars>>

\* acknowledge, then resolveFlushIfDrained; the window after it and the outputs.
AckedCount == LeadingInflight(window, Event.seqNos)
AckedWindow == Acknowledged(window, AckedCount)
AckedOutputs == AckOutput(AckedCount) \o FlushOutput(AckedWindow)

\* (broken) the send loop is not resumed when acknowledgments make room
HandleAcks_NoPump ==
  /\ Handles({"ready", "closing"}, "acks")
  /\ flushRequested' = StillFlushing(AckedWindow)
  /\ \/ state = "closing" /\ DrainedClose(AckedWindow, AckedOutputs)
     \/ /\ state = "ready" \/ ~AllDrained(AckedWindow)
        /\ window' = AckedWindow
        /\ outputs' = outputs \o AckedOutputs
        /\ Then(<< >>)
        /\ UNCHANGED <<state, timers, streamVars>>
  /\ UNCHANGED <<hasEverConnected, seqNoMode, lastSeqNo, serverVars, faults, userVars>>

HandleAcks ==
  /\ Handles({"ready", "closing"}, "acks")
  /\ flushRequested' = StillFlushing(AckedWindow)
  /\ \/ state = "closing" /\ DrainedClose(AckedWindow, AckedOutputs)
     \/ /\ state = "ready" \/ ~AllDrained(AckedWindow)
        /\ window' = AckedWindow
        /\ outputs' = outputs \o AckedOutputs
        /\ Then(<<PumpEvent>>)
        /\ UNCHANGED <<state, timers, streamVars>>
  /\ UNCHANGED <<hasEverConnected, seqNoMode, lastSeqNo, serverVars, faults, userVars>>

\* A retryable error, or a clean end of the stream.
Disconnected ==
  /\ Handles({"connecting", "ready", "closing"}, "disconnected")
  /\ ~Event.fatal
  /\ \/ state # "closing" /\ ToReconnecting(timers)
     \/ /\ state = "closing"
        /\ timers' = (timers \ {"start_timeout"}) \cup {"retry_backoff"}
        /\ UNCHANGED state
  /\ Then(<< >>)
  /\ UNCHANGED <<ctxVars, outputs, streamVars, serverVars, faults, userVars>>

DisconnectedFatal ==
  /\ Handles({"connecting", "ready", "closing"}, "disconnected")
  /\ Event.fatal
  /\ Terminate("errored", << >>)
  /\ UNCHANGED <<hasEverConnected, seqNoMode, lastSeqNo, flushRequested, serverVars,
                 faults, userVars>>

\* Pairs the transition ignores: they leave the mailbox and change nothing.  A pump with
\* nothing to send, or while closing before the first init, is one of them; "reconnecting"
\* only records the error of a disconnect.
Ignores ==
  \/ Handles({"connecting", "reconnecting"}, "pump")
  \/ Handles({"ready", "closing"}, "pump") /\ ~(MayPump /\ CanSend(window))
  \/ Handles({"connecting", "reconnecting"}, "acks")
  \/ Handles({"reconnecting"}, "disconnected")
  \/ Handles({"ready"}, "init")
  \/ Handles({"closing"}, "write")
  \/ Handles({"closing"}, "close")

Ignore ==
  /\ Ignores
  /\ Then(<< >>)
  /\ UNCHANGED <<state, ctxVars, outputs, timers, streamVars, serverVars, faults, userVars>>

-----------------------------------------------------------------------------
(* Timers                                                                  *)

\* Only when every promise continuation has run.
Due(timer, states) ==
  timer \in timers /\ state \in states /\ mailbox = << >> /\ outputs = << >>

\* The connect watchdog.  In "reconnecting" the stream stays open for a late init.
StartTimeout ==
  /\ Due("start_timeout", {"connecting", "closing"}) /\ faults < MaxFaults
  /\ \/ state = "connecting" /\ ToReconnecting(timers)
     \/ /\ state = "closing"
        /\ timers' = (timers \ {"start_timeout"}) \cup {"retry_backoff"}
        /\ UNCHANGED state
  /\ faults' = faults + 1
  /\ UNCHANGED <<ctxVars, mailbox, outputs, streamVars, serverVars, userVars>>

\* In "closing" this may replace a healthy stream: a close() during a backoff leaves the
\* timer armed, and so does a late init.
RetryBackoff ==
  /\ Due("retry_backoff", {"reconnecting", "closing"})
  /\ state' = IF state = "reconnecting" THEN "connecting" ELSE state
  /\ Connect(timers \ {"retry_backoff"})
  /\ UNCHANGED <<ctxVars, mailbox, outputs, serverVars, faults, userVars>>

\* (broken) the deadline is ignored during a connect attempt
RecoveryWindow_Ignored ==
  /\ Due("recovery_window", {"connecting", "reconnecting"})
  /\ \/ /\ state = "reconnecting"
        /\ Terminate("errored", << >>)
     \/ /\ state = "connecting"
        /\ timers' = timers \ {"recovery_window"}
        /\ UNCHANGED <<state, window, mailbox, outputs, streamVars>>
  /\ UNCHANGED <<hasEverConnected, seqNoMode, lastSeqNo, flushRequested, serverVars,
                 faults, userVars>>

RecoveryWindow ==
  /\ Due("recovery_window", {"connecting", "reconnecting"})
  /\ Terminate("errored", << >>)
  /\ UNCHANGED <<hasEverConnected, seqNoMode, lastSeqNo, flushRequested, serverVars,
                 faults, userVars>>

GracefulTimeout ==
  /\ Due("graceful_timeout", {"closing"})
  /\ Terminate(IF AllDrained(window) THEN "closed" ELSE "errored", << >>)
  /\ UNCHANGED <<hasEverConnected, seqNoMode, lastSeqNo, flushRequested, serverVars,
                 faults, userVars>>

\* An interval: it stays armed.  PumpKeepsUp: it never finds anything to send.
FlushTick ==
  /\ Due("flush_tick", {"ready"})
  /\ IF CanSend(window) THEN Pump(mailbox)
                        ELSE UNCHANGED <<window, lastSeqNo, up, mailbox>>
  /\ UNCHANGED <<state, hasEverConnected, seqNoMode, flushRequested, outputs, timers,
                 stream, down, serverVars, faults, userVars>>

-----------------------------------------------------------------------------
(* The server and the network (external), and the transport                *)

\* The server handles the next request.  It reports its mark when asked to, and may
\* leave it out of the answer otherwise; the messages it has not seen are stored.
ServeInit ==
  /\ up # << >> /\ Head(up).type = "init"
  /\ up' = Tail(up)
  /\ \E last \in {serverLast} \cup (IF Head(up).getLastSeqNo THEN {} ELSE {0}) :
       down' = Append(down, [type |-> "init", lastSeqNo |-> last])
  /\ UNCHANGED <<state, ctxVars, mailbox, outputs, timers, stream, serverVars, faults,
                 userVars>>

ServeWrite ==
  /\ up # << >> /\ Head(up).type = "write"
  /\ up' = Tail(up)
  /\ LET batch == Head(up).batch
         last == batch[Len(batch)].seqNo
     IN \* the numbers of a batch increase: those the server has seen come first
        /\ \E seen \in 0 .. Len(batch) :
             /\ \A i \in 1 .. Len(batch) : batch[i].seqNo <= serverLast <=> i <= seen
             /\ log' = log \o [i \in 1 .. Len(batch) - seen |-> batch[seen + i].id]
        /\ serverLast' = IF last > serverLast THEN last ELSE serverLast
        /\ down' = Append(down, [type |-> "acks",
                                seqNos |-> {batch[i].seqNo : i \in 1 .. Len(batch)}])
  /\ UNCHANGED <<state, ctxVars, mailbox, outputs, timers, stream, faults, userVars>>

\* A response reaches the machine.
Deliver ==
  /\ down # << >>
  /\ down' = Tail(down)
  /\ mailbox' = Append(mailbox, Head(down))
  /\ UNCHANGED <<state, ctxVars, outputs, timers, stream, up, serverVars, faults, userVars>>

\* (broken) the responses of a broken stream are handled later
Break_KeepsResponses ==
  /\ stream /\ faults < MaxFaults
  /\ stream' = FALSE /\ up' = << >>
  /\ \E fatal \in (IF FatalErrors THEN BOOLEAN ELSE {FALSE}) :
       mailbox' = Append(mailbox, [type |-> "disconnected", fatal |-> fatal])
  /\ faults' = faults + 1
  /\ UNCHANGED <<state, ctxVars, outputs, timers, down, serverVars, userVars>>

\* The stream ends or fails; requests and responses under way are lost.
Break ==
  /\ stream /\ faults < MaxFaults
  /\ stream' = FALSE /\ up' = << >> /\ down' = << >>
  /\ \E fatal \in (IF FatalErrors THEN BOOLEAN ELSE {FALSE}) :
       mailbox' = Append(mailbox, [type |-> "disconnected", fatal |-> fatal])
  /\ faults' = faults + 1
  /\ UNCHANGED <<state, ctxVars, outputs, timers, serverVars, userVars>>

-----------------------------------------------------------------------------
(* The public object                                                       *)

\* dispatch: dropped once the machine has stopped.
Dispatch(event) ==
  mailbox' = IF state \in Terminal THEN mailbox ELSE Append(mailbox, event)

machineOnly == <<state, ctxVars, outputs, timers, streamVars, serverVars, faults, numbering>>

Write ==
  /\ ~closed /\ ~closing /\ ~lastError
  /\ budget < MaxBuffer /\ written < MaxMsg
  /\ written' = written + 1
  /\ budget' = budget + 1
  /\ Dispatch([type |-> "write", id |-> written + 1])
  /\ UNCHANGED <<machineOnly, acked, flush, target, alone, closing, closed, lastError,
                 closeCall>>

\* A request of flush() is queued, remembered by the machine, or its answer not yet read.
Requests == {i \in 1 .. Len(mailbox) : mailbox[i].type = "flush"}
Answers  == {i \in 1 .. Len(outputs) : outputs[i].type = "flushed"}
Flushing == Requests # {} \/ flushRequested \/ Answers # {}

\* A caller may call again as soon as it does not wait: also after it gave up, when its
\* earlier request may still be under way.
Flush(f) ==
  /\ ~closed /\ ~lastError
  /\ flush[f] # "pending"
  /\ OrderlyClose => ~closing
  /\ flush[f] = "rejected" /\ ~Hasty => mailbox = << >> /\ outputs = << >>
  /\ Cardinality(Requests) + Cardinality(Answers) < MaxRequests
  /\ flush' = [flush EXCEPT ![f] = "pending"]
  /\ target' = [target EXCEPT ![f] = written]
  /\ alone' = [alone EXCEPT ![f] = ~Flushing]
  /\ Dispatch([type |-> "flush"])
  /\ UNCHANGED <<machineOnly, written, acked, budget, closing, closed, lastError, closeCall>>

\* The caller's signal aborts: its waiter leaves #flushWaiters, the request stays.
FlushAborts(f) ==
  /\ flush[f] = "pending"
  /\ flush' = [flush EXCEPT ![f] = "rejected"]
  /\ target' = [target EXCEPT ![f] = 0]
  /\ alone' = [alone EXCEPT ![f] = FALSE]
  /\ UNCHANGED <<machineOnly, mailbox, written, acked, budget, closing, closed, lastError,
                 closeCall>>

\* close(); a repeated call only awaits the same promise.
Close ==
  /\ ~closed /\ closeCall = "none"
  /\ OrderlyClose => state = "ready" \/ ~hasEverConnected
  /\ closing' = TRUE
  /\ closeCall' = "pending"
  /\ Dispatch([type |-> "close"])
  /\ UNCHANGED <<machineOnly, written, acked, budget, flush, target, alone, closed, lastError>>

\* Every waiter of #flushWaiters settles.
SettleFlushes(outcome) ==
  /\ flush' = [f \in Flusher |-> IF flush[f] = "pending" THEN outcome ELSE flush[f]]
  /\ target' = [f \in Flusher |-> 0]
  /\ alone' = [f \in Flusher |-> FALSE]

\* destroy(), called once.
Destroy ==
  /\ ~closed
  /\ \A i \in 1 .. Len(mailbox) : mailbox[i].type # "destroy"
  /\ closing' = TRUE
  /\ lastError' = TRUE
  /\ SettleFlushes("rejected")
  /\ Dispatch([type |-> "destroy"])
  /\ UNCHANGED <<machineOnly, written, acked, budget, closed, closeCall>>

\* #consume takes the next output.
Consume(type) == outputs # << >> /\ Head(outputs).type = type /\ outputs' = Tail(outputs)

consumeUnchanged ==
  <<state, ctxVars, mailbox, timers, streamVars, serverVars, faults, numbering, written>>

ConsumeAcks ==
  /\ Consume("acks")
  /\ acked' = acked + Len(Head(outputs).batch)
  /\ budget' = budget - Len(Head(outputs).batch)
  /\ UNCHANGED <<consumeUnchanged, flush, target, alone, closing, closed, lastError, closeCall>>

\* Every waiter, whichever request the output answers: also one whose own request is
\* still queued behind it.
ConsumeFlushed ==
  /\ Consume("flushed")
  /\ SettleFlushes("resolved")
  /\ UNCHANGED <<consumeUnchanged, acked, budget, closing, closed, lastError, closeCall>>

ConsumeError ==
  /\ Consume("error")
  /\ lastError' = TRUE
  /\ SettleFlushes("rejected")
  /\ UNCHANGED <<consumeUnchanged, acked, budget, closing, closed, closeCall>>

\* #markClosed; close() then looks at #lastError.
ConsumeClosed ==
  /\ Consume("closed")
  /\ closed' = TRUE
  /\ budget' = 0
  /\ SettleFlushes("rejected")
  /\ closeCall' = IF closeCall # "pending" THEN closeCall
                  ELSE IF lastError THEN "rejected" ELSE "resolved"
  /\ UNCHANGED <<consumeUnchanged, acked, closing, lastError>>

-----------------------------------------------------------------------------

\* The writer is created: writer.start has been handled, the first stream is opening.
Init ==
  /\ state = "connecting"
  /\ hasEverConnected = FALSE /\ seqNoMode = "none" /\ lastSeqNo = 0
  /\ flushRequested = FALSE /\ window = EmptyWindow
  /\ mailbox = << >> /\ outputs = << >> /\ timers = {"start_timeout"}
  /\ stream = TRUE /\ up = <<[type |-> "init", getLastSeqNo |-> TRUE]>> /\ down = << >>
  /\ serverLast = Recovered
  \* A caller who numbers its messages sends again from 1 after a restart.
  /\ numbering \in Numberings
  /\ log = IF numbering = "manual" THEN [i \in 1 .. Recovered |-> i] ELSE << >>
  /\ faults = 0
  /\ written = 0 /\ acked = 0 /\ budget = 0
  /\ flush = [f \in Flusher |-> "none"] /\ target = [f \in Flusher |-> 0]
  /\ alone = [f \in Flusher |-> FALSE]
  /\ closing = FALSE /\ closed = FALSE /\ lastError = FALSE /\ closeCall = "none"

HandleEvent ==
  \/ HandleWrite \/ HandleFlush \/ HandleClose \/ HandleDestroy \/ HandlePump
  \/ ToReady \/ InitWhileClosing \/ HandleAcks
  \/ Disconnected \/ DisconnectedFatal \/ Ignore

ConsumeOutput == ConsumeAcks \/ ConsumeFlushed \/ ConsumeError \/ ConsumeClosed
TimerFires == StartTimeout \/ RetryBackoff \/ RecoveryWindow \/ GracefulTimeout \/ FlushTick
Serve == ServeInit \/ ServeWrite
User == Write \/ Close \/ Destroy \/ \E f \in Flusher : Flush(f) \/ FlushAborts(f)

Next == HandleEvent \/ ConsumeOutput \/ TimerFires \/ Serve \/ Deliver \/ Break \/ User

Spec == Init /\ [][Next]_vars

-----------------------------------------------------------------------------
(* Safety                                                                  *)

\* What is not reported yet: acknowledgments on their way to #consume, then the window,
\* then the writes in the mailbox.
LiveWindow == SubSeq(window.messages, window.inflightStart + 1, Len(window.messages))
Reports == {i \in 1 .. Len(outputs) : outputs[i].type = "acks"}
Writes  == {i \in 1 .. Len(mailbox) : mailbox[i].type = "write"}

Ids(messages) == {messages[i].id : i \in 1 .. Len(messages)}
ReportedIds   == UNION {Ids(outputs[i].batch) : i \in Reports}
QueuedIds     == {mailbox[i].id : i \in Writes}

Consecutive(messages) ==
  \A i \in 1 .. Len(messages) - 1 : messages[i + 1].id = messages[i].id + 1
Before(A, B) == \A a \in A, b \in B : a < b

\* Until the writer stops, every message accepted by write() and not reported to onAck is
\* in exactly one place, and in order: no event order, reconnect or rewind loses, repeats
\* or overtakes one.  The budget write() checks is exactly their size.
Conservation ==
  /\ state \notin Terminal =>
       /\ ReportedIds \cup Ids(LiveWindow) \cup QueuedIds = acked + 1 .. written
       /\ \A i \in Reports : Consecutive(outputs[i].batch)
       /\ \A i, j \in Reports :
            i < j => Before(Ids(outputs[i].batch), Ids(outputs[j].batch))
       /\ Consecutive(LiveWindow)
       /\ \A i, j \in Writes : i < j => mailbox[i].id < mailbox[j].id
       /\ Before(ReportedIds, Ids(LiveWindow))
       /\ Before(ReportedIds \cup Ids(LiveWindow), QueuedIds)
  /\ ~closed => budget = written - acked

\* The pointers of the window agree with its lengths, no more than maxInflightCount is in
\* flight, and numbers increase along the window up to lastSeqNo: the next number that
\* formBatch gives is a new one.
WindowInv ==
  /\ WindowShape(window)
  /\ WindowNumbers(window)
  /\ \A p \in 1 .. Len(window.messages) : window.messages[p].seqNo <= lastSeqNo

\* The send loop never stops with work to do: a ready machine with an empty mailbox has
\* nothing it may send, so nothing waits for the flush_tick interval.
PumpKeepsUp == state = "ready" /\ mailbox = << >> => ~CanSend(window)

\* The promise of delivery: what the server has stored is a prefix of what was written,
\* each message once; onAck reports nothing that is not stored; close() succeeds only
\* when everything was.
Durable ==
  INSTANCE DurableLog WITH
    MaxRestored <- Recovered,
    submitted   <- written,
    persisted   <- log,
    confirmed   <- acked,
    status      <- IF lastError THEN "failed" ELSE IF closed THEN "closed" ELSE "open"

DurableSpec == Durable!Spec

\* What is reported to onAck as stored is stored.  The server drops a number at or below
\* the last one it has seen and reports it as written, so a message overtaken by a later
\* one would be acknowledged and lost.
AckedIsStored == \A n \in 1 .. acked : \E i \in 1 .. Len(log) : log[i] = n

\* A flush() called while no earlier request is under way resolves only when all that was
\* written before it was acknowledged, whatever is requested, aborted or rewound after it.
\* One that overlaps an earlier request, of another caller or of a call its caller gave up,
\* has no such promise: writer.ts:347 resolves every waiter with the earlier answer.
FlushBarrier ==
  [][\A f \in Flusher :
       flush[f] = "pending" /\ flush'[f] = "resolved" /\ alone[f] => target[f] <= acked]_vars

-----------------------------------------------------------------------------
(* Liveness                                                                *)

\* The event loop runs promise continuations.
LoopFair == WF_vars(HandleEvent) /\ WF_vars(ConsumeOutput)
\* It comes back to its expired timers whenever the continuations run out, however often
\* the caller adds new ones: strong fairness.
TimersFair ==
  /\ SF_vars(StartTimeout) /\ SF_vars(RetryBackoff) /\ SF_vars(RecoveryWindow)
  /\ SF_vars(GracefulTimeout) /\ WF_vars(FlushTick)
\* A server that answers what it is sent; broken streams are bounded by MaxFaults.
ServerFair == WF_vars(Serve) /\ WF_vars(Deliver)

FairSpec == Spec /\ LoopFair /\ TimersFair

\* With a server that answers, every flush() settles, also when a reconnect's init drains
\* the window and no acknowledgment is left to come.
FlushSettles ==
  ServerFair => \A f \in Flusher : flush[f] = "pending" ~> flush[f] # "pending"

\* With a server that answers, every accepted message is reported, or the writer has
\* failed or was closed.
Delivery ==
  ServerFair => \A n \in 1 .. MaxMsg : written >= n ~> acked >= n \/ lastError \/ closed

\* close() settles, whatever the server does: an answer may never come.
CloseSettles == closeCall = "pending" ~> closeCall # "pending"

\* With a finite recovery window the writer does not stay without a session for ever,
\* even if the server accepts every stream and never answers.
RecoveryEnds ==
  BoundedRecovery =>
    (state \in {"connecting", "reconnecting"} ~> state \notin {"connecting", "reconnecting"})
=============================================================================
