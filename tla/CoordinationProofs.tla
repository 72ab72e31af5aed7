------------------------- MODULE CoordinationProofs --------------------------
(* Proofs about a coordination session and the calls over it, for every     *)
(* number of faults, acquires, changes of owner and request ids in use: what *)
(* the session promises, that the composition keeps it, that a lease owns    *)
(* the semaphore, and that no lock is left behind.                           *)
EXTENDS CoordinationCalls, SequenceTheorems, TLAPS

-----------------------------------------------------------------------------
(* Queues *)

\* What is left when the head of a queue is taken.
LEMMA TakeProps ==
  ASSUME NEW S, NEW seq \in Seq(S), seq # << >>
  PROVE  /\ Len(seq) \in Nat /\ Len(seq) >= 1
         /\ Head(seq) = seq[1] /\ Head(seq) \in S
         /\ Tail(seq) \in Seq(S) /\ Len(Tail(seq)) = Len(seq) - 1
         /\ \A i \in 1 .. Len(seq) - 1 : Tail(seq)[i] = seq[i + 1]
  OBVIOUS

\* A queue with nothing in it.
LEMMA NothingProps == ASSUME NEW S PROVE << >> \in Seq(S) /\ Len(<< >>) = 0
  OBVIOUS

\* A queue with one more element.
LEMMA PutProps ==
  ASSUME NEW S, NEW seq \in Seq(S), NEW e \in S
  PROVE  /\ Len(seq) \in Nat
         /\ Append(seq, e) \in Seq(S) /\ Len(Append(seq, e)) = Len(seq) + 1
         /\ \A i \in 1 .. Len(seq) : Append(seq, e)[i] = seq[i]
         /\ Append(seq, e)[Len(seq) + 1] = e
  OBVIOUS

\* Two elements at once.
LEMMA PutTwo ==
  ASSUME NEW S, NEW seq \in Seq(S), NEW d \in S, NEW e \in S
  PROVE  seq \o <<d, e>> \in Seq(S)
  OBVIOUS

\* Messages are outputs, and what each kind carries.
LEMMA MessageKinds ==
  /\ \A m \in Message : m \in Output
  /\ \A m \in Message : m.type \in {"started", "failure", "stopped"}
  /\ \A m \in Output : m.type \in {"started", "failure", "stopped", "disconnected"}
  /\ \A m \in Output : m.type = "started" => m.id \in SessionId
  /\ \A m \in Output : m.type = "failure" => m.terminal \in BOOLEAN
  /\ [type |-> "disconnected"] \in Output
  /\ [type |-> "stopped"] \in Message
  /\ \A b \in BOOLEAN : [type |-> "failure", terminal |-> b] \in Message
  /\ \A id \in SessionId : [type |-> "started", id |-> id] \in Message
  BY DEF Message, Output

-----------------------------------------------------------------------------
(* Types *)

\* The first state has its type.
LEMMA TypeInit == Init => TypeOK
<1> SUFFICES ASSUME Init PROVE TypeOK
  OBVIOUS
<1>1. /\ state \in State /\ transport \in Transport
      /\ closeCall \in {"none", "pending", "resolved", "rejected"}
  BY DEF Init, State, Live, Transport
<1>2. timers \subseteq Timer
  BY DEF Init, Timer
<1>3. /\ sessionId \in SessionId \cup {0} /\ asked \in SessionId \cup {0}
      /\ served \in SessionId \cup {0}
      /\ alive \subseteq SessionId /\ issued \in 0 .. MaxFaults + 1
      /\ faults \in 0 .. MaxFaults
  BY SessionAssumption DEF Init
<1>4. /\ outputs \in Seq(Output) /\ down \in Seq(Message)
      /\ stream \in {"none", "opening", "attached", "done"} /\ stopSent \in BOOLEAN
      /\ stream = "none" => down = << >> /\ ~stopSent
  BY NothingProps DEF Init
<1> QED
  BY <1>1, <1>2, <1>3, <1>4 DEF TypeOK

\* Every step keeps the types, the bounds on ids and faults, and an empty stream: what is
\* stopped is a stream.
LEMMA TypeStep == SessionInv /\ [Next]_vars => TypeOK'
<1> SUFFICES ASSUME SessionInv, [Next]_vars PROVE TypeOK'
  OBVIOUS
<1> USE SessionAssumption
<1>i. TypeOK /\ StreamStages
  BY DEF SessionInv
<1> USE <1>i
<1>t. /\ outputs # << >> => Tail(outputs) \in Seq(Output) /\ Head(outputs) \in Output
      /\ down # << >> => Tail(down) \in Seq(Message) /\ Head(down) \in Message
  BY TakeProps DEF TypeOK
<1>p. /\ \A m \in Message : Append(down, m) \in Seq(Message)
      /\ \A m \in Output : Append(outputs, m) \in Seq(Output)
      /\ \A m, n \in Output : outputs \o <<m, n>> \in Seq(Output)
  BY PutProps, PutTwo DEF TypeOK
<1>1. CASE Started
  BY <1>1, <1>t, MessageKinds
  DEF Started, Ingests, TypeOK, State, Live, streamVars, serverVars
<1>2. CASE Disconnected
  BY <1>2, <1>t DEF Disconnected, Ingests, Reconnecting, TypeOK, State, Live, Timer,
                    streamVars, serverVars
<1>3. CASE Stopped
  BY <1>3, NothingProps, <1>t DEF Stopped, Ingests, Finalize, CloseTransport, NoStream, TypeOK, State,
                    Terminal, Timer, Transport, serverVars
<1>4. CASE Failed
  BY <1>4, <1>t DEF Failed, Ingests, Finalize, TypeOK, State, Terminal, Timer, streamVars,
                    serverVars
<1>5. CASE FailedWhileClosing
  BY <1>5, NothingProps, <1>t DEF FailedWhileClosing, Ingests, Finalize, CloseTransport, NoStream, TypeOK,
                    State, Terminal, Timer, Transport, serverVars
<1>6. CASE IgnoreOutput
  BY <1>6, <1>t DEF IgnoreOutput, Ingests, TypeOK, sessionVars, streamVars, serverVars
<1>7. CASE ReceiveStarted
  BY <1>7, <1>t, <1>p, MessageKinds DEF ReceiveStarted, TypeOK, Transport, sessionVars, serverVars
<1>8. CASE ReceiveFailure
  BY <1>8, <1>t, <1>p, MessageKinds DEF ReceiveFailure, TypeOK, sessionVars, serverVars
<1>9. CASE ReceiveStopped
  BY <1>9, <1>t, <1>p, MessageKinds DEF ReceiveStopped, TypeOK, sessionVars, serverVars
<1>10. CASE StreamEnds
  <2> USE <1>10 DEF StreamEnds, NoStream
  <2>1. transport' \in Transport /\ outputs' \in Seq(Output)
    BY <1>p, MessageKinds DEF TypeOK, Transport
  <2>2. down' \in Seq(Message) /\ down' = << >> /\ stream' = "none" /\ stopSent' = FALSE
    BY NothingProps
  <2>3. faults' \in 0 .. MaxFaults
    BY DEF TypeOK
  <2> QED
    BY <2>1, <2>2, <2>3 DEF TypeOK, sessionVars
<1>11. CASE ServerAttaches
  BY <1>11, <1>p, MessageKinds DEF ServerAttaches, TypeOK, SessionId, sessionVars, transportVars
<1>12. CASE ServerRefuses
  BY <1>12, <1>p, MessageKinds DEF ServerRefuses, TypeOK, sessionVars, transportVars, serverVars
<1>13. CASE ServerFails
  BY <1>13, <1>p, MessageKinds DEF ServerFails, TypeOK, sessionVars, transportVars
<1>14. CASE ServerStops
  BY <1>14, <1>p, MessageKinds DEF ServerStops, TypeOK, sessionVars, transportVars
<1>15. CASE ServerForgets
  BY <1>15 DEF ServerForgets, TypeOK, sessionVars, transportVars, streamVars
<1>16. CASE StartTimeout
  BY <1>16 DEF StartTimeout, Reconnecting, TypeOK, State, Live, Timer, transportVars,
               streamVars, serverVars
<1>17. CASE RetryBackoff
  BY <1>17 DEF RetryBackoff, ConnectTransport, TypeOK, State, Live, Timer, Transport,
               transportVars, streamVars, serverVars
<1>18. CASE RecoveryWindow
  BY <1>18 DEF RecoveryWindow, Finalize, TypeOK, State, Terminal, Timer, transportVars,
               streamVars, serverVars
<1>19. CASE Close
  <2>1. /\ state' \in State /\ timers' \subseteq Timer /\ transport' \in Transport
        /\ closeCall' \in {"none", "pending", "resolved", "rejected"}
    BY <1>19 DEF Close, StopTransport, TypeOK, State, Live, Timer, Transport, transportVars
  <2>2. /\ stopSent' \in BOOLEAN /\ down' \in Seq(Message)
        /\ stream' \in {"none", "opening", "attached", "done"}
        /\ stream' = "none" => down' = << >> /\ ~stopSent'
    <3>1. CASE state \in Live /\ StopTransport /\ transport = "ready"
      <4>1. transport = "ready" => stream # "none"
        BY DEF StreamStages
      <4> QED
        BY <3>1, <4>1 DEF StopTransport, NoStream, TypeOK
    <3>2. CASE state \in Live /\ NoStream
      BY <3>2, NothingProps DEF NoStream
    <3>3. CASE UNCHANGED streamVars
      BY <3>3 DEF streamVars, TypeOK
    <3> QED
      BY <1>19, <3>1, <3>2, <3>3 DEF Close, StopTransport
  <2>3. UNCHANGED <<sessionId, outputs, asked, served, serverVars>>
    BY <1>19 DEF Close, StopTransport, NoStream, transportVars, streamVars
  <2> QED
    BY <2>1, <2>2, <2>3 DEF TypeOK, serverVars
<1>20. CASE Destroy
  BY <1>20, NothingProps DEF Destroy, Finalize, CloseTransport, NoStream, TypeOK, State, Terminal, Timer,
               Transport, serverVars
<1>21. CASE UNCHANGED vars
  BY <1>21 DEF vars, sessionVars, transportVars, streamVars, serverVars, TypeOK
<1> QED
  BY <1>1, <1>2, <1>3, <1>4, <1>5, <1>6, <1>7, <1>8, <1>9, <1>10, <1>11, <1>12, <1>13,
     <1>14, <1>15, <1>16, <1>17, <1>18, <1>19, <1>20, <1>21
  DEF Next, Ingest, Receive, Server

-----------------------------------------------------------------------------
(* Timers, and who owns the stream *)

\* Every step that changes the state arms its timers.
LEMMA ScheduledStep == SessionInv /\ [Next]_vars => Scheduled'
<1> SUFFICES ASSUME SessionInv, [Next]_vars PROVE Scheduled'
  OBVIOUS
<1>i. Scheduled /\ state \in State
  BY DEF SessionInv, TypeOK
<1> USE <1>i DEF Scheduled
<1>1. CASE Started \/ Disconnected
  BY <1>1 DEF Started, Disconnected, Reconnecting
<1>2. CASE Stopped \/ Failed \/ FailedWhileClosing \/ Destroy
  BY <1>2 DEF Stopped, Failed, FailedWhileClosing, Destroy, Finalize
<1>3. CASE IgnoreOutput \/ Receive \/ StreamEnds \/ Server \/ UNCHANGED vars
  BY <1>3 DEF IgnoreOutput, Receive, ReceiveStarted, ReceiveFailure, ReceiveStopped,
    StreamEnds, Server, ServerAttaches, ServerRefuses, ServerFails, ServerStops,
    ServerForgets, sessionVars, vars
<1>4. CASE StartTimeout \/ RetryBackoff
  BY <1>4 DEF StartTimeout, RetryBackoff, Reconnecting
<1>5. CASE RecoveryWindow
  BY <1>5 DEF RecoveryWindow, Finalize
<1>6. CASE Close
  BY <1>6 DEF Close, Live, Terminal
<1> QED
  BY <1>1, <1>2, <1>3, <1>4, <1>5, <1>6 DEF Next, Ingest

\* The stream goes with its transport.
LEMMA OwnedStep == SessionInv /\ [Next]_vars => StreamOwned'
<1> SUFFICES ASSUME SessionInv, [Next]_vars PROVE StreamOwned'
  OBVIOUS
<1>i. StreamOwned
  BY DEF SessionInv
<1> USE <1>i DEF StreamOwned
<1>1. CASE Started \/ Disconnected \/ Failed \/ IgnoreOutput \/ StartTimeout
  BY <1>1 DEF Started, Disconnected, Failed, IgnoreOutput, StartTimeout, Reconnecting,
    Finalize, sessionVars, transportVars, streamVars
<1>2. CASE Stopped \/ FailedWhileClosing \/ Destroy
  BY <1>2 DEF Stopped, FailedWhileClosing, Destroy, Finalize, CloseTransport, NoStream
<1>3. CASE Receive
  BY <1>3 DEF Receive, ReceiveStarted, ReceiveFailure, ReceiveStopped, sessionVars
<1>4. CASE StreamEnds
  BY <1>4 DEF StreamEnds, NoStream, sessionVars
<1>5. CASE Server
  BY <1>5 DEF Server, ServerAttaches, ServerRefuses, ServerFails, ServerStops,
    ServerForgets, sessionVars, transportVars, streamVars
<1>6. CASE RetryBackoff
  BY <1>6 DEF RetryBackoff, ConnectTransport, transportVars, streamVars
<1>7. CASE RecoveryWindow
  BY <1>7 DEF RecoveryWindow, Finalize, transportVars, streamVars
<1>8. CASE Close
  BY <1>8 DEF Close, StopTransport, NoStream, Live, transportVars, streamVars
<1>9. CASE UNCHANGED vars
  BY <1>9 DEF vars, sessionVars, transportVars, streamVars
<1> QED
  BY <1>1, <1>2, <1>3, <1>4, <1>5, <1>6, <1>7, <1>8, <1>9 DEF Next, Ingest

-----------------------------------------------------------------------------
(* What the session has yet to learn *)

\* Taking an output: every kind but the head's is still there, and nothing is new.
LEMMA EmittedTake ==
  ASSUME TypeOK, outputs # << >>, outputs' = Tail(outputs)
  PROVE  \A type : /\ Emitted(type)' => Emitted(type)
                   /\ Emitted(type) /\ Head(outputs).type # type => Emitted(type)'
<1>1. /\ Len(outputs) \in Nat /\ Len(outputs') = Len(outputs) - 1
      /\ Head(outputs) = outputs[1]
      /\ \A i \in 1 .. Len(outputs) - 1 : outputs'[i] = outputs[i + 1]
  BY TakeProps DEF TypeOK
<1> SUFFICES ASSUME NEW type
             PROVE  /\ Emitted(type)' => Emitted(type)
                    /\ Emitted(type) /\ Head(outputs).type # type => Emitted(type)'
  OBVIOUS
<1>2. ASSUME NEW i \in 1 .. Len(outputs'), outputs'[i].type = type PROVE Emitted(type)
  <2>1. i + 1 \in 1 .. Len(outputs) /\ outputs[i + 1].type = type
    BY <1>1, <1>2
  <2> QED
    BY <2>1 DEF Emitted
<1>3. ASSUME NEW i \in 1 .. Len(outputs), outputs[i].type = type, Head(outputs).type # type
      PROVE  Emitted(type)'
  <2>1. i - 1 \in 1 .. Len(outputs') /\ outputs'[i - 1].type = type
    BY <1>1, <1>3
  <2> QED
    BY <2>1 DEF Emitted
<1> QED
  BY <1>2, <1>3 DEF Emitted

\* Emitting an output adds its kind.
LEMMA EmittedPut ==
  ASSUME TypeOK, NEW o \in Output, outputs' = Append(outputs, o)
  PROVE  \A type : Emitted(type)' <=> Emitted(type) \/ o.type = type
<1>1. /\ Len(outputs) \in Nat /\ Len(outputs') = Len(outputs) + 1
      /\ outputs'[Len(outputs) + 1] = o
      /\ \A i \in 1 .. Len(outputs) : outputs'[i] = outputs[i]
  BY PutProps DEF TypeOK
<1> QED
  BY <1>1 DEF Emitted

\* Nothing was emitted that is not there.
LEMMA EmittedNone == outputs = << >> => \A type : ~Emitted(type)
  BY DEF Emitted

\* Taking an output keeps the order; after a "disconnected" nothing is left, and after a
\* "started" there is no other.
LEMMA OrderedTake ==
  ASSUME TypeOK, Ordered, outputs # << >>, outputs' = Tail(outputs)
  PROVE  /\ Ordered'
         /\ Head(outputs).type = "disconnected" => outputs' = << >>
         /\ Head(outputs).type = "started" => ~Emitted("started")'
<1>1. /\ Len(outputs) \in Nat /\ Len(outputs') = Len(outputs) - 1 /\ Len(outputs) >= 1
      /\ Head(outputs) = outputs[1] /\ outputs' \in Seq(Output)
      /\ \A i \in 1 .. Len(outputs) - 1 : outputs'[i] = outputs[i + 1]
  BY TakeProps DEF TypeOK
<1>2. Ordered'
  <2>1. ASSUME NEW i \in 1 .. Len(outputs'), outputs'[i].type = "disconnected"
        PROVE  i = Len(outputs')
    <3>1. i + 1 \in 1 .. Len(outputs) /\ outputs[i + 1].type = "disconnected"
      BY <1>1, <2>1
    <3>2. i + 1 = Len(outputs)
      BY <3>1 DEF Ordered
    <3> QED
      BY <3>2, <1>1
  <2>2. ASSUME NEW i \in 1 .. Len(outputs'), NEW j \in 1 .. Len(outputs'),
               outputs'[i].type = "started", outputs'[j].type = "started"
        PROVE  i = j
    <3>1. i + 1 \in 1 .. Len(outputs) /\ j + 1 \in 1 .. Len(outputs)
      BY <1>1
    <3>2. outputs[i + 1].type = "started" /\ outputs[j + 1].type = "started"
      BY <1>1, <2>2
    <3>3. i + 1 = j + 1
      BY <3>1, <3>2 DEF Ordered
    <3> QED
      BY <3>3, <1>1
  <2> QED
    BY <2>1, <2>2 DEF Ordered
<1>3. ASSUME Head(outputs).type = "disconnected" PROVE outputs' = << >>
  <2>1. 1 \in 1 .. Len(outputs) /\ outputs[1].type = "disconnected"
    BY <1>1, <1>3
  <2>2. 1 = Len(outputs)
    BY <2>1 DEF Ordered
  <2> QED
    BY <2>2, <1>1
<1>4. ASSUME Head(outputs).type = "started", NEW i \in 1 .. Len(outputs'),
             outputs'[i].type = "started"
      PROVE  FALSE
  <2>1. i + 1 \in 1 .. Len(outputs) /\ outputs[i + 1].type = "started"
    BY <1>1, <1>4
  <2>2. 1 \in 1 .. Len(outputs) /\ outputs[1].type = "started"
    BY <1>1, <1>4
  <2>3. i + 1 = 1
    BY <2>1, <2>2 DEF Ordered
  <2> QED
    BY <2>3
<1> QED
  BY <1>2, <1>3, <1>4 DEF Emitted

\* Emitting keeps the order if nothing was "disconnected" and a "started" is the first.
LEMMA OrderedPut ==
  ASSUME TypeOK, Ordered, NEW o \in Output, outputs' = Append(outputs, o),
         ~Emitted("disconnected"), o.type = "started" => ~Emitted("started")
  PROVE  Ordered'
<1>1. /\ Len(outputs) \in Nat /\ Len(outputs') = Len(outputs) + 1
      /\ outputs'[Len(outputs) + 1] = o
      /\ \A i \in 1 .. Len(outputs) : outputs'[i] = outputs[i]
  BY PutProps DEF TypeOK
<1>2. ASSUME NEW i \in 1 .. Len(outputs'), outputs'[i].type = "disconnected"
      PROVE  i = Len(outputs')
  <2>1. CASE i \in 1 .. Len(outputs)
    BY <1>1, <1>2, <2>1 DEF Emitted
  <2> QED
    BY <1>1, <2>1
<1>3. ASSUME NEW i \in 1 .. Len(outputs'), NEW j \in 1 .. Len(outputs'),
             outputs'[i].type = "started", outputs'[j].type = "started"
      PROVE  i = j
  <2>1. CASE i \in 1 .. Len(outputs) /\ j \in 1 .. Len(outputs)
    <3>1. outputs[i].type = "started" /\ outputs[j].type = "started"
      BY <1>1, <1>3, <2>1
    <3> QED
      BY <2>1, <3>1 DEF Ordered
  <2>2. CASE o.type = "started"
    <3>1. \A k \in 1 .. Len(outputs) : outputs'[k].type # "started"
      BY <1>1, <2>2 DEF Emitted
    <3>2. i = Len(outputs) + 1 /\ j = Len(outputs) + 1
      BY <1>1, <1>3, <3>1
    <3> QED
      BY <3>2
  <2>3. CASE o.type # "started"
    <3>1. i \in 1 .. Len(outputs) /\ j \in 1 .. Len(outputs)
      BY <1>1, <1>3, <2>3
    <3> QED
      BY <3>1, <2>1
  <2> QED
    BY <2>2, <2>3
<1> QED
  BY <1>2, <1>3 DEF Ordered

\* The session learns of every change of the transport, in order, and of a stream at most
\* that it started and then that it ended.
LEMMA FollowsStep == SessionInv /\ [Next]_vars => Follows'
<1> SUFFICES ASSUME SessionInv, [Next]_vars PROVE Follows'
  OBVIOUS
<1>i. TypeOK /\ Follows
  BY DEF SessionInv
<1> USE <1>i
<1>l. /\ Live = {"connecting", "ready", "reconnecting"}
      /\ "closing" \notin Live /\ "closed" \notin Live /\ "expired" \notin Live
  BY DEF Live
<1>k. ASSUME UNCHANGED outputs
      PROVE  Ordered' = Ordered /\ \A type : Emitted(type)' = Emitted(type)
  BY <1>k DEF Ordered, Emitted
<1>1. CASE Started
  <2>1. /\ state \in {"connecting", "reconnecting"} /\ state' = "ready"
        /\ outputs # << >> /\ outputs' = Tail(outputs) /\ Head(outputs).type = "started"
        /\ UNCHANGED transport
    BY <1>1 DEF Started, Ingests
  <2>2. Emitted("started")
    BY <2>1, TakeProps DEF Emitted, TypeOK
  <2>3. Ordered' /\ ~Emitted("started")'
    BY <2>1, <1>l, OrderedTake DEF Follows
  <2> QED
    BY <2>1, <2>2, <2>3, <1>l, EmittedTake DEF Follows
<1>2. CASE Disconnected
  <2>1. /\ state \in {"connecting", "ready"} /\ state' = "reconnecting"
        /\ outputs # << >> /\ outputs' = Tail(outputs) /\ Head(outputs).type = "disconnected"
        /\ UNCHANGED transport
    BY <1>2 DEF Disconnected, Ingests, Reconnecting
  <2>2. Emitted("disconnected")
    BY <2>1, TakeProps DEF Emitted, TypeOK
  <2>3. Ordered' /\ outputs' = << >>
    BY <2>1, <1>l, OrderedTake DEF Follows
  <2>4. \A type : ~Emitted(type)'
    BY <2>3, EmittedNone DEF Emitted
  <2> QED
    BY <2>1, <2>2, <2>3, <2>4, <1>l DEF Follows
<1>3. CASE Stopped \/ Failed \/ FailedWhileClosing \/ Destroy
  BY <1>3, <1>l DEF Stopped, Failed, FailedWhileClosing, Destroy, Finalize, Follows
<1>4. CASE IgnoreOutput
  <2>1. outputs # << >> /\ outputs' = Tail(outputs) /\ UNCHANGED <<state, transport>>
    BY <1>4 DEF IgnoreOutput, Ingests, sessionVars
  <2>2. ASSUME state \in Live PROVE Ordered'
    BY <2>1, <2>2, OrderedTake DEF Follows
  <2>3. CASE Head(outputs).type = "failure" \/ state \notin Live
    BY <2>1, <2>2, <2>3, EmittedTake DEF Follows
  <2>4. CASE state \in Live /\ Head(outputs).type = "started"
    <3>1. state = "ready"
      BY <1>4, <2>4, <1>l DEF IgnoreOutput, Ingests, State, Terminal
    <3>2. Emitted("started")
      BY <2>1, <2>4, TakeProps DEF Emitted, TypeOK
    <3> QED
      BY <3>1, <3>2, <2>4 DEF Follows
  <2>5. CASE state \in Live /\ Head(outputs).type = "disconnected"
    <3>1. state = "reconnecting"
      BY <1>4, <2>5, <1>l DEF IgnoreOutput, Ingests, State, Terminal
    <3>2. Emitted("disconnected")
      BY <2>1, <2>5, TakeProps DEF Emitted, TypeOK
    <3>3. outputs' = << >>
      BY <2>1, <2>5, OrderedTake DEF Follows
    <3>4. \A type : ~Emitted(type)'
      BY <3>3, EmittedNone DEF Emitted
    <3> QED
      BY <3>1, <3>2, <3>4, <2>1, <2>2, <2>5 DEF Follows
  <2>6. CASE state \in Live /\ Head(outputs).type = "stopped"
    <3>1. Emitted("stopped")
      BY <2>1, <2>6, TakeProps DEF Emitted, TypeOK
    <3> QED
      BY <3>1, <2>6 DEF Follows
  <2>7. Head(outputs).type \in {"started", "failure", "stopped", "disconnected"}
    BY <2>1, TakeProps, MessageKinds DEF TypeOK
  <2> QED
    BY <2>3, <2>4, <2>5, <2>6, <2>7
<1>5. CASE ReceiveStarted
  <2>1. /\ transport = "connecting" /\ transport' = "ready" /\ UNCHANGED state
        /\ down # << >> /\ Head(down).type = "started" /\ outputs' = Append(outputs, Head(down))
    BY <1>5 DEF ReceiveStarted, sessionVars
  <2>2. Head(down) \in Output
    BY <2>1, TakeProps, MessageKinds DEF TypeOK
  <2>3. \A type : Emitted(type)' <=> Emitted(type) \/ type = "started"
    BY <2>1, <2>2, EmittedPut
  <2>4. ASSUME state \in Live PROVE Ordered'
    <3>1. Ordered /\ ~Emitted("disconnected") /\ ~Emitted("started")
      BY <2>1, <2>4 DEF Follows
    <3> QED
      BY <2>1, <2>2, <3>1, OrderedPut
  <2> QED
    BY <2>1, <2>3, <2>4 DEF Follows
<1>6. CASE ReceiveFailure
  <2>1. /\ transport \in {"connecting", "ready", "stopping"} /\ UNCHANGED <<state, transport>>
        /\ down # << >> /\ Head(down).type = "failure" /\ outputs' = Append(outputs, Head(down))
    BY <1>6 DEF ReceiveFailure, sessionVars
  <2>2. Head(down) \in Output
    BY <2>1, TakeProps, MessageKinds DEF TypeOK
  <2>3. \A type : Emitted(type)' <=> Emitted(type) \/ type = "failure"
    BY <2>1, <2>2, EmittedPut
  <2>4. ASSUME state \in Live PROVE Ordered'
    <3>1. Ordered /\ ~Emitted("disconnected")
      BY <2>1, <2>4 DEF Follows
    <3> QED
      BY <2>1, <2>2, <3>1, OrderedPut
  <2> QED
    BY <2>1, <2>3, <2>4 DEF Follows
<1>7. CASE ReceiveStopped
  BY <1>7 DEF ReceiveStopped, sessionVars, Follows
<1>8. CASE StreamEnds
  <2>1. CASE transport = "stopping"
    BY <1>8, <2>1 DEF StreamEnds, sessionVars, Follows
  <2>2. CASE transport \in {"connecting", "ready"}
    <3> DEFINE o == [type |-> "disconnected"]
    <3>1. /\ transport' = "disconnected" /\ UNCHANGED state
          /\ outputs' = Append(outputs, o)
      BY <1>8, <2>2 DEF StreamEnds, sessionVars
    <3>2. o \in Output /\ o.type = "disconnected"
      BY MessageKinds
    <3> HIDE DEF o
    <3>3. \A type : Emitted(type)' <=> Emitted(type) \/ type = "disconnected"
      BY <3>1, <3>2, EmittedPut
    <3>4. ASSUME state \in Live PROVE Ordered'
      <4>1. Ordered /\ ~Emitted("disconnected")
        BY <2>2, <3>4 DEF Follows
      <4> QED
        BY <3>1, <3>2, <4>1, OrderedPut
    <3> QED
      BY <2>2, <3>1, <3>3, <3>4 DEF Follows
  <2> QED
    BY <1>8, <2>1, <2>2 DEF StreamEnds
<1>9. CASE Server \/ UNCHANGED vars
  <2>1. UNCHANGED <<state, transport, outputs>>
    BY <1>9 DEF Server, ServerAttaches, ServerRefuses, ServerFails, ServerStops,
      ServerForgets, sessionVars, transportVars, vars
  <2> QED
    BY <2>1, <1>k DEF Follows
<1>10. CASE StartTimeout \/ RetryBackoff
  <2>1. /\ outputs = << >> /\ UNCHANGED outputs
        /\ \/ state = "connecting" /\ state' = "reconnecting" /\ UNCHANGED transport
           \/ /\ state = "reconnecting" /\ state' = "connecting"
              /\ transport \in {"disconnected", "connecting"} /\ transport' = "connecting"
    BY <1>10 DEF StartTimeout, RetryBackoff, Due, Reconnecting, ConnectTransport, transportVars
  <2>2. \A type : ~Emitted(type)
    BY <2>1, EmittedNone
  <2> QED
    BY <2>1, <2>2, <1>k, <1>l DEF Follows
<1>11. CASE RecoveryWindow
  <2>1. UNCHANGED <<transport, outputs>> /\ (UNCHANGED state \/ state' = "expired")
    BY <1>11 DEF RecoveryWindow, Finalize, transportVars
  <2> QED
    BY <2>1, <1>k, <1>l DEF Follows
<1>12. CASE Close
  <2>1. CASE state \in Live
    BY <1>12, <2>1, <1>l DEF Close, StopTransport, Live, Terminal, Follows
  <2>2. CASE state \in Terminal
    <3>1. UNCHANGED state /\ state # "closing" /\ state \notin Live
      BY <1>12, <2>2 DEF Close, Live, Terminal
    <3> QED
      BY <3>1 DEF Follows, Live
  <2> QED
    BY <1>12, <2>1, <2>2 DEF Close
<1> QED
  BY <1>1, <1>2, <1>3, <1>4, <1>5, <1>6, <1>7, <1>8, <1>9, <1>10, <1>11, <1>12
  DEF Next, Ingest, Receive

-----------------------------------------------------------------------------
(* How far the server is *)

\* Taking the head leaves a refusal where it is, unless it is the head.
LEMMA RefusedTake ==
  ASSUME NEW seq \in Seq(Output), seq # << >>, Refused(seq),
         ~(Head(seq).type = "failure" /\ Head(seq).terminal)
  PROVE  Refused(Tail(seq))
<1>1. /\ Len(seq) \in Nat /\ Len(Tail(seq)) = Len(seq) - 1 /\ Head(seq) = seq[1]
      /\ \A i \in 1 .. Len(seq) - 1 : Tail(seq)[i] = seq[i + 1]
  BY TakeProps
<1>2. PICK i \in 1 .. Len(seq) : seq[i].type = "failure" /\ seq[i].terminal
  BY DEF Refused
<1>3. i # 1
  BY <1>1, <1>2
<1>4. i - 1 \in 1 .. Len(Tail(seq)) /\ Tail(seq)[i - 1] = seq[i]
  BY <1>1, <1>3
<1> QED
  BY <1>2, <1>4 DEF Refused

\* Adding a message keeps a refusal, and may be one.
LEMMA RefusedPut ==
  ASSUME NEW seq \in Seq(Output), NEW o \in Output,
         Refused(seq) \/ (o.type = "failure" /\ o.terminal)
  PROVE  Refused(Append(seq, o))
<1>1. /\ Len(seq) \in Nat /\ Len(Append(seq, o)) = Len(seq) + 1
      /\ Append(seq, o)[Len(seq) + 1] = o
      /\ \A i \in 1 .. Len(seq) : Append(seq, o)[i] = seq[i]
  BY PutProps
<1>2. CASE Refused(seq)
  <2>1. PICK i \in 1 .. Len(seq) : seq[i].type = "failure" /\ seq[i].terminal
    BY <1>2 DEF Refused
  <2>2. i \in 1 .. Len(Append(seq, o)) /\ Append(seq, o)[i] = seq[i]
    BY <1>1
  <2> QED
    BY <2>1, <2>2 DEF Refused
<1>3. CASE o.type = "failure" /\ o.terminal
  <2>1. Len(seq) + 1 \in 1 .. Len(Append(seq, o))
    BY <1>1
  <2> QED
    BY <1>1, <1>3, <2>1 DEF Refused
<1> QED
  BY <1>2, <1>3

\* An empty queue holds no refusal.
LEMMA RefusedNone == ~Refused(<< >>)
  BY NothingProps DEF Refused

\* A queue of messages is one of outputs.
LEMMA MessagesAreOutputs == ASSUME NEW seq \in Seq(Message) PROVE seq \in Seq(Output)
<1>1. Message \subseteq Output
  BY DEF Output
<1> QED
  BY <1>1, SeqDef

\* The server is no further than the transport allows, and a session whose stream it has
\* finished is told so.
LEMMA StagesStep == SessionInv /\ [Next]_vars => StreamStages'
<1> SUFFICES ASSUME SessionInv, [Next]_vars PROVE StreamStages'
  OBVIOUS
<1>i. TypeOK /\ StreamOwned /\ Follows /\ StreamStages
  BY DEF SessionInv
<1> USE <1>i
<1>l. /\ Live = {"connecting", "ready", "reconnecting"}
      /\ "closing" \notin Live /\ "closed" \notin Live /\ "expired" \notin Live
  BY DEF Live
<1>t. /\ down \in Seq(Output) /\ outputs \in Seq(Output)
      /\ down # << >> => Head(down) \in Output
  BY MessagesAreOutputs, TakeProps DEF TypeOK
<1> DEFINE Told == state \in Live /\ stream = "done" => Refused(down) \/ Refused(outputs)
<1>u. ASSUME UNCHANGED streamVars, UNCHANGED transport, alive \subseteq alive', Told'
      PROVE  StreamStages'
  BY <1>u DEF StreamStages, streamVars
<1>1. CASE Started \/ Disconnected \/ IgnoreOutput
  <2>1. /\ outputs # << >> /\ outputs' = Tail(outputs) /\ UNCHANGED <<streamVars, transport, alive>>
        /\ state' \in Live => state \in Live
    BY <1>1, <1>l DEF Started, Disconnected, IgnoreOutput, Ingests, Reconnecting, serverVars, sessionVars
  <2>2. CASE state \in Live /\ Head(outputs).type = "disconnected"
    <3>1. Emitted("disconnected")
      BY <2>1, <2>2, TakeProps DEF Emitted, TypeOK
    <3>2. stream = "none"
      BY <2>2, <3>1 DEF Follows, StreamOwned
    <3> QED
      BY <2>1, <3>2, <1>u DEF streamVars
  <2>3. CASE ~(Head(outputs).type = "failure" /\ Head(outputs).terminal)
    <3>1. Refused(outputs) => Refused(outputs')
      BY <2>1, <2>3, <1>t, RefusedTake
    <3> QED
      BY <2>1, <3>1, <1>u DEF streamVars, StreamStages
  <2>4. CASE state \notin Live
    BY <2>1, <2>4, <1>u
  <2>5. state \in Live /\ Head(outputs).type = "failure" => ~Head(outputs).terminal
    BY <1>1, <1>l DEF Started, Disconnected, IgnoreOutput, Ingests, State, Terminal
  <2> QED
    BY <2>2, <2>3, <2>4, <2>5
<1>2. CASE Failed
  <2>1. state' \notin Live /\ UNCHANGED <<streamVars, transport, alive>>
    BY <1>2, <1>l DEF Failed, Finalize, serverVars
  <2> QED
    BY <2>1, <1>u
<1>3. CASE Stopped \/ FailedWhileClosing \/ Destroy
  <2>1. transport' = "closed" /\ stream' = "none" /\ stopSent' = FALSE
    BY <1>3 DEF Stopped, FailedWhileClosing, Destroy, CloseTransport, NoStream
  <2> QED
    BY <2>1 DEF StreamStages
<1>4. CASE ReceiveStarted
  <2>1. /\ transport = "connecting" /\ transport' = "ready"
        /\ down # << >> /\ Head(down).type = "started" /\ down' = Tail(down)
        /\ outputs' = Append(outputs, Head(down))
        /\ UNCHANGED <<state, stream, stopSent, served, alive>>
    BY <1>4 DEF ReceiveStarted, sessionVars, serverVars
  <2>2. stream \notin {"none", "opening"} /\ ~stopSent
    BY <2>1 DEF StreamStages
  <2>3. Told'
    BY <2>1, <1>t, RefusedTake, RefusedPut DEF StreamStages
  <2> QED
    BY <2>1, <2>2, <2>3 DEF StreamStages
<1>5. CASE ReceiveFailure
  <2>1. /\ down # << >> /\ down' = Tail(down) /\ outputs' = Append(outputs, Head(down))
        /\ UNCHANGED <<state, transport, stream, stopSent, served, alive>>
    BY <1>5 DEF ReceiveFailure, sessionVars, serverVars
  <2>2. Told'
    BY <2>1, <1>t, RefusedTake, RefusedPut DEF StreamStages
  <2>3. stream # "opening"
    BY <2>1 DEF StreamStages
  <2> QED
    BY <2>1, <2>2, <2>3 DEF StreamStages
<1>6. CASE ReceiveStopped
  <2>1. /\ transport = "stopping" /\ down # << >>
        /\ UNCHANGED <<state, transport, stream, stopSent, served, alive>>
    BY <1>6 DEF ReceiveStopped, sessionVars, serverVars
  <2>2. state \notin Live
    BY <2>1 DEF Follows
  <2>3. stream # "opening"
    BY <2>1 DEF StreamStages
  <2> QED
    BY <2>1, <2>2, <2>3 DEF StreamStages
<1>7. CASE StreamEnds
  <2>1. stream' = "none" /\ stopSent' = FALSE /\ transport' \in {"disconnected", "stopping"}
    BY <1>7 DEF StreamEnds, NoStream
  <2> QED
    BY <2>1 DEF StreamStages
<1>8. CASE ServerAttaches
  <2>1. /\ stream = "opening" /\ stream' = "attached" /\ served' \in alive'
        /\ UNCHANGED <<transport, stopSent>>
    BY <1>8 DEF ServerAttaches, transportVars
  <2> QED
    BY <2>1 DEF StreamStages
<1>9. CASE ServerRefuses
  <2> DEFINE o == [type |-> "failure", terminal |-> TRUE]
  <2>1. /\ stream = "opening" /\ stream' = "done" /\ down' = Append(down, o)
        /\ UNCHANGED <<transport, stopSent>>
    BY <1>9 DEF ServerRefuses, transportVars
  <2>2. o \in Output /\ o.type = "failure" /\ o.terminal
    BY MessageKinds
  <2> HIDE DEF o
  <2>3. Refused(down')
    BY <2>1, <2>2, <1>t, RefusedPut
  <2> QED
    BY <2>1, <2>3 DEF StreamStages
<1>10. CASE ServerFails
  <2>1. PICK terminal \in BOOLEAN :
          /\ down' = Append(down, [type |-> "failure", terminal |-> terminal])
          /\ stream' = IF terminal THEN "done" ELSE stream
          /\ alive' = IF terminal THEN alive \ {served} ELSE alive
    BY <1>10 DEF ServerFails
  <2>2. /\ stream = "attached" /\ UNCHANGED <<transport, stopSent, served>>
    BY <1>10 DEF ServerFails, transportVars
  <2>3. CASE terminal = FALSE
    BY <2>1, <2>2, <2>3 DEF StreamStages
  <2>4. CASE terminal = TRUE
    <3> DEFINE o == [type |-> "failure", terminal |-> TRUE]
    <3>1. o \in Output /\ o.type = "failure" /\ o.terminal /\ down' = Append(down, o)
      BY <2>1, <2>4, MessageKinds
    <3> HIDE DEF o
    <3>2. Refused(down')
      BY <3>1, <1>t, RefusedPut
    <3> QED
      BY <2>1, <2>2, <2>4, <3>2 DEF StreamStages
  <2> QED
    BY <2>3, <2>4
<1>11. CASE ServerStops
  <2>1. /\ stream = "attached" /\ stopSent /\ stream' = "done"
        /\ UNCHANGED <<state, transport, stopSent>>
    BY <1>11 DEF ServerStops, transportVars, sessionVars
  <2>2. transport = "stopping"
    BY <2>1 DEF StreamStages
  <2>3. state \notin Live
    BY <2>2 DEF Follows
  <2> QED
    BY <2>1, <2>2, <2>3 DEF StreamStages
<1>12. CASE ServerForgets
  <2>1. /\ UNCHANGED <<state, outputs, transport, streamVars>>
        /\ stream = "attached" /\ served \in alive => served \in alive'
    BY <1>12 DEF ServerForgets, sessionVars, transportVars
  <2> QED
    BY <2>1 DEF StreamStages, streamVars
<1>13. CASE StartTimeout \/ RecoveryWindow
  <2>1. /\ UNCHANGED <<outputs, transport, streamVars, alive>> /\ (state' \in Live => state \in Live)
    BY <1>13, <1>l DEF StartTimeout, RecoveryWindow, Reconnecting, Finalize, transportVars, serverVars
  <2> QED
    BY <2>1, <1>u DEF StreamStages, streamVars
<1>14. CASE RetryBackoff
  <2>1. CASE UNCHANGED <<transportVars, streamVars>>
    BY <1>14, <2>1, <1>u, <1>l DEF RetryBackoff, transportVars, streamVars, serverVars, StreamStages
  <2>2. CASE transport = "disconnected"
    <3>1. down = << >>
      BY <2>2 DEF StreamOwned, TypeOK
    <3>2. ~stopSent
      BY <2>2 DEF StreamStages
    <3>3. transport' = "connecting" /\ stream' = "opening" /\ UNCHANGED <<down, stopSent>>
      BY <1>14, <2>2 DEF RetryBackoff, ConnectTransport
    <3> QED
      BY <3>1, <3>2, <3>3 DEF StreamStages
  <2> QED
    BY <1>14, <2>1, <2>2 DEF RetryBackoff, ConnectTransport
<1>15. CASE Close
  <2>1. CASE UNCHANGED <<state, transportVars, streamVars>>
    BY <1>15, <2>1, <1>u DEF Close, transportVars, serverVars, streamVars, StreamStages
  <2>2. CASE state' = "closing" /\ StopTransport
    <3>1. CASE transport = "ready"
      BY <1>15, <2>2, <3>1, <1>l DEF Close, StopTransport, StreamStages, serverVars
    <3>2. CASE transport' = "closed" /\ NoStream
      BY <3>2 DEF NoStream, StreamStages
    <3> QED
      BY <2>2, <3>1, <3>2 DEF StopTransport
  <2> QED
    BY <1>15, <2>1, <2>2 DEF Close
<1>16. CASE UNCHANGED vars
  BY <1>16 DEF vars, sessionVars, transportVars, streamVars, serverVars, StreamStages
<1> QED
  BY <1>1, <1>2, <1>3, <1>4, <1>5, <1>6, <1>7, <1>8, <1>9, <1>10, <1>11, <1>12, <1>13,
     <1>14, <1>15, <1>16
  DEF Next, Ingest, Receive, Server

-----------------------------------------------------------------------------
(* Which session the answers are about *)

\* Taking a message: what is left was there.
LEMMA StillThere ==
  ASSUME NEW seq \in Seq(Output), seq # << >>, NEW i \in 1 .. Len(Tail(seq))
  PROVE  \E k \in 1 .. Len(seq) : Tail(seq)[i] = seq[k]
<1>1. i + 1 \in 1 .. Len(seq) /\ Tail(seq)[i] = seq[i + 1]
  BY TakeProps
<1> QED
  BY <1>1

\* Adding a message: what is there is new or was there.
LEMMA NewOrOld ==
  ASSUME NEW seq \in Seq(Output), NEW o \in Output, NEW i \in 1 .. Len(Append(seq, o))
  PROVE  Append(seq, o)[i] = o \/ \E k \in 1 .. Len(seq) : Append(seq, o)[i] = seq[k]
<1>1. /\ Len(seq) \in Nat /\ Len(Append(seq, o)) = Len(seq) + 1
      /\ Append(seq, o)[Len(seq) + 1] = o
      /\ \A k \in 1 .. Len(seq) : Append(seq, o)[k] = seq[k]
  BY PutProps
<1> QED
  BY <1>1

\* Every "started" in this queue names that session.
Names(seq, id) == \A i \in 1 .. Len(seq) : seq[i].type = "started" => seq[i].id = id

\* Taking a message keeps that.
LEMMA NamesTake ==
  ASSUME NEW seq \in Seq(Output), seq # << >>, NEW id, Names(seq, id)
  PROVE  /\ Names(Tail(seq), id)
         /\ Head(seq).type = "started" => Head(seq).id = id
<1>1. Names(Tail(seq), id)
  BY StillThere DEF Names
<1>2. 1 \in 1 .. Len(seq) /\ Head(seq) = seq[1]
  BY TakeProps
<1> QED
  BY <1>1, <1>2 DEF Names

\* So does adding one that names it, or none.
LEMMA NamesPut ==
  ASSUME NEW seq \in Seq(Output), NEW o \in Output, NEW id, Names(seq, id),
         o.type = "started" => o.id = id
  PROVE  Names(Append(seq, o), id)
  BY NewOrOld DEF Names

\* An empty queue names any session.
LEMMA NamesNone == ASSUME NEW id PROVE Names(<< >>, id)
  BY NothingProps DEF Names

\* A stream is started for the session the client knows, and attached to no other.
LEMMA IdentityStep == SessionInv /\ [Next]_vars => Identity'
<1> SUFFICES ASSUME SessionInv, [Next]_vars PROVE Identity'
  OBVIOUS
<1>i. TypeOK /\ StreamOwned /\ Follows /\ StreamStages
  BY DEF SessionInv
<1> USE <1>i
<1>j. /\ Names(down, served) /\ (state \in Live => Names(outputs, served))
      /\ state = "ready" => sessionId # 0
      /\ sessionId # 0 => served = sessionId
      /\ sessionId # 0 /\ stream = "opening" => asked = sessionId
  BY DEF SessionInv, Identity, Names
<1>g. SUFFICES /\ Names(down, served)' /\ (state' \in Live => Names(outputs, served)')
               /\ state' = "ready" => sessionId' # 0
               /\ sessionId' # 0 => served' = sessionId'
               /\ sessionId' # 0 /\ stream' = "opening" => asked' = sessionId'
  BY DEF Identity, Names
<1>l. /\ Live = {"connecting", "ready", "reconnecting"}
      /\ "closing" \notin Live /\ "closed" \notin Live /\ "expired" \notin Live
  BY DEF Live
<1>t. /\ down \in Seq(Output) /\ outputs \in Seq(Output)
      /\ down # << >> => Head(down) \in Output
  BY MessagesAreOutputs, TakeProps DEF TypeOK
<1>1. CASE Started
  <2>1. /\ state \in Live /\ outputs # << >> /\ outputs' = Tail(outputs)
        /\ Head(outputs).type = "started" /\ sessionId' = Head(outputs).id
        /\ UNCHANGED <<stream, asked, down, served>>
    BY <1>1, <1>l DEF Started, Ingests, streamVars
  <2>2. sessionId' = served /\ Names(outputs', served)
    BY <2>1, <1>j, <1>t, NamesTake
  <2>3. sessionId' # 0
    BY <2>1, <1>t, TakeProps, MessageKinds, SessionAssumption DEF SessionId
  <2>4. Emitted("started")
    BY <2>1, <1>t, TakeProps DEF Emitted
  <2>5. stream # "opening"
    BY <2>1, <2>4 DEF Follows, StreamStages
  <2> QED
    BY <2>1, <2>2, <2>3, <2>5, <1>j
<1>2. CASE Disconnected \/ IgnoreOutput
  <2>1. /\ outputs # << >> /\ outputs' = Tail(outputs)
        /\ UNCHANGED <<sessionId, stream, asked, down, served>>
        /\ state' \in Live => state \in Live
        /\ state' = "ready" => state = "ready"
    BY <1>2, <1>l DEF Disconnected, IgnoreOutput, Ingests, Reconnecting, sessionVars, streamVars
  <2>2. Names(outputs, served) => Names(outputs', served)
    BY <2>1, <1>t, NamesTake
  <2> QED
    BY <2>1, <2>2, <1>j
<1>3. CASE Failed
  <2>1. UNCHANGED <<sessionId, stream, asked, down, served>> /\ state' = "expired"
    BY <1>3 DEF Failed, Finalize, streamVars
  <2> QED
    BY <2>1, <1>l, <1>j
<1>4. CASE Stopped \/ FailedWhileClosing \/ Destroy
  <2>1. /\ UNCHANGED <<sessionId, served>> /\ stream' = "none" /\ down' = << >>
        /\ state' \in {"closed", "expired"}
    BY <1>4 DEF Stopped, FailedWhileClosing, Destroy, Finalize, CloseTransport, NoStream
  <2> QED
    BY <2>1, <1>l, <1>j, NamesNone
<1>5. CASE ReceiveStarted \/ ReceiveFailure
  <2>1. /\ down # << >> /\ down' = Tail(down) /\ outputs' = Append(outputs, Head(down))
        /\ UNCHANGED <<state, sessionId, stream, asked, served>>
    BY <1>5 DEF ReceiveStarted, ReceiveFailure, sessionVars
  <2>2. Names(down', served) /\ (Head(down).type = "started" => Head(down).id = served)
    BY <2>1, <1>j, <1>t, NamesTake
  <2>3. state \in Live => Names(outputs', served)
    BY <2>1, <2>2, <1>j, <1>t, NamesPut
  <2> QED
    BY <2>1, <2>2, <2>3, <1>j
<1>6. CASE ReceiveStopped
  <2>1. /\ transport = "stopping" /\ down # << >> /\ down' = Tail(down)
        /\ UNCHANGED <<state, sessionId, stream, asked, served>>
    BY <1>6 DEF ReceiveStopped, sessionVars
  <2>2. state \notin Live
    BY <2>1 DEF Follows
  <2>3. Names(down', served)
    BY <2>1, <1>j, <1>t, NamesTake
  <2> QED
    BY <2>1, <2>2, <2>3, <1>j
<1>7. CASE StreamEnds
  <2>1. /\ down' = << >> /\ stream' = "none" /\ UNCHANGED <<state, sessionId, served>>
    BY <1>7 DEF StreamEnds, NoStream, sessionVars
  <2>2. ASSUME state \in Live PROVE Names(outputs', served)
    <3> DEFINE o == [type |-> "disconnected"]
    <3>1. outputs' = Append(outputs, o)
      BY <1>7, <2>2 DEF StreamEnds, Follows
    <3>2. o \in Output /\ o.type = "disconnected"
      BY MessageKinds
    <3> HIDE DEF o
    <3> QED
      BY <3>1, <3>2, <2>2, <1>j, <1>t, NamesPut
  <2> QED
    BY <2>1, <2>2, <1>j, NamesNone
<1>8. CASE ServerAttaches
  <2>1. PICK id \in SessionId :
          /\ asked = 0 \/ asked = id
          /\ served' = id
          /\ down' = Append(down, [type |-> "started", id |-> id])
    BY <1>8 DEF ServerAttaches
  <2>2. /\ stream = "opening" /\ stream' = "attached"
        /\ UNCHANGED <<state, sessionId, outputs, asked>>
    BY <1>8 DEF ServerAttaches, sessionVars, transportVars
  <2>3. down = << >> /\ transport = "connecting"
    BY <2>2 DEF StreamStages
  <2>4. Names(down', id)
    <3> DEFINE o == [type |-> "started", id |-> id]
    <3>1. o \in Output /\ o.id = id /\ down' = Append(down, o)
      BY <2>1, MessageKinds
    <3> HIDE DEF o
    <3> QED
      BY <3>1, <2>3, <1>t, NamesNone, NamesPut
  <2>5. state \in Live => Names(outputs, id)
    BY <2>3 DEF Follows, Emitted, Names
  <2>6. sessionId # 0 => id = sessionId
    BY <2>1, <2>2, <1>j
  <2> QED
    BY <2>1, <2>2, <2>4, <2>5, <2>6, <1>j
<1>9. CASE ServerRefuses \/ ServerFails \/ ServerStops
  <2>1. PICK o \in Output : o.type # "started" /\ down' = Append(down, o)
    BY <1>9, MessageKinds DEF ServerRefuses, ServerFails, ServerStops
  <2>2. /\ UNCHANGED <<state, sessionId, outputs, asked, served>> /\ stream # "none"
        /\ stream' # stream => stream' = "done"
    BY <1>9 DEF ServerRefuses, ServerFails, ServerStops, sessionVars, transportVars
  <2>3. Names(down', served)
    BY <2>1, <1>j, <1>t, NamesPut
  <2> QED
    BY <2>2, <2>3, <1>j
<1>10. CASE ServerForgets \/ UNCHANGED vars
  BY <1>10, <1>j DEF ServerForgets, vars, sessionVars, transportVars, streamVars, Names
<1>11. CASE StartTimeout \/ RecoveryWindow
  <2>1. /\ UNCHANGED <<sessionId, outputs, stream, asked, down, served>>
        /\ state' \in Live => state \in Live
        /\ state' = "ready" => state = "ready"
    BY <1>11, <1>l DEF StartTimeout, RecoveryWindow, Reconnecting, Finalize, transportVars, streamVars
  <2> QED
    BY <2>1, <1>j
<1>12. CASE RetryBackoff
  <2>1. /\ state \in Live /\ state' = "connecting"
        /\ UNCHANGED <<sessionId, outputs, down, served>>
        /\ (stream' = "opening" /\ asked' = sessionId) \/ UNCHANGED <<stream, asked>>
    BY <1>12, <1>l DEF RetryBackoff, ConnectTransport, transportVars, streamVars
  <2> QED
    BY <2>1, <1>j
<1>13. CASE Close
  <2>1. CASE state \in Live
    <3>1. /\ state' = "closing" /\ UNCHANGED <<sessionId, asked, served>>
          /\ (stream' = "none" /\ down' = << >>) \/ UNCHANGED <<stream, down>>
      BY <1>13, <2>1, <1>l DEF Close, StopTransport, NoStream, Terminal
    <3> QED
      BY <3>1, <1>l, <1>j, NamesNone
  <2>2. CASE state \in Terminal
    BY <1>13, <2>2, <1>l, <1>j DEF Close, Terminal, transportVars, streamVars
  <2> QED
    BY <1>13, <2>1, <2>2 DEF Close
<1> QED
  BY <1>1, <1>2, <1>3, <1>4, <1>5, <1>6, <1>7, <1>8, <1>9, <1>10, <1>11, <1>12, <1>13
  DEF Next, Ingest, Receive, Server

-----------------------------------------------------------------------------
(* The invariant and what follows from it *)

\* The first state satisfies the invariant.
LEMMA InvInit == Init => SessionInv
<1> SUFFICES ASSUME Init PROVE SessionInv
  OBVIOUS
<1>1. TypeOK
  BY TypeInit
<1>2. Scheduled /\ StreamOwned
  BY DEF Init, Scheduled, StreamOwned
<1>3. Ordered /\ \A type : ~Emitted(type)
  BY NothingProps DEF Init, Ordered, Emitted
<1>4. Follows
  BY <1>3 DEF Init, Follows
<1>5. StreamStages
  BY DEF Init, StreamStages
<1>6. Identity
  BY NothingProps DEF Init, Identity
<1> QED
  BY <1>1, <1>2, <1>4, <1>5, <1>6 DEF SessionInv

\* Every step keeps it.
LEMMA InvStep == SessionInv /\ [Next]_vars => SessionInv'
  BY TypeStep, ScheduledStep, OwnedStep, FollowsStep, StagesStep, IdentityStep DEF SessionInv

\* SessionInv is an invariant for every number of broken streams and failures, whether or
\* not close() waits for the transport: every order of timers, calls, outputs and answers.
THEOREM SessionInvariant == Spec => []SessionInv
  BY InvInit, InvStep, PTL DEF Spec

\* The types, the bounds on ids and faults, and nothing left of a stream that is gone.
THEOREM SessionTypeCorrect == Spec => []TypeOK
<1>1. SessionInv => TypeOK
  BY DEF SessionInv
<1> QED
  BY <1>1, SessionInvariant, PTL

\* An empty output queue means that the two machines agree: what the session has not
\* learnt is in the queue, and there is nothing in it.
THEOREM MachinesAgree == Spec => []Agreement
<1>1. ASSUME SessionInv PROVE Agreement
  <2> SUFFICES ASSUME outputs = << >> PROVE Agreement
    BY DEF Agreement
  <2>1. \A type : ~Emitted(type)
    BY EmittedNone
  <2> QED
    BY <1>1, <2>1 DEF SessionInv, Follows, Agreement, Live
<1> QED
  BY <1>1, SessionInvariant, PTL

\* A session that waits has its timers, and another has none.
THEOREM AlwaysScheduled == Spec => []Scheduled
<1>1. SessionInv => Scheduled
  BY DEF SessionInv
<1> QED
  BY <1>1, SessionInvariant, PTL

\* No stream outlives its transport, nor a transport its closed session.
THEOREM StreamHasOwner == Spec => []StreamOwned
<1>1. SessionInv => StreamOwned
  BY DEF SessionInv
<1> QED
  BY <1>1, SessionInvariant, PTL

\* A ready session with no news under way is attached to a stream the server serves, for
\* the id the client knows.
THEOREM ReadySessionIsAlive == Spec => []ReadyIsAlive
<1>1. ASSUME SessionInv PROVE ReadyIsAlive
  <2> SUFFICES ASSUME state = "ready", outputs = << >>, down = << >> PROVE sessionId \in alive
    BY DEF ReadyIsAlive
  <2>1. state \in Live /\ \A type : ~Emitted(type)
    BY EmittedNone DEF Live
  <2>2. transport = "ready"
    BY <1>1, <2>1 DEF SessionInv, Follows
  <2>3. stream \notin {"none", "opening"}
    BY <1>1, <2>2 DEF SessionInv, StreamStages
  <2>4. stream # "done"
    BY <1>1, <2>1, RefusedNone DEF SessionInv, StreamStages
  <2>5. served \in alive
    BY <1>1, <2>3, <2>4 DEF SessionInv, StreamStages, TypeOK
  <2>6. served = sessionId
    BY <1>1 DEF SessionInv, Identity
  <2> QED
    BY <2>5, <2>6
<1> QED
  BY <1>1, SessionInvariant, PTL

\* Only a "started" output sets the id, and the stream it comes from was asked for the id
\* the session had.
THEOREM SessionKeepsItsId == Spec => SameSession
<1>1. ASSUME SessionInv, [Next]_vars, sessionId # 0 PROVE sessionId' = sessionId
  <2>1. CASE Started
    <3>1. /\ state \in Live /\ outputs # << >>
          /\ Head(outputs).type = "started" /\ sessionId' = Head(outputs).id
      BY <2>1 DEF Started, Ingests, Live
    <3>2. 1 \in 1 .. Len(outputs) /\ Head(outputs) = outputs[1]
      BY <1>1, <3>1, TakeProps DEF SessionInv, TypeOK
    <3>3. outputs[1].id = served /\ served = sessionId
      BY <1>1, <3>1, <3>2 DEF SessionInv, Identity
    <3> QED
      BY <3>1, <3>2, <3>3
  <2>2. CASE ~Started
    BY <1>1, <2>2 DEF Next, Ingest, Receive, Server, Disconnected, Stopped, Failed,
      FailedWhileClosing, IgnoreOutput, Finalize, ReceiveStarted, ReceiveFailure,
      ReceiveStopped, StreamEnds, ServerAttaches, ServerRefuses, ServerFails, ServerStops,
      ServerForgets, StartTimeout, RetryBackoff, RecoveryWindow, Close, Destroy,
      sessionVars, vars
  <2> QED
    BY <2>1, <2>2
<1>2. SessionInv /\ [Next]_vars => [sessionId # 0 => sessionId' = sessionId]_vars
  BY <1>1
<1> QED
  BY <1>2, SessionInvariant, PTL DEF Spec, SameSession

-----------------------------------------------------------------------------
(* The composition and the session *)

\* Every step of the composition is one of the session, or leaves the session alone.
LEMMA SessionStep == [CallsNext]_allVars => [Next]_vars
<1> SUFFICES ASSUME [CallsNext]_allVars PROVE Next \/ UNCHANGED vars
  OBVIOUS
<1>1. CASE \/ CallIngest \/ CallReceive \/ CallStreamEnds \/ CallServer
           \/ CallStartTimeout \/ CallRetryBackoff \/ CallRecoveryWindow
           \/ CallClose \/ CallDestroy
  BY <1>1 DEF CallIngest, CallReceive, CallStreamEnds, CallServer, CallStartTimeout,
    CallRetryBackoff, CallRecoveryWindow, CallClose, CallDestroy, Next
<1>2. CASE Client
  BY <1>2 DEF Client, Acquire, Release, Abandon, Watch
<1>3. CASE Continue
  BY <1>3 DEF Continue, RequestProceeds, RequestRefused, WaitPinned, Settle, Describe
<1>4. CASE ReceiveAnswer \/ HandleRequest \/ WaitTimesOut \/ OtherAcquires \/ OtherReleases
  BY <1>4 DEF ReceiveAnswer, HandleRequest, WaitTimesOut, OtherAcquires, OtherReleases
<1>5. CASE UNCHANGED allVars
  BY <1>5 DEF allVars
<1> QED
  BY <1>1, <1>2, <1>3, <1>4, <1>5 DEF CallsNext

\* The calls over a session leave the session what it is: the composition implements
\* CoordinationSession, and has its invariants and action properties.
THEOREM CallsKeepSession == CallsSpec => Spec
<1>1. CallsInit => Init
  BY DEF CallsInit
<1> QED
  BY <1>1, SessionStep, PTL DEF CallsSpec, Spec

\* A step that carries the calls along, and one of the client or of the semaphore, which
\* leaves the session alone.
Carrying == Next /\ Reaction

LEMMA StepCases ==
  CallsNext =>
    \/ Carrying
    \/ /\ UNCHANGED vars
       /\ \/ Client \/ Continue \/ ReceiveAnswer
          \/ HandleRequest \/ WaitTimesOut \/ OtherAcquires \/ OtherReleases
<1> SUFFICES ASSUME CallsNext, ~Carrying PROVE
       /\ UNCHANGED vars
       /\ \/ Client \/ Continue \/ ReceiveAnswer
          \/ HandleRequest \/ WaitTimesOut \/ OtherAcquires \/ OtherReleases
  OBVIOUS
<1>1. \/ Client \/ Continue \/ ReceiveAnswer
      \/ HandleRequest \/ WaitTimesOut \/ OtherAcquires \/ OtherReleases
  BY DEF CallsNext, Carrying, CallIngest, CallReceive, CallStreamEnds, CallServer,
    CallStartTimeout, CallRetryBackoff, CallRecoveryWindow, CallClose, CallDestroy, Next
<1> QED
  BY <1>1 DEF Client, Acquire, Release, Abandon, Watch, Continue, RequestProceeds,
    RequestRefused, WaitPinned, Settle, Describe, ReceiveAnswer, HandleRequest,
    WaitTimesOut, OtherAcquires, OtherReleases

\* The server has attached the client's session, and the client knows or is about to learn.
Known == sessionId # 0 \/ Emitted("started")

\* A transport that is ready has heard of the session.
LEMMA ReadyIsKnown ==
  ASSUME SessionInv, state \in Live, transport = "ready"
  PROVE  Known
  BY DEF SessionInv, Follows, Identity, Known

\* What is known stays known while the session lives.
LEMMA KnownKept ==
  ASSUME SessionInv, Next, Known, state' \in Live
  PROVE  /\ state \in Live
         /\ Known'
<1>i. TypeOK /\ Follows /\ Identity
  BY DEF SessionInv
<1>l. /\ Live = {"connecting", "ready", "reconnecting"}
      /\ Terminal = {"closed", "expired"}
  BY DEF Live, Terminal
<1>t. outputs # << >> => Head(outputs) \in Output /\ outputs \in Seq(Output)
  BY <1>i, TakeProps DEF TypeOK
<1>1. CASE Started
  <2>1. sessionId' = Head(outputs).id /\ outputs # << >> /\ Head(outputs).type = "started"
    BY <1>1 DEF Started, Ingests
  <2>2. sessionId' \in SessionId
    BY <2>1, <1>t, MessageKinds
  <2>3. 0 \notin SessionId
    BY SessionAssumption DEF SessionId
  <2> QED
    BY <1>1, <1>l, <2>2, <2>3 DEF Started, Ingests, Known
<1>2. CASE Disconnected \/ IgnoreOutput
  <2>1. /\ sessionId' = sessionId /\ state \in Live
        /\ outputs # << >> /\ outputs' = Tail(outputs)
    BY <1>2, <1>l DEF Disconnected, IgnoreOutput, Ingests, Reconnecting, sessionVars
  <2>2. Head(outputs).type = "started" => sessionId # 0
    <3>1. CASE Disconnected
      BY <3>1 DEF Disconnected, Ingests
    <3>2. CASE IgnoreOutput
      BY <3>2, <2>1, <1>l, <1>i DEF IgnoreOutput, Ingests, Identity
    <3> QED
      BY <1>2, <3>1, <3>2
  <2>3. Head(outputs).type # "started" /\ Emitted("started") => Emitted("started")'
    BY <2>1, <1>i, EmittedTake
  <2> QED
    BY <2>1, <2>2, <2>3 DEF Known
<1>3. CASE Stopped \/ Failed \/ FailedWhileClosing \/ Destroy
  BY <1>3, <1>l DEF Stopped, Failed, FailedWhileClosing, Destroy, Finalize
<1>4. CASE ReceiveStarted \/ ReceiveFailure
  <2>1. /\ UNCHANGED <<state, sessionId>>
        /\ down # << >> /\ outputs' = Append(outputs, Head(down))
    BY <1>4 DEF ReceiveStarted, ReceiveFailure, sessionVars
  <2>2. Head(down) \in Output
    BY <2>1, <1>i, TakeProps, MessageKinds DEF TypeOK
  <2> QED
    BY <2>1, <2>2, <1>i, EmittedPut DEF Known
<1>5. CASE ReceiveStopped
  BY <1>5, <1>i DEF ReceiveStopped, Follows, sessionVars
<1>6. CASE StreamEnds
  <2>1. UNCHANGED <<state, sessionId>>
    BY <1>6 DEF StreamEnds, sessionVars
  <2>2. transport # "stopping"
    BY <2>1, <1>i DEF Follows
  <2> DEFINE o == [type |-> "disconnected"]
  <2>3. outputs' = Append(outputs, o)
    BY <1>6, <2>2 DEF StreamEnds
  <2>4. o \in Output
    BY MessageKinds
  <2> HIDE DEF o
  <2> QED
    BY <2>1, <2>3, <2>4, <1>i, EmittedPut DEF Known
<1>7. CASE Server
  BY <1>7 DEF Server, ServerAttaches, ServerRefuses, ServerFails, ServerStops, ServerForgets,
    sessionVars, transportVars, Known, Emitted
<1>8. CASE StartTimeout \/ RetryBackoff \/ RecoveryWindow
  BY <1>8, <1>l DEF StartTimeout, RetryBackoff, RecoveryWindow, Reconnecting, Finalize,
    ConnectTransport, transportVars, Known, Emitted
<1>9. CASE Close
  BY <1>9, <1>l DEF Close
<1> QED
  BY <1>1, <1>2, <1>3, <1>4, <1>5, <1>6, <1>7, <1>8, <1>9 DEF Next, Ingest, Receive

\* A session that is known is the one the server serves: it is not exchanged for another,
\* and once gone it is gone for good.
LEMMA ServedKept ==
  ASSUME SessionInv, Next, Known, state \in Live
  PROVE  /\ served' = served
         /\ served \notin alive => served \notin alive'
<1>i. TypeOK /\ Follows /\ StreamStages /\ Identity
  BY DEF SessionInv
<1>1. CASE ServerAttaches
  <2>1. stream = "opening" /\ transport = "connecting"
    BY <1>1, <1>i DEF ServerAttaches, StreamStages
  <2>2. sessionId # 0
    BY <2>1, <1>i DEF Follows, Known
  <2>3. asked = sessionId /\ served = sessionId
    BY <2>1, <2>2, <1>i DEF Identity
  <2> QED
    BY <1>1, <2>2, <2>3 DEF ServerAttaches
<1>2. CASE ~ServerAttaches
  <2>1. served' = served
    BY <1>2 DEF Next, Ingest, Receive, Server, Started, Disconnected, Stopped, Failed,
      FailedWhileClosing, IgnoreOutput, CloseTransport, NoStream, ReceiveStarted,
      ReceiveFailure, ReceiveStopped, StreamEnds, ServerRefuses, ServerFails, ServerStops,
      ServerForgets, StartTimeout, RetryBackoff, ConnectTransport, RecoveryWindow, Close,
      StopTransport, Destroy, streamVars
  <2>2. alive' \subseteq alive
    BY <1>2 DEF Next, Ingest, Receive, Server, Started, Disconnected, Stopped, Failed,
      FailedWhileClosing, IgnoreOutput, ReceiveStarted,
      ReceiveFailure, ReceiveStopped, StreamEnds, ServerRefuses, ServerFails, ServerStops,
      ServerForgets, StartTimeout, RetryBackoff, RecoveryWindow, Close, Destroy, serverVars
  <2> QED
    BY <2>1, <2>2
<1> QED
  BY <1>1, <1>2

-----------------------------------------------------------------------------
(* Types *)

\* The kinds of a request and of a reply.
LEMMA CallKinds ==
  /\ \A r \in Request : r.kind \in {"acquire", "try", "release", "describe"} /\ r.id \in ReqId
  /\ \A r \in Reply : /\ r.kind \in {"pending", "acquired", "missed", "released", "changed"}
                                      \cup Owner
                      /\ r.id \in ReqId
  /\ \A k \in {"acquire", "try", "release", "describe"} : \A n \in ReqId :
       [kind |-> k, id |-> n] \in Request
  /\ \A k \in {"pending", "acquired", "missed", "released", "changed"} \cup Owner :
       \A n \in ReqId : [kind |-> k, id |-> n] \in Reply
  /\ 0 \notin ReqId
  BY CallsAssumption DEF Request, Reply, ReqId

\* The next id refers to nothing.
LEMMA NextIdIsNew ==
  ASSUME NEW n \in NextReqId
  PROVE  /\ n \in ReqId /\ n \notin {reqId, tellGrant, tellWatch, index}
         /\ \A i \in 1 .. Len(sent) : sent[i].id # n
         /\ \A i \in 1 .. Len(answers) : answers[i].id # n
  BY DEF NextReqId, Referenced

\* Every step keeps the types of the calls.
LEMMA CallsTypeStep == CallsTypeOK /\ Apart /\ Awaited /\ [CallsNext]_allVars => CallsTypeOK'
<1> SUFFICES ASSUME CallsTypeOK, Apart, Awaited, [CallsNext]_allVars PROVE CallsTypeOK'
  OBVIOUS
<1>t. /\ sent # << >> => Tail(sent) \in Seq(Request) /\ Head(sent) \in Request
      /\ answers # << >> => Tail(answers) \in Seq(Reply) /\ Head(answers) \in Reply
      /\ \A r \in Request : Append(sent, r) \in Seq(Request)
      /\ \A r \in Reply : Append(answers, r) \in Seq(Reply)
      /\ << >> \in Seq(Request) /\ << >> \in Seq(Reply)
  BY TakeProps, PutProps, NothingProps DEF CallsTypeOK
<1>o. Owner = {"none", "us", "other"}
  BY DEF Owner
<1> USE DEF CallsTypeOK
<1>1. CASE Carrying
  <2>1. /\ sent' \in Seq(Request) /\ answers' \in Seq(Reply)
        /\ tellGrant' \in ReqId \cup {0} /\ tellWatch' \in ReqId \cup {0}
    BY <1>1, <1>t DEF Carrying, Reaction, StreamLost
  <2>2. owner' \in Owner /\ waiting' \in BOOLEAN
    BY <1>1, <1>o DEF Carrying, Reaction, SessionLost
  <2>3. dirty' \in BOOLEAN
    BY <1>1 DEF Carrying, Reaction, Renotified
  <2>4. /\ pc' \in Phase /\ reqId' \in ReqId \cup {0}
        /\ call' \in {"none", "try", "acquire", "pinned", "release", "describe"}
        /\ got' \in {"nothing", "pending", "acquired", "missed", "released"} \cup Owner
    BY <1>1 DEF Carrying, Reaction, Settled, Reject, Phase
  <2> QED
    BY <1>1, <2>1, <2>2, <2>3, <2>4 DEF Carrying, Reaction
<1>2. CASE Acquire \/ Release \/ Abandon \/ Watch
  BY <1>2 DEF Acquire, Release, Abandon, Watch, Call, Reject, Phase, semaphoreVars, watchVars
<1>3. CASE RequestProceeds
  <2>1. reqId' \in ReqId
    BY <1>3, NextIdIsNew DEF RequestProceeds, Apart
  <2> DEFINE r == [kind |-> Kind, id |-> reqId']
  <2>k. Kind \in {"acquire", "try", "release", "describe"}
    BY <1>3 DEF RequestProceeds, Awaited, Kind
  <2>r. r \in Request
    BY <2>1, <2>k, CallKinds
  <2>s. sent' = sent \/ sent' = Append(sent, r)
    BY <1>3 DEF RequestProceeds, Send
  <2>2. sent' \in Seq(Request)
    <3> HIDE DEF r
    <3> QED
      BY <2>r, <2>s, <1>t
  <2>3. mishaps' \subseteq {"raced", "abandoned"}
    BY <1>3 DEF RequestProceeds, Send
  <2> QED
    BY <1>3, <2>1, <2>2, <2>3 DEF RequestProceeds, Phase, semaphoreVars, watchVars
<1>4. CASE RequestRefused \/ WaitPinned \/ Settle \/ Describe
  BY <1>4 DEF RequestRefused, WaitPinned, Settle, Describe, Reject, Phase, semaphoreVars,
    watchVars
<1>5. CASE ReceiveAnswer
  <2>1. /\ answers # << >> /\ answers' = Tail(answers)
        /\ got' = got \/ (got' = Head(answers).kind /\ Head(answers).kind # "changed")
        /\ pc' \in {pc, "answered"} /\ dirty' \in BOOLEAN
        /\ mishaps' \subseteq {"raced", "abandoned"}
    BY <1>5 DEF ReceiveAnswer
  <2> QED
    BY <1>5, <2>1, <1>t, CallKinds DEF ReceiveAnswer, Phase, semaphoreVars
<1>6. CASE HandleRequest
  <2>1. sent # << >> /\ sent' = Tail(sent) /\ Head(sent) \in Request
    BY <1>6, <1>t DEF HandleRequest
  <2>2. PICK k \in {"pending", "acquired", "missed", "released"} \cup Owner :
          answers' = Append(answers, [kind |-> k, id |-> Head(sent).id])
    BY <1>6, <1>o DEF HandleRequest, HandleAcquire, HandleRelease, Answer
  <2> DEFINE r == [kind |-> k, id |-> Head(sent).id]
  <2>3. r \in Reply /\ Head(sent).id \in ReqId
    BY <2>1, CallKinds
  <2>4. answers' \in Seq(Reply)
    <3>1. answers' = Append(answers, r)
      BY <2>2
    <3> HIDE DEF r
    <3> QED
      BY <2>3, <3>1, <1>t
  <2>5. /\ owner' \in Owner /\ waiting' \in BOOLEAN
        /\ tellGrant' \in ReqId \cup {0} /\ tellWatch' \in ReqId \cup {0}
    BY <1>6, <2>3, <1>o DEF HandleRequest, HandleAcquire, HandleRelease
  <2> QED
    BY <1>6, <2>1, <2>4, <2>5, <1>t DEF HandleRequest, clientVars, watchVars
<1>7. CASE WaitTimesOut \/ OtherAcquires \/ OtherReleases
  <2>1. \/ answers' = answers
        \/ /\ tellGrant # 0
           /\ \/ answers' = Append(answers, [kind |-> "missed", id |-> tellGrant])
              \/ answers' = Append(answers, [kind |-> "acquired", id |-> tellGrant])
        \/ /\ tellWatch # 0
           /\ answers' = Append(answers, [kind |-> "changed", id |-> tellWatch])
    BY <1>7 DEF WaitTimesOut, OtherAcquires, OtherReleases, Notified, Answer
  <2>2. answers' \in Seq(Reply)
    BY <2>1, <1>t, CallKinds
  <2>3. /\ owner' \in Owner /\ waiting' \in BOOLEAN
        /\ tellGrant' \in ReqId \cup {0} /\ tellWatch' \in ReqId \cup {0}
    BY <1>7, <1>o DEF WaitTimesOut, OtherAcquires, OtherReleases
  <2> QED
    BY <1>7, <2>2, <2>3
    DEF WaitTimesOut, OtherAcquires, OtherReleases, clientVars, watchVars
<1>8. CASE UNCHANGED allVars
  BY <1>8 DEF allVars, callVars, clientVars, semaphoreVars, watchVars
<1> QED
  BY <1>1, <1>2, <1>3, <1>4, <1>5, <1>6, <1>7, <1>8, StepCases DEF Client, Continue

-----------------------------------------------------------------------------
(* Requests and answers under way *)

\* What is left when the head is taken was there; what is there when an element is added
\* was there or is that element.
LEMMA TakeOld ==
  ASSUME NEW S, NEW seq \in Seq(S), seq # << >>
  PROVE  \A i \in 1 .. Len(Tail(seq)) : \E k \in 1 .. Len(seq) : Tail(seq)[i] = seq[k]
<1>1. /\ Len(seq) \in Nat /\ Len(Tail(seq)) = Len(seq) - 1
      /\ \A i \in 1 .. Len(seq) - 1 : Tail(seq)[i] = seq[i + 1]
  BY TakeProps
<1> SUFFICES ASSUME NEW i \in 1 .. Len(Tail(seq))
             PROVE  \E k \in 1 .. Len(seq) : Tail(seq)[i] = seq[k]
  OBVIOUS
<1>2. i + 1 \in 1 .. Len(seq) /\ Tail(seq)[i] = seq[i + 1]
  BY <1>1
<1> QED
  BY <1>2

LEMMA PutOld ==
  ASSUME NEW S, NEW seq \in Seq(S), NEW e \in S
  PROVE  \A i \in 1 .. Len(Append(seq, e)) :
           Append(seq, e)[i] = e \/ \E k \in 1 .. Len(seq) : Append(seq, e)[i] = seq[k]
<1>1. /\ Len(seq) \in Nat /\ Len(Append(seq, e)) = Len(seq) + 1
      /\ Append(seq, e)[Len(seq) + 1] = e
      /\ \A k \in 1 .. Len(seq) : Append(seq, e)[k] = seq[k]
  BY PutProps
<1> SUFFICES ASSUME NEW i \in 1 .. Len(Append(seq, e))
             PROVE  Append(seq, e)[i] = e \/ \E k \in 1 .. Len(seq) : Append(seq, e)[i] = seq[k]
  OBVIOUS
<1>2. CASE i = Len(seq) + 1
  BY <1>1, <1>2
<1>3. CASE i # Len(seq) + 1
  <2>1. i \in 1 .. Len(seq)
    BY <1>1, <1>3
  <2> QED
    BY <1>1, <2>1
<1> QED
  BY <1>2, <1>3

\* No two requests in the queue have the same id.
Distinct(seq) == \A i, j \in 1 .. Len(seq) : seq[i].id = seq[j].id => i = j

LEMMA DistinctTake ==
  ASSUME NEW seq \in Seq(Request), seq # << >>, Distinct(seq)
  PROVE  /\ Distinct(Tail(seq))
         /\ \A i \in 1 .. Len(Tail(seq)) : Tail(seq)[i].id # Head(seq).id
<1>1. /\ Len(seq) \in Nat /\ Len(seq) >= 1 /\ Len(Tail(seq)) = Len(seq) - 1
      /\ Head(seq) = seq[1]
      /\ \A i \in 1 .. Len(seq) - 1 : Tail(seq)[i] = seq[i + 1]
  BY TakeProps
<1>2. \A i \in 1 .. Len(Tail(seq)) : i + 1 \in 1 .. Len(seq) /\ Tail(seq)[i] = seq[i + 1]
  BY <1>1
<1>3. 1 \in 1 .. Len(seq)
  BY <1>1
<1>4. Distinct(Tail(seq))
  <2> SUFFICES ASSUME NEW i \in 1 .. Len(Tail(seq)), NEW j \in 1 .. Len(Tail(seq)),
                      Tail(seq)[i].id = Tail(seq)[j].id
               PROVE  i = j
    BY DEF Distinct
  <2>1. i + 1 = j + 1
    BY <1>2 DEF Distinct
  <2> QED
    BY <2>1
<1>5. ASSUME NEW i \in 1 .. Len(Tail(seq)), Tail(seq)[i].id = Head(seq).id PROVE FALSE
  <2>1. i + 1 = 1
    BY <1>1, <1>2, <1>3, <1>5 DEF Distinct
  <2> QED
    BY <2>1
<1> QED
  BY <1>4, <1>5

LEMMA DistinctPut ==
  ASSUME NEW seq \in Seq(Request), NEW r \in Request, Distinct(seq),
         \A i \in 1 .. Len(seq) : seq[i].id # r.id
  PROVE  Distinct(Append(seq, r))
<1>1. /\ Len(seq) \in Nat /\ Len(Append(seq, r)) = Len(seq) + 1
      /\ Append(seq, r)[Len(seq) + 1] = r
      /\ \A k \in 1 .. Len(seq) : Append(seq, r)[k] = seq[k]
  BY PutProps
<1> SUFFICES ASSUME NEW i \in 1 .. Len(seq) + 1, NEW j \in 1 .. Len(seq) + 1,
                    Append(seq, r)[i].id = Append(seq, r)[j].id
             PROVE  i = j
  BY <1>1 DEF Distinct
<1>2. \A k \in 1 .. Len(seq) + 1 : k = Len(seq) + 1 \/ k \in 1 .. Len(seq)
  BY <1>1
<1> QED
  BY <1>1, <1>2 DEF Distinct

\* A transport that is disconnected has no stream, and then nothing is under way.
LEMMA NothingCarried ==
  ASSUME SessionInv', Carried, Carrying, transport' = "disconnected"
  PROVE  sent' = << >> /\ answers' = << >> /\ tellGrant' = 0 /\ tellWatch' = 0
<1>1. stream' = "none"
  BY DEF SessionInv, StreamOwned, TypeOK
<1> QED
  BY <1>1 DEF Carried, Carrying, Reaction, StreamLost

\* The requests in this queue are apart from those answered.
Separate(requests, replies, grant, watch) ==
  \A i \in 1 .. Len(requests) :
    /\ requests[i].id \notin {grant, watch}
    /\ \A j \in 1 .. Len(replies) : requests[i].id # replies[j].id

\* The semaphore handles a request: one answer, and from then on its id is an answer's.
LEMMA HandleFacts ==
  ASSUME CallsTypeOK, HandleRequest
  PROVE  /\ sent # << >> /\ sent \in Seq(Request) /\ Head(sent) \in Request
         /\ sent' = Tail(sent)
         /\ UNCHANGED <<vars, role, pc, call, reqId, got, mishaps>>
         /\ tellGrant' \in {tellGrant, 0, Head(sent).id}
         /\ tellWatch' \in {tellWatch, Head(sent).id}
         /\ \E reply \in Reply :
              /\ reply.id = Head(sent).id /\ reply.kind # "changed"
              /\ answers' = Append(answers, reply)
              /\ reply.kind = "acquired" => owner' = "us"
              /\ reply.kind \in {"missed", "released"} => owner' # "us"
              /\ reply.kind = "missed" => Head(sent).kind = "try" /\ waiting' = waiting
              /\ reply.kind = "released" => ~waiting'
              /\ reply.kind = "pending" => Head(sent).kind = "acquire"
         /\ waiting' => waiting \/ Head(sent).kind = "acquire"
<1>t. /\ sent # << >> /\ sent \in Seq(Request) /\ sent' = Tail(sent)
      /\ Head(sent) \in Request
  BY TakeProps DEF HandleRequest, CallsTypeOK
<1>o. Owner = {"none", "us", "other"} /\ owner \in Owner
  BY DEF Owner, CallsTypeOK
<1>h. /\ Head(sent).kind \in {"acquire", "try", "release", "describe"}
      /\ Head(sent).id \in ReqId
  BY <1>t, CallKinds
<1>u. UNCHANGED <<vars, role, pc, call, reqId, got, mishaps>>
  BY DEF HandleRequest, clientVars
<1>k. \A k \in {"pending", "acquired", "missed", "released", "changed"} \cup Owner :
        /\ [kind |-> k, id |-> Head(sent).id] \in Reply
        /\ [kind |-> k, id |-> Head(sent).id].id = Head(sent).id
        /\ [kind |-> k, id |-> Head(sent).id].kind = k
  BY <1>h, CallKinds
<1>1. CASE Head(sent).kind \in {"acquire", "try"}
  <2>1. HandleAcquire(Head(sent).id, Head(sent).kind = "acquire") /\ UNCHANGED tellWatch
    BY <1>1 DEF HandleRequest
  <2>2. \E k \in {"pending", "missed", "acquired"} :
          /\ answers' = Append(answers, [kind |-> k, id |-> Head(sent).id])
          /\ k = "acquired" => owner' = "us"
          /\ k = "missed" => owner' # "us" /\ Head(sent).kind = "try" /\ waiting' = waiting
          /\ k = "pending" => Head(sent).kind = "acquire"
    BY <2>1, <1>1, <1>h DEF HandleAcquire, Answer
  <2>3. /\ tellGrant' \in {tellGrant, 0, Head(sent).id}
        /\ waiting' => waiting \/ Head(sent).kind = "acquire"
    BY <2>1 DEF HandleAcquire
  <2> QED
    BY <1>t, <1>u, <1>k, <2>1, <2>2, <2>3
<1>2. CASE Head(sent).kind = "release"
  BY <1>2, <1>t, <1>u, <1>k, <1>o DEF HandleRequest, HandleRelease, Answer
<1>3. CASE Head(sent).kind = "describe"
  <2>1. /\ answers' = Append(answers, [kind |-> owner, id |-> Head(sent).id])
        /\ tellWatch' = Head(sent).id /\ tellGrant' = tellGrant /\ waiting' = waiting
    BY <1>3 DEF HandleRequest, Answer
  <2> QED
    BY <2>1, <1>t, <1>u, <1>k, <1>o
<1> QED
  BY <1>h, <1>1, <1>2, <1>3

\* The semaphore changes hands or a wait ends: an answer is to a request handled before.
LEMMA ChangeFacts ==
  ASSUME CallsTypeOK, Given, WaitTimesOut \/ OtherAcquires \/ OtherReleases
  PROVE  /\ UNCHANGED <<vars, role, pc, call, reqId, got, sent, mishaps>>
         /\ tellGrant' \in {tellGrant, 0} /\ tellWatch' \in {tellWatch, 0}
         /\ waiting' => waiting
         /\ owner = "us" => owner' = "us"
         /\ owner' = "us" => owner = "us" \/ waiting
         /\ \/ answers' = answers
            \/ \E reply \in Reply :
                 /\ reply.id \in {tellGrant, tellWatch}
                 /\ answers' = Append(answers, reply)
                 /\ reply.kind = "acquired" => owner' = "us"
                 /\ reply.kind \notin {"released", "pending"}
                 /\ reply.kind = "missed" => owner' # "us" /\ ~waiting'
<1>u. UNCHANGED <<vars, role, pc, call, reqId, got, sent, mishaps>>
  BY DEF WaitTimesOut, OtherAcquires, OtherReleases, clientVars
<1>k. \A k \in {"missed", "acquired", "changed"} : \A n \in ReqId :
        /\ [kind |-> k, id |-> n] \in Reply
        /\ [kind |-> k, id |-> n].id = n /\ [kind |-> k, id |-> n].kind = k
  BY CallKinds
<1>n. tellGrant \in ReqId \cup {0} /\ tellWatch \in ReqId \cup {0} /\ waiting \in BOOLEAN
  BY DEF CallsTypeOK
<1>1. CASE WaitTimesOut
  BY <1>1, <1>u, <1>k, <1>n DEF WaitTimesOut, Answer, Given
<1>2. CASE OtherAcquires
  BY <1>2, <1>u, <1>k, <1>n DEF OtherAcquires, Notified
<1>3. CASE OtherReleases
  BY <1>3, <1>u, <1>k, <1>n DEF OtherReleases, Notified
<1> QED
  BY <1>1, <1>2, <1>3

\* An answer arrives: it is the awaited one, or it is not taken for it.
LEMMA ReceiveFacts ==
  ASSUME CallsTypeOK, ReceiveAnswer
  PROVE  /\ answers # << >> /\ answers \in Seq(Reply) /\ answers' = Tail(answers)
         /\ UNCHANGED <<vars, role, call, reqId, sent, owner, waiting, tellGrant, tellWatch>>
         /\ "abandoned" \in mishaps <=> "abandoned" \in mishaps'
         /\ \/ pc' = pc /\ got' = got
            \/ /\ pc = "registered" /\ pc' = "answered"
               /\ \E k \in 1 .. Len(answers) :
                    answers[k].id = reqId /\ got' = answers[k].kind
<1>1. /\ answers # << >> /\ answers \in Seq(Reply) /\ answers' = Tail(answers)
      /\ 1 \in 1 .. Len(answers) /\ Head(answers) = answers[1]
  BY TakeProps DEF ReceiveAnswer, CallsTypeOK
<1>2. \/ pc' = pc /\ got' = got
      \/ /\ pc = "registered" /\ pc' = "answered"
         /\ Head(answers).id = reqId /\ got' = Head(answers).kind
  BY DEF ReceiveAnswer
<1>3. "abandoned" \in mishaps <=> "abandoned" \in mishaps'
  BY DEF ReceiveAnswer
<1> QED
  BY <1>1, <1>2, <1>3 DEF ReceiveAnswer, semaphoreVars

\* What a request does to the queue.
LEMMA ProceedFacts ==
  ASSUME CallsTypeOK, Apart, Awaited, RequestProceeds
  PROVE  /\ pc = "ready" /\ pc' = "registered"
         /\ UNCHANGED <<vars, role, call, got, answers, owner, waiting, tellGrant, tellWatch>>
         /\ "abandoned" \in mishaps <=> "abandoned" \in mishaps'
         /\ reqId' \notin {tellGrant, tellWatch} /\ reqId' # 0
         /\ call = "pinned" => reqId' = reqId
         /\ \A i \in 1 .. Len(sent) : sent[i].id # reqId'
         /\ \A i \in 1 .. Len(answers) : answers[i].id # reqId'
         /\ \/ sent' = sent
            \/ /\ stream # "none"
               /\ \E r \in Request :
                    sent' = Append(sent, r) /\ r.id = reqId' /\ r.kind = Kind
<1>1. /\ pc = "ready" /\ pc' = "registered"
      /\ UNCHANGED <<vars, role, call, got, answers, owner, waiting, tellGrant, tellWatch>>
      /\ "abandoned" \in mishaps <=> "abandoned" \in mishaps'
  BY DEF RequestProceeds, Send, semaphoreVars
<1>2. CASE call = "pinned"
  <2>1. reqId' = reqId /\ reqId # 0 /\ reqId \in ReqId
    BY <1>2 DEF RequestProceeds, Apart, CallsTypeOK
  <2>2. /\ \A i \in 1 .. Len(sent) : sent[i].id # reqId
        /\ \A i \in 1 .. Len(answers) : answers[i].id # reqId
        /\ reqId \notin {tellGrant, tellWatch}
    BY <1>1, <1>2 DEF Apart
  <2>3. [kind |-> Kind, id |-> reqId] \in Request
    BY <1>2, <2>1, CallKinds DEF Kind
  <2>4. \/ sent' = sent
        \/ stream # "none" /\ sent' = Append(sent, [kind |-> Kind, id |-> reqId])
    BY <2>1 DEF RequestProceeds, Send
  <2> QED
    BY <1>1, <1>2, <2>1, <2>2, <2>3, <2>4
<1>3. CASE call # "pinned"
  <2>1. reqId' \in NextReqId
    BY <1>3 DEF RequestProceeds
  <2>2. /\ reqId' \in ReqId /\ reqId' \notin {tellGrant, tellWatch} /\ reqId' # 0
        /\ \A i \in 1 .. Len(sent) : sent[i].id # reqId'
        /\ \A i \in 1 .. Len(answers) : answers[i].id # reqId'
    BY <2>1, NextIdIsNew, CallKinds
  <2>3. Kind \in {"acquire", "try", "release", "describe"}
    BY <1>1, <1>3 DEF Awaited, Kind, CallsTypeOK
  <2>4. [kind |-> Kind, id |-> reqId'] \in Request
    BY <2>2, <2>3, CallKinds
  <2>5. \/ sent' = sent
        \/ stream # "none" /\ sent' = Append(sent, [kind |-> Kind, id |-> reqId'])
    BY DEF RequestProceeds, Send
  <2> QED
    BY <1>1, <1>3, <2>2, <2>4, <2>5
<1> QED
  BY <1>2, <1>3

\* The steps of the client that send nothing leave the queues and the semaphore alone.
LEMMA ClientFacts ==
  ASSUME Client \/ RequestRefused \/ WaitPinned \/ Settle \/ Describe
  PROVE  /\ UNCHANGED <<vars, sent, answers, owner, waiting, tellGrant, tellWatch>>
         /\ "abandoned" \in mishaps => "abandoned" \in mishaps'
  BY DEF Client, Acquire, Release, Abandon, Watch, RequestRefused, WaitPinned, Settle,
    Describe, semaphoreVars

\* What a step of the session does to the client.
LEMMA CarryFacts ==
  ASSUME Carrying
  PROVE  /\ UNCHANGED <<role, mishaps>>
         /\ \/ UNCHANGED <<sent, answers, tellGrant, tellWatch>>
            \/ sent' = << >> /\ answers' = << >> /\ tellGrant' = 0 /\ tellWatch' = 0
         /\ waiting' => waiting
         /\ owner' = owner \/ (owner = "us" /\ owner' = "none")
         /\ \/ pc' = "ended" /\ call' = "none" /\ reqId' = 0 /\ got' = "nothing"
            \/ /\ UNCHANGED <<call, reqId, got>>
               /\ \/ pc' = pc
                  \/ pc = "registered" /\ transport' = "disconnected" /\ pc' = "wait_ready"
                  \/ pc = "wait_ready" /\ transport' = "ready" /\ pc' = "ready"
<1>1. /\ UNCHANGED <<role, mishaps>>
      /\ \/ UNCHANGED <<sent, answers, tellGrant, tellWatch>>
         \/ sent' = << >> /\ answers' = << >> /\ tellGrant' = 0 /\ tellWatch' = 0
  BY DEF Carrying, Reaction, StreamLost
<1>2. waiting' => waiting
  BY DEF Carrying, Reaction, SessionLost
<1>3. owner' = owner \/ (owner = "us" /\ owner' = "none")
  BY DEF Carrying, Reaction, SessionLost
<1>4. \/ pc' = "ended" /\ call' = "none" /\ reqId' = 0 /\ got' = "nothing"
      \/ /\ UNCHANGED <<call, reqId, got>>
         /\ \/ pc' = pc
            \/ pc = "registered" /\ transport' = "disconnected" /\ pc' = "wait_ready"
            \/ pc = "wait_ready" /\ transport' = "ready" /\ pc' = "ready"
  BY DEF Carrying, Reaction, Settled, Reject
<1> QED
  BY <1>1, <1>2, <1>3, <1>4

-----------------------------------------------------------------------------
(* The parts of the invariant *)

\* An id is never that of two requests, nor of one that waits and of one that was handled.
LEMMA ApartStep == CallsInv /\ SessionInv' /\ [CallsNext]_allVars => Apart'
<1> SUFFICES ASSUME CallsInv, SessionInv', [CallsNext]_allVars PROVE Apart'
  OBVIOUS
<1>i. CallsTypeOK /\ Apart /\ Carried /\ Awaited /\ Given
  BY DEF CallsInv
<1> USE <1>i
<1>q. /\ sent \in Seq(Request) /\ answers \in Seq(Reply) /\ Len(<< >>) = 0
      /\ Distinct(sent) /\ Separate(sent, answers, tellGrant, tellWatch)
      /\ \A i \in 1 .. Len(sent) : sent[i].id \in ReqId
  BY CallKinds, NothingProps DEF CallsTypeOK, Apart, Distinct, Separate
<1>g. SUFFICES
        /\ Distinct(sent') /\ Separate(sent', answers', tellGrant', tellWatch')
        /\ pc' \in {"registered", "answered"} \/ call' = "pinned" => reqId' # 0
        /\ pc' = "answered" => \A i \in 1 .. Len(sent') : sent'[i].id # reqId'
        /\ pc' \in {"wait_ready", "ready"} /\ call' = "pinned" =>
             /\ reqId' \notin {tellGrant', tellWatch'}
             /\ \A i \in 1 .. Len(sent') : sent'[i].id # reqId'
             /\ \A i \in 1 .. Len(answers') : answers'[i].id # reqId'
  BY DEF Apart, Distinct, Separate
<1>1. CASE Carrying
  <2>1. \/ UNCHANGED <<sent, answers, tellGrant, tellWatch>>
        \/ sent' = << >> /\ answers' = << >> /\ tellGrant' = 0 /\ tellWatch' = 0
    BY <1>1, CarryFacts
  <2>2. Distinct(sent') /\ Separate(sent', answers', tellGrant', tellWatch')
    BY <2>1, <1>q DEF Distinct, Separate
  <2>3. CASE pc' = "ended" /\ call' = "none"
    BY <2>2, <2>3
  <2>4. CASE UNCHANGED <<call, reqId, got, pc>>
    BY <2>1, <2>2, <2>4, <1>q DEF Apart
  <2>5. CASE /\ UNCHANGED <<call, reqId, got>>
             /\ pc = "registered" /\ transport' = "disconnected" /\ pc' = "wait_ready"
    <3>1. sent' = << >> /\ answers' = << >> /\ tellGrant' = 0 /\ tellWatch' = 0
      BY <1>1, <2>5, NothingCarried
    <3> QED
      BY <2>2, <2>5, <3>1, <1>q DEF Apart
  <2>6. CASE /\ UNCHANGED <<call, reqId, got>>
             /\ pc = "wait_ready" /\ pc' = "ready"
    BY <2>1, <2>2, <2>6, <1>q DEF Apart
  <2> QED
    BY <1>1, CarryFacts, <2>3, <2>4, <2>5, <2>6
<1>2. CASE Client \/ RequestRefused \/ WaitPinned \/ Settle \/ Describe
  <2>1. UNCHANGED <<sent, answers, tellGrant, tellWatch>>
    BY <1>2, ClientFacts
  <2>2. \/ pc' = "registered" /\ pc = "answered" /\ reqId' = reqId
        \/ /\ pc' \notin {"registered", "answered"} /\ call' # "pinned"
    <3>1. CASE WaitPinned
      BY <3>1 DEF WaitPinned, Reject
    <3>2. CASE Acquire
      BY <3>2 DEF Acquire, Call, Reject, CallsTypeOK
    <3>3. CASE Release \/ Abandon \/ Watch \/ RequestRefused \/ Settle \/ Describe
      BY <3>3 DEF Release, Abandon, Watch, RequestRefused, Settle, Describe, Call, Reject
    <3> QED
      BY <1>2, <3>1, <3>2, <3>3 DEF Client
  <2> QED
    BY <2>1, <2>2, <1>q DEF Apart
<1>3. CASE RequestProceeds
  <2>1. /\ pc' = "registered" /\ reqId' # 0
        /\ UNCHANGED <<answers, tellGrant, tellWatch>>
        /\ \A i \in 1 .. Len(sent) : sent[i].id # reqId'
        /\ \A i \in 1 .. Len(answers) : answers[i].id # reqId'
        /\ sent' = sent \/ \E r \in Request : sent' = Append(sent, r) /\ r.id = reqId'
    BY <1>3, ProceedFacts
  <2>2. reqId' \notin {tellGrant, tellWatch}
    BY <1>3, ProceedFacts DEF Apart
  <2>3. ASSUME NEW r \in Request, sent' = Append(sent, r), r.id = reqId'
        PROVE  Distinct(sent') /\ Separate(sent', answers', tellGrant', tellWatch')
    <3>1. Distinct(sent')
      BY <2>1, <2>3, <1>q, DistinctPut
    <3>2. \A i \in 1 .. Len(sent') : sent'[i] = r \/ \E k \in 1 .. Len(sent) : sent'[i] = sent[k]
      BY <2>3, <1>q, PutOld
    <3> QED
      BY <3>1, <3>2, <2>1, <2>2, <2>3, <1>q DEF Separate
  <2> QED
    BY <2>1, <2>3, <1>q
<1>4. CASE ReceiveAnswer
  <2>1. /\ answers # << >> /\ answers' = Tail(answers)
        /\ UNCHANGED <<call, reqId, sent, tellGrant, tellWatch>>
        /\ \/ pc' = pc
           \/ /\ pc = "registered" /\ pc' = "answered"
              /\ \E k \in 1 .. Len(answers) : answers[k].id = reqId
    BY <1>4, ReceiveFacts
  <2>2. \A i \in 1 .. Len(answers') : \E k \in 1 .. Len(answers) : answers'[i] = answers[k]
    BY <2>1, <1>q, TakeOld
  <2>3. Separate(sent', answers', tellGrant', tellWatch')
    BY <2>1, <2>2, <1>q DEF Separate
  <2>4. pc' = "answered" => \A i \in 1 .. Len(sent') : sent'[i].id # reqId'
    BY <2>1, <1>q DEF Separate, Apart
  <2> QED
    BY <2>1, <2>2, <2>3, <2>4, <1>q DEF Apart
<1>5. CASE HandleRequest
  <2>1. /\ sent # << >> /\ sent' = Tail(sent) /\ UNCHANGED <<pc, call, reqId>>
        /\ Head(sent) = sent[1] /\ 1 \in 1 .. Len(sent)
        /\ tellGrant' \in {tellGrant, 0, Head(sent).id}
        /\ tellWatch' \in {tellWatch, Head(sent).id}
    BY <1>5, HandleFacts, TakeProps
  <2>2. PICK reply \in Reply : reply.id = Head(sent).id /\ answers' = Append(answers, reply)
    BY <1>5, HandleFacts
  <2>3. Distinct(sent') /\ \A i \in 1 .. Len(sent') : sent'[i].id # Head(sent).id
    BY <2>1, <1>q, DistinctTake
  <2>4. \A i \in 1 .. Len(sent') : \E k \in 1 .. Len(sent) : sent'[i] = sent[k]
    BY <2>1, <1>q, TakeOld
  <2>5. \A i \in 1 .. Len(answers') :
          answers'[i] = reply \/ \E k \in 1 .. Len(answers) : answers'[i] = answers[k]
    BY <2>2, <1>q, PutOld
  <2>6. \A i \in 1 .. Len(sent') : sent'[i].id # 0
    BY <2>4, <1>q, CallKinds
  <2>7. Separate(sent', answers', tellGrant', tellWatch')
    BY <2>1, <2>2, <2>3, <2>4, <2>5, <2>6, <1>q DEF Separate
  <2>8. pc' = "answered" => \A i \in 1 .. Len(sent') : sent'[i].id # reqId'
    BY <2>1, <2>4 DEF Apart
  <2>9. ASSUME pc \in {"wait_ready", "ready"}, call = "pinned"
        PROVE  /\ reqId' \notin {tellGrant', tellWatch'}
               /\ \A i \in 1 .. Len(sent') : sent'[i].id # reqId'
               /\ \A i \in 1 .. Len(answers') : answers'[i].id # reqId'
    <3>1. Head(sent).id # reqId /\ reqId # 0 /\ reqId \notin {tellGrant, tellWatch}
      BY <2>1, <2>9 DEF Apart
    <3> QED
      BY <3>1, <2>1, <2>2, <2>4, <2>5, <2>9 DEF Apart
  <2> QED
    BY <2>1, <2>3, <2>7, <2>8, <2>9 DEF Apart
<1>6. CASE WaitTimesOut \/ OtherAcquires \/ OtherReleases
  <2>1. /\ UNCHANGED <<pc, call, reqId, sent>>
        /\ tellGrant' \in {tellGrant, 0} /\ tellWatch' \in {tellWatch, 0}
        /\ \/ answers' = answers
           \/ \E reply \in Reply : /\ reply.id \in {tellGrant, tellWatch}
                                   /\ answers' = Append(answers, reply)
    BY <1>6, ChangeFacts
  <2>2. \A i \in 1 .. Len(answers') :
          \/ answers'[i].id \in {tellGrant, tellWatch}
          \/ \E k \in 1 .. Len(answers) : answers'[i] = answers[k]
    BY <2>1, <1>q, PutOld
  <2>3. Separate(sent', answers', tellGrant', tellWatch')
    BY <2>1, <2>2, <1>q, CallKinds DEF Separate
  <2>4. ASSUME pc \in {"wait_ready", "ready"}, call = "pinned"
        PROVE  /\ reqId' \notin {tellGrant', tellWatch'}
               /\ \A i \in 1 .. Len(sent') : sent'[i].id # reqId'
               /\ \A i \in 1 .. Len(answers') : answers'[i].id # reqId'
    BY <2>1, <2>2, <2>4 DEF Apart
  <2> QED
    BY <2>1, <2>3, <2>4, <1>q DEF Apart
<1>7. CASE UNCHANGED allVars
  BY <1>7, <1>q DEF allVars, callVars, clientVars, semaphoreVars, Apart
<1> QED
  BY <1>1, <1>2, <1>3, <1>4, <1>5, <1>6, <1>7, StepCases DEF Continue

\* Nothing comes back to life.
LEMMA LiveBefore == Next /\ state' \in Live => state \in Live
  BY DEF Next, Ingest, Receive, Server, Started, Disconnected, Stopped, Failed,
    FailedWhileClosing, IgnoreOutput, Ingests, Finalize, Reconnecting, ReceiveStarted,
    ReceiveFailure, ReceiveStopped, StreamEnds, ServerAttaches, ServerRefuses, ServerFails,
    ServerStops, ServerForgets, StartTimeout, RetryBackoff, RecoveryWindow, Close, Destroy,
    sessionVars, Live, Terminal

\* Nothing outlives its stream, and nothing happens before the session is known.
LEMMA CarriedStep == CallsInv /\ SessionInv' /\ [CallsNext]_allVars => Carried'
<1> SUFFICES ASSUME CallsInv, SessionInv', [CallsNext]_allVars PROVE Carried'
  OBVIOUS
<1>i. SessionInv /\ CallsTypeOK /\ Apart /\ Carried /\ Awaited /\ Given
  BY DEF CallsInv
<1> DEFINE Empty == sent = << >> /\ answers = << >> /\ tellGrant = 0 /\ tellWatch = 0
           Early == /\ pc \in {"idle", "wait_ready", "ended"} /\ sent = << >>
                    /\ answers = << >> /\ owner # "us" /\ ~waiting /\ tellWatch = 0
<1>c. (stream = "none" => Empty) /\ (state \in Live /\ ~Known => Early)
  BY <1>i DEF Carried, Known
<1>g. SUFFICES (stream' = "none" => Empty') /\ (state' \in Live /\ ~Known' => Early')
  BY DEF Carried, Known
<1>z. 0 \notin ReqId
  BY CallKinds
<1>s. UNCHANGED vars => UNCHANGED <<stream, state, transport>> /\ (Known' <=> Known)
  BY DEF vars, sessionVars, transportVars, streamVars, Known, Emitted
<1>1. CASE Carrying
  <2>1. stream' = "none" => Empty'
    BY <1>1, <1>c DEF Carrying, Reaction, StreamLost
  <2>2. ASSUME state' \in Live, ~Known' PROVE Early'
    <3>1. state \in Live /\ ~Known
      BY <1>1, <1>i, <2>2, LiveBefore, KnownKept DEF Carrying
    <3>2. transport' # "ready"
      BY <2>2 DEF SessionInv, Follows, Identity, Known
    <3> QED
      BY <1>1, <1>c, <3>1, <3>2, CarryFacts
  <2> QED
    BY <2>1, <2>2
<1>2. CASE Client \/ RequestRefused \/ WaitPinned \/ Settle \/ Describe
  <2>1. UNCHANGED <<vars, sent, answers, owner, waiting, tellGrant, tellWatch>>
    BY <1>2, ClientFacts
  <2>2. ASSUME state \in Live, ~Known PROVE pc' \in {"idle", "wait_ready", "ended"}
    <3>1. transport # "ready" /\ pc \in {"idle", "wait_ready", "ended"}
      BY <2>2, <1>c, <1>i, ReadyIsKnown
    <3> QED
      BY <1>2, <3>1 DEF Client, Acquire, Release, Abandon, Watch, RequestRefused, WaitPinned,
        Settle, Describe, Call, Reject
  <2> QED
    BY <2>1, <2>2, <1>c, <1>s
<1>3. CASE RequestProceeds
  <2>1. /\ UNCHANGED <<vars, answers, owner, waiting, tellGrant, tellWatch>> /\ pc = "ready"
        /\ stream = "none" => sent' = sent
    BY <1>3, <1>i, ProceedFacts
  <2> QED
    BY <2>1, <1>c, <1>s
<1>4. CASE ReceiveAnswer
  <2>1. UNCHANGED vars /\ answers # << >> /\ stream # "none"
    BY <1>4 DEF ReceiveAnswer
  <2> QED
    BY <2>1, <1>c, <1>s
<1>5. CASE HandleRequest
  <2>1. UNCHANGED vars /\ sent # << >> /\ stream # "none"
    BY <1>5 DEF HandleRequest
  <2> QED
    BY <2>1, <1>c, <1>s
<1>6. CASE WaitTimesOut \/ OtherAcquires \/ OtherReleases
  <2>1. /\ UNCHANGED <<vars, pc, sent>>
        /\ tellGrant' \in {tellGrant, 0} /\ tellWatch' \in {tellWatch, 0}
        /\ (waiting' => waiting)
        /\ owner' = "us" => owner = "us" \/ waiting
        /\ \/ answers' = answers
           \/ \E reply \in Reply : reply.id \in {tellGrant, tellWatch}
    BY <1>6, <1>i, ChangeFacts
  <2>2. Empty => Empty'
    BY <2>1, <1>z, CallKinds
  <2>3. ASSUME Early PROVE Early'
    <3>1. answers' = answers
      BY <1>6, <2>3 DEF WaitTimesOut, OtherAcquires, OtherReleases, Notified
    <3> QED
      BY <2>1, <2>3, <3>1
  <2> QED
    BY <2>1, <2>2, <2>3, <1>c, <1>s
<1>7. CASE UNCHANGED allVars
  BY <1>7, <1>c, <1>s DEF allVars, callVars, clientVars, semaphoreVars
<1> QED
  BY <1>1, <1>2, <1>3, <1>4, <1>5, <1>6, <1>7, StepCases DEF Continue

\* A release under way is the one that is waited for; so is any other request, unless an
\* acquire was abandoned.
LEMMA AwaitedStep == CallsInv /\ SessionInv' /\ [CallsNext]_allVars => Awaited'
<1> SUFFICES ASSUME CallsInv, SessionInv', [CallsNext]_allVars PROVE Awaited'
  OBVIOUS
<1>i. SessionInv /\ CallsTypeOK /\ Apart /\ Carried /\ Awaited /\ Given
  BY DEF CallsInv
<1> USE <1>i
<1> DEFINE Whose(p, c, r, requests, abandoned) ==
             p # "ended" =>
               \A i \in 1 .. Len(requests) :
                 requests[i].kind = "release" \/ ~abandoned =>
                   /\ p = "registered" /\ requests[i].id = r
                   /\ requests[i].kind = IF c = "pinned" THEN "acquire" ELSE c
           Calling(p, c) == p \in {"wait_ready", "ready", "registered", "answered"} => c # "none"
<1>w. Whose(pc, call, reqId, sent, "abandoned" \in mishaps) /\ Calling(pc, call)
  BY DEF Awaited, Kind
<1>g. SUFFICES /\ Whose(pc', call', reqId', sent', "abandoned" \in mishaps')
               /\ Calling(pc', call')
  BY DEF Awaited, Kind
<1>q. sent \in Seq(Request) /\ Len(<< >>) = 0
  BY NothingProps DEF CallsTypeOK
<1>1. CASE Carrying
  <2>1. /\ UNCHANGED <<role, mishaps>> /\ (sent' = sent \/ sent' = << >>)
    BY <1>1, CarryFacts
  <2>2. CASE pc' = "ended" /\ call' = "none"
    BY <2>1, <2>2
  <2>3. CASE UNCHANGED <<call, reqId, pc>>
    BY <2>1, <2>3, <1>w, <1>q
  <2>4. CASE /\ UNCHANGED <<call, reqId>>
             /\ pc = "registered" /\ transport' = "disconnected" /\ pc' = "wait_ready"
    <3>1. sent' = << >>
      BY <1>1, <2>4, NothingCarried
    <3> QED
      BY <2>1, <2>4, <3>1, <1>w, <1>q
  <2>5. CASE UNCHANGED <<call, reqId>> /\ pc = "wait_ready" /\ pc' = "ready"
    BY <2>1, <2>5, <1>w, <1>q
  <2> QED
    BY <1>1, CarryFacts, <2>2, <2>3, <2>4, <2>5
<1>2. CASE Client \/ RequestRefused \/ WaitPinned \/ Settle \/ Describe
  <2>1. UNCHANGED sent /\ ("abandoned" \in mishaps => "abandoned" \in mishaps')
    BY <1>2, ClientFacts
  <2>2. CASE Abandon
    <3>1. /\ call \in {"try", "acquire", "pinned"} /\ "abandoned" \in mishaps'
          /\ pc' = "idle" /\ call' = "none" /\ pc # "ended"
      BY <2>2 DEF Abandon
    <3>2. \A i \in 1 .. Len(sent) : sent[i].kind # "release"
      BY <3>1, <1>w
    <3> QED
      BY <2>1, <3>1, <3>2
  <2>3. CASE pc \notin {"registered", "ended"} /\ ~Abandon
    <3>1. \A i \in 1 .. Len(sent) : sent[i].kind # "release" /\ "abandoned" \in mishaps
      BY <2>3, <1>w
    <3>2. Calling(pc', call')
      <4>1. CASE Acquire
        BY <4>1 DEF Acquire, Call, Reject, CallsTypeOK
      <4>2. CASE WaitPinned \/ Release \/ Watch \/ RequestRefused \/ Settle \/ Describe
        BY <4>2, <1>w DEF WaitPinned, Release, Watch, RequestRefused, Settle, Describe, Call,
          Reject
      <4> QED
        BY <1>2, <2>3, <4>1, <4>2 DEF Client
    <3> QED
      BY <2>1, <3>1, <3>2
  <2>4. pc \notin {"registered", "ended"} \/ Abandon
    BY <1>2 DEF Client, Acquire, Release, Abandon, Watch, RequestRefused, WaitPinned, Settle,
      Describe
  <2> QED
    BY <2>2, <2>3, <2>4
<1>3. CASE RequestProceeds
  <2>1. /\ pc = "ready" /\ pc' = "registered" /\ UNCHANGED <<role, call>>
        /\ "abandoned" \in mishaps <=> "abandoned" \in mishaps'
        /\ \/ sent' = sent
           \/ \E r \in Request :
                sent' = Append(sent, r) /\ r.id = reqId' /\ r.kind = Kind
    BY <1>3, ProceedFacts
  <2>2. \A i \in 1 .. Len(sent) : sent[i].kind # "release" /\ "abandoned" \in mishaps
    BY <2>1, <1>w
  <2>3. ASSUME NEW r \in Request, sent' = Append(sent, r), r.id = reqId', r.kind = Kind
        PROVE  Whose(pc', call', reqId', sent', "abandoned" \in mishaps')
    <3>1. \A i \in 1 .. Len(sent') : sent'[i] = r \/ \E k \in 1 .. Len(sent) : sent'[i] = sent[k]
      BY <2>3, <1>q, PutOld
    <3> QED
      BY <3>1, <2>1, <2>2, <2>3 DEF Kind
  <2> QED
    BY <2>1, <2>2, <2>3, <1>w
<1>4. CASE ReceiveAnswer
  <2>1. /\ UNCHANGED <<role, call, reqId, sent>>
        /\ "abandoned" \in mishaps <=> "abandoned" \in mishaps'
        /\ \/ pc' = pc
           \/ /\ pc = "registered" /\ pc' = "answered"
              /\ \E k \in 1 .. Len(answers) : answers[k].id = reqId
    BY <1>4, ReceiveFacts
  <2>2. CASE pc' = pc
    BY <2>1, <2>2, <1>w
  <2>3. CASE pc = "registered" /\ pc' = "answered"
    <3>1. \A i \in 1 .. Len(sent) : sent[i].id # reqId
      BY <2>1, <2>3 DEF Apart
    <3> QED
      BY <2>1, <2>3, <3>1, <1>w
  <2> QED
    BY <2>1, <2>2, <2>3
<1>5. CASE HandleRequest
  <2>1. /\ UNCHANGED <<role, pc, call, reqId, mishaps>> /\ sent # << >> /\ sent' = Tail(sent)
    BY <1>5, HandleFacts
  <2>2. \A i \in 1 .. Len(sent') : \E k \in 1 .. Len(sent) : sent'[i] = sent[k]
    BY <2>1, <1>q, TakeOld
  <2> QED
    BY <2>1, <2>2, <1>w
<1>6. CASE WaitTimesOut \/ OtherAcquires \/ OtherReleases
  <2>1. UNCHANGED <<role, pc, call, reqId, sent, mishaps>>
    BY <1>6, ChangeFacts
  <2> QED
    BY <2>1, <1>w
<1>7. CASE UNCHANGED allVars
  BY <1>7, <1>w DEF allVars, callVars, clientVars
<1> QED
  BY <1>1, <1>2, <1>3, <1>4, <1>5, <1>6, <1>7, StepCases DEF Continue

\* A client that only tries to acquire never waits, and nothing waits on its behalf.
LEMMA PatientStep == CallsInv /\ [CallsNext]_allVars => Patient'
<1> SUFFICES ASSUME CallsInv, [CallsNext]_allVars PROVE Patient'
  OBVIOUS
<1>i. SessionInv /\ CallsTypeOK /\ Apart /\ Awaited /\ Patient /\ Given
  BY DEF CallsInv
<1> USE <1>i
<1> DEFINE Never(c, w, p, g) ==
             c \notin {"acquire", "pinned"} /\ ~w /\ ~(p = "answered" /\ g = "pending")
           None(requests, replies) ==
             /\ \A i \in 1 .. Len(requests) : requests[i].kind # "acquire"
             /\ \A i \in 1 .. Len(replies) : replies[i].kind # "pending"
<1>w. /\ call = "try" => role = "try"
      /\ role \in {"none", "try"} => Never(call, waiting, pc, got) /\ None(sent, answers)
  BY DEF Patient
<1>g. SUFFICES /\ call' = "try" => role' = "try"
               /\ role' \in {"none", "try"} =>
                    Never(call', waiting', pc', got') /\ None(sent', answers')
  BY DEF Patient
<1>q. sent \in Seq(Request) /\ answers \in Seq(Reply) /\ Len(<< >>) = 0
  BY NothingProps DEF CallsTypeOK
<1>1. CASE Carrying
  <2>1. /\ UNCHANGED role /\ (waiting' => waiting)
        /\ UNCHANGED <<sent, answers>> \/ (sent' = << >> /\ answers' = << >>)
        /\ \/ pc' = "ended" /\ call' = "none"
           \/ UNCHANGED <<call, got>> /\ (pc' = pc \/ pc' \in {"wait_ready", "ready"})
    BY <1>1, CarryFacts
  <2>2. None(sent, answers) => None(sent', answers')
    BY <2>1, <1>q
  <2> QED
    BY <2>1, <2>2, <1>w
<1>2. CASE Client \/ RequestRefused \/ WaitPinned \/ Settle \/ Describe
  <2>1. UNCHANGED <<sent, answers, waiting>>
    BY <1>2, ClientFacts
  <2>2. CASE Acquire
    <3>1. /\ role' \in {"acquire", "try"} => role \in {"none", role'}
          /\ role' \in {"none", "try"} => role \in {"none", "try"}
          /\ (pc' = "ended" /\ call' = "none") \/ (pc' # "answered" /\ call' = role')
      BY <2>2 DEF Acquire, Call, Reject, CallsTypeOK
    <3> QED
      BY <2>1, <3>1, <1>w
  <2>3. CASE Watch
    <3>1. role' = "watch" /\ call' \in {"none", "describe"}
      BY <2>3 DEF Watch, Call, Reject
    <3> QED
      BY <3>1
  <2>4. CASE WaitPinned
    <3>1. /\ pc = "answered" /\ got = "pending" /\ role' = role
          /\ call' \in {"none", "pinned"}
      BY <2>4 DEF WaitPinned, Reject
    <3> QED
      BY <3>1, <1>w
  <2>5. CASE Release \/ Abandon \/ RequestRefused \/ Settle \/ Describe
    <3>1. role' = role /\ pc' # "answered" /\ call' \in {"none", "release"}
      BY <2>5 DEF Release, Abandon, RequestRefused, Settle, Describe, Call, Reject
    <3> QED
      BY <2>1, <3>1, <1>w
  <2> QED
    BY <1>2, <2>2, <2>3, <2>4, <2>5 DEF Client
<1>3. CASE RequestProceeds
  <2>1. /\ pc' = "registered" /\ UNCHANGED <<role, call, got, answers, waiting>>
        /\ sent' = sent \/ \E r \in Request : sent' = Append(sent, r) /\ r.kind = Kind
    BY <1>3, ProceedFacts
  <2>2. ASSUME NEW r \in Request, sent' = Append(sent, r), r.kind = Kind,
               role \in {"none", "try"}
        PROVE  None(sent', answers')
    <3>1. \A i \in 1 .. Len(sent') : sent'[i] = r \/ \E k \in 1 .. Len(sent) : sent'[i] = sent[k]
      BY <2>2, <1>q, PutOld
    <3>2. r.kind # "acquire"
      BY <2>2, <1>w DEF Kind
    <3> QED
      BY <3>1, <3>2, <2>1, <2>2, <1>w
  <2> QED
    BY <2>1, <2>2, <1>w
<1>4. CASE ReceiveAnswer
  <2>1. /\ answers # << >> /\ answers' = Tail(answers)
        /\ UNCHANGED <<role, call, sent, waiting>>
        /\ \/ pc' = pc /\ got' = got
           \/ \E k \in 1 .. Len(answers) : got' = answers[k].kind
    BY <1>4, ReceiveFacts
  <2>2. \A i \in 1 .. Len(answers') : \E k \in 1 .. Len(answers) : answers'[i] = answers[k]
    BY <2>1, <1>q, TakeOld
  <2> QED
    BY <2>1, <2>2, <1>w
<1>5. CASE HandleRequest
  <2>1. /\ UNCHANGED <<role, pc, call, got>> /\ sent # << >> /\ sent' = Tail(sent)
        /\ waiting' => waiting \/ Head(sent).kind = "acquire"
        /\ \E reply \in Reply : /\ answers' = Append(answers, reply)
                                /\ reply.kind = "pending" => Head(sent).kind = "acquire"
    BY <1>5, HandleFacts
  <2>2. \A i \in 1 .. Len(sent') : \E k \in 1 .. Len(sent) : sent'[i] = sent[k]
    BY <2>1, <1>q, TakeOld
  <2>3. 1 \in 1 .. Len(sent) /\ Head(sent) = sent[1]
    BY <2>1, <1>q, TakeProps
  <2>4. PICK reply \in Reply : /\ answers' = Append(answers, reply)
                               /\ reply.kind = "pending" => Head(sent).kind = "acquire"
    BY <2>1
  <2>5. \A i \in 1 .. Len(answers') :
          answers'[i] = reply \/ \E k \in 1 .. Len(answers) : answers'[i] = answers[k]
    BY <2>4, <1>q, PutOld
  <2>6. ASSUME role \in {"none", "try"} PROVE None(sent', answers') /\ ~waiting'
    <3>1. Head(sent).kind # "acquire"
      BY <2>3, <2>6, <1>w
    <3> QED
      BY <2>1, <2>2, <2>4, <2>5, <2>6, <3>1, <1>w
  <2> QED
    BY <2>1, <2>6, <1>w
<1>6. CASE WaitTimesOut \/ OtherAcquires \/ OtherReleases
  <2>1. /\ UNCHANGED <<role, pc, call, got, sent>> /\ (waiting' => waiting)
        /\ \/ answers' = answers
           \/ \E reply \in Reply : reply.kind # "pending" /\ answers' = Append(answers, reply)
    BY <1>6, ChangeFacts
  <2>2. ASSUME NEW reply \in Reply, reply.kind # "pending", answers' = Append(answers, reply),
               None(sent, answers)
        PROVE  None(sent, answers')
    <3>1. \A i \in 1 .. Len(answers') :
            answers'[i] = reply \/ \E k \in 1 .. Len(answers) : answers'[i] = answers[k]
      BY <2>2, <1>q, PutOld
    <3> QED
      BY <3>1, <2>2
  <2> QED
    BY <2>1, <2>2, <1>w
<1>7. CASE UNCHANGED allVars
  BY <1>7, <1>w DEF allVars, callVars, clientVars, semaphoreVars
<1> QED
  BY <1>1, <1>2, <1>3, <1>4, <1>5, <1>6, <1>7, StepCases DEF Continue

\* The semaphore is the session's from the answer that says so, as long as the session is.
LEMMA GrantedStep == CallsInv /\ SessionInv' /\ [CallsNext]_allVars => Granted'
<1> SUFFICES ASSUME CallsInv, SessionInv', [CallsNext]_allVars,
                    state' \in Live, pc' # "ended"
             PROVE  Granted'
  BY DEF Granted
<1>i. SessionInv /\ CallsTypeOK /\ Apart /\ Carried /\ Awaited /\ Given /\ Granted
  BY DEF CallsInv
<1> USE <1>i
<1> DEFINE Owns == owner = "us" \/ served \notin alive
           Told(p, g, replies, r) ==
             \/ p = "held" \/ (p = "answered" /\ g = "acquired")
             \/ \E i \in 1 .. Len(replies) : replies[i].kind = "acquired" /\ replies[i].id = r
<1>g. SUFFICES ASSUME Told(pc', got', answers', reqId') PROVE Owns'
  BY DEF Granted
<1>q. /\ sent \in Seq(Request) /\ answers \in Seq(Reply) /\ Len(<< >>) = 0
      /\ \A i \in 1 .. Len(answers) : answers[i].id # 0
  BY NothingProps, CallKinds DEF CallsTypeOK
<1>w. state \in Live /\ pc # "ended" /\ Told(pc, got, answers, reqId) => Owns
  BY DEF Granted
<1>s. UNCHANGED vars => UNCHANGED <<state, served, alive>>
  BY DEF vars, sessionVars, streamVars, serverVars
<1>1. CASE Carrying
  <2>1. state \in Live
    BY <1>1, LiveBefore DEF Carrying
  <2>2. /\ UNCHANGED <<answers, reqId, got>> \/ (answers' = << >> /\ UNCHANGED got)
        /\ pc' = pc \/ pc' \in {"wait_ready", "ready"}
        /\ answers' # << >> => UNCHANGED reqId
    BY <1>1, CarryFacts
  <2>3. Told(pc, got, answers, reqId)
    BY <2>2, <1>g, <1>q
  <2>4. pc # "ended"
    BY <1>1, CarryFacts
  <2>5. Known
    BY <2>1, <2>3, <1>q DEF Carried, Known
  <2>6. served' = served /\ (served \notin alive => served \notin alive')
    BY <1>1, <2>1, <2>5, ServedKept DEF Carrying
  <2>7. owner = "us" => owner' = "us" \/ served \notin alive'
    BY <1>1 DEF Carrying, Reaction, SessionLost
  <2> QED
    BY <2>1, <2>3, <2>4, <2>6, <2>7, <1>w
<1>2. CASE Client \/ RequestRefused \/ WaitPinned \/ Settle \/ Describe
  <2>1. UNCHANGED <<vars, answers, owner>>
    BY <1>2, ClientFacts
  <2>2. Told(pc, got, answers, reqId) /\ pc # "ended"
    <3>1. CASE Settle
      BY <3>1, <2>1, <1>g, <1>q DEF Settle
    <3>2. CASE WaitPinned
      BY <3>2, <2>1, <1>g, <1>q DEF WaitPinned, Reject
    <3>3. CASE Acquire
      BY <3>3, <2>1, <1>g, <1>q DEF Acquire, Call, Reject
    <3>4. CASE Release
      BY <3>4, <2>1, <1>g, <1>q DEF Release, Call, Reject
    <3>5. CASE Watch
      BY <3>5, <2>1, <1>g, <1>q DEF Watch, Call, Reject
    <3>6. CASE Abandon \/ RequestRefused \/ Describe
      BY <3>6, <2>1, <1>g, <1>q DEF Abandon, RequestRefused, Describe, Reject
    <3> QED
      BY <1>2, <3>1, <3>2, <3>3, <3>4, <3>5, <3>6 DEF Client
  <2> QED
    BY <2>1, <2>2, <1>w, <1>s
<1>3. CASE RequestProceeds
  <2>1. /\ pc = "ready" /\ pc' = "registered" /\ UNCHANGED <<vars, answers>>
        /\ \A i \in 1 .. Len(answers) : answers[i].id # reqId'
    BY <1>3, ProceedFacts
  <2> QED
    BY <2>1, <1>g
<1>4. CASE ReceiveAnswer
  <2>1. /\ UNCHANGED <<vars, owner, reqId>>
        /\ answers # << >> /\ answers' = Tail(answers)
        /\ \/ pc' = pc /\ got' = got
           \/ /\ pc = "registered" /\ pc' = "answered"
              /\ \E k \in 1 .. Len(answers) : answers[k].id = reqId /\ got' = answers[k].kind
    BY <1>4, ReceiveFacts
  <2>2. \A i \in 1 .. Len(answers') : \E k \in 1 .. Len(answers) : answers'[i] = answers[k]
    BY <2>1, <1>q, TakeOld
  <2>3. Told(pc, got, answers, reqId) /\ pc # "ended"
    BY <2>1, <2>2, <1>g
  <2> QED
    BY <2>1, <2>3, <1>w, <1>s
<1>5. CASE HandleRequest
  <2>1. /\ UNCHANGED <<vars, pc, call, reqId, got>> /\ sent # << >>
        /\ \E reply \in Reply :
             /\ reply.id = Head(sent).id /\ answers' = Append(answers, reply)
             /\ reply.kind = "acquired" => owner' = "us"
    BY <1>5, HandleFacts
  <2>2. PICK reply \in Reply :
             /\ reply.id = Head(sent).id /\ answers' = Append(answers, reply)
             /\ reply.kind = "acquired" => owner' = "us"
    BY <2>1
  <2>3. \A i \in 1 .. Len(answers') :
          answers'[i] = reply \/ \E k \in 1 .. Len(answers) : answers'[i] = answers[k]
    BY <2>2, <1>q, PutOld
  <2>4. CASE reply.kind = "acquired"
    BY <2>2, <2>4
  <2>5. CASE reply.kind # "acquired"
    <3>1. Told(pc, got, answers, reqId)
      BY <2>1, <2>3, <2>5, <1>g
    <3>2. Owns
      BY <3>1, <2>1, <1>w, <1>s
    <3>3. Head(sent).kind # "release"
      <4>1. 1 \in 1 .. Len(sent) /\ Head(sent) = sent[1]
        BY <2>1, <1>q, TakeProps
      <4> SUFFICES ASSUME Head(sent).kind = "release" PROVE FALSE
        OBVIOUS
      <4>2. pc = "registered" /\ sent[1].id = reqId
        BY <4>1, <2>1 DEF Awaited
      <4>3. \A i \in 1 .. Len(answers) : answers[i].id # reqId
        BY <4>1, <4>2 DEF Apart
      <4> QED
        BY <3>1, <4>2, <4>3
    <3>4. owner = "us" => owner' = "us"
      BY <1>5, <3>3 DEF HandleRequest, HandleAcquire
    <3> QED
      BY <3>2, <3>4, <2>1, <1>s
  <2> QED
    BY <2>4, <2>5
<1>6. CASE WaitTimesOut \/ OtherAcquires \/ OtherReleases
  <2>1. /\ UNCHANGED <<vars, pc, reqId, got>> /\ (owner = "us" => owner' = "us")
        /\ \/ answers' = answers
           \/ \E reply \in Reply :
                answers' = Append(answers, reply) /\ (reply.kind = "acquired" => owner' = "us")
    BY <1>6, ChangeFacts
  <2>2. CASE Told(pc, got, answers, reqId)
    BY <2>1, <2>2, <1>w, <1>s
  <2>3. CASE ~Told(pc, got, answers, reqId)
    <3>1. PICK reply \in Reply :
            answers' = Append(answers, reply) /\ (reply.kind = "acquired" => owner' = "us")
      BY <2>1, <2>3, <1>g
    <3>2. \A i \in 1 .. Len(answers') :
            answers'[i] = reply \/ \E k \in 1 .. Len(answers) : answers'[i] = answers[k]
      BY <3>1, <1>q, PutOld
    <3> QED
      BY <2>1, <2>3, <3>1, <3>2, <1>g
  <2> QED
    BY <2>2, <2>3
<1>7. CASE UNCHANGED allVars
  BY <1>7, <1>g, <1>w, <1>s DEF allVars, callVars, clientVars, semaphoreVars
<1> QED
  BY <1>1, <1>2, <1>3, <1>4, <1>5, <1>6, <1>7, StepCases DEF Continue

\* It is not the session's, nor waited for, from the answer that says so.
LEMMA GivenStep == CallsInv /\ [CallsNext]_allVars => Given'
<1> SUFFICES ASSUME CallsInv, [CallsNext]_allVars PROVE Given'
  OBVIOUS
<1>i. CallsTypeOK /\ Apart /\ Awaited /\ Patient /\ Given
  BY DEF CallsInv
<1> USE <1>i
<1> DEFINE Free == owner # "us" /\ ~waiting
           Told(p, g, replies, r) ==
             \/ p = "idle" \/ (p = "answered" /\ g \in {"missed", "released"})
             \/ \E i \in 1 .. Len(replies) :
                  replies[i].kind \in {"missed", "released"} /\ replies[i].id = r
<1>q. /\ sent \in Seq(Request) /\ answers \in Seq(Reply) /\ Len(<< >>) = 0
      /\ \A i \in 1 .. Len(answers) : answers[i].id # 0
  BY NothingProps, CallKinds DEF CallsTypeOK
<1>w. /\ waiting => owner = "other"
      /\ "abandoned" \notin mishaps /\ pc # "ended" /\ Told(pc, got, answers, reqId) => Free
  BY DEF Given
<1>a. waiting' => owner' = "other"
  <2>1. CASE Carrying
    BY <2>1, <1>w, CarryFacts
  <2>2. CASE HandleRequest
    BY <2>2, <1>w DEF HandleRequest, HandleAcquire, HandleRelease
  <2>3. CASE WaitTimesOut \/ OtherAcquires \/ OtherReleases
    BY <2>3, <1>w DEF WaitTimesOut, OtherAcquires, OtherReleases
  <2>4. CASE \/ Client \/ RequestRefused \/ WaitPinned \/ Settle \/ Describe
             \/ RequestProceeds \/ ReceiveAnswer
    BY <2>4, <1>w, ClientFacts, ProceedFacts, ReceiveFacts
  <2>5. CASE UNCHANGED allVars
    BY <2>5, <1>w DEF allVars, callVars, semaphoreVars
  <2> QED
    BY <2>1, <2>2, <2>3, <2>4, <2>5, StepCases DEF Continue
<1>g. SUFFICES ASSUME "abandoned" \notin mishaps', pc' # "ended",
                      Told(pc', got', answers', reqId')
               PROVE  Free'
  BY <1>a DEF Given
<1>1. CASE Carrying
  <2>1. /\ UNCHANGED mishaps /\ (waiting' => waiting) /\ (owner' = "us" => owner = "us")
        /\ UNCHANGED <<answers, reqId, got>> \/ (answers' = << >> /\ UNCHANGED got)
        /\ pc' = pc \/ pc' \in {"wait_ready", "ready"}
        /\ answers' # << >> => UNCHANGED reqId
        /\ pc # "ended"
    BY <1>1, <1>g, CarryFacts
  <2>2. Told(pc, got, answers, reqId)
    BY <2>1, <1>g, <1>q
  <2> QED
    BY <2>1, <2>2, <1>g, <1>w
<1>2. CASE Client \/ RequestRefused \/ WaitPinned \/ Settle \/ Describe
  <2>1. /\ UNCHANGED <<answers, owner, waiting>> /\ "abandoned" \notin mishaps
    BY <1>2, <1>g, ClientFacts
  <2>2. Told(pc, got, answers, reqId) /\ pc # "ended"
    <3>1. CASE Settle
      BY <3>1, <2>1, <1>g, <1>q DEF Settle
    <3>2. CASE WaitPinned
      BY <3>2, <2>1, <1>g, <1>q DEF WaitPinned, Reject
    <3>3. CASE Acquire
      BY <3>3, <2>1, <1>g, <1>q DEF Acquire, Call, Reject
    <3>4. CASE Release
      BY <3>4, <2>1, <1>g, <1>q DEF Release, Call, Reject
    <3>5. CASE Watch
      BY <3>5, <2>1, <1>g, <1>q DEF Watch, Call, Reject
    <3>6. CASE Abandon \/ RequestRefused \/ Describe
      BY <3>6, <2>1, <1>g, <1>q DEF Abandon, RequestRefused, Describe, Reject
    <3> QED
      BY <1>2, <3>1, <3>2, <3>3, <3>4, <3>5, <3>6 DEF Client
  <2> QED
    BY <2>1, <2>2, <1>w
<1>3. CASE RequestProceeds
  <2>1. /\ pc = "ready" /\ pc' = "registered" /\ UNCHANGED <<vars, answers>>
        /\ \A i \in 1 .. Len(answers) : answers[i].id # reqId'
    BY <1>3, ProceedFacts
  <2> QED
    BY <2>1, <1>g
<1>4. CASE ReceiveAnswer
  <2>1. /\ UNCHANGED <<owner, waiting, reqId>> /\ "abandoned" \notin mishaps
        /\ answers # << >> /\ answers' = Tail(answers)
        /\ \/ pc' = pc /\ got' = got
           \/ /\ pc = "registered" /\ pc' = "answered"
              /\ \E k \in 1 .. Len(answers) : answers[k].id = reqId /\ got' = answers[k].kind
    BY <1>4, <1>g, ReceiveFacts
  <2>2. \A i \in 1 .. Len(answers') : \E k \in 1 .. Len(answers) : answers'[i] = answers[k]
    BY <2>1, <1>q, TakeOld
  <2>3. Told(pc, got, answers, reqId) /\ pc # "ended"
    BY <2>1, <2>2, <1>g
  <2> QED
    BY <2>1, <2>3, <1>w
<1>5. CASE HandleRequest
  <2>1. /\ UNCHANGED <<vars, pc, call, reqId, got, mishaps>> /\ sent # << >>
        /\ 1 \in 1 .. Len(sent) /\ Head(sent) = sent[1]
    BY <1>5, <1>q, HandleFacts, TakeProps
  <2>2. PICK reply \in Reply :
             /\ reply.id = Head(sent).id /\ answers' = Append(answers, reply)
             /\ reply.kind \in {"missed", "released"} => owner' # "us"
             /\ reply.kind = "missed" => Head(sent).kind = "try" /\ waiting' = waiting
             /\ reply.kind = "released" => ~waiting'
    BY <1>5, HandleFacts
  <2>3. pc = "registered" /\ sent[1].id = reqId /\ sent[1].kind = Kind
    BY <2>1, <1>g DEF Awaited
  <2>4. \A i \in 1 .. Len(answers) : answers[i].id # reqId
    BY <2>1, <2>3 DEF Apart
  <2>5. \A i \in 1 .. Len(answers') :
          answers'[i] = reply \/ \E k \in 1 .. Len(answers) : answers'[i] = answers[k]
    BY <2>2, <1>q, PutOld
  <2>6. reply.kind \in {"missed", "released"}
    BY <2>1, <2>3, <2>4, <2>5, <1>g
  <2>7. ASSUME reply.kind = "missed" PROVE ~waiting
    <3>1. call = "try"
      BY <2>1, <2>2, <2>3, <2>7 DEF Kind
    <3> QED
      BY <3>1 DEF Patient
  <2> QED
    BY <2>2, <2>6, <2>7
<1>6. CASE WaitTimesOut \/ OtherAcquires \/ OtherReleases
  <2>1. /\ UNCHANGED <<vars, pc, reqId, got, mishaps>>
        /\ (waiting' => waiting) /\ (owner' = "us" => owner = "us" \/ waiting)
        /\ \/ answers' = answers
           \/ \E reply \in Reply :
                /\ answers' = Append(answers, reply) /\ reply.kind # "released"
                /\ reply.kind = "missed" => owner' # "us" /\ ~waiting'
    BY <1>6, ChangeFacts
  <2>2. CASE Told(pc, got, answers, reqId)
    BY <2>1, <2>2, <1>w, <1>g
  <2>3. CASE ~Told(pc, got, answers, reqId)
    <3>1. PICK reply \in Reply :
            /\ answers' = Append(answers, reply) /\ reply.kind # "released"
            /\ reply.kind = "missed" => owner' # "us" /\ ~waiting'
      BY <2>1, <2>3, <1>g
    <3>2. \A i \in 1 .. Len(answers') :
            answers'[i] = reply \/ \E k \in 1 .. Len(answers) : answers'[i] = answers[k]
      BY <3>1, <1>q, PutOld
    <3> QED
      BY <2>1, <2>3, <3>1, <3>2, <1>g
  <2> QED
    BY <2>2, <2>3
<1>7. CASE UNCHANGED allVars
  BY <1>7, <1>g, <1>w DEF allVars, callVars, clientVars, semaphoreVars
<1> QED
  BY <1>1, <1>2, <1>3, <1>4, <1>5, <1>6, <1>7, StepCases DEF Continue

-----------------------------------------------------------------------------
(* What follows *)

\* The first state satisfies the invariant.
LEMMA CallsInvInit == CallsInit => CallsInv
<1> SUFFICES ASSUME CallsInit PROVE CallsInv
  OBVIOUS
<1> USE DEF CallsInit
<1>1. SessionInv
  BY InvInit
<1>2. << >> \in Seq(Request) /\ << >> \in Seq(Reply) /\ Len(<< >>) = 0
  BY NothingProps
<1>3. CallsTypeOK
  BY <1>2 DEF CallsTypeOK, Phase, Owner
<1>4. Apart /\ Awaited /\ Patient /\ Granted /\ Given
  BY <1>2 DEF Apart, Awaited, Patient, Granted, Given
<1>5. Carried
  BY DEF Carried
<1> QED
  BY <1>1, <1>3, <1>4, <1>5 DEF CallsInv

\* Every step keeps it.
LEMMA CallsInvStep == CallsInv /\ [CallsNext]_allVars => CallsInv'
<1> SUFFICES ASSUME CallsInv, [CallsNext]_allVars PROVE CallsInv'
  OBVIOUS
<1>1. SessionInv /\ CallsTypeOK /\ Apart /\ Awaited
  BY DEF CallsInv
<1>2. SessionInv'
  BY <1>1, SessionStep, InvStep
<1>3. CallsTypeOK'
  BY <1>1, CallsTypeStep
<1> QED
  BY <1>2, <1>3, ApartStep, CarriedStep, AwaitedStep, PatientStep, GrantedStep, GivenStep
  DEF CallsInv

\* CallsInv is an invariant for every number of faults, acquires, changes of owner and ids
\* in use: the requests and answers under way match the calls they belong to.
THEOREM CallsInvariant == CallsSpec => []CallsInv
  BY CallsInvInit, CallsInvStep, PTL DEF CallsSpec

\* Mutual exclusion over reconnects: once everything under way has arrived and the session
\* is up, the holder of a lease owns the semaphore.  The answer that granted it was to a
\* request of this session, only the session's own release takes it away, and no release is
\* under way while the lease is held.
THEOREM LeaseOwnsHolds == CallsSpec => []LeaseOwns
<1>1. ASSUME CallsInv PROVE LeaseOwns
  <2> SUFFICES ASSUME pc = "held", Quiet PROVE owner = "us"
    BY DEF LeaseOwns
  <2>1. state = "ready" /\ outputs = << >> /\ down = << >>
    BY DEF Quiet
  <2>2. state \in Live /\ \A type : ~Emitted(type)
    BY <2>1, EmittedNone DEF Live
  <2>3. transport = "ready"
    BY <1>1, <2>1, <2>2 DEF CallsInv, SessionInv, Follows
  <2>4. stream \notin {"none", "opening"}
    BY <1>1, <2>3 DEF CallsInv, SessionInv, StreamStages
  <2>5. stream # "done"
    BY <1>1, <2>1, <2>2, RefusedNone DEF CallsInv, SessionInv, StreamStages
  <2>6. served \in alive
    BY <1>1, <2>4, <2>5 DEF CallsInv, SessionInv, StreamStages, TypeOK
  <2> QED
    BY <1>1, <2>2, <2>6 DEF CallsInv, Granted
<1> QED
  BY <1>1, CallsInvariant, PTL

\* No lock is left behind: a client that has released, or has missed, or never asked, has no
\* request under way that could take the semaphore after all, unless it abandoned one.
THEOREM NoGhostLockHolds == CallsSpec => []NoGhostLock
<1>1. CallsInv => NoGhostLock
  BY DEF CallsInv, Given, NoGhostLock
<1> QED
  BY <1>1, CallsInvariant, PTL

\* The two machines agree also while calls are under way.
THEOREM MachinesAgreeOnCalls == CallsSpec => []Agreement
  BY CallsKeepSession, MachinesAgree, PTL

\* The session keeps its id also while calls are under way: what is acquired before a
\* reconnect and released after it is the same session's.
THEOREM SessionKeepsItsIdOnCalls == CallsSpec => SameSession
  BY CallsKeepSession, SessionKeepsItsId, PTL
=============================================================================
