---------------------------- MODULE EndpointsProofs ----------------------------
(* Proofs about Endpoints, for every finite set of nodes and every set of       *)
(* clients, calls and bounds: discovery is single-flight, once ready() resolved *)
(* a balanced call finds a node, a confirmed pin stays, and no call is cut      *)
(* while no node vanishes twice or is both discovered and pinned.               *)
EXTENDS Endpoints, FiniteSetTheorems, TLAPS

--------------------------------------------------------------------------------
(* Single-flight discovery *)

\* The backoff timer is the only thing that starts a round without looking at the
\* flag, before the first round succeeded: then no round is under way.
FlightInv ==
    /\ roundInFlight \in BOOLEAN
    /\ rounds = IF roundInFlight THEN 1 ELSE 0
    /\ state = "discovering" /\ backoff => ~roundInFlight

\* What the rounds' bookkeeping does when everything ends at once.
AllOver ==
    /\ state' = "closed"
    /\ roundInFlight' = FALSE
    /\ rounds' = 0

\* What it does when a graceful close begins or goes on.
GoesOn ==
    /\ state' \in {"closing", "closed"}
    /\ \/ AllOver
       \/ UNCHANGED <<roundInFlight, rounds>>

(* The discovery state is left for good with the first round.                   *)
LEMMA HealthIsServing == ASSUME NEW reg PROVE HealthState(reg) \in Serving
BY DEF HealthState, Serving

(* Both ways a close proceeds.                                                  *)
LEMMA CloseGoesOn ==
    ASSUME NEW nodes, NEW waited, NEW counts, NEW calls, NEW outs,
           CloseNodes(nodes, waited, counts, calls, outs)
    PROVE  GoesOn
BY DEF CloseNodes, Terminate, GoesOn, AllOver

(* The end of the machine ends the round under way.                             *)
LEMMA AllOverKeeps == AllOver => FlightInv'
BY DEF AllOver, FlightInv

(* A close leaves the bookkeeping alone or ends it.                             *)
LEMMA GoesOnKeeps == FlightInv /\ GoesOn => FlightInv'
<1> SUFFICES ASSUME FlightInv, GoesOn PROVE FlightInv'
  OBVIOUS
<1>1. state' # "discovering"
  BY DEF GoesOn
<1>2. CASE AllOver
  BY <1>2, AllOverKeeps
<1>3. CASE UNCHANGED <<roundInFlight, rounds>>
  BY <1>1, <1>3 DEF FlightInv
<1> QED
  BY <1>2, <1>3 DEF GoesOn

(* A state that serves asks the flag before it starts a round.                  *)
LEMMA ServingKeeps ==
    ASSUME FlightInv, state' # "discovering",
           \/ UNCHANGED <<roundInFlight, rounds>>
           \/ ~roundInFlight /\ roundInFlight' = TRUE /\ rounds' = rounds + 1
           \/ rounds > 0 /\ roundInFlight' = FALSE /\ rounds' = rounds - 1
    PROVE  FlightInv'
<1>1. /\ roundInFlight \in BOOLEAN
      /\ roundInFlight => rounds = 1
      /\ ~roundInFlight => rounds = 0
  BY DEF FlightInv
<1>2. CASE UNCHANGED <<roundInFlight, rounds>>
  BY <1>2 DEF FlightInv
<1>3. CASE ~roundInFlight /\ roundInFlight' = TRUE /\ rounds' = rounds + 1
  <2>1. rounds' = 1
    BY <1>1, <1>3
  <2> QED
    BY <1>3, <2>1 DEF FlightInv
<1>4. CASE rounds > 0 /\ roundInFlight' = FALSE /\ rounds' = rounds - 1
  <2>1. roundInFlight
    BY <1>1, <1>4
  <2>2. rounds' = 0
    BY <1>1, <1>4, <2>1
  <2> QED
    BY <1>4, <2>2 DEF FlightInv
<1> QED
  BY <1>2, <1>3, <1>4

(* A step that touches nothing of it keeps the invariant.                       *)
LEMMA IdleKeeps ==
    FlightInv /\ UNCHANGED <<state, roundInFlight, backoff, rounds>> => FlightInv'
BY DEF FlightInv

(* Every discovery step keeps the invariant.                                    *)
LEMMA DiscoveryKeeps == FlightInv /\ Discovery => FlightInv'
<1> SUFFICES ASSUME FlightInv, Discovery PROVE FlightInv'
  OBVIOUS
<1>1. ASSUME NEW found \in SUBSET Discovered, NEW moved \in SUBSET Discovered,
             RoundSucceeds(found, moved)
      PROVE  FlightInv'
  <2>1. state' \in Serving
    BY <1>1, HealthIsServing DEF RoundSucceeds, ApplyRound
  <2>2. state' # "discovering"
    BY <2>1 DEF Serving
  <2> QED
    BY <1>1, <2>2, ServingKeeps DEF RoundSucceeds
<1>2. CASE RoundFails
  <2>1. rounds = 1
    BY <1>2 DEF RoundFails, FlightInv
  <2>2. rounds' = 0 /\ roundInFlight' = FALSE
    BY <1>2, <2>1 DEF RoundFails
  <2> QED
    BY <2>2 DEF FlightInv
<1>3. CASE FirstRoundRefused
  BY <1>3, AllOverKeeps DEF FirstRoundRefused, Terminate, AllOver
<1>4. CASE RoundAfterClosing
  BY <1>4, ServingKeeps DEF RoundAfterClosing, registryVars
<1>5. CASE BackoffFires
  <2>1. CASE state = "discovering"
    BY <1>5, <2>1 DEF BackoffFires, StartRound, Serving, FlightInv, registryVars
  <2>2. CASE state # "discovering"
    <3>1. state \in Serving /\ state' = state
      BY <1>5, <2>2 DEF BackoffFires, Live, Serving, registryVars
    <3> QED
      BY <1>5, <2>2, <3>1, ServingKeeps DEF BackoffFires, StartRound
  <2> QED
    BY <2>1, <2>2
<1>6. CASE IntervalFires
  <2>1. state' # "discovering"
    BY <1>6 DEF IntervalFires, Serving, registryVars
  <2> QED
    BY <1>6, <2>1, ServingKeeps DEF IntervalFires, StartRound
<1>7. ASSUME NEW broken \in SUBSET Discovered, IdleSweep(broken) PROVE FlightInv'
  BY <1>7, IdleKeeps DEF IdleSweep, discoveryVars
<1> QED
  BY <1>1, <1>2, <1>3, <1>4, <1>5, <1>6, <1>7 DEF Discovery

(* So does every step of the clients.                                           *)
LEMMA ClientKeeps == FlightInv /\ Client => FlightInv'
<1> SUFFICES ASSUME FlightInv, Client PROVE FlightInv'
  OBVIOUS
<1>1. ASSUME NEW c \in Call, NEW outcome \in Outcome, CallEnds(c, outcome) PROVE FlightInv'
  <2> DEFINE n == call[c].node
  <2>1. \/ GoesOn
        \/ Penalize(n)
        \/ Recover(n)
        \/ UNCHANGED <<state, registry, outputs, discoveryVars>>
    BY <1>1, CloseGoesOn DEF CallEnds, Outcome
  <2>2. CASE Penalize(n)
    <3>1. CASE state \in Serving
      <4>1. state' \in Serving
        BY <2>2, <3>1, HealthIsServing DEF Penalize
      <4>2. state' # "discovering"
        BY <4>1 DEF Serving
      <4> QED
        BY <2>2, <4>2, ServingKeeps DEF Penalize, StartRound, discoveryVars
    <3>2. CASE state \notin Serving
      BY <2>2, <3>2, IdleKeeps DEF Penalize, discoveryVars
    <3> QED
      BY <3>1, <3>2
  <2>3. CASE Recover(n)
    <3>1. CASE state \in Serving
      <4>1. state' \in Serving
        BY <2>3, <3>1, HealthIsServing DEF Recover
      <4>2. state' # "discovering"
        BY <4>1 DEF Serving
      <4> QED
        BY <2>3, <4>2, ServingKeeps DEF Recover, discoveryVars
    <3>2. CASE state \notin Serving
      BY <2>3, <3>2, IdleKeeps DEF Recover, discoveryVars
    <3> QED
      BY <3>1, <3>2
  <2> QED
    BY <2>1, <2>2, <2>3, GoesOnKeeps, IdleKeeps DEF discoveryVars
<1>2. ASSUME NEW h \in Handle, NEW renewed \in BOOLEAN, Pin(h, renewed) PROVE FlightInv'
  BY <1>2, IdleKeeps DEF Pin, discoveryVars
<1>3. ASSUME NEW h \in Handle, Invalidate(h) PROVE FlightInv'
  BY <1>3, IdleKeeps, AllOverKeeps DEF Invalidate, Terminate, AllOver, discoveryVars
<1>4. CASE Close
  BY <1>4, CloseGoesOn, GoesOnKeeps DEF Close
<1>5. CASE CloseDeadline \/ Destroy
  BY <1>5, AllOverKeeps DEF CloseDeadline, Destroy, Terminate, AllOver
<1> QED
  BY <1>1, <1>2, <1>3, <1>4, <1>5 DEF Client

(* Every step keeps the invariant.                                              *)
LEMMA FlightStep == FlightInv /\ [Next]_vars => FlightInv'
<1> SUFFICES ASSUME FlightInv, [Next]_vars PROVE FlightInv'
  OBVIOUS
<1>1. CASE Discovery
  BY <1>1, DiscoveryKeeps
<1>2. CASE Client
  BY <1>2, ClientKeeps
<1>3. ASSUME NEW c \in Call, NEW n \in Node, NEW hard \in BOOLEAN, CreateCall(c, n, hard)
      PROVE  FlightInv'
  BY <1>3, IdleKeeps DEF CreateCall, registryVars, discoveryVars
<1>4. CASE Drain
  BY <1>4, IdleKeeps DEF Drain, registryVars, discoveryVars
<1>5. CASE UNCHANGED vars
  BY <1>5, IdleKeeps DEF vars, registryVars, discoveryVars
<1> QED
  BY <1>1, <1>2, <1>3, <1>4, <1>5 DEF Next

(* Discovery is single-flight: the flag counts the ListEndpoints calls under    *)
(* way, whoever starts them and however the pool ends.                          *)
THEOREM SingleFlightHolds == Spec => []SingleFlight
<1>1. Init => FlightInv
  BY DEF Init, FlightInv
<1>2. FlightInv => SingleFlight
  BY DEF FlightInv, SingleFlight
<1> QED
  BY <1>1, <1>2, FlightStep, PTL DEF Spec

--------------------------------------------------------------------------------
(* A target for every balanced call *)

Sub == Routable \cup {"absent", "retired"}

\* A registry that routes, and an output that keeps it so.
Fits(reg) == \E n \in Node : reg[n] \in Routable
Good(out) == out.type = "snapshot" => Fits(out.snapshot.registry)

Output ==
    [type : {"ready", "failed", "closed"}]
    \cup [type : {"pin_applied"}, handle : Handle]
    \cup [type : {"snapshot"}, snapshot : [registry : [Node -> Sub], pinned : SUBSET Node]]

\* Who has read "ready" holds a snapshot that routes, and so is all that is still to
\* read; "ready" itself is right behind such a snapshot.
Announced ==
    /\ ready = "resolved" =>
         /\ Fits(snapshot.registry)
         /\ \A i \in 1..Len(outputs) : Good(outputs[i])
    /\ \A i \in 1..Len(outputs) : outputs[i].type = "ready" =>
         /\ \A j \in i..Len(outputs) : Good(outputs[j])
         /\ i = 1 => Fits(snapshot.registry)
         /\ i > 1 => outputs[i - 1].type = "snapshot" /\ Good(outputs[i - 1])

\* Before the first round there was no "ready".
Unannounced ==
    /\ ready # "resolved"
    /\ \A i \in 1..Len(outputs) : outputs[i].type # "ready"

RouteInv ==
    /\ registry \in [Node -> Sub]
    /\ outputs \in Seq(Output)
    /\ state = "discovering" => Unannounced
    /\ state \in Serving => Fits(registry) /\ Announced

(* The routing rule finds a node exactly when the registry has a routable one.  *)
LEMMA BalancedFinds == ASSUME NEW s PROVE Fits(s.registry) <=> Balanced(s) # {}
BY DEF Fits, Balanced, In, Routable

(* The kinds of outputs.                                                        *)
LEMMA OutputKinds ==
    /\ \A type \in {"ready", "failed", "closed"} : Out(type) \in Output /\ Good(Out(type))
    /\ \A h \in Handle :
         /\ [type |-> "pin_applied", handle |-> h] \in Output
         /\ Good([type |-> "pin_applied", handle |-> h])
BY DEF Output, Out, Good

(* A snapshot is an output, and good when its registry routes.                  *)
LEMMA SnapshotKind ==
    ASSUME NEW reg \in [Node -> Sub], NEW held
    PROVE  /\ SnapshotOut(reg, held) \in Output
           /\ SnapshotOut(reg, held).type = "snapshot"
           /\ Fits(reg) => Good(SnapshotOut(reg, held))
BY DEF Output, SnapshotOut, Snapshot, Good

(* Sequences of one and two.                                                    *)
LEMMA ShortQueues ==
    ASSUME NEW a \in Output, NEW b \in Output
    PROVE  /\ <<>> \in Seq(Output) /\ Len(<<>>) = 0
           /\ <<a>> \in Seq(Output) /\ Len(<<a>>) = 1 /\ <<a>>[1] = a
           /\ <<a, b>> \in Seq(Output) /\ Len(<<a, b>>) = 2
           /\ <<a, b>>[1] = a /\ <<a, b>>[2] = b
OBVIOUS

(* What a concatenation consists of.                                            *)
LEMMA Joined ==
    ASSUME NEW s \in Seq(Output), NEW t \in Seq(Output)
    PROVE  /\ s \o t \in Seq(Output)
           /\ Len(s) \in Nat /\ Len(t) \in Nat /\ Len(s \o t) = Len(s) + Len(t)
           /\ \A i \in 1..Len(s) : (s \o t)[i] = s[i]
           /\ \A i \in 1..Len(t) : (s \o t)[Len(s) + i] = t[i]
           /\ \A i \in Len(s) + 1..Len(s) + Len(t) : (s \o t)[i] = t[i - Len(s)]
OBVIOUS

(* The nodes removed one after the other: each snapshot still names whatever    *)
(* else routes.                                                                 *)
LEMMA RemovalsRoute ==
    ASSUME NEW reg \in [Node -> Sub], NEW gone \in SUBSET Node,
           NEW n \in Node \ gone, reg[n] \in Routable
    PROVE  /\ Removals(reg, gone) \in Seq(Output)
           /\ \A i \in 1..Len(Removals(reg, gone)) :
                /\ Removals(reg, gone)[i].type = "snapshot"
                /\ Good(Removals(reg, gone)[i])
<1> DEFINE order == SetToSeq(gone)
           k == Cardinality(gone)
           without(i) == [m \in Node |->
                            IF m \in {order[j] : j \in 1..i} THEN "absent" ELSE reg[m]]
<1>1. IsFiniteSet(gone)
  BY FS_Subset, EndpointsAssumption
<1>2. k \in Nat /\ \E f \in [1..k -> gone] : IsInjective(f)
  BY <1>1, FS_CardinalityType DEF ExistsBijection, Bijection, Injection, IsInjective
<1>3. order \in [1..k -> gone]
  BY <1>2 DEF SetToSeq
<1>4. order \in Seq(gone) /\ Len(order) = k
  BY <1>2, <1>3
<1>5. ASSUME NEW i \in 1..k
      PROVE  /\ SnapshotOut(without(i), pins) \in Output
             /\ SnapshotOut(without(i), pins).type = "snapshot"
             /\ Good(SnapshotOut(without(i), pins))
  <2>1. without(i) \in [Node -> Sub]
    BY DEF Sub
  <2>2. \A j \in 1..i : order[j] \in gone
    BY <1>2, <1>3
  <2>3. without(i)[n] \in Routable
    BY <2>2
  <2>4. Fits(without(i))
    BY <2>3 DEF Fits
  <2> HIDE DEF without
  <2> QED
    BY <2>1, <2>4, SnapshotKind
<1>6. Removals(reg, gone) = [i \in 1..k |-> SnapshotOut(without(i), pins)]
  BY <1>4 DEF Removals
<1> HIDE DEF without, k
<1>7. Removals(reg, gone) \in Seq(Output) /\ Len(Removals(reg, gone)) = k
  BY <1>2, <1>5, <1>6
<1> QED
  BY <1>5, <1>6, <1>7

(* What is appended to the queue of a pool that serves must route.              *)
LEMMA EmitKeeps ==
    ASSUME outputs \in Seq(Output), NEW outs \in Seq(Output), Emit(outs), UNCHANGED readVars,
           Announced,
           \A i \in 1..Len(outs) : Good(outs[i]),
           \A i \in 1..Len(outs) : outs[i].type = "ready" => i > 1 /\ outs[i - 1].type = "snapshot"
    PROVE  Announced'
<1> DEFINE l == Len(outputs)
<1>1. /\ outputs' \in Seq(Output)
      /\ l \in Nat /\ Len(outs) \in Nat /\ Len(outputs') = l + Len(outs)
      /\ \A i \in 1..l : outputs'[i] = outputs[i]
      /\ \A i \in l + 1..l + Len(outs) : outputs'[i] = outs[i - l]
      /\ ready' = ready /\ snapshot' = snapshot
  BY Joined DEF Emit, readVars
<1>2. \A i \in l + 1..Len(outputs') : Good(outputs'[i])
  BY <1>1
<1>3. ASSUME ready = "resolved", NEW i \in 1..Len(outputs') PROVE Good(outputs'[i])
  <2>1. CASE i \in 1..l
    <3>1. Good(outputs[i])
      BY <1>3, <2>1 DEF Announced
    <3> QED
      BY <1>1, <2>1, <3>1
  <2>2. CASE i \notin 1..l
    <3>1. i \in l + 1..Len(outputs')
      BY <1>1, <2>2
    <3> QED
      BY <1>2, <3>1
  <2> QED
    BY <2>1, <2>2
<1>4. ASSUME NEW i \in 1..Len(outputs'), outputs'[i].type = "ready"
      PROVE  /\ \A j \in i..Len(outputs') : Good(outputs'[j])
             /\ i = 1 => Fits(snapshot.registry)
             /\ i > 1 => outputs'[i - 1].type = "snapshot" /\ Good(outputs'[i - 1])
  <2>1. CASE i <= l
    <3>1. /\ \A j \in i..l : Good(outputs[j])
          /\ i = 1 => Fits(snapshot.registry)
          /\ i > 1 => outputs[i - 1].type = "snapshot" /\ Good(outputs[i - 1])
      BY <1>1, <1>4, <2>1 DEF Announced
    <3>2. i > 1 => outputs'[i - 1] = outputs[i - 1]
      BY <1>1, <2>1
    <3>3. ASSUME NEW j \in i..Len(outputs') PROVE Good(outputs'[j])
      <4>1. CASE j <= l
        <5>1. j \in i..l /\ j \in 1..l
          BY <1>1, <1>4, <2>1, <4>1
        <5> QED
          BY <1>1, <3>1, <5>1
      <4>2. CASE j > l
        <5>1. j \in l + 1..Len(outputs')
          BY <1>1, <4>2
        <5> QED
          BY <1>2, <5>1
      <4> QED
        BY <1>1, <4>1, <4>2
    <3> QED
      BY <3>1, <3>2, <3>3
  <2>2. CASE i > l
    <3>1. /\ i - l \in 1..Len(outs) /\ outs[i - l].type = "ready"
          /\ i - l > 1 => i - 1 \in l + 1..l + Len(outs) /\ (i - 1) - l = (i - l) - 1
      BY <1>1, <1>4, <2>2
    <3>2. i - l > 1 /\ outs[(i - l) - 1].type = "snapshot" /\ Good(outs[(i - l) - 1])
      BY <1>1, <3>1
    <3>3. outputs'[i - 1] = outs[(i - l) - 1]
      BY <1>1, <3>1, <3>2
    <3>4. i > 1
      BY <1>1, <2>2, <3>2
    <3>5. \A j \in i..Len(outputs') : Good(outputs'[j])
      BY <1>1, <1>2, <2>2
    <3> QED
      BY <3>2, <3>3, <3>4, <3>5
  <2> QED
    BY <1>1, <2>1, <2>2
<1> QED
  BY <1>1, <1>3, <1>4 DEF Announced

(* A pool that was never ready has announced nothing.                           *)
LEMMA NothingAnnounced == Unannounced => Announced
BY DEF Unannounced, Announced

(* A step of the pool that emits what fits keeps the invariant; the states that *)
(* neither serve nor discover owe nothing.                                      *)
LEMMA StaysOrEnds ==
    ASSUME RouteInv, NEW outs \in Seq(Output), Emit(outs), UNCHANGED readVars,
           registry' \in [Node -> Sub],
           state' = "discovering" => state = "discovering",
           state' \in Serving => Fits(registry'),
           state' \in Serving => \A i \in 1..Len(outs) : Good(outs[i]),
           state' \in Serving => state \in Live,
           \A i \in 1..Len(outs) : outs[i].type = "ready" =>
               state' # "discovering" /\ i > 1 /\ outs[i - 1].type = "snapshot"
    PROVE  RouteInv'
<1>1. outputs' \in Seq(Output)
  BY Joined DEF Emit, RouteInv
<1>2. ASSUME state' = "discovering" PROVE Unannounced'
  <2>1. Unannounced /\ outputs \in Seq(Output)
    BY <1>2 DEF RouteInv
  <2>2. \A i \in 1..Len(outs) : outs[i].type # "ready"
    BY <1>2
  <2>3. ASSUME NEW i \in 1..Len(outputs') PROVE outputs'[i].type # "ready"
    <3>1. CASE i \in 1..Len(outputs)
      BY <2>1, <3>1, Joined DEF Emit, Unannounced
    <3>2. CASE i \notin 1..Len(outputs)
      <4>1. /\ i \in Len(outputs) + 1..Len(outputs) + Len(outs)
            /\ i - Len(outputs) \in 1..Len(outs)
        BY <2>1, <3>2, Joined DEF Emit
      <4>2. outputs'[i] = outs[i - Len(outputs)]
        BY <2>1, <4>1, Joined DEF Emit
      <4> QED
        BY <2>2, <4>1, <4>2
    <3> QED
      BY <3>1, <3>2
  <2> QED
    BY <2>1, <2>3 DEF Unannounced, readVars
<1>3. ASSUME state' \in Serving PROVE Announced'
  <2>1. Announced
    BY <1>3, NothingAnnounced DEF RouteInv, Live, Serving
  <2> QED
    BY <1>3, <2>1, EmitKeeps DEF RouteInv
<1> QED
  BY <1>1, <1>2, <1>3 DEF RouteInv

(* A step that leaves routing and reading alone keeps the invariant.            *)
LEMMA RestKeeps ==
    RouteInv /\ UNCHANGED <<state, registry, outputs, readVars>> => RouteInv'
<1> SUFFICES ASSUME RouteInv, UNCHANGED <<state, registry, outputs, readVars>> PROVE RouteInv'
  OBVIOUS
<1>1. Unannounced' = Unannounced
  BY DEF Unannounced, readVars
<1>2. Announced' = Announced
  BY DEF Announced, readVars
<1>3. Fits(registry)' = Fits(registry)
  BY DEF Fits
<1> QED
  BY <1>1, <1>2, <1>3 DEF RouteInv

(* The end, whichever step brings it.                                           *)
LEMMA TerminateKeeps ==
    ASSUME RouteInv, NEW counts, NEW calls, NEW standing, NEW outs \in Seq(Output),
           \A i \in 1..Len(outs) : outs[i].type # "ready",
           Terminate(counts, calls, standing, outs), UNCHANGED readVars
    PROVE  RouteInv'
<1>1. state' = "closed" /\ registry' \in [Node -> Sub]
  BY DEF Terminate, NoEntries, Sub
<1>2. /\ SnapshotOut(NoEntries, NoCount) \in Output
      /\ Out("closed") \in Output
      /\ SnapshotOut(NoEntries, NoCount).type # "ready"
      /\ Out("closed").type # "ready"
  BY SnapshotKind, OutputKinds DEF NoEntries, Sub, Out
<1> DEFINE last == <<SnapshotOut(NoEntries, NoCount), Out("closed")>>
<1>3. last \in Seq(Output) /\ \A i \in 1..Len(last) : last[i].type # "ready"
  BY <1>2, ShortQueues
<1>4. Emit(outs \o last)
  BY DEF Terminate
<1> HIDE DEF last
<1>5. outs \o last \in Seq(Output)
  BY <1>3, Joined
<1>6. ASSUME NEW i \in 1..Len(outs \o last) PROVE (outs \o last)[i].type # "ready"
  <2>1. CASE i \in 1..Len(outs)
    BY <2>1, <1>3, Joined
  <2>2. CASE i \notin 1..Len(outs)
    <3>1. /\ i \in Len(outs) + 1..Len(outs) + Len(last)
          /\ i - Len(outs) \in 1..Len(last)
      BY <1>3, <2>2, Joined
    <3>2. (outs \o last)[i] = last[i - Len(outs)]
      BY <1>3, <3>1, Joined
    <3> QED
      BY <1>3, <3>1, <3>2
  <2> QED
    BY <2>1, <2>2
<1> QED
  BY <1>1, <1>4, <1>5, <1>6, StaysOrEnds DEF Serving

(* A close, as far as it gets.                                                  *)
LEMMA CloseNodesKeeps ==
    ASSUME RouteInv, NEW nodes, NEW waited, NEW counts, NEW calls, NEW outs \in Seq(Output),
           \A i \in 1..Len(outs) : outs[i].type # "ready",
           CloseNodes(nodes, waited, counts, calls, outs), UNCHANGED readVars
    PROVE  RouteInv'
<1>1. CASE Terminate(counts, calls, "cut", outs)
  BY <1>1, TerminateKeeps
<1>2. CASE /\ state' = "closing"
           /\ registry' = Forget(registry, nodes, "absent")
           /\ Emit(outs)
  <2>1. registry' \in [Node -> Sub]
    BY <1>2 DEF Forget, Sub, RouteInv
  <2> QED
    BY <1>2, <2>1, StaysOrEnds DEF Serving
<1> QED
  BY <1>1, <1>2 DEF CloseNodes

(* A round that names nodes routes to each of them, and so does every snapshot  *)
(* of the removals behind it.                                                   *)
LEMMA RoundRoutes ==
    ASSUME RouteInv, NEW found \in SUBSET Discovered, NEW moved \in SUBSET Discovered,
           RoundSucceeds(found, moved)
    PROVE  RouteInv'
<1> DEFINE vanishing == {n \in Node \ found : registry[n] \in Routable}
           undialed == {n \in vanishing : store[n] # "channels"}
           applied == [n \in Node |-> IF n \in found THEN "active"
                                      ELSE IF n \in vanishing THEN "retired"
                                      ELSE registry[n]]
           first == <<SnapshotOut(applied, pins)>>
           second == IF state = "discovering" THEN <<Out("ready")>> ELSE <<>>
           third == Removals(applied, undialed)
           news == first \o second
<1>1. /\ Emit(news \o third)
      /\ registry' = [n \in Node |-> IF n \in undialed THEN "absent" ELSE applied[n]]
      /\ state' = HealthState(applied)
      /\ state \in Live
      /\ UNCHANGED readVars
  BY DEF RoundSucceeds, ApplyRound
<1>2. PICK n \in found : TRUE
  BY DEF RoundSucceeds, Usable
<1>3. /\ n \in Node \ undialed
      /\ applied[n] = "active"
      /\ applied[n] \in Routable
  BY <1>2, EndpointsAssumption DEF Routable
<1>4. applied \in [Node -> Sub] /\ registry' \in [Node -> Sub] /\ undialed \in SUBSET Node
  BY <1>1 DEF Sub, RouteInv, Routable
<1>5. Fits(applied)
  BY <1>3 DEF Fits
<1>6. Fits(registry')
  BY <1>1, <1>3 DEF Fits
<1>7. /\ third \in Seq(Output)
      /\ \A i \in 1..Len(third) : third[i].type = "snapshot" /\ Good(third[i])
  BY <1>3, <1>4, RemovalsRoute
<1> HIDE DEF third, applied, undialed, vanishing
<1>8. /\ first \in Seq(Output) /\ Len(first) = 1 /\ first[1].type = "snapshot" /\ Good(first[1])
  BY <1>4, <1>5, SnapshotKind, ShortQueues
<1>9. /\ second \in Seq(Output) /\ Len(second) \in {0, 1}
      /\ \A i \in 1..Len(second) : Good(second[i])
  BY OutputKinds, ShortQueues
<1> HIDE DEF first, second
<1>10. /\ news \in Seq(Output) /\ Len(news) = 1 + Len(second)
       /\ news[1].type = "snapshot" /\ Good(news[1])
       /\ \A i \in 2..Len(news) : i - 1 = 1 /\ Good(news[i])
  <2>1. /\ news \in Seq(Output) /\ Len(news) = 1 + Len(second) /\ Len(second) \in Nat
        /\ news[1] = first[1]
        /\ \A i \in 1 + 1..1 + Len(second) : news[i] = second[i - 1]
    BY <1>8, <1>9, Joined
  <2>2. ASSUME NEW i \in 2..Len(news) PROVE i - 1 = 1 /\ Good(news[i])
    <3>1. Len(second) = 1 /\ i = 2
      BY <1>9, <2>1
    <3> QED
      BY <1>9, <2>1, <3>1
  <2> QED
    BY <1>8, <2>1, <2>2
<1> HIDE DEF news
<1>11. /\ news \o third \in Seq(Output)
       /\ Len(news) \in Nat /\ Len(third) \in Nat
       /\ Len(news \o third) = Len(news) + Len(third)
       /\ \A i \in 1..Len(news) : (news \o third)[i] = news[i]
       /\ \A i \in Len(news) + 1..Len(news) + Len(third) :
            (news \o third)[i] = third[i - Len(news)]
  BY <1>7, <1>10, Joined
<1>12. \A i \in Len(news) + 1..Len(news) + Len(third) : i - Len(news) \in 1..Len(third)
  BY <1>11
<1>13. ASSUME NEW i \in 1..Len(news \o third) PROVE Good((news \o third)[i])
  <2>1. CASE i = 1
    BY <1>10, <1>11, <2>1
  <2>2. CASE i \in 2..Len(news)
    BY <1>10, <1>11, <2>2
  <2>3. CASE i \in Len(news) + 1..Len(news) + Len(third)
    BY <1>7, <1>11, <1>12, <2>3
  <2> QED
    BY <1>11, <2>1, <2>2, <2>3
<1>14. ASSUME NEW i \in 1..Len(news \o third), (news \o third)[i].type = "ready"
       PROVE  i > 1 /\ (news \o third)[i - 1].type = "snapshot"
  <2>1. CASE i = 1
    <3>1. (news \o third)[i].type = "snapshot"
      BY <1>9, <1>10, <1>11, <2>1
    <3> QED
      BY <1>14, <3>1
  <2>2. CASE i \in 2..Len(news)
    BY <1>10, <1>11, <2>2
  <2>3. CASE i \in Len(news) + 1..Len(news) + Len(third)
    BY <1>7, <1>11, <1>12, <1>14, <2>3
  <2> QED
    BY <1>11, <2>1, <2>2, <2>3
<1>15. state' \in Serving
  BY <1>1, HealthIsServing
<1> QED
  BY <1>1, <1>4, <1>6, <1>11, <1>13, <1>14, <1>15, StaysOrEnds DEF Serving

(* A sweep takes what does not route.                                           *)
LEMMA SweepRoutes ==
    ASSUME RouteInv, NEW broken \in SUBSET Discovered, IdleSweep(broken)
    PROVE  RouteInv'
<1> DEFINE gone == {n \in broken : registry[n] = "retired"}
<1>1. /\ registry' = Forget(registry, gone, "absent")
      /\ Emit(Removals(registry, gone))
      /\ state \in Serving
      /\ UNCHANGED <<state, readVars>>
  BY DEF IdleSweep
<1>2. PICK n \in Node : registry[n] \in Routable
  BY <1>1 DEF RouteInv, Fits
<1>3. n \in Node \ gone /\ gone \in SUBSET Node
  BY <1>2, EndpointsAssumption DEF Routable
<1>4. /\ Removals(registry, gone) \in Seq(Output)
      /\ \A i \in 1..Len(Removals(registry, gone)) :
           /\ Removals(registry, gone)[i].type = "snapshot"
           /\ Good(Removals(registry, gone)[i])
  BY <1>2, <1>3, RemovalsRoute DEF RouteInv
<1>5. registry' \in [Node -> Sub] /\ registry'[n] \in Routable
  BY <1>1, <1>2, <1>3 DEF Forget, Sub, RouteInv
<1> HIDE DEF gone
<1> QED
  BY <1>1, <1>4, <1>5, StaysOrEnds DEF Fits, Serving, Live

(* Every discovery step keeps the pool routable.                                *)
LEMMA DiscoveryRoutes == RouteInv /\ Discovery => RouteInv'
<1> SUFFICES ASSUME RouteInv, Discovery PROVE RouteInv'
  OBVIOUS
<1>1. CASE FirstRoundRefused
  <2>1. /\ <<Out("failed")>> \in Seq(Output)
        /\ \A i \in 1..Len(<<Out("failed")>>) : <<Out("failed")>>[i].type # "ready"
    BY OutputKinds, ShortQueues DEF Out
  <2> QED
    BY <1>1, <2>1, TerminateKeeps DEF FirstRoundRefused
<1>2. CASE RoundFails \/ RoundAfterClosing \/ BackoffFires \/ IntervalFires
  BY <1>2, RestKeeps DEF RoundFails, RoundAfterClosing, BackoffFires, IntervalFires, registryVars
<1> QED
  BY <1>1, <1>2, RoundRoutes, SweepRoutes DEF Discovery

(* One output that is not "ready", the usual case.                              *)
LEMMA EmitOne ==
    ASSUME RouteInv, NEW out \in Output, out.type # "ready", Emit(<<out>>), UNCHANGED readVars,
           registry' \in [Node -> Sub],
           state' = "discovering" => state = "discovering",
           state' \in Serving => Fits(registry') /\ Good(out) /\ state \in Live
    PROVE  RouteInv'
<1>1. /\ <<out>> \in Seq(Output)
      /\ \A i \in 1..Len(<<out>>) : <<out>>[i] = out
  BY ShortQueues
<1> QED
  BY <1>1, StaysOrEnds

(* A penalty changes the tier of a node, not whether anything routes.           *)
LEMMA PenalizeRoutes ==
    ASSUME RouteInv, NEW n, Penalize(n), UNCHANGED <<pins, readVars>> PROVE RouteInv'
<1> DEFINE banned == [registry EXCEPT ![n] = "pessimized"]
<1>1. CASE state \in Serving /\ registry[n] = "active"
  <2>1. /\ registry' = banned
        /\ state' = HealthState(banned)
        /\ Emit(<<SnapshotOut(banned, pins)>>)
    BY <1>1 DEF Penalize
  <2>2. banned \in [Node -> Sub]
    BY DEF RouteInv, Sub, Routable
  <2>3. PICK m \in Node : registry[m] \in Routable
    BY <1>1 DEF RouteInv, Fits
  <2>4. banned[m] \in Routable
    BY <2>3 DEF RouteInv, Routable
  <2>5. Fits(banned)
    BY <2>4 DEF Fits
  <2> HIDE DEF banned
  <2>6. /\ SnapshotOut(banned, pins) \in Output
        /\ SnapshotOut(banned, pins).type = "snapshot"
        /\ Good(SnapshotOut(banned, pins))
    BY <2>2, <2>5, SnapshotKind
  <2>7. state' # "discovering"
    BY <2>1, HealthIsServing DEF Serving
  <2> QED
    BY <1>1, <2>1, <2>2, <2>5, <2>6, <2>7, EmitOne DEF Serving, Live
<1>2. CASE ~(state \in Serving /\ registry[n] = "active")
  BY <1>2, RestKeeps DEF Penalize
<1> QED
  BY <1>1, <1>2

(* A success that lifts a penalty is one more node that routes.                 *)
LEMMA RecoverRoutes ==
    ASSUME RouteInv, NEW n, Recover(n), UNCHANGED <<pins, readVars>> PROVE RouteInv'
<1> DEFINE healed == [registry EXCEPT ![n] = "active"]
           heals == /\ snapshot.registry[n] = "pessimized"
                    /\ state \in Serving
                    /\ registry[n] = "pessimized"
<1>1. CASE heals
  <2>1. /\ registry' = healed
        /\ state' = HealthState(healed)
        /\ Emit(<<SnapshotOut(healed, pins)>>)
    BY <1>1 DEF Recover
  <2>2. healed \in [Node -> Sub]
    BY DEF RouteInv, Sub, Routable
  <2>3. PICK m \in Node : registry[m] \in Routable
    BY <1>1 DEF RouteInv, Fits
  <2>4. healed[m] \in Routable
    BY <2>3 DEF RouteInv, Routable
  <2>5. Fits(healed)
    BY <2>4 DEF Fits
  <2> HIDE DEF healed
  <2>6. /\ SnapshotOut(healed, pins) \in Output
        /\ SnapshotOut(healed, pins).type = "snapshot"
        /\ Good(SnapshotOut(healed, pins))
    BY <2>2, <2>5, SnapshotKind
  <2>7. state' # "discovering"
    BY <2>1, HealthIsServing DEF Serving
  <2> QED
    BY <1>1, <2>1, <2>2, <2>5, <2>6, <2>7, EmitOne DEF Serving, Live
<1>2. CASE ~heals
  BY <1>2, RestKeeps DEF Recover
<1> QED
  BY <1>1, <1>2

(* The outputs a close starts with.                                             *)
LEMMA NoReady ==
    /\ <<>> \in Seq(Output)
    /\ \A i \in 1..Len(<<>>) : <<>>[i].type # "ready"
    /\ <<SnapshotOut(NoEntries, NoCount)>> \in Seq(Output)
    /\ \A i \in 1..Len(<<SnapshotOut(NoEntries, NoCount)>>) :
         <<SnapshotOut(NoEntries, NoCount)>>[i].type # "ready"
<1>1. NoEntries \in [Node -> Sub]
  BY DEF NoEntries, Sub
<1>2. /\ SnapshotOut(NoEntries, NoCount) \in Output
      /\ SnapshotOut(NoEntries, NoCount).type # "ready"
  BY <1>1, SnapshotKind
<1> QED
  BY <1>2, ShortQueues

(* The references of a node come and go without changing what routes.           *)
LEMMA PinsRoute ==
    ASSUME RouteInv, NEW h \in Handle, NEW renewed \in BOOLEAN,
           Pin(h, renewed) \/ Invalidate(h)
    PROVE  RouteInv'
<1>1. CASE Pin(h, renewed)
  <2> DEFINE held == [pins EXCEPT ![Target[h]] = Referenced(Target[h])]
             out == [type |-> "pin_applied", handle |-> h]
             snap == SnapshotOut(registry, held)
  <2>1. /\ Emit(<<snap, out>>)
        /\ state \in Live
        /\ UNCHANGED <<state, registry, readVars>>
    BY <1>1 DEF Pin
  <2>2. /\ snap \in Output /\ snap.type = "snapshot"
        /\ Fits(registry) => Good(snap)
    BY SnapshotKind DEF RouteInv
  <2>3. out \in Output /\ Good(out) /\ out.type = "pin_applied"
    BY OutputKinds
  <2> HIDE DEF snap, out
  <2>4. /\ <<snap, out>> \in Seq(Output)
        /\ \A i \in 1..Len(<<snap, out>>) : <<snap, out>>[i] \in {snap, out}
    BY <2>2, <2>3, ShortQueues
  <2>5. \A i \in 1..Len(<<snap, out>>) : <<snap, out>>[i].type # "ready"
    BY <2>2, <2>3, <2>4
  <2>6. Fits(registry) => \A i \in 1..Len(<<snap, out>>) : Good(<<snap, out>>[i])
    BY <2>2, <2>3, <2>4
  <2>7. state' \in Serving => Fits(registry) /\ Fits(registry')
    BY <2>1 DEF RouteInv
  <2>8. registry' \in [Node -> Sub]
    BY <2>1 DEF RouteInv
  <2> QED
    BY <2>1, <2>4, <2>5, <2>6, <2>7, <2>8, StaysOrEnds
<1>2. CASE Invalidate(h)
  <2> DEFINE n == Target[h]
             held == [pins EXCEPT ![n] = IF @ = 0 THEN 0 ELSE @ - 1]
  <2>1. \/ UNCHANGED <<state, registry, outputs, readVars>>
        \/ Terminate(inflight, call, "released", <<>>) /\ UNCHANGED readVars
        \/ /\ Emit(IF state = "closing" THEN <<>> ELSE <<SnapshotOut(registry, held)>>)
           /\ UNCHANGED <<state, registry, readVars>>
    BY <1>2 DEF Invalidate
  <2> HIDE DEF held
  <2>2. CASE Terminate(inflight, call, "released", <<>>) /\ UNCHANGED readVars
    BY <2>2, NoReady, TerminateKeeps
  <2>3. CASE /\ Emit(IF state = "closing" THEN <<>> ELSE <<SnapshotOut(registry, held)>>)
             /\ UNCHANGED <<state, registry, readVars>>
    <3>1. /\ SnapshotOut(registry, held) \in Output
          /\ SnapshotOut(registry, held).type = "snapshot"
          /\ Fits(registry) => Good(SnapshotOut(registry, held))
      BY SnapshotKind DEF RouteInv
    <3>2. CASE state = "closing"
      BY <2>3, <3>2, NoReady, StaysOrEnds DEF Serving, RouteInv
    <3>3. CASE state # "closing"
      <4>1. state' \in Serving => Fits(registry) /\ Fits(registry') /\ state \in Live
        BY <2>3 DEF RouteInv, Serving, Live
      <4>2. registry' \in [Node -> Sub]
        BY <2>3 DEF RouteInv
      <4> QED
        BY <2>3, <3>1, <3>3, <4>1, <4>2, EmitOne
    <3> QED
      BY <3>2, <3>3
  <2> QED
    BY <2>1, <2>2, <2>3, RestKeeps
<1> QED
  BY <1>1, <1>2

(* Every step of the clients keeps the pool routable.                           *)
LEMMA ClientRoutes == RouteInv /\ Client => RouteInv'
<1> SUFFICES ASSUME RouteInv, Client PROVE RouteInv'
  OBVIOUS
<1>1. ASSUME NEW c \in Call, NEW outcome \in Outcome, CallEnds(c, outcome) PROVE RouteInv'
  <2> DEFINE n == call[c].node
             counts == [inflight EXCEPT ![n] = IF @ = 0 THEN 0 ELSE @ - 1]
             calls == [call EXCEPT ![c] = NoCall]
  <2>1. \/ CloseNodes({n}, draining \ {n}, counts, calls, <<>>) /\ UNCHANGED readVars
        \/ Penalize(n) /\ UNCHANGED <<pins, readVars>>
        \/ Recover(n) /\ UNCHANGED <<pins, readVars>>
        \/ UNCHANGED <<state, registry, outputs, readVars>>
    BY <1>1 DEF CallEnds, Outcome
  <2> QED
    BY <2>1, NoReady, CloseNodesKeeps, PenalizeRoutes, RecoverRoutes, RestKeeps
<1>2. CASE Close
  <2> DEFINE known == Known(registry, pins)
             busy == {n \in known : Busy(n)}
             outs == IF known = {} THEN <<>> ELSE <<SnapshotOut(NoEntries, NoCount)>>
  <2>1. CloseNodes(known \ busy, busy, inflight, call, outs) /\ UNCHANGED readVars
    BY <1>2 DEF Close
  <2>2. outs \in Seq(Output) /\ \A i \in 1..Len(outs) : outs[i].type # "ready"
    BY NoReady
  <2> QED
    BY <2>1, <2>2, CloseNodesKeeps
<1>3. CASE CloseDeadline \/ Destroy
  BY <1>3, NoReady, TerminateKeeps DEF CloseDeadline, Destroy
<1>4. ASSUME NEW h \in Handle, NEW renewed \in BOOLEAN, Pin(h, renewed) PROVE RouteInv'
  BY <1>4, PinsRoute
<1>5. ASSUME NEW h \in Handle, Invalidate(h) PROVE RouteInv'
  BY <1>5, PinsRoute
<1> QED
  BY <1>1, <1>2, <1>3, <1>4, <1>5 DEF Client

(* Reading one output: who reads "ready" has read a snapshot that routes.       *)
LEMMA DrainRoutes == RouteInv /\ Drain => RouteInv'
<1> SUFFICES ASSUME RouteInv, Drain PROVE RouteInv'
  OBVIOUS
<1> DEFINE l == Len(outputs)
           out == outputs[1]
<1>1. /\ outputs \in Seq(Output) /\ outputs # <<>>
      /\ outputs' = Tail(outputs) /\ Head(outputs) = out
      /\ snapshot' = IF out.type = "snapshot" THEN out.snapshot ELSE snapshot
      /\ UNCHANGED <<state, registry>>
  BY DEF RouteInv, Drain, registryVars
<1>2. /\ l \in Nat /\ l >= 1 /\ outputs' \in Seq(Output) /\ Len(outputs') = l - 1
      /\ \A i \in 1..l - 1 : outputs'[i] = outputs[i + 1]
  BY <1>1
<1>3. ready' = "resolved" => ready = "resolved" \/ out.type = "ready"
  BY <1>1 DEF Drain
<1>4. ASSUME state = "discovering" PROVE Unannounced'
  <2>1. Unannounced
    BY <1>4 DEF RouteInv
  <2>2. ready' # "resolved"
    BY <1>2, <1>3, <2>1 DEF Unannounced
  <2>3. \A i \in 1..Len(outputs') : outputs'[i].type # "ready"
    BY <1>2, <2>1 DEF Unannounced
  <2> QED
    BY <2>2, <2>3 DEF Unannounced
<1>5. ASSUME state \in Serving PROVE Announced'
  <2>1. Announced
    BY <1>5 DEF RouteInv
  <2>2. Good(out) /\ Fits(snapshot.registry) => Fits(snapshot'.registry)
    BY <1>1 DEF Good
  <2>3. Good(out) /\ out.type = "snapshot" => Fits(snapshot'.registry)
    BY <1>1 DEF Good
  <2>4. ASSUME ready' = "resolved"
        PROVE  /\ Fits(snapshot'.registry)
               /\ \A i \in 1..Len(outputs') : Good(outputs'[i])
    <3>1. /\ Fits(snapshot.registry)
          /\ \A i \in 1..l : Good(outputs[i])
      BY <1>2, <1>3, <2>1, <2>4 DEF Announced
    <3>2. \A i \in 1..l - 1 : i + 1 \in 1..l
      BY <1>2
    <3> QED
      BY <1>2, <2>2, <3>1, <3>2
  <2>5. ASSUME NEW i \in 1..Len(outputs'), outputs'[i].type = "ready"
        PROVE  /\ \A j \in i..Len(outputs') : Good(outputs'[j])
               /\ i = 1 => Fits(snapshot'.registry)
               /\ i > 1 => outputs'[i - 1].type = "snapshot" /\ Good(outputs'[i - 1])
    <3>1. i + 1 \in 1..l /\ outputs[i + 1].type = "ready" /\ i + 1 > 1 /\ (i + 1) - 1 = i
      BY <1>2, <2>5
    <3>2. /\ \A j \in i + 1..l : Good(outputs[j])
          /\ outputs[i].type = "snapshot" /\ Good(outputs[i])
      BY <2>1, <3>1 DEF Announced
    <3>3. ASSUME NEW j \in i..Len(outputs') PROVE Good(outputs'[j])
      <4>1. j + 1 \in i + 1..l /\ j \in 1..l - 1
        BY <1>2, <3>1
      <4> QED
        BY <1>2, <3>2, <4>1
    <3>4. i = 1 => Fits(snapshot'.registry)
      BY <2>3, <3>2
    <3>5. ASSUME i > 1 PROVE outputs'[i - 1] = outputs[i]
      <4>1. i - 1 \in 1..l - 1 /\ (i - 1) + 1 = i
        BY <1>2, <3>1, <3>5
      <4> QED
        BY <1>2, <4>1
    <3> QED
      BY <3>2, <3>3, <3>4, <3>5
  <2> QED
    BY <2>4, <2>5 DEF Announced
<1>6. Fits(registry)' = Fits(registry)
  BY <1>1 DEF Fits
<1> QED
  BY <1>1, <1>2, <1>4, <1>5, <1>6 DEF RouteInv

(* Every step keeps the pool routable.                                          *)
LEMMA RouteStep == RouteInv /\ [Next]_vars => RouteInv'
<1> SUFFICES ASSUME RouteInv, [Next]_vars PROVE RouteInv'
  OBVIOUS
<1>1. ASSUME NEW c \in Call, NEW n \in Node, NEW hard \in BOOLEAN, CreateCall(c, n, hard)
      PROVE  RouteInv'
  BY <1>1, RestKeeps DEF CreateCall, registryVars
<1>2. CASE UNCHANGED vars
  BY <1>2, RestKeeps DEF vars, registryVars
<1> QED
  BY <1>1, <1>2, DiscoveryRoutes, ClientRoutes, DrainRoutes DEF Next

(* Once ready() resolved, a balanced call finds a node until the pool closes:   *)
(* for every finite cluster, however far the reading side lags.                 *)
THEOREM NeverUnroutableHolds == Spec => []NeverUnroutable
<1>1. Init => RouteInv
  <2> SUFFICES ASSUME Init PROVE RouteInv
    OBVIOUS
  <2>1. registry \in [Node -> Sub] /\ state = "discovering" /\ outputs = <<>> /\ ready = "pending"
    BY DEF Init, NoEntries, Sub
  <2>2. outputs \in Seq(Output) /\ Len(outputs) = 0
    BY <2>1, NoReady
  <2> QED
    BY <2>1, <2>2 DEF RouteInv, Unannounced, Serving
<1>2. RouteInv => NeverUnroutable
  BY BalancedFinds DEF RouteInv, Announced, NeverUnroutable
<1> QED
  BY <1>1, <1>2, RouteStep, PTL DEF Spec

--------------------------------------------------------------------------------
(* A confirmed pin *)

HandleState == {"none", "pending", "held", "disposed", "rejected"}

\* The clients that hold a reference on the node's pin.
Holders(n) == {h \in Handle : Target[h] = n /\ handle[h] \in {"pending", "held"}}

\* What a queue of a live pool may carry besides confirmations: its snapshots name the
\* pinned nodes.
Quiet(held) ==
    {o \in Output : /\ o.type \in {"ready", "snapshot"}
                    /\ o.type = "snapshot" =>
                         o.snapshot.pinned = {n \in Node : held[n] > 0}}

Shows(out, n) == out.type = "snapshot" => n \in out.snapshot.pinned

\* From output i on nothing that is read forgets the node, and what is read right before
\* i names it.
Arrives(outs, s, i, n) ==
    /\ \A j \in i..Len(outs) : Shows(outs[j], n)
    /\ i = 1 => n \in s.pinned
    /\ i > 1 => outs[i - 1].type = "snapshot" /\ Shows(outs[i - 1], n)

\* The references counted are those held; a confirmed client reads its node and goes on
\* reading it; a confirmation comes right behind a snapshot with the node.
References ==
    /\ pins \in [Node -> Nat]
    /\ handle \in [Handle -> HandleState]
    /\ IsFiniteSet({h \in Handle : handle[h] # "none"})
    /\ \A n \in Node : pins[n] = Cardinality(Holders(n))

Confirmations ==
    /\ \A i \in 1..Len(outputs) : outputs[i].type # "closed"
    /\ \A h \in Handle : handle[h] = "held" =>
         /\ Target[h] \in snapshot.pinned
         /\ \A i \in 1..Len(outputs) : Shows(outputs[i], Target[h])
    /\ \A i \in 1..Len(outputs) : outputs[i].type = "pin_applied" =>
         /\ handle[outputs[i].handle] # "none"
         /\ handle[outputs[i].handle] = "pending" =>
              Arrives(outputs, snapshot, i, Target[outputs[i].handle])

PinInv == state \in Live => References /\ Confirmations

(* A held pin is counted.                                                       *)
LEMMA HolderCounts ==
    ASSUME References, NEW h \in Handle, handle[h] \in {"pending", "held"}
    PROVE  pins[Target[h]] > 0
<1>1. h \in Holders(Target[h]) /\ Target[h] \in Node
  BY EndpointsAssumption DEF Holders
<1>2. IsFiniteSet(Holders(Target[h]))
  <2>1. Holders(Target[h]) \subseteq {g \in Handle : handle[g] # "none"}
    BY DEF Holders
  <2> QED
    BY <2>1, FS_Subset DEF References
<1>3. Cardinality(Holders(Target[h])) # 0 /\ Cardinality(Holders(Target[h])) \in Nat
  BY <1>1, <1>2, FS_EmptySet, FS_CardinalityType
<1> QED
  BY <1>1, <1>3 DEF References

(* The references are counted per node.                                         *)
LEMMA ReferencesKept ==
    References /\ UNCHANGED <<pins, handle>> => References'
BY DEF References, Holders

(* What a live pool emits shows the nodes that are pinned.                      *)
LEMMA QuietShows ==
    ASSUME NEW held \in [Node -> Nat], NEW o \in Quiet(held), NEW n \in Node, held[n] > 0
    PROVE  Shows(o, n) /\ o \in Output /\ o.type \notin {"closed", "pin_applied"}
BY DEF Quiet, Shows

(* Clients keep their promises when the pool emits, and when others let go.     *)
LEMMA ConfirmationsKept ==
    ASSUME References, Confirmations, outputs \in Seq(Output),
           NEW outs \in Seq(Output), Emit(outs), snapshot' = snapshot,
           handle' \in [Handle -> HandleState],
           \A h \in Handle : /\ handle'[h] = "held" => handle[h] = "held"
                             /\ handle'[h] = "pending" => handle[h] \in {"none", "pending"}
                             /\ handle[h] # "none" => handle'[h] # "none",
           \A i \in 1..Len(outs) : outs[i].type # "closed",
           \A h \in Handle : handle'[h] \in {"pending", "held"} =>
             \A i \in 1..Len(outs) : Shows(outs[i], Target[h]),
           \A i \in 1..Len(outs) : outs[i].type = "pin_applied" =>
             handle'[outs[i].handle] # "none" /\ i > 1 /\ outs[i - 1].type = "snapshot"
    PROVE  Confirmations'
<1> DEFINE l == Len(outputs)
<1>1. /\ outputs' \in Seq(Output)
      /\ l \in Nat /\ Len(outs) \in Nat /\ Len(outputs') = l + Len(outs)
      /\ \A i \in 1..l : outputs'[i] = outputs[i]
      /\ \A i \in l + 1..l + Len(outs) : outputs'[i] = outs[i - l]
  BY Joined DEF Emit
<1>2. \A i \in l + 1..Len(outputs') : i - l \in 1..Len(outs)
  BY <1>1
<1>3. \A i \in 1..Len(outputs') : outputs'[i].type # "closed"
  BY <1>1, <1>2 DEF Confirmations
<1>4. ASSUME NEW h \in Handle, handle'[h] = "held"
      PROVE  /\ Target[h] \in snapshot'.pinned
             /\ \A i \in 1..Len(outputs') : Shows(outputs'[i], Target[h])
  <2>1. handle[h] = "held"
    BY <1>4
  <2>2. /\ Target[h] \in snapshot.pinned
        /\ \A i \in 1..l : Shows(outputs[i], Target[h])
        /\ \A i \in 1..Len(outs) : Shows(outs[i], Target[h])
    BY <1>4, <2>1 DEF Confirmations
  <2> QED
    BY <1>1, <1>2, <2>2
<1>5. ASSUME NEW i \in 1..Len(outputs'), outputs'[i].type = "pin_applied"
      PROVE  /\ handle'[outputs'[i].handle] # "none"
             /\ handle'[outputs'[i].handle] = "pending" =>
                  Arrives(outputs', snapshot', i, Target[outputs'[i].handle])
  <2> DEFINE h == outputs'[i].handle
             n == Target[h]
  <2>1. h \in Handle
    BY <1>1, <1>5 DEF Output
  <2> HIDE DEF h
  <2>2. CASE i \in 1..l
    <3>1. outputs[i].type = "pin_applied" /\ h = outputs[i].handle
      BY <1>1, <1>5, <2>2 DEF h
    <3>2. handle[h] # "none" /\ (handle[h] = "pending" => Arrives(outputs, snapshot, i, n))
      BY <2>2, <3>1 DEF Confirmations
    <3>3. ASSUME handle'[h] = "pending" PROVE Arrives(outputs', snapshot', i, n)
      <4>1. Arrives(outputs, snapshot, i, n)
        BY <2>1, <3>2, <3>3
      <4>2. \A j \in 1..Len(outs) : Shows(outs[j], n)
        BY <2>1, <3>3
      <4>3. ASSUME NEW j \in i..Len(outputs') PROVE Shows(outputs'[j], n)
        <5>1. CASE j <= l
          <6>1. j \in i..l /\ j \in 1..l
            BY <1>1, <2>2, <5>1
          <6> QED
            BY <1>1, <4>1, <6>1 DEF Arrives
        <5>2. CASE j > l
          <6>1. j \in l + 1..Len(outputs')
            BY <1>1, <5>2
          <6> QED
            BY <1>1, <1>2, <4>2, <6>1
        <5> QED
          BY <1>1, <5>1, <5>2
      <4>4. i > 1 => i - 1 \in 1..l
        BY <1>1, <2>2
      <4> QED
        BY <1>1, <4>1, <4>3, <4>4 DEF Arrives
    <3> QED
      BY <2>1, <3>2, <3>3 DEF h
  <2>3. CASE i \notin 1..l
    <3> DEFINE k == i - l
    <3>1. /\ k \in 1..Len(outs) /\ outputs'[i] = outs[k]
          /\ i \in l + 1..l + Len(outs)
      BY <1>1, <2>3
    <3>2. handle'[h] # "none" /\ k > 1 /\ outs[k - 1].type = "snapshot"
      BY <1>5, <3>1 DEF h
    <3>3. ASSUME handle'[h] = "pending" PROVE Arrives(outputs', snapshot', i, n)
      <4>1. \A j \in 1..Len(outs) : Shows(outs[j], n)
        BY <2>1, <3>3
      <4>2. \A j \in l + 1..l + Len(outs) : j - l \in 1..Len(outs)
        BY <1>1
      <4>3. \A j \in l + 1..l + Len(outs) : Shows(outputs'[j], n)
        BY <1>1, <4>1, <4>2
      <4>4. i - 1 \in l + 1..l + Len(outs) /\ (i - 1) - l = k - 1 /\ i > 1
        BY <1>1, <3>1, <3>2
      <4>5. outputs'[i - 1] = outs[k - 1]
        BY <1>1, <4>4
      <4>6. \A j \in i..Len(outputs') : j \in l + 1..l + Len(outs)
        BY <1>1, <4>4
      <4>7. Shows(outputs'[i - 1], n) /\ outputs'[i - 1].type = "snapshot"
        BY <3>2, <4>3, <4>4, <4>5
      <4> QED
        BY <4>3, <4>4, <4>6, <4>7 DEF Arrives
    <3> QED
      BY <3>2, <3>3 DEF h
  <2> QED
    BY <2>2, <2>3
<1> QED
  BY <1>3, <1>4, <1>5 DEF Confirmations

(* Most steps of a live pool change no reference.                               *)
LEMMA QuietKeeps ==
    ASSUME RouteInv, PinInv, state \in Live, NEW outs \in Seq(Quiet(pins)), Emit(outs),
           UNCHANGED <<pins, snapshot, handle>>
    PROVE  PinInv'
<1>1. References /\ Confirmations
  BY DEF PinInv
<1>2. \A i \in 1..Len(outs) : outs[i] \in Quiet(pins)
  OBVIOUS
<1>3. outs \in Seq(Output)
  BY DEF Quiet
<1>4. ASSUME NEW h \in Handle, handle[h] \in {"pending", "held"}, NEW i \in 1..Len(outs)
      PROVE  Shows(outs[i], Target[h])
  <2>1. Target[h] \in Node /\ pins[Target[h]] > 0 /\ pins \in [Node -> Nat]
    BY <1>1, <1>4, HolderCounts, EndpointsAssumption DEF References
  <2> QED
    BY <1>2, <2>1, QuietShows
<1>5. \A i \in 1..Len(outs) : outs[i].type \notin {"closed", "pin_applied"}
  BY <1>2 DEF Quiet
<1>6. References'
  BY <1>1, ReferencesKept
<1>7. Confirmations'
  BY <1>1, <1>3, <1>4, <1>5, ConfirmationsKept DEF RouteInv, References
<1> QED
  BY <1>6, <1>7 DEF PinInv

(* So does a step that emits nothing.                                           *)
LEMMA SilentKeeps ==
    PinInv /\ (state' \in Live => state \in Live) /\ UNCHANGED <<pins, outputs, snapshot, handle>>
      => PinInv'
BY DEF PinInv, References, Holders, Confirmations

(* A snapshot of the pins is quiet, and so is the answer to the first round.    *)
LEMMA SnapshotQuiet ==
    ASSUME NEW reg \in [Node -> Sub], NEW held
    PROVE  SnapshotOut(reg, held) \in Quiet(held)
<1>1. SnapshotOut(reg, held) \in Output /\ SnapshotOut(reg, held).type = "snapshot"
  BY SnapshotKind
<1>2. SnapshotOut(reg, held).snapshot.pinned = {n \in Node : held[n] > 0}
  BY DEF SnapshotOut, Snapshot
<1> QED
  BY <1>1, <1>2 DEF Quiet

(* The snapshots of removals name the pinned nodes.                             *)
LEMMA RemovalsQuiet ==
    ASSUME NEW reg \in [Node -> Sub], NEW gone \in SUBSET Node
    PROVE  Removals(reg, gone) \in Seq(Quiet(pins))
<1> DEFINE order == SetToSeq(gone)
           k == Cardinality(gone)
           without(i) == [m \in Node |->
                            IF m \in {order[j] : j \in 1..i} THEN "absent" ELSE reg[m]]
<1>1. IsFiniteSet(gone)
  BY FS_Subset, EndpointsAssumption
<1>2. k \in Nat /\ \E f \in [1..k -> gone] : IsInjective(f)
  BY <1>1, FS_CardinalityType DEF ExistsBijection, Bijection, Injection, IsInjective
<1>3. order \in [1..k -> gone]
  BY <1>2 DEF SetToSeq
<1>4. order \in Seq(gone) /\ Len(order) = k
  BY <1>2, <1>3
<1>5. ASSUME NEW i \in 1..k PROVE SnapshotOut(without(i), pins) \in Quiet(pins)
  <2>1. without(i) \in [Node -> Sub]
    BY DEF Sub
  <2> HIDE DEF without
  <2> QED
    BY <2>1, SnapshotQuiet
<1>6. Removals(reg, gone) = [i \in 1..k |-> SnapshotOut(without(i), pins)]
  BY <1>4 DEF Removals
<1> HIDE DEF without, k
<1> QED
  BY <1>2, <1>5, <1>6

(* Discovery leaves the pins alone.                                             *)
LEMMA DiscoveryPins == RouteInv /\ PinInv /\ Discovery => PinInv'
<1> SUFFICES ASSUME RouteInv, PinInv, Discovery PROVE PinInv'
  OBVIOUS
<1>1. ASSUME NEW found \in SUBSET Discovered, NEW moved \in SUBSET Discovered,
             RoundSucceeds(found, moved)
      PROVE  PinInv'
  <2> DEFINE vanishing == {n \in Node \ found : registry[n] \in Routable}
             undialed == {n \in vanishing : store[n] # "channels"}
             applied == [n \in Node |-> IF n \in found THEN "active"
                                        ELSE IF n \in vanishing THEN "retired"
                                        ELSE registry[n]]
             first == <<SnapshotOut(applied, pins)>>
             second == IF state = "discovering" THEN <<Out("ready")>> ELSE <<>>
             third == Removals(applied, undialed)
  <2>1. /\ Emit(first \o second \o third)
        /\ state \in Live
        /\ UNCHANGED <<pins, readVars, handle>>
    BY <1>1 DEF RoundSucceeds, ApplyRound
  <2>2. applied \in [Node -> Sub] /\ undialed \in SUBSET Node
    BY DEF Sub, RouteInv, Routable
  <2> HIDE DEF applied, undialed
  <2>3. first \in Seq(Quiet(pins))
    BY <2>2, SnapshotQuiet
  <2>4. second \in Seq(Quiet(pins))
    <3>1. Out("ready") \in Output /\ Out("ready").type = "ready"
      BY OutputKinds DEF Out
    <3>2. Out("ready") \in Quiet(pins)
      BY <3>1 DEF Quiet
    <3> QED
      BY <3>2
  <2>5. third \in Seq(Quiet(pins))
    BY <2>2, RemovalsQuiet
  <2> HIDE DEF first, second, third
  <2>6. first \o second \o third \in Seq(Quiet(pins))
    BY <2>3, <2>4, <2>5
  <2> QED
    BY <2>1, <2>6, QuietKeeps DEF readVars
<1>2. CASE FirstRoundRefused
  BY <1>2 DEF FirstRoundRefused, Terminate, PinInv, Live
<1>3. CASE RoundFails \/ RoundAfterClosing \/ BackoffFires \/ IntervalFires
  BY <1>3, SilentKeeps DEF RoundFails, RoundAfterClosing, BackoffFires, IntervalFires,
     registryVars, readVars
<1>4. ASSUME NEW broken \in SUBSET Discovered, IdleSweep(broken) PROVE PinInv'
  <2> DEFINE gone == {n \in broken : registry[n] = "retired"}
  <2>1. /\ Emit(Removals(registry, gone))
        /\ state \in Live
        /\ UNCHANGED <<pins, readVars, handle>>
    BY <1>4 DEF IdleSweep, Serving, Live
  <2>2. Removals(registry, gone) \in Seq(Quiet(pins))
    BY RemovalsQuiet, EndpointsAssumption DEF RouteInv
  <2> QED
    BY <2>1, <2>2, QuietKeeps DEF readVars
<1> QED
  BY <1>1, <1>2, <1>3, <1>4 DEF Discovery

(* A call that ends reports the tier of its node, or lets a close go on.        *)
LEMMA CallPins ==
    ASSUME RouteInv, PinInv, NEW c \in Call, NEW outcome \in Outcome, CallEnds(c, outcome)
    PROVE  PinInv'
<1> DEFINE n == call[c].node
           counts == [inflight EXCEPT ![n] = IF @ = 0 THEN 0 ELSE @ - 1]
           calls == [call EXCEPT ![c] = NoCall]
<1>1. \/ CloseNodes({n}, draining \ {n}, counts, calls, <<>>)
      \/ Penalize(n) /\ UNCHANGED <<pins, readVars, handle>>
      \/ Recover(n) /\ UNCHANGED <<pins, readVars, handle>>
      \/ UNCHANGED <<state, registry, outputs, pins, readVars, handle>>
  BY DEF CallEnds, Outcome
<1> HIDE DEF n, counts, calls
<1>2. CASE CloseNodes({n}, draining \ {n}, counts, calls, <<>>)
  BY <1>2 DEF CloseNodes, Terminate, PinInv, Live
<1>3. ASSUME NEW reg \in [Node -> Sub], Emit(<<SnapshotOut(reg, pins)>>), state \in Serving,
             UNCHANGED <<pins, readVars, handle>>
      PROVE  PinInv'
  <2>1. <<SnapshotOut(reg, pins)>> \in Seq(Quiet(pins))
    BY SnapshotQuiet
  <2> QED
    BY <1>3, <2>1, QuietKeeps DEF readVars, Serving, Live
<1>4. [registry EXCEPT ![n] = "pessimized"] \in [Node -> Sub]
  BY DEF RouteInv, Sub, Routable
<1>5. [registry EXCEPT ![n] = "active"] \in [Node -> Sub]
  BY DEF RouteInv, Sub, Routable
<1>6. CASE Penalize(n) /\ UNCHANGED <<pins, readVars, handle>>
  <2>1. CASE state \in Serving /\ registry[n] = "active"
    BY <1>3, <1>4, <1>6, <2>1 DEF Penalize
  <2>2. CASE ~(state \in Serving /\ registry[n] = "active")
    BY <1>6, <2>2, SilentKeeps DEF Penalize, readVars
  <2> QED
    BY <2>1, <2>2
<1>7. CASE Recover(n) /\ UNCHANGED <<pins, readVars, handle>>
  <2> DEFINE heals == /\ snapshot.registry[n] = "pessimized"
                      /\ state \in Serving
                      /\ registry[n] = "pessimized"
  <2>1. CASE heals
    BY <1>3, <1>5, <1>7, <2>1 DEF Recover
  <2>2. CASE ~heals
    BY <1>7, <2>2, SilentKeeps DEF Recover, readVars
  <2> QED
    BY <2>1, <2>2
<1>8. CASE UNCHANGED <<state, registry, outputs, pins, readVars, handle>>
  BY <1>8, SilentKeeps DEF readVars
<1> QED
  BY <1>1, <1>2, <1>6, <1>7, <1>8

(* A pin is one reference and one client more.                                  *)
LEMMA PinPins ==
    ASSUME RouteInv, PinInv, NEW h \in Handle, NEW renewed \in BOOLEAN, Pin(h, renewed)
    PROVE  PinInv'
<1> DEFINE n == Target[h]
           held == [pins EXCEPT ![n] = pins[n] + 1]
           snap == SnapshotOut(registry, held)
           out == [type |-> "pin_applied", handle |-> h]
<1>1. /\ handle[h] = "none" /\ state \in Live
      /\ handle' = [handle EXCEPT ![h] = "pending"]
      /\ pins' = held
      /\ Emit(<<snap, out>>)
      /\ UNCHANGED readVars
  BY DEF Pin, Referenced
<1>2. References /\ Confirmations
  BY <1>1 DEF PinInv
<1>3. n \in Node /\ held \in [Node -> Nat] /\ handle' \in [Handle -> HandleState]
  BY <1>1, <1>2, EndpointsAssumption DEF References, HandleState
<1>4. IsFiniteSet({g \in Handle : handle'[g] # "none"})
  <2>1. {g \in Handle : handle'[g] # "none"} = {g \in Handle : handle[g] # "none"} \cup {h}
    BY <1>1, <1>2 DEF References
  <2> QED
    BY <1>2, <2>1, FS_AddElement DEF References
<1>5. ASSUME NEW m \in Node PROVE held[m] = Cardinality(Holders(m)')
  <2>1. IsFiniteSet(Holders(m))
    <3>1. Holders(m) \subseteq {g \in Handle : handle[g] # "none"}
      BY DEF Holders
    <3> QED
      BY <1>2, <3>1, FS_Subset DEF References
  <2>2. CASE m = n
    <3>1. Holders(m)' = Holders(m) \cup {h} /\ h \notin Holders(m)
      BY <1>1, <1>2, <2>2 DEF Holders, References
    <3>2. Cardinality(Holders(m)') = Cardinality(Holders(m)) + 1
      BY <2>1, <3>1, FS_AddElement
    <3>3. pins[m] = Cardinality(Holders(m)) /\ pins \in [Node -> Nat]
      BY <1>2 DEF References
    <3> QED
      BY <2>2, <3>2, <3>3
  <2>3. CASE m # n
    <3>1. Holders(m)' = Holders(m)
      BY <1>1, <1>2, <2>3 DEF Holders, References
    <3> QED
      BY <1>2, <2>3, <3>1 DEF References
  <2> QED
    BY <2>2, <2>3
<1>6. References'
  BY <1>1, <1>3, <1>4, <1>5 DEF References
<1>7. snap \in Quiet(held) /\ snap \in Output /\ snap.type = "snapshot"
  BY SnapshotQuiet, SnapshotKind DEF RouteInv
<1>8. out \in Output /\ out.type = "pin_applied" /\ out.handle = h
  BY OutputKinds
<1>9. ASSUME NEW g \in Handle, handle'[g] \in {"pending", "held"}
      PROVE  Shows(snap, Target[g]) /\ Shows(out, Target[g])
  <2>1. Target[g] \in Node /\ held[Target[g]] > 0
    <3>1. Target[g] \in Node
      BY EndpointsAssumption
    <3>2. CASE g = h
      BY <1>2, <1>3, <3>2 DEF References
    <3>3. CASE g # h
      <4>1. pins[Target[g]] > 0
        BY <1>1, <1>2, <1>9, <3>3, HolderCounts DEF References
      <4> QED
        BY <1>2, <3>1, <4>1 DEF References
    <3> QED
      BY <3>1, <3>2, <3>3
  <2> HIDE DEF held, snap
  <2>2. Shows(snap, Target[g])
    BY <1>3, <1>7, <2>1, QuietShows
  <2> QED
    BY <1>8, <2>2 DEF Shows
<1> HIDE DEF snap, out, held
<1>10. /\ <<snap, out>> \in Seq(Output) /\ Len(<<snap, out>>) = 2
       /\ <<snap, out>>[1] = snap /\ <<snap, out>>[2] = out
  BY <1>7, <1>8, ShortQueues
<1>11. \A i \in 1..Len(<<snap, out>>) : i = 1 \/ i = 2
  BY <1>10
<1>12. Confirmations'
  <2>1. \A g \in Handle : /\ handle'[g] = "held" => handle[g] = "held"
                          /\ handle'[g] = "pending" => handle[g] \in {"none", "pending"}
                          /\ handle[g] # "none" => handle'[g] # "none"
    BY <1>1, <1>2 DEF References
  <2>2. \A i \in 1..Len(<<snap, out>>) : <<snap, out>>[i].type # "closed"
    BY <1>7, <1>8, <1>10, <1>11
  <2>3. \A g \in Handle : handle'[g] \in {"pending", "held"} =>
          \A i \in 1..Len(<<snap, out>>) : Shows(<<snap, out>>[i], Target[g])
    BY <1>9, <1>10, <1>11
  <2>4. \A i \in 1..Len(<<snap, out>>) : <<snap, out>>[i].type = "pin_applied" =>
          /\ handle'[<<snap, out>>[i].handle] # "none"
          /\ i > 1 /\ <<snap, out>>[i - 1].type = "snapshot"
    <3>1. handle'[h] # "none"
      BY <1>1, <1>2 DEF References
    <3> QED
      BY <1>7, <1>8, <1>10, <1>11, <3>1
  <2> QED
    BY <1>1, <1>2, <1>3, <1>10, <2>1, <2>2, <2>3, <2>4, ConfirmationsKept DEF RouteInv, readVars
<1> QED
  BY <1>6, <1>12 DEF PinInv

(* A client that lets go takes its own reference only.                          *)
LEMMA InvalidatePins ==
    ASSUME RouteInv, PinInv, NEW h \in Handle, Invalidate(h)
    PROVE  PinInv'
<1> SUFFICES ASSUME state' \in Live PROVE PinInv'
  BY DEF PinInv
<1> DEFINE n == Target[h]
           held == [pins EXCEPT ![n] = IF pins[n] = 0 THEN 0 ELSE pins[n] - 1]
<1>1. /\ handle[h] \in {"pending", "held"} /\ state \in Live
      /\ handle' = [handle EXCEPT ![h] = "disposed"]
      /\ pins' = held
      /\ UNCHANGED readVars
      /\ UNCHANGED outputs \/ Emit(<<SnapshotOut(registry, held)>>)
  BY DEF Invalidate, Terminate, Live
<1>2. References /\ Confirmations
  BY <1>1 DEF PinInv
<1>3. n \in Node /\ pins[n] \in Nat /\ pins[n] > 0
  BY <1>1, <1>2, HolderCounts, EndpointsAssumption DEF References
<1>4. held \in [Node -> Nat] /\ handle' \in [Handle -> HandleState]
  BY <1>1, <1>2, <1>3 DEF References, HandleState
<1>5. IsFiniteSet({g \in Handle : handle'[g] # "none"})
  <2>1. {g \in Handle : handle'[g] # "none"} = {g \in Handle : handle[g] # "none"}
    BY <1>1, <1>2 DEF References
  <2> QED
    BY <1>2, <2>1 DEF References
<1>6. ASSUME NEW m \in Node PROVE held[m] = Cardinality(Holders(m)')
  <2>1. IsFiniteSet(Holders(m))
    <3>1. Holders(m) \subseteq {g \in Handle : handle[g] # "none"}
      BY DEF Holders
    <3> QED
      BY <1>2, <3>1, FS_Subset DEF References
  <2>2. CASE m = n
    <3>1. Holders(m)' = Holders(m) \ {h} /\ h \in Holders(m)
      BY <1>1, <1>2, <2>2 DEF Holders, References
    <3>2. Cardinality(Holders(m)') = Cardinality(Holders(m)) - 1
      BY <2>1, <3>1, FS_RemoveElement
    <3>3. pins[m] = Cardinality(Holders(m))
      BY <1>2 DEF References
    <3>4. held[m] = pins[m] - 1
      BY <1>2, <1>3, <2>2 DEF References
    <3> QED
      BY <3>2, <3>3, <3>4
  <2>3. CASE m # n
    <3>1. Holders(m)' = Holders(m)
      BY <1>1, <1>2, <2>3 DEF Holders, References
    <3> QED
      BY <1>2, <2>3, <3>1 DEF References
  <2> QED
    BY <2>2, <2>3
<1> HIDE DEF held
<1>7. References'
  BY <1>1, <1>4, <1>5, <1>6 DEF References
<1>8. \A g \in Handle : /\ handle'[g] = "held" => handle[g] = "held"
                        /\ handle'[g] = "pending" => handle[g] \in {"none", "pending"}
                        /\ handle[g] # "none" => handle'[g] # "none"
  BY <1>1, <1>2 DEF References
<1>9. ASSUME NEW outs \in Seq(Quiet(held)), Emit(outs)
      PROVE  Confirmations'
  <2>1. outs \in Seq(Output) /\ \A i \in 1..Len(outs) : outs[i] \in Quiet(held)
    BY DEF Quiet
  <2>2. ASSUME NEW g \in Handle, handle'[g] \in {"pending", "held"}, NEW i \in 1..Len(outs)
        PROVE  Shows(outs[i], Target[g])
    <3>1. Target[g] \in Node /\ g \in Holders(Target[g])'
      BY <2>2, EndpointsAssumption DEF Holders
    <3>2. IsFiniteSet(Holders(Target[g])')
      <4>1. Holders(Target[g])' \subseteq {f \in Handle : handle'[f] # "none"}
        BY DEF Holders
      <4> QED
        BY <1>5, <4>1, FS_Subset
    <3>3. Cardinality(Holders(Target[g])') # 0 /\ Cardinality(Holders(Target[g])') \in Nat
      BY <3>1, <3>2, FS_EmptySet, FS_CardinalityType
    <3>4. held[Target[g]] > 0
      BY <1>6, <3>1, <3>3
    <3> QED
      BY <1>4, <2>1, <3>1, <3>4, QuietShows
  <2>3. \A i \in 1..Len(outs) : outs[i].type \notin {"closed", "pin_applied"}
    BY <2>1 DEF Quiet
  <2> QED
    BY <1>1, <1>2, <1>4, <1>8, <1>9, <2>1, <2>2, <2>3, ConfirmationsKept DEF RouteInv, readVars
<1>10. Confirmations'
  <2>1. CASE UNCHANGED outputs
    <3>1. <<>> \in Seq(Quiet(held)) /\ Emit(<<>>)
      BY <2>1, Joined DEF Emit, RouteInv
    <3> QED
      BY <1>9, <3>1
  <2>2. CASE Emit(<<SnapshotOut(registry, held)>>)
    <3>1. <<SnapshotOut(registry, held)>> \in Seq(Quiet(held))
      BY SnapshotQuiet DEF RouteInv
    <3> QED
      BY <1>9, <2>2, <3>1
  <2> QED
    BY <1>1, <2>1, <2>2
<1> QED
  BY <1>7, <1>10 DEF PinInv

(* Reading an output: a confirmation is read right behind a snapshot with the   *)
(* node.                                                                        *)
LEMMA DrainPins == RouteInv /\ PinInv /\ Drain => PinInv'
<1> SUFFICES ASSUME RouteInv, PinInv, Drain, state \in Live PROVE PinInv'
  BY DEF PinInv, Drain, registryVars
<1> DEFINE l == Len(outputs)
           out == outputs[1]
           settle(p, how) == IF p = "pending" THEN how ELSE p
<1>1. References /\ Confirmations
  BY DEF PinInv
<1>2. /\ outputs \in Seq(Output) /\ outputs # <<>>
      /\ outputs' = Tail(outputs) /\ Head(outputs) = out
      /\ snapshot' = IF out.type = "snapshot" THEN out.snapshot ELSE snapshot
      /\ UNCHANGED pins
  BY DEF RouteInv, Drain, registryVars
<1>3. /\ l \in Nat /\ l >= 1 /\ 1 \in 1..l /\ Len(outputs') = l - 1
      /\ \A i \in 1..l - 1 : i + 1 \in 1..l /\ outputs'[i] = outputs[i + 1]
  BY <1>2
<1>4. out.type # "closed" /\ out \in Output
  BY <1>1, <1>2, <1>3 DEF Confirmations
<1>5. handle' = IF out.type = "pin_applied"
                THEN [handle EXCEPT ![out.handle] = settle(handle[out.handle], "held")]
                ELSE handle
  BY <1>2, <1>4 DEF Drain
<1>6. out.type = "pin_applied" => out.handle \in Handle
  BY <1>4 DEF Output
<1>7. ASSUME NEW h \in Handle
      PROVE  \/ handle'[h] = handle[h]
             \/ handle[h] = "pending" /\ handle'[h] = "held" /\ out.type = "pin_applied"
                /\ out.handle = h
  BY <1>1, <1>5, <1>6 DEF References
<1>8. References'
  <2>1. handle' \in [Handle -> HandleState]
    BY <1>1, <1>5, <1>6 DEF References, HandleState
  <2>2. {h \in Handle : handle'[h] # "none"} = {h \in Handle : handle[h] # "none"}
    BY <1>7
  <2>3. ASSUME NEW n \in Node PROVE Holders(n)' = Holders(n)
    BY <1>7 DEF Holders
  <2> QED
    BY <1>1, <1>2, <2>1, <2>2, <2>3 DEF References
<1> HIDE DEF out
<1>9. ASSUME NEW n, Shows(out, n), n \in snapshot.pinned \/ out.type = "snapshot"
      PROVE  n \in snapshot'.pinned
  BY <1>2, <1>9 DEF Shows
<1>10. ASSUME NEW h \in Handle, handle'[h] = "held"
       PROVE  /\ Target[h] \in snapshot'.pinned
              /\ \A i \in 1..Len(outputs') : Shows(outputs'[i], Target[h])
  <2>1. CASE handle[h] = "held"
    <3>1. /\ Target[h] \in snapshot.pinned
          /\ \A i \in 1..l : Shows(outputs[i], Target[h])
      BY <1>1, <2>1 DEF Confirmations
    <3> QED
      BY <1>3, <1>9, <3>1 DEF out
  <2>2. CASE handle[h] # "held"
    <3>1. handle[h] = "pending" /\ out.type = "pin_applied" /\ out.handle = h
      BY <1>7, <1>10, <2>2
    <3>2. Arrives(outputs, snapshot, 1, Target[h])
      BY <1>1, <1>3, <3>1 DEF Confirmations, out
    <3>3. Target[h] \in snapshot.pinned /\ \A i \in 1..l : Shows(outputs[i], Target[h])
      BY <3>2 DEF Arrives
    <3> QED
      BY <1>3, <1>9, <3>3 DEF out
  <2> QED
    BY <2>1, <2>2
<1>11. ASSUME NEW i \in 1..Len(outputs'), outputs'[i].type = "pin_applied"
       PROVE  /\ handle'[outputs'[i].handle] # "none"
              /\ handle'[outputs'[i].handle] = "pending" =>
                   Arrives(outputs', snapshot', i, Target[outputs'[i].handle])
  <2> DEFINE h == outputs'[i].handle
             n == Target[h]
  <2>1. /\ i + 1 \in 1..l /\ i + 1 > 1 /\ (i + 1) - 1 = i /\ i \in 1..l - 1
        /\ outputs[i + 1].type = "pin_applied" /\ h = outputs[i + 1].handle
        /\ outputs[i + 1] \in Output
    BY <1>2, <1>3, <1>11
  <2>2. h \in Handle
    BY <2>1 DEF Output
  <2> HIDE DEF h
  <2>3. /\ handle[h] # "none"
        /\ handle[h] = "pending" => Arrives(outputs, snapshot, i + 1, n)
    BY <1>1, <2>1 DEF Confirmations
  <2>4. handle'[h] # "none" /\ (handle'[h] = "pending" => handle[h] = "pending")
    BY <1>7, <2>2, <2>3
  <2>5. ASSUME handle[h] = "pending" PROVE Arrives(outputs', snapshot', i, n)
    <3>1. /\ \A j \in i + 1..l : Shows(outputs[j], n)
          /\ outputs[i].type = "snapshot" /\ Shows(outputs[i], n)
      BY <2>1, <2>3, <2>5 DEF Arrives
    <3>2. ASSUME NEW j \in i..Len(outputs') PROVE Shows(outputs'[j], n)
      <4>1. j + 1 \in i + 1..l /\ j \in 1..l - 1
        BY <1>3, <2>1
      <4> QED
        BY <1>3, <3>1, <4>1
    <3>3. i = 1 => n \in snapshot'.pinned
      BY <1>9, <3>1 DEF out
    <3>4. ASSUME i > 1 PROVE outputs'[i - 1] = outputs[i]
      <4>1. i - 1 \in 1..l - 1 /\ (i - 1) + 1 = i
        BY <1>3, <2>1, <3>4
      <4> QED
        BY <1>3, <4>1
    <3> QED
      BY <3>1, <3>2, <3>3, <3>4 DEF Arrives
  <2> QED
    BY <2>3, <2>4, <2>5 DEF h
<1>12. \A i \in 1..Len(outputs') : outputs'[i].type # "closed"
  BY <1>1, <1>3 DEF Confirmations
<1> QED
  BY <1>8, <1>10, <1>11, <1>12 DEF PinInv, Confirmations

(* Every step keeps the promises made to pinned clients.                        *)
LEMMA PinStep == RouteInv /\ PinInv /\ [Next]_vars => PinInv'
<1> SUFFICES ASSUME RouteInv, PinInv, [Next]_vars PROVE PinInv'
  OBVIOUS
<1>1. CASE Client
  <2>1. CASE Close \/ CloseDeadline \/ Destroy
    BY <2>1 DEF Close, CloseDeadline, Destroy, CloseNodes, Terminate, PinInv, Live
  <2> QED
    BY <1>1, <2>1, CallPins, PinPins, InvalidatePins DEF Client
<1>2. ASSUME NEW c \in Call, NEW n \in Node, NEW hard \in BOOLEAN, CreateCall(c, n, hard)
      PROVE  PinInv'
  BY <1>2, SilentKeeps DEF CreateCall, registryVars, readVars
<1>3. CASE UNCHANGED vars
  BY <1>3, SilentKeeps DEF vars, registryVars, readVars
<1> QED
  BY <1>1, <1>2, <1>3, DiscoveryPins, DrainPins DEF Next

(* A client whose pin() was confirmed finds its own node in the snapshot it     *)
(* reads until it disposes of the pin, however many other clients pin the node  *)
(* and let go of it, and however far the reading side lags.                     *)
THEOREM PinRoutableHolds == Spec => []PinRoutable
<1>1. Init => RouteInv /\ PinInv
  <2> SUFFICES ASSUME Init PROVE RouteInv /\ PinInv
    OBVIOUS
  <2>1. /\ registry \in [Node -> Sub] /\ state = "discovering" /\ outputs = <<>>
        /\ ready = "pending" /\ pins = [n \in Node |-> 0]
        /\ handle = [h \in Handle |-> "none"]
    BY DEF Init, NoEntries, NoCount, Sub
  <2>2. outputs \in Seq(Output) /\ Len(outputs) = 0
    BY <2>1, NoReady
  <2>3. RouteInv
    BY <2>1, <2>2 DEF RouteInv, Unannounced, Serving
  <2>4. {h \in Handle : handle[h] # "none"} = {} /\ \A n \in Node : Holders(n) = {}
    BY <2>1 DEF Holders
  <2>5. References
    BY <2>1, <2>4, FS_EmptySet DEF References, HandleState
  <2>6. Confirmations
    BY <2>1, <2>2 DEF Confirmations
  <2> QED
    BY <2>3, <2>5, <2>6 DEF PinInv
<1>2. PinInv => PinRoutable
  BY DEF PinInv, Confirmations, PinRoutable
<1> QED
  BY <1>1, <1>2, RouteStep, PinStep, PTL DEF Spec

--------------------------------------------------------------------------------
(* Calls keep their channels *)

CallSlot == [node : Node \cup {"none"}, standing : Standing]
Kept(slot) == slot.standing = "kept"
On(calls, n) == {c \in Call : calls[c] # NoCall /\ calls[c].node = n}

\* What a snapshot says of the nodes: only nodes of discovery have an entry, and one is
\* retired only if it has vanished; only others are pinned.
Told(s, times) ==
    \A n \in Node :
      /\ n \in Discovered => n \notin s.pinned
      /\ n \notin Discovered => s.registry[n] = "absent"
      /\ s.registry[n] = "retired" => times[n] > 0

AllTold(outs, times) ==
    \A i \in 1..Len(outs) : outs[i].type = "snapshot" => Told(outs[i].snapshot, times)

ToldInv ==
    /\ pins \in [Node -> Nat]
    /\ vanished \in [Node -> Nat]
    /\ Told(Snapshot(registry, pins), vanished)
    /\ Told(snapshot, vanished)
    /\ AllTold(outputs, vanished)

\* A channel is where its node says it is.
Stored(stores, times) ==
    /\ stores \in [Node -> {"none", "channels", "retired", "pinned"}]
    /\ \A n \in Node :
         /\ n \in Discovered => stores[n] # "pinned"
         /\ n \notin Discovered => stores[n] \in {"none", "pinned"}
         /\ stores[n] = "retired" => times[n] > 0

\* A call that is owed a channel has one, on a node the engine knows, and is counted with
\* all others on that node.
Owed(calls, counts, stores, reg, held) ==
    \A c \in Call : Kept(calls[c]) =>
      LET n == calls[c].node IN
        /\ n \in Node /\ stores[n] # "none"
        /\ reg[n] # "absent" \/ held[n] > 0
        /\ IsFiniteSet(On(calls, n)) /\ Cardinality(On(calls, n)) <= counts[n]

KeptInv ==
    /\ call \in [Call -> CallSlot]
    /\ inflight \in [Node -> Nat]
    /\ Stored(store, vanished)
    /\ Owed(call, inflight, store, registry, pins)
    /\ CallsKept

(* Snapshots *)

(* A node that has vanished stays one that has.                                 *)
LEMMA ToldLater ==
    ASSUME NEW s, NEW old \in [Node -> Nat], NEW new \in [Node -> Nat],
           \A n \in Node : old[n] <= new[n], Told(s, old)
    PROVE  Told(s, new)
<1> SUFFICES ASSUME NEW n \in Node, s.registry[n] = "retired" PROVE new[n] > 0
  BY DEF Told
<1>1. old[n] > 0 /\ old[n] <= new[n] /\ old[n] \in Nat /\ new[n] \in Nat
  BY DEF Told
<1> QED
  BY <1>1

(* What is read and what is emitted tells nothing new.                          *)
LEMMA AllToldLater ==
    ASSUME NEW outs, NEW old \in [Node -> Nat], NEW new \in [Node -> Nat],
           \A n \in Node : old[n] <= new[n], AllTold(outs, old)
    PROVE  AllTold(outs, new)
BY ToldLater DEF AllTold

LEMMA AllToldJoined ==
    ASSUME NEW s \in Seq(Output), NEW t \in Seq(Output), NEW times,
           AllTold(s, times), AllTold(t, times)
    PROVE  AllTold(s \o t, times)
<1> SUFFICES ASSUME NEW i \in 1..Len(s \o t), (s \o t)[i].type = "snapshot"
             PROVE  Told((s \o t)[i].snapshot, times)
  BY DEF AllTold
<1>1. CASE i \in 1..Len(s)
  BY <1>1, Joined DEF AllTold
<1>2. CASE i \notin 1..Len(s)
  <2>1. i - Len(s) \in 1..Len(t) /\ (s \o t)[i] = t[i - Len(s)]
    BY <1>2, Joined
  <2> QED
    BY <2>1 DEF AllTold
<1> QED
  BY <1>1, <1>2

(* A snapshot by itself.                                                        *)
LEMMA AllToldOne ==
    ASSUME NEW reg \in [Node -> Sub], NEW held, NEW times, Told(Snapshot(reg, held), times)
    PROVE  /\ <<SnapshotOut(reg, held)>> \in Seq(Output)
           /\ AllTold(<<SnapshotOut(reg, held)>>, times)
<1> DEFINE out == SnapshotOut(reg, held)
<1>1. out \in Output /\ out.snapshot = Snapshot(reg, held)
  BY SnapshotKind DEF SnapshotOut
<1> HIDE DEF out
<1>2. <<out>> \in Seq(Output) /\ Len(<<out>>) = 1 /\ <<out>>[1] = out
  BY <1>1
<1> QED
  BY <1>1, <1>2 DEF AllTold, out

(* The snapshots of removals tell less.                                         *)
LEMMA RemovalsTold ==
    ASSUME NEW reg \in [Node -> Sub], NEW gone \in SUBSET Node, NEW times,
           Told(Snapshot(reg, pins), times)
    PROVE  Removals(reg, gone) \in Seq(Output) /\ AllTold(Removals(reg, gone), times)
<1> DEFINE order == SetToSeq(gone)
           k == Cardinality(gone)
           without(i) == [m \in Node |->
                            IF m \in {order[j] : j \in 1..i} THEN "absent" ELSE reg[m]]
<1>1. IsFiniteSet(gone)
  BY FS_Subset, EndpointsAssumption
<1>2. k \in Nat /\ \E f \in [1..k -> gone] : IsInjective(f)
  BY <1>1, FS_CardinalityType DEF ExistsBijection, Bijection, Injection, IsInjective
<1>3. order \in [1..k -> gone]
  BY <1>2 DEF SetToSeq
<1>4. order \in Seq(gone) /\ Len(order) = k
  BY <1>2, <1>3
<1>5. ASSUME NEW i \in 1..k
      PROVE  /\ SnapshotOut(without(i), pins) \in Output
             /\ Told(SnapshotOut(without(i), pins).snapshot, times)
  <2>1. without(i) \in [Node -> Sub]
    BY DEF Sub
  <2>2. \A n \in Node : without(i)[n] = "absent" \/ without(i)[n] = reg[n]
    OBVIOUS
  <2> HIDE DEF without
  <2>3. Told(Snapshot(without(i), pins), times)
    BY <2>2 DEF Told, Snapshot
  <2> QED
    BY <2>1, <2>3, SnapshotKind DEF SnapshotOut
<1>6. Removals(reg, gone) = [i \in 1..k |-> SnapshotOut(without(i), pins)]
  BY <1>4 DEF Removals
<1> HIDE DEF without, k
<1>7. Removals(reg, gone) \in Seq(Output) /\ Len(Removals(reg, gone)) = k
  BY <1>2, <1>5, <1>6
<1> QED
  BY <1>5, <1>6, <1>7 DEF AllTold

(* A step of the pool: what it emits and the registry and pins it leaves fit.   *)
LEMMA ToldKept ==
    ASSUME RouteInv, ToldInv, NEW outs \in Seq(Output), Emit(outs),
           snapshot' = snapshot, pins' \in [Node -> Nat], vanished' \in [Node -> Nat],
           \A n \in Node : vanished[n] <= vanished'[n],
           Told(Snapshot(registry', pins'), vanished'), AllTold(outs, vanished')
    PROVE  ToldInv'
<1>1. vanished \in [Node -> Nat] /\ Told(snapshot, vanished) /\ AllTold(outputs, vanished)
  BY DEF ToldInv
<1>2. Told(snapshot', vanished') /\ AllTold(outputs, vanished')
  BY <1>1, ToldLater, AllToldLater
<1>3. AllTold(outputs', vanished')
  BY <1>2, AllToldJoined DEF RouteInv, Emit
<1> QED
  BY <1>2, <1>3 DEF ToldInv

(* A step that emits nothing and moves no node.                                 *)
LEMMA ToldRests ==
    ToldInv /\ UNCHANGED <<registry, pins, vanished, snapshot, outputs>> => ToldInv'
BY DEF ToldInv

(* Entries and pins may go.                                                     *)
LEMMA ToldLess ==
    ASSUME NEW reg, NEW held, NEW reg2, NEW held2, NEW times,
           Told(Snapshot(reg, held), times),
           \A n \in Node : reg2[n] \in {reg[n], "absent"} /\ (held2[n] > 0 => held[n] > 0)
    PROVE  Told(Snapshot(reg2, held2), times)
BY DEF Told, Snapshot

LEMMA EmptyTold ==
    ASSUME NEW times
    PROVE  Told(Snapshot(NoEntries, NoCount), times) /\ NoEntries \in [Node -> Sub]
BY DEF Told, Snapshot, NoEntries, NoCount, Sub

(* The outputs that are no snapshots tell nothing.                              *)
LEMMA SilentTold ==
    ASSUME NEW out \in Output, out.type # "snapshot", NEW times
    PROVE  <<out>> \in Seq(Output) /\ AllTold(<<out>>, times)
<1>1. <<out>> \in Seq(Output) /\ Len(<<out>>) = 1 /\ <<out>>[1] = out
  OBVIOUS
<1> QED
  BY <1>1 DEF AllTold

LEMMA NothingTold ==
    ASSUME NEW times
    PROVE  <<>> \in Seq(Output) /\ AllTold(<<>>, times)
BY DEF AllTold

(* What the end of the machine emits.                                           *)
LEMMA TerminateTold ==
    ASSUME RouteInv, ToldInv, NEW counts, NEW calls, NEW standing, NEW outs \in Seq(Output),
           AllTold(outs, vanished), Terminate(counts, calls, standing, outs),
           UNCHANGED <<snapshot, vanished>>
    PROVE  ToldInv'
<1> DEFINE snap == SnapshotOut(NoEntries, NoCount)
           last == Out("closed")
<1>1. /\ registry' = NoEntries /\ pins' = NoCount /\ Emit(outs \o <<snap, last>>)
  BY DEF Terminate
<1>2. Told(Snapshot(NoEntries, NoCount), vanished) /\ NoEntries \in [Node -> Sub]
  BY EmptyTold
<1>3. snap \in Output /\ Told(snap.snapshot, vanished)
  BY <1>2, SnapshotKind DEF SnapshotOut
<1>4. last \in Output /\ last.type = "closed"
  BY OutputKinds DEF Out
<1> HIDE DEF snap, last
<1>5. /\ <<snap, last>> \in Seq(Output) /\ Len(<<snap, last>>) = 2
      /\ <<snap, last>>[1] = snap /\ <<snap, last>>[2] = last
  BY <1>3, <1>4, ShortQueues
<1>6. AllTold(<<snap, last>>, vanished)
  BY <1>3, <1>4, <1>5 DEF AllTold
<1>7. outs \o <<snap, last>> \in Seq(Output) /\ AllTold(outs \o <<snap, last>>, vanished)
  BY <1>5, <1>6, AllToldJoined, Joined
<1>8. vanished \in [Node -> Nat] /\ \A n \in Node : vanished[n] <= vanished[n]
  BY DEF ToldInv
<1>9. pins' \in [Node -> Nat]
  BY <1>1 DEF NoCount
<1> QED
  BY <1>1, <1>2, <1>7, <1>8, <1>9, ToldKept

(* A graceful close takes entries and pins away.                                *)
LEMMA CloseNodesTold ==
    ASSUME RouteInv, ToldInv, NEW nodes, NEW waited, NEW counts, NEW calls,
           NEW outs \in Seq(Output), AllTold(outs, vanished),
           CloseNodes(nodes, waited, counts, calls, outs), UNCHANGED <<snapshot, vanished>>
    PROVE  ToldInv'
<1>1. CASE Terminate(counts, calls, "cut", outs)
  BY <1>1, TerminateTold
<1>2. CASE /\ registry' = Forget(registry, nodes, "absent")
           /\ pins' = Forget(pins, nodes, 0)
           /\ Emit(outs)
  <2>1. /\ pins \in [Node -> Nat] /\ vanished \in [Node -> Nat]
        /\ \A n \in Node : vanished[n] <= vanished[n]
        /\ Told(Snapshot(registry, pins), vanished)
    BY DEF ToldInv
  <2>2. pins' \in [Node -> Nat]
    BY <1>2, <2>1 DEF Forget
  <2>3. \A n \in Node : /\ registry'[n] \in {registry[n], "absent"}
                        /\ pins'[n] > 0 => pins[n] > 0
    BY <1>2, <2>1 DEF Forget
  <2>4. Told(Snapshot(registry', pins'), vanished)
    BY <2>1, <2>3, ToldLess
  <2> QED
    BY <1>2, <2>1, <2>2, <2>4, ToldKept
<1> QED
  BY <1>1, <1>2 DEF CloseNodes

(* A snapshot of what the step leaves behind.                                   *)
LEMMA OneTold ==
    ASSUME RouteInv, ToldInv, registry' \in [Node -> Sub], pins' \in [Node -> Nat],
           Emit(<<SnapshotOut(registry', pins')>>), UNCHANGED <<snapshot, vanished>>,
           Told(Snapshot(registry', pins'), vanished)
    PROVE  ToldInv'
<1>1. /\ <<SnapshotOut(registry', pins')>> \in Seq(Output)
      /\ AllTold(<<SnapshotOut(registry', pins')>>, vanished)
  BY AllToldOne
<1>2. vanished \in [Node -> Nat] /\ \A n \in Node : vanished[n] <= vanished[n]
  BY DEF ToldInv
<1> QED
  BY <1>1, <1>2, ToldKept

LEMMA RoundTold ==
    ASSUME RouteInv, ToldInv, NEW found \in SUBSET Discovered, NEW moved \in SUBSET Discovered,
           RoundSucceeds(found, moved)
    PROVE  ToldInv'
<1> DEFINE vanishing == {n \in Node \ found : registry[n] \in Routable}
           undialed == {n \in vanishing : store[n] # "channels"}
           applied == [n \in Node |-> IF n \in found THEN "active"
                                      ELSE IF n \in vanishing THEN "retired"
                                      ELSE registry[n]]
           first == <<SnapshotOut(applied, pins)>>
           second == IF state = "discovering" THEN <<Out("ready")>> ELSE <<>>
           third == Removals(applied, undialed)
<1>1. /\ Emit(first \o second \o third)
      /\ vanished' = [n \in Node |-> vanished[n] + IF n \in vanishing THEN 1 ELSE 0]
      /\ registry' = [n \in Node |-> IF n \in undialed THEN "absent" ELSE applied[n]]
      /\ UNCHANGED <<pins, snapshot>>
  BY DEF RoundSucceeds, ApplyRound, readVars
<1>2. applied \in [Node -> Sub] /\ undialed \in SUBSET Node
  BY DEF Sub, RouteInv, Routable
<1>3. /\ pins \in [Node -> Nat] /\ vanished \in [Node -> Nat]
      /\ Told(Snapshot(registry, pins), vanished)
  BY DEF ToldInv
<1>4. /\ vanished' \in [Node -> Nat] /\ \A n \in Node : vanished[n] <= vanished'[n]
      /\ \A n \in vanishing : vanished'[n] > 0
  BY <1>1, <1>3
<1>5. Told(Snapshot(applied, pins), vanished')
  <2> SUFFICES ASSUME NEW n \in Node
               PROVE  /\ n \in Discovered => n \notin Snapshot(applied, pins).pinned
                      /\ n \notin Discovered => applied[n] = "absent"
                      /\ applied[n] = "retired" => vanished'[n] > 0
    BY DEF Told, Snapshot
  <2>1. /\ n \in Discovered => n \notin Snapshot(registry, pins).pinned
        /\ n \notin Discovered => registry[n] = "absent"
        /\ registry[n] = "retired" => vanished[n] > 0
    BY <1>3 DEF Told, Snapshot
  <2>2. n \in Discovered => n \notin Snapshot(applied, pins).pinned
    BY <2>1 DEF Snapshot
  <2>3. n \notin Discovered => applied[n] = "absent"
    BY <2>1 DEF Routable
  <2>4. applied[n] = "retired" => vanished'[n] > 0
    <3>1. CASE n \in vanishing
      BY <1>4, <3>1
    <3>2. CASE n \notin vanishing /\ applied[n] = "retired"
      <4>1. registry[n] = "retired" /\ vanished[n] > 0
        BY <2>1, <3>2
      <4> HIDE DEF vanishing
      <4> QED
        BY <1>3, <1>4, <4>1
    <3> QED
      BY <3>1, <3>2
  <2> QED
    BY <2>2, <2>3, <2>4
<1>6. \A n \in Node : registry'[n] \in {applied[n], "absent"} /\ (pins'[n] > 0 => pins[n] > 0)
  BY <1>1
<1> HIDE DEF applied, undialed, vanishing
<1>7. Told(Snapshot(registry', pins'), vanished')
  BY <1>5, <1>6, ToldLess
<1>8. first \in Seq(Output) /\ AllTold(first, vanished')
  BY <1>2, <1>5, AllToldOne
<1>9. second \in Seq(Output) /\ AllTold(second, vanished')
  BY SilentTold, NothingTold, OutputKinds DEF Out
<1>10. third \in Seq(Output) /\ AllTold(third, vanished')
  BY <1>2, <1>5, RemovalsTold
<1> HIDE DEF first, second, third
<1>11. first \o second \in Seq(Output) /\ AllTold(first \o second, vanished')
  BY <1>8, <1>9, AllToldJoined, Joined
<1>12. /\ first \o second \o third \in Seq(Output)
       /\ AllTold(first \o second \o third, vanished')
  BY <1>10, <1>11, AllToldJoined, Joined
<1> QED
  BY <1>1, <1>3, <1>4, <1>7, <1>12, ToldKept

(* The other steps of discovery.                                                *)
LEMMA DiscoveryTold == RouteInv /\ ToldInv /\ Discovery => ToldInv'
<1> SUFFICES ASSUME RouteInv, ToldInv, Discovery PROVE ToldInv'
  OBVIOUS
<1>1. CASE FirstRoundRefused
  <2>1. /\ <<Out("failed")>> \in Seq(Output) /\ AllTold(<<Out("failed")>>, vanished)
    BY SilentTold, OutputKinds DEF Out
  <2> QED
    BY <1>1, <2>1, TerminateTold DEF FirstRoundRefused, readVars, boundVars
<1>2. CASE RoundFails \/ RoundAfterClosing \/ BackoffFires \/ IntervalFires
  BY <1>2, ToldRests DEF RoundFails, RoundAfterClosing, BackoffFires, IntervalFires,
     registryVars, readVars, boundVars
<1>3. ASSUME NEW broken \in SUBSET Discovered, IdleSweep(broken) PROVE ToldInv'
  <2> DEFINE gone == {n \in broken : registry[n] = "retired"}
  <2>1. /\ Emit(Removals(registry, gone)) /\ registry' = Forget(registry, gone, "absent")
        /\ UNCHANGED <<pins, snapshot, vanished>>
    BY <1>3 DEF IdleSweep, readVars, boundVars
  <2>2. registry \in [Node -> Sub] /\ gone \in SUBSET Node
    BY EndpointsAssumption DEF RouteInv
  <2> HIDE DEF gone
  <2>3. /\ pins \in [Node -> Nat] /\ vanished \in [Node -> Nat]
        /\ \A n \in Node : vanished[n] <= vanished[n]
        /\ Told(Snapshot(registry, pins), vanished)
    BY DEF ToldInv
  <2>4. \A n \in Node : registry'[n] \in {registry[n], "absent"} /\ (pins'[n] > 0 => pins[n] > 0)
    BY <2>1, <2>3 DEF Forget
  <2>5. Told(Snapshot(registry', pins'), vanished)
    BY <2>3, <2>4, ToldLess
  <2>6. Removals(registry, gone) \in Seq(Output) /\ AllTold(Removals(registry, gone), vanished)
    BY <2>2, <2>3, RemovalsTold
  <2> QED
    BY <2>1, <2>3, <2>5, <2>6, ToldKept
<1> QED
  BY <1>1, <1>2, <1>3, RoundTold DEF Discovery

(* A call that ends, and what it reports of its node.                           *)
LEMMA CallTold ==
    ASSUME RouteInv, ToldInv, NEW c \in Call, NEW outcome \in Outcome, CallEnds(c, outcome)
    PROVE  ToldInv'
<1> DEFINE n == call[c].node
<1>1. UNCHANGED <<snapshot, vanished>>
  BY DEF CallEnds, readVars, boundVars
<1>2. /\ registry \in [Node -> Sub] /\ pins \in [Node -> Nat]
      /\ Told(Snapshot(registry, pins), vanished)
  BY DEF ToldInv, RouteInv
<1>3. \/ \E nodes, waited, counts, calls : CloseNodes(nodes, waited, counts, calls, <<>>)
      \/ Penalize(n) /\ UNCHANGED pins
      \/ Recover(n) /\ UNCHANGED pins
      \/ UNCHANGED <<registry, outputs, pins>>
  BY DEF CallEnds
<1>4. ASSUME registry[n] \in Routable, NEW sub \in Routable,
             registry' = [registry EXCEPT ![n] = sub], UNCHANGED pins,
             Emit(<<SnapshotOut(registry', pins)>>)
      PROVE  ToldInv'
  <2>1. registry' \in [Node -> Sub]
    BY <1>2, <1>4 DEF Sub
  <2>2. Told(Snapshot(registry', pins'), vanished)
    BY <1>2, <1>4 DEF Told, Snapshot, Routable
  <2> QED
    BY <1>1, <1>2, <1>4, <2>1, <2>2, OneTold
<1>5. CASE \E nodes, waited, counts, calls : CloseNodes(nodes, waited, counts, calls, <<>>)
  BY <1>1, <1>5, NothingTold, CloseNodesTold
<1>6. CASE Penalize(n) /\ UNCHANGED pins
  <2>1. CASE state \in Serving /\ registry[n] = "active"
    BY <1>4, <1>6, <2>1 DEF Penalize, Routable
  <2>2. CASE ~(state \in Serving /\ registry[n] = "active")
    BY <1>1, <1>6, <2>2, ToldRests DEF Penalize
  <2> QED
    BY <2>1, <2>2
<1>7. CASE Recover(n) /\ UNCHANGED pins
  <2> DEFINE heals == /\ snapshot.registry[n] = "pessimized"
                      /\ state \in Serving
                      /\ registry[n] = "pessimized"
  <2>1. CASE heals
    BY <1>4, <1>7, <2>1 DEF Recover, Routable
  <2>2. CASE ~heals
    BY <1>1, <1>7, <2>2, ToldRests DEF Recover
  <2> QED
    BY <2>1, <2>2
<1>8. CASE UNCHANGED <<registry, outputs, pins>>
  BY <1>1, <1>8, ToldRests
<1> QED
  BY <1>3, <1>5, <1>6, <1>7, <1>8

(* Only nodes that are not discovered are pinned.                               *)
LEMMA PinTold ==
    ASSUME RouteInv, ToldInv, NEW h \in Handle, Target[h] \notin Discovered,
           NEW renewed \in BOOLEAN, Pin(h, renewed)
    PROVE  ToldInv'
<1> DEFINE n == Target[h]
           held == [pins EXCEPT ![n] = pins[n] + 1]
           snap == SnapshotOut(registry, held)
           out == [type |-> "pin_applied", handle |-> h]
<1>1. /\ pins' = held /\ Emit(<<snap, out>>)
      /\ UNCHANGED <<registry, snapshot, vanished>>
  BY DEF Pin, Referenced, readVars, boundVars
<1>2. /\ pins \in [Node -> Nat] /\ vanished \in [Node -> Nat]
      /\ \A m \in Node : vanished[m] <= vanished[m]
      /\ Told(Snapshot(registry, pins), vanished)
  BY DEF ToldInv
<1>3. held \in [Node -> Nat] /\ n \in Node /\ \A m \in Node \ {n} : held[m] = pins[m]
  BY <1>2, EndpointsAssumption
<1>4. Told(Snapshot(registry, held), vanished)
  BY <1>2, <1>3 DEF Told, Snapshot
<1>5. snap \in Output /\ Told(snap.snapshot, vanished)
  BY <1>4, SnapshotKind DEF RouteInv, SnapshotOut
<1>6. out \in Output /\ out.type = "pin_applied"
  BY OutputKinds
<1> HIDE DEF snap, out, held
<1>7. /\ <<snap, out>> \in Seq(Output) /\ Len(<<snap, out>>) = 2
      /\ <<snap, out>>[1] = snap /\ <<snap, out>>[2] = out
  BY <1>5, <1>6, ShortQueues
<1>8. AllTold(<<snap, out>>, vanished)
  BY <1>5, <1>6, <1>7 DEF AllTold
<1> QED
  BY <1>1, <1>2, <1>3, <1>4, <1>7, <1>8, ToldKept

LEMMA InvalidateTold ==
    ASSUME RouteInv, ToldInv, NEW h \in Handle, Invalidate(h)
    PROVE  ToldInv'
<1> DEFINE n == Target[h]
           held == [pins EXCEPT ![n] = IF pins[n] = 0 THEN 0 ELSE pins[n] - 1]
<1>1. UNCHANGED <<snapshot, vanished>>
  BY DEF Invalidate, readVars, boundVars
<1>2. /\ registry \in [Node -> Sub] /\ pins \in [Node -> Nat]
      /\ vanished \in [Node -> Nat] /\ \A m \in Node : vanished[m] <= vanished[m]
      /\ Told(Snapshot(registry, pins), vanished) /\ n \in Node
  BY EndpointsAssumption DEF ToldInv, RouteInv
<1>3. \/ Terminate(inflight, call, "released", <<>>)
      \/ /\ pins' = held /\ UNCHANGED registry
         /\ UNCHANGED outputs \/ Emit(<<>>) \/ Emit(<<SnapshotOut(registry, held)>>)
  BY DEF Invalidate
<1>4. held \in [Node -> Nat] /\ \A m \in Node : held[m] > 0 => pins[m] > 0
  BY <1>2
<1> HIDE DEF held
<1>5. Told(Snapshot(registry, held), vanished)
  BY <1>2, <1>4, ToldLess
<1>6. CASE Terminate(inflight, call, "released", <<>>)
  BY <1>1, <1>6, NothingTold, TerminateTold
<1>7. CASE pins' = held /\ UNCHANGED registry /\ UNCHANGED outputs
  BY <1>1, <1>4, <1>5, <1>7 DEF ToldInv
<1>8. CASE pins' = held /\ UNCHANGED registry /\ Emit(<<>>)
  BY <1>1, <1>2, <1>4, <1>5, <1>8, NothingTold, ToldKept
<1>9. CASE pins' = held /\ UNCHANGED registry /\ Emit(<<SnapshotOut(registry, held)>>)
  BY <1>1, <1>2, <1>4, <1>5, <1>9, OneTold
<1> QED
  BY <1>3, <1>6, <1>7, <1>8, <1>9

LEMMA DrainTold == RouteInv /\ ToldInv /\ Drain => ToldInv'
<1> SUFFICES ASSUME RouteInv, ToldInv, Drain PROVE ToldInv'
  OBVIOUS
<1> DEFINE out == outputs[1]
<1>1. /\ outputs \in Seq(Output) /\ outputs # <<>>
      /\ outputs' = Tail(outputs) /\ Head(outputs) = out
      /\ snapshot' = IF out.type = "snapshot" THEN out.snapshot ELSE snapshot
      /\ UNCHANGED <<registry, pins, vanished>>
  BY DEF RouteInv, Drain, registryVars, boundVars
<1>2. /\ Len(outputs) \in Nat /\ 1 \in 1..Len(outputs) /\ Len(outputs') = Len(outputs) - 1
      /\ \A i \in 1..Len(outputs') : i + 1 \in 1..Len(outputs) /\ outputs'[i] = outputs[i + 1]
  BY <1>1
<1>3. AllTold(outputs', vanished)
  BY <1>2 DEF AllTold, ToldInv
<1>4. Told(snapshot', vanished)
  BY <1>1, <1>2 DEF AllTold, ToldInv
<1> QED
  BY <1>1, <1>3, <1>4 DEF ToldInv

\* Clients of their own pin nodes that discovery does not name.
Separate == \A h \in Handle : Target[h] \notin Discovered

(* Every step tells the truth.                                                  *)
LEMMA ToldStep ==
    ASSUME Separate PROVE RouteInv /\ ToldInv /\ [Next]_vars => ToldInv'
<1> SUFFICES ASSUME RouteInv, ToldInv, [Next]_vars PROVE ToldInv'
  OBVIOUS
<1>1. CASE Client
  <2>1. CASE Close
    <3>1. <<SnapshotOut(NoEntries, NoCount)>> \in Seq(Output)
          /\ AllTold(<<SnapshotOut(NoEntries, NoCount)>>, vanished)
      BY EmptyTold, AllToldOne
    <3> QED
      BY <2>1, <3>1, NothingTold, CloseNodesTold DEF Close, readVars, boundVars
  <2>2. CASE CloseDeadline \/ Destroy
    BY <2>2, NothingTold, TerminateTold DEF CloseDeadline, Destroy, readVars, boundVars
  <2> QED
    BY <1>1, <2>1, <2>2, CallTold, PinTold, InvalidateTold DEF Client, Separate
<1>2. ASSUME NEW c \in Call, NEW n \in Node, NEW hard \in BOOLEAN, CreateCall(c, n, hard)
      PROVE  ToldInv'
  BY <1>2, ToldRests DEF CreateCall, registryVars, readVars, boundVars
<1>3. CASE UNCHANGED vars
  BY <1>3, ToldRests DEF vars, registryVars, readVars, boundVars
<1> QED
  BY <1>1, <1>2, <1>3, DiscoveryTold, DrainTold DEF Next

--------------------------------------------------------------------------------
(* What happens to the calls *)

(* Closing channels ends calls and loses none.                                  *)
LEMMA OverCalls ==
    ASSUME NEW calls \in [Call -> CallSlot], NEW nodes, NEW standing \in {"released", "cut"}
    PROVE  LET over == Over(calls, nodes, standing) IN
           /\ over \in [Call -> CallSlot]
           /\ \A n : On(over, n) = On(calls, n)
           /\ \A c \in Call : Kept(over[c]) =>
                over[c] = calls[c] /\ calls[c].node \notin nodes
           /\ \A c \in Call : over[c].standing = "cut" =>
                \/ calls[c].standing = "cut"
                \/ standing = "cut" /\ Kept(calls[c]) /\ calls[c].node \in nodes
<1> DEFINE over == Over(calls, nodes, standing)
<1>1. ASSUME NEW c \in Call
      PROVE  /\ over[c] \in CallSlot
             /\ over[c].node = calls[c].node
             /\ over[c] = NoCall <=> calls[c] = NoCall
             /\ Kept(over[c]) => over[c] = calls[c] /\ calls[c].node \notin nodes
             /\ over[c].standing = "cut" =>
                  \/ calls[c].standing = "cut"
                  \/ standing = "cut" /\ Kept(calls[c]) /\ calls[c].node \in nodes
  <2>1. calls[c] \in CallSlot
    OBVIOUS
  <2>2. CASE calls[c].node \notin nodes \/ calls[c].standing \notin {"kept", "stray"}
    <3>1. over[c] = calls[c]
      BY <2>2 DEF Over
    <3> QED
      BY <2>1, <2>2, <3>1 DEF Kept
  <2>3. CASE calls[c].node \in nodes /\ calls[c].standing \in {"kept", "stray"}
    <3> DEFINE to == IF calls[c].standing = "stray" THEN "released" ELSE standing
    <3>1. over[c] = [calls[c] EXCEPT !.standing = to]
      BY <2>3 DEF Over
    <3>2. to \in {"released", "cut"} /\ (to = "cut" => standing = "cut" /\ Kept(calls[c]))
      BY <2>3 DEF Kept
    <3> HIDE DEF to
    <3>3. over[c] \in CallSlot /\ over[c].node = calls[c].node /\ over[c].standing = to
      BY <2>1, <3>1, <3>2 DEF CallSlot, Standing
    <3>4. over[c] # NoCall /\ calls[c] # NoCall
      BY <2>3, <3>2, <3>3 DEF NoCall
    <3> QED
      BY <2>3, <3>2, <3>3, <3>4 DEF Kept
  <2> QED
    BY <2>2, <2>3
<1>2. over \in [Call -> CallSlot]
  BY <1>1 DEF Over
<1> HIDE DEF over
<1>3. \A n : On(over, n) = On(calls, n)
  BY <1>1 DEF On
<1> QED
  BY <1>1, <1>2, <1>3 DEF over

(* What is owed to the calls that are still kept.                               *)
LEMMA OwedOn ==
    ASSUME NEW calls, NEW calls2, NEW counts, NEW counts2, NEW stores, NEW stores2,
           NEW reg, NEW reg2, NEW held, NEW held2,
           Owed(calls, counts, stores, reg, held),
           \A n : On(calls2, n) = On(calls, n),
           \A c \in Call : Kept(calls2[c]) =>
             LET n == calls[c].node IN
               /\ calls2[c] = calls[c]
               /\ counts2[n] = counts[n]
               /\ stores[n] # "none" => stores2[n] # "none"
               /\ reg[n] # "absent" \/ held[n] > 0 => reg2[n] # "absent" \/ held2[n] > 0
    PROVE  Owed(calls2, counts2, stores2, reg2, held2)
BY DEF Owed

(* A step that leaves the calls and the channels alone; what was known is.      *)
LEMMA KeptRests ==
    ASSUME KeptInv, UNCHANGED <<store, inflight, call>>,
           \A n \in Node : registry[n] # "absent" \/ pins[n] > 0 =>
                           registry'[n] # "absent" \/ pins'[n] > 0,
           \A n \in Node : vanished[n] > 0 => vanished'[n] > 0
    PROVE  KeptInv'
BY DEF KeptInv, Stored, Owed, CallsKept

(* Channels are closed; no kept call is on them, or the design says that it may *)
(* be ended.                                                                    *)
LEMMA DropsKeep ==
    ASSUME NEW calls \in [Call -> CallSlot], NEW counts \in [Node -> Nat],
           Stored(store, vanished), Owed(calls, counts, store, registry, pins),
           \A c \in Call : calls[c].standing # "cut",
           NEW nodes, NEW standing \in {"released", "cut"},
           standing = "cut" => \A c \in Call : Kept(calls[c]) => calls[c].node \notin nodes,
           DropChannels(nodes, counts, calls, standing),
           \A n \in Node \ nodes : registry[n] # "absent" \/ pins[n] > 0 =>
                                   registry'[n] # "absent" \/ pins'[n] > 0,
           vanished' = vanished
    PROVE  KeptInv'
<1>1. /\ call' \in [Call -> CallSlot]
      /\ \A n : On(call', n) = On(calls, n)
      /\ \A c \in Call : Kept(call'[c]) => call'[c] = calls[c] /\ calls[c].node \notin nodes
      /\ \A c \in Call : call'[c].standing = "cut" =>
           \/ calls[c].standing = "cut"
           \/ standing = "cut" /\ Kept(calls[c]) /\ calls[c].node \in nodes
  BY OverCalls DEF DropChannels
<1>2. \A c \in Call : call'[c].standing # "cut"
  BY <1>1
<1>3. inflight' \in [Node -> Nat] /\ Stored(store', vanished')
  BY DEF DropChannels, Forget, Stored
<1>4. \A n \in Node \ nodes : inflight'[n] = counts[n] /\ store'[n] = store[n]
  BY DEF DropChannels, Forget
<1>5. Owed(call', inflight', store', registry', pins')
  <2>1. \A c \in Call : Kept(call'[c]) => calls[c].node \in Node \ nodes
    BY <1>1 DEF Owed
  <2> QED
    BY <1>1, <1>4, <2>1, OwedOn
<1> QED
  BY <1>1, <1>2, <1>3, <1>5 DEF KeptInv, CallsKept

(* Everything is closed.                                                        *)
LEMMA TerminateKept ==
    ASSUME NEW calls \in [Call -> CallSlot], NEW counts \in [Node -> Nat],
           Stored(store, vanished), Owed(calls, counts, store, registry, pins),
           \A c \in Call : calls[c].standing # "cut",
           NEW standing \in {"released", "cut"},
           standing = "cut" => \A c \in Call : ~Kept(calls[c]),
           NEW outs, Terminate(counts, calls, standing, outs), vanished' = vanished
    PROVE  KeptInv'
<1>1. DropChannels(Node, counts, calls, standing)
  BY DEF Terminate
<1>2. Node \ Node = {}
  OBVIOUS
<1> QED
  BY <1>1, <1>2, DropsKeep

(* A graceful close goes on: no kept call is on the nodes that go.              *)
LEMMA CloseNodesKept ==
    ASSUME NEW calls \in [Call -> CallSlot], NEW counts \in [Node -> Nat],
           Stored(store, vanished), Owed(calls, counts, store, registry, pins),
           \A c \in Call : calls[c].standing # "cut",
           NEW nodes, \A c \in Call : Kept(calls[c]) => calls[c].node \notin nodes,
           NEW waited, NEW outs, CloseNodes(nodes, waited, counts, calls, outs),
           vanished' = vanished
    PROVE  KeptInv'
<1>1. CASE Known(registry, pins) \subseteq nodes
  <2>1. \A c \in Call : ~Kept(calls[c])
    BY <1>1 DEF Owed, Known
  <2> QED
    BY <1>1, <2>1, TerminateKept DEF CloseNodes
<1>2. CASE ~(Known(registry, pins) \subseteq nodes)
  <2>1. /\ DropChannels(nodes, counts, calls, "cut")
        /\ registry' = Forget(registry, nodes, "absent") /\ pins' = Forget(pins, nodes, 0)
    BY <1>2 DEF CloseNodes
  <2>2. \A n \in Node \ nodes : registry'[n] = registry[n] /\ pins'[n] = pins[n]
    BY <2>1 DEF Forget
  <2> QED
    BY <2>1, <2>2, DropsKeep
<1> QED
  BY <1>1, <1>2

(* The pin's own channel closes.                                                *)
LEMMA DropPinnedKept ==
    ASSUME KeptInv, NEW n \in Node, DropPinned(n),
           \A m \in Node \ {n} : registry[m] # "absent" \/ pins[m] > 0 =>
                                 registry'[m] # "absent" \/ pins'[m] > 0,
           store[n] # "pinned" => (registry[n] # "absent" \/ pins[n] > 0 =>
                                   registry'[n] # "absent" \/ pins'[n] > 0),
           vanished' = vanished
    PROVE  KeptInv'
<1>1. CASE store[n] = "pinned"
  <2>1. /\ call' = Over(call, {n}, "released")
        /\ store' = [store EXCEPT ![n] = "none"] /\ inflight' = inflight
    BY <1>1 DEF DropPinned
  <2>2. /\ call' \in [Call -> CallSlot]
        /\ \A m : On(call', m) = On(call, m)
        /\ \A c \in Call : Kept(call'[c]) => call'[c] = call[c] /\ call[c].node # n
        /\ \A c \in Call : call'[c].standing = "cut" => call[c].standing = "cut"
    BY <2>1, OverCalls DEF KeptInv
  <2>3. Stored(store', vanished')
    BY <2>1 DEF KeptInv, Stored
  <2>4. \A m \in Node \ {n} : store'[m] = store[m]
    BY <2>1 DEF KeptInv, Stored
  <2>5. \A c \in Call : Kept(call'[c]) => call[c].node \in Node \ {n}
    BY <2>2 DEF KeptInv, Owed
  <2>6. Owed(call', inflight', store', registry', pins')
    <3>1. Owed(call, inflight, store, registry, pins)
      BY DEF KeptInv
    <3>2. ASSUME NEW c \in Call, Kept(call'[c])
          PROVE  LET m == call[c].node IN
                   /\ call'[c] = call[c] /\ inflight'[m] = inflight[m]
                   /\ store[m] # "none" => store'[m] # "none"
                   /\ registry[m] # "absent" \/ pins[m] > 0 =>
                        registry'[m] # "absent" \/ pins'[m] > 0
      BY <2>1, <2>2, <2>4, <2>5, <3>2
    <3> QED
      BY <2>2, <3>1, <3>2, OwedOn
  <2> QED
    BY <2>1, <2>2, <2>3, <2>6 DEF KeptInv, CallsKept
<1>2. CASE store[n] # "pinned"
  BY <1>2, KeptRests DEF DropPinned
<1> QED
  BY <1>1, <1>2

(* The call that ends is counted no more.                                       *)
LEMMA EndedCall ==
    ASSUME KeptInv, NEW c \in Call, call[c] # NoCall
    PROVE  LET n == call[c].node
               counts == [inflight EXCEPT ![n] = IF inflight[n] = 0 THEN 0 ELSE inflight[n] - 1]
               calls == [call EXCEPT ![c] = NoCall]
           IN /\ calls \in [Call -> CallSlot] /\ counts \in [Node -> Nat]
              /\ Owed(calls, counts, store, registry, pins)
              /\ \A d \in Call : calls[d].standing # "cut"
              /\ counts[n] = 0 => \A d \in Call : Kept(calls[d]) => calls[d].node # n
<1> DEFINE n == call[c].node
           counts == [inflight EXCEPT ![n] = IF inflight[n] = 0 THEN 0 ELSE inflight[n] - 1]
           calls == [call EXCEPT ![c] = NoCall]
<1>1. /\ call \in [Call -> CallSlot] /\ inflight \in [Node -> Nat]
      /\ Owed(call, inflight, store, registry, pins)
      /\ \A d \in Call : call[d].standing # "cut"
  BY DEF KeptInv, CallsKept
<1>2. NoCall \in CallSlot /\ NoCall.standing = "ended"
  BY DEF NoCall, CallSlot, Standing
<1>3. calls \in [Call -> CallSlot] /\ counts \in [Node -> Nat]
  <2>1. CASE n \in Node
    <3>1. inflight[n] \in Nat
      BY <1>1, <2>1
    <3>2. (IF inflight[n] = 0 THEN 0 ELSE inflight[n] - 1) \in Nat
      BY <3>1
    <3> QED
      BY <1>1, <1>2, <3>2
  <2>2. CASE n \notin Node
    <3>1. counts = inflight
      BY <1>1, <2>2
    <3> QED
      BY <1>1, <1>2, <3>1
  <2> QED
    BY <2>1, <2>2
<1>4. \A d \in Call : calls[d].standing # "cut"
  BY <1>1, <1>2
<1>5. ASSUME NEW d \in Call, Kept(calls[d])
      PROVE  LET m == calls[d].node IN
               /\ m \in Node /\ store[m] # "none"
               /\ registry[m] # "absent" \/ pins[m] > 0
               /\ IsFiniteSet(On(calls, m)) /\ Cardinality(On(calls, m)) <= counts[m]
               /\ counts[m] = 0 => m # n
  <2> DEFINE m == calls[d].node
  <2>1. d # c /\ calls[d] = call[d]
    BY <1>1, <1>2, <1>5 DEF Kept
  <2>2. /\ m \in Node /\ store[m] # "none"
        /\ registry[m] # "absent" \/ pins[m] > 0
        /\ IsFiniteSet(On(call, m)) /\ Cardinality(On(call, m)) <= inflight[m]
    BY <1>1, <1>5, <2>1 DEF Owed
  <2>3. inflight[m] \in Nat /\ Cardinality(On(call, m)) \in Nat
    BY <1>1, <2>2, FS_CardinalityType
  <2>4. CASE m # n
    <3>1. On(calls, m) = On(call, m)
      BY <1>1, <2>4 DEF On
    <3>2. counts[m] = inflight[m]
      BY <1>1, <2>2, <2>4
    <3> QED
      BY <2>2, <2>4, <3>1, <3>2
  <2>5. CASE m = n
    <3>1. On(calls, m) = On(call, m) \ {c} /\ c \in On(call, m)
      BY <1>1, <2>5 DEF On
    <3>2. IsFiniteSet(On(calls, m)) /\ Cardinality(On(calls, m)) = Cardinality(On(call, m)) - 1
      <4> DEFINE S == On(call, m)
      <4>1. IsFiniteSet(S) /\ c \in S
        BY <2>2, <3>1
      <4> HIDE DEF S
      <4>2. IsFiniteSet(S \ {c}) /\ Cardinality(S \ {c}) = Cardinality(S) - 1
        BY <4>1, FS_RemoveElement
      <4> QED
        BY <3>1, <4>2 DEF S
    <3>3. d \in On(calls, m)
      <4>1. call[d] # NoCall
        BY <1>2, <1>5, <2>1 DEF Kept
      <4> QED
        BY <1>1, <2>1, <4>1 DEF On
    <3>4. Cardinality(On(calls, m)) \in Nat /\ Cardinality(On(calls, m)) # 0
      BY <3>2, <3>3, FS_EmptySet, FS_CardinalityType
    <3>5. counts[m] = IF inflight[m] = 0 THEN 0 ELSE inflight[m] - 1
      BY <1>1, <2>2, <2>5
    <3> HIDE DEF m, counts, calls
    <3>6. Cardinality(On(calls, m)) <= counts[m] /\ counts[m] # 0
      BY <2>2, <2>3, <3>2, <3>4, <3>5
    <3> QED
      BY <2>2, <3>2, <3>6 DEF m
  <2> QED
    BY <2>4, <2>5
<1> HIDE DEF calls, counts
<1>6. Owed(calls, counts, store, registry, pins)
  BY <1>5 DEF Owed
<1>7. counts[n] = 0 => \A d \in Call : Kept(calls[d]) => calls[d].node # n
  BY <1>5
<1> QED
  BY <1>3, <1>4, <1>6, <1>7 DEF calls, counts

(* A call ends: a node that a close waited for goes when its last call has.     *)
LEMMA CallKept ==
    ASSUME RouteInv, KeptInv, NEW c \in Call, NEW outcome \in Outcome, CallEnds(c, outcome)
    PROVE  KeptInv'
<1> DEFINE n == call[c].node
           counts == [inflight EXCEPT ![n] = IF inflight[n] = 0 THEN 0 ELSE inflight[n] - 1]
           calls == [call EXCEPT ![c] = NoCall]
<1>1. call[c] # NoCall /\ UNCHANGED vanished
  BY DEF CallEnds, boundVars
<1>2. /\ calls \in [Call -> CallSlot] /\ counts \in [Node -> Nat]
      /\ Owed(calls, counts, store, registry, pins)
      /\ \A d \in Call : calls[d].standing # "cut"
      /\ counts[n] = 0 => \A d \in Call : Kept(calls[d]) => calls[d].node # n
  BY <1>1, EndedCall
<1>3. Stored(store, vanished)
  BY DEF KeptInv
<1>4. \/ counts[n] = 0 /\ CloseNodes({n}, draining \ {n}, counts, calls, <<>>)
      \/ /\ inflight' = counts /\ call' = calls /\ UNCHANGED <<store, pins>>
         /\ UNCHANGED registry \/ Penalize(n) \/ Recover(n)
  BY DEF CallEnds
<1> HIDE DEF calls, counts
<1>5. CASE counts[n] = 0 /\ CloseNodes({n}, draining \ {n}, counts, calls, <<>>)
  <2>1. \A d \in Call : Kept(calls[d]) => calls[d].node \notin {n}
    BY <1>2, <1>5
  <2> QED
    BY <1>1, <1>2, <1>3, <1>5, <2>1, CloseNodesKept
<1>6. CASE /\ inflight' = counts /\ call' = calls /\ UNCHANGED <<store, pins>>
           /\ UNCHANGED registry \/ Penalize(n) \/ Recover(n)
  <2>1. \A m \in Node : registry[m] # "absent" => registry'[m] # "absent"
    BY <1>6 DEF Penalize, Recover, RouteInv
  <2>2. Owed(call', inflight', store', registry', pins')
    BY <1>2, <1>6, <2>1 DEF Owed
  <2> QED
    BY <1>1, <1>2, <1>3, <1>6, <2>2 DEF KeptInv, CallsKept
<1> QED
  BY <1>4, <1>5, <1>6

(* A call begins: on a channel there is or a new one, counted.                  *)
LEMMA CreateKept ==
    ASSUME RouteInv, ToldInv, KeptInv, NEW c \in Call, NEW n \in Node, NEW hard \in BOOLEAN,
           CreateCall(c, n, hard)
    PROVE  KeptInv'
<1> DEFINE slot == [node |-> n, standing |-> IF Strays(n) THEN "stray" ELSE "kept"]
<1>1. /\ call[c] = NoCall /\ Selected(snapshot, n)
      /\ store' = [store EXCEPT ![n] = StoreOf(n, hard)]
      /\ inflight' = [inflight EXCEPT ![n] = inflight[n] + 1]
      /\ call' = [call EXCEPT ![c] = slot]
      /\ UNCHANGED <<registry, pins, vanished>>
  BY DEF CreateCall, registryVars, boundVars
<1>2. /\ call \in [Call -> CallSlot] /\ inflight \in [Node -> Nat]
      /\ Stored(store, vanished)
      /\ Owed(call, inflight, store, registry, pins)
      /\ \A d \in Call : call[d].standing # "cut"
  BY DEF KeptInv, CallsKept
<1>3. /\ slot \in CallSlot /\ slot.node = n /\ slot.standing \in {"kept", "stray"}
      /\ slot.standing = "kept" => ~Strays(n)
  BY DEF CallSlot, Standing
<1> HIDE DEF slot
<1>4. slot # NoCall /\ \A d \in Call : Kept(call[d]) => call[d] # NoCall
  BY <1>3 DEF NoCall, Kept
<1>5. call' \in [Call -> CallSlot] /\ inflight' \in [Node -> Nat]
  BY <1>1, <1>2, <1>3
<1>6. \A d \in Call : call'[d].standing # "cut"
  BY <1>1, <1>2, <1>3
<1>7. /\ StoreOf(n, hard) \in {"channels", "retired", "pinned"}
      /\ n \in Discovered => StoreOf(n, hard) # "pinned"
      /\ n \notin Discovered => StoreOf(n, hard) = "pinned"
      /\ StoreOf(n, hard) = "retired" => vanished[n] > 0
  <2>1. /\ n \in Discovered => n \notin snapshot.pinned
        /\ n \notin Discovered => snapshot.registry[n] = "absent"
        /\ snapshot.registry[n] = "retired" => vanished[n] > 0
    BY DEF ToldInv, Told
  <2>2. n \notin Discovered => n \in snapshot.pinned
    BY <1>1, <2>1 DEF Selected, Named, Balanced, In
  <2>3. /\ store[n] \in {"none", "channels", "retired", "pinned"}
        /\ n \in Discovered => store[n] # "pinned"
        /\ n \notin Discovered => store[n] \in {"none", "pinned"}
        /\ store[n] = "retired" => vanished[n] > 0
    BY <1>2 DEF Stored
  <2> QED
    BY <2>1, <2>2, <2>3 DEF StoreOf
<1>8. Stored(store', vanished')
  BY <1>1, <1>2, <1>7 DEF Stored
<1>9. ASSUME NEW d \in Call, Kept(call'[d])
      PROVE  LET m == call'[d].node IN
               /\ m \in Node /\ store'[m] # "none"
               /\ registry'[m] # "absent" \/ pins'[m] > 0
               /\ IsFiniteSet(On(call', m)) /\ Cardinality(On(call', m)) <= inflight'[m]
  <2> DEFINE m == call'[d].node
  <2>1. CASE m # n
    <3>1. d # c /\ call'[d] = call[d]
      BY <1>1, <1>2, <1>3, <2>1
    <3>2. On(call', m) = On(call, m)
      BY <1>1, <1>2, <1>3, <2>1 DEF On, NoCall
    <3>3. /\ m \in Node /\ store[m] # "none"
          /\ registry[m] # "absent" \/ pins[m] > 0
          /\ IsFiniteSet(On(call, m)) /\ Cardinality(On(call, m)) <= inflight[m]
      BY <1>2, <1>9, <3>1 DEF Owed
    <3>4. store'[m] = store[m] /\ inflight'[m] = inflight[m]
      BY <1>1, <1>2, <2>1, <3>3 DEF Stored
    <3> QED
      BY <1>1, <3>2, <3>3, <3>4
  <2>2. CASE m = n
    <3>1. On(call', n) = On(call, n) \cup {c} /\ c \notin On(call, n)
      BY <1>1, <1>2, <1>3, <1>4 DEF On
    <3>2. /\ registry[n] # "absent" \/ pins[n] > 0
          /\ IsFiniteSet(On(call, n)) /\ Cardinality(On(call, n)) <= inflight[n]
      <4>1. CASE \E e \in Call : Kept(call[e]) /\ call[e].node = n
        BY <1>2, <4>1 DEF Owed
      <4>2. CASE ~\E e \in Call : Kept(call[e]) /\ call[e].node = n
        <5>1. d = c /\ ~Strays(n)
          BY <1>1, <1>2, <1>3, <1>9, <2>2, <4>2 DEF Kept
        <5>2. On(call, n) = {}
          BY <4>2, <5>1 DEF On, Strays, Kept
        <5>3. IsFiniteSet(On(call, n)) /\ Cardinality(On(call, n)) = 0
          BY <5>2, FS_EmptySet
        <5>4. registry[n] # "absent" \/ pins[n] > 0
          BY <5>1 DEF Strays, ToldInv
        <5> QED
          BY <1>2, <5>3, <5>4
      <4> QED
        BY <4>1, <4>2
    <3>3. IsFiniteSet(On(call', n)) /\ Cardinality(On(call', n)) = Cardinality(On(call, n)) + 1
      BY <3>1, <3>2, FS_AddElement
    <3>4. Cardinality(On(call, n)) \in Nat /\ inflight[n] \in Nat /\ inflight'[n] = inflight[n] + 1
      BY <1>1, <1>2, <3>2, FS_CardinalityType
    <3>5. Cardinality(On(call', n)) <= inflight'[n]
      BY <3>2, <3>3, <3>4
    <3>6. store'[n] # "none"
      BY <1>1, <1>2, <1>7 DEF Stored
    <3> QED
      BY <1>1, <2>2, <3>2, <3>3, <3>5, <3>6
  <2> QED
    BY <2>1, <2>2
<1>10. Owed(call', inflight', store', registry', pins')
  BY <1>9 DEF Owed
<1> QED
  BY <1>5, <1>6, <1>8, <1>10 DEF KeptInv, CallsKept

(* A round: what vanishes for the first time has its channel where it is looked *)
(* for.                                                                         *)
LEMMA RoundKept ==
    ASSUME MaxVanish <= 1, RouteInv, ToldInv, KeptInv,
           NEW found \in SUBSET Discovered, NEW moved \in SUBSET Discovered,
           RoundSucceeds(found, moved)
    PROVE  KeptInv'
<1> DEFINE vanishing == {n \in Node \ found : registry[n] \in Routable}
           undialed == {n \in vanishing : store[n] # "channels"}
           retired == vanishing \ undialed
           applied == [n \in Node |-> IF n \in found THEN "active"
                                      ELSE IF n \in vanishing THEN "retired"
                                      ELSE registry[n]]
           calls == Over(call, moved, "released")
<1>1. /\ \A n \in vanishing : vanished[n] < MaxVanish
      /\ vanished' = [n \in Node |-> vanished[n] + IF n \in vanishing THEN 1 ELSE 0]
      /\ registry' = [n \in Node |-> IF n \in undialed THEN "absent" ELSE applied[n]]
      /\ store' = Forget(Forget(store, retired, "retired"), moved \cup undialed, "none")
      /\ inflight' = Forget(inflight, moved \cup undialed, 0)
      /\ call' = Over(calls, undialed, "cut")
      /\ UNCHANGED pins
  BY DEF RoundSucceeds, ApplyRound
<1>2. /\ call \in [Call -> CallSlot] /\ inflight \in [Node -> Nat]
      /\ Stored(store, vanished)
      /\ Owed(call, inflight, store, registry, pins)
      /\ \A d \in Call : call[d].standing # "cut"
  BY DEF KeptInv, CallsKept
<1>3. vanished \in [Node -> Nat] /\ MaxVanish \in Nat
  BY EndpointsAssumption DEF ToldInv
<1>4. /\ calls \in [Call -> CallSlot]
      /\ \A n : On(calls, n) = On(call, n)
      /\ \A c \in Call : Kept(calls[c]) => calls[c] = call[c] /\ call[c].node \notin moved
      /\ \A c \in Call : calls[c].standing # "cut"
  BY <1>2, OverCalls
<1> HIDE DEF calls
<1>5. /\ call' \in [Call -> CallSlot]
      /\ \A n : On(call', n) = On(calls, n)
      /\ \A c \in Call : Kept(call'[c]) => call'[c] = calls[c] /\ calls[c].node \notin undialed
      /\ \A c \in Call : call'[c].standing = "cut" => Kept(calls[c]) /\ calls[c].node \in undialed
  BY <1>1, <1>4, OverCalls
\* An undialed node of a first time carries no call.
<1>6. ASSUME NEW c \in Call, Kept(calls[c]) PROVE calls[c].node \notin undialed
  <2> DEFINE n == calls[c].node
  <2>1. n \in Node /\ store[n] # "none"
    BY <1>2, <1>4, <1>6 DEF Owed
  <2>2. ASSUME n \in vanishing PROVE store[n] = "channels"
    <3>1. vanished[n] = 0
      BY <1>1, <1>3, <2>1, <2>2
    <3>2. registry[n] # "absent" /\ n \in Discovered
      BY <2>1, <2>2 DEF Routable, ToldInv, Told, Snapshot
    <3>3. /\ store[n] \in {"none", "channels", "retired", "pinned"}
          /\ store[n] # "pinned" /\ store[n] # "retired"
      <4>1. /\ store[n] \in {"none", "channels", "retired", "pinned"}
            /\ n \in Discovered => store[n] # "pinned"
            /\ store[n] = "retired" => vanished[n] > 0
        BY <1>2, <2>1 DEF Stored
      <4> QED
        BY <3>1, <3>2, <4>1
    <3> QED
      BY <2>1, <3>3
  <2> QED
    BY <2>2
<1>7. \A c \in Call : call'[c].standing # "cut"
  BY <1>5, <1>6
<1>8. inflight' \in [Node -> Nat]
  BY <1>1, <1>2 DEF Forget
<1>9. ASSUME NEW n \in Node
      PROVE  /\ store'[n] \in {"none", "channels", "retired", "pinned"}
             /\ n \in Discovered => store'[n] # "pinned"
             /\ n \notin Discovered => store'[n] \in {"none", "pinned"}
             /\ store'[n] = "retired" => vanished'[n] > 0
  <2>1. store'[n] = IF n \in moved \cup undialed THEN "none"
                    ELSE IF n \in retired THEN "retired" ELSE store[n]
    BY <1>1 DEF Forget
  <2>2. n \in vanishing => n \in Discovered
    BY DEF Routable, ToldInv, Told, Snapshot
  <2>3. /\ store[n] \in {"none", "channels", "retired", "pinned"}
        /\ n \in Discovered => store[n] # "pinned"
        /\ n \notin Discovered => store[n] \in {"none", "pinned"}
        /\ store[n] = "retired" => vanished[n] > 0
    BY <1>2 DEF Stored
  <2>4. /\ vanished'[n] \in Nat /\ vanished[n] \in Nat /\ vanished[n] <= vanished'[n]
        /\ n \in vanishing => vanished'[n] > 0
    BY <1>1, <1>3
  <2>5. n \in retired => n \in vanishing
    OBVIOUS
  <2> HIDE DEF vanishing, undialed, retired
  <2> QED
    BY <2>1, <2>2, <2>3, <2>4, <2>5
<1>10. Stored(store', vanished')
  <2>1. store' = [n \in Node |-> store'[n]]
    BY <1>1 DEF Forget
  <2> QED
    BY <1>9, <2>1 DEF Stored
<1>11. ASSUME NEW c \in Call, Kept(call'[c])
       PROVE  LET n == call[c].node IN
                /\ call'[c] = call[c] /\ inflight'[n] = inflight[n]
                /\ store[n] # "none" => store'[n] # "none"
                /\ registry[n] # "absent" \/ pins[n] > 0 =>
                     registry'[n] # "absent" \/ pins'[n] > 0
  <2> DEFINE n == call[c].node
  <2>1. Kept(calls[c]) /\ call'[c] = calls[c] /\ calls[c].node \notin undialed
    BY <1>5, <1>11
  <2>2. calls[c] = call[c] /\ n \notin moved /\ n \in Node
    BY <1>2, <1>4, <2>1 DEF Owed
  <2>3. n \notin moved \cup undialed
    BY <2>1, <2>2
  <2>4. inflight'[n] = inflight[n]
    BY <1>1, <2>2, <2>3 DEF Forget
  <2>5. store'[n] = IF n \in retired THEN "retired" ELSE store[n]
    BY <1>1, <2>2, <2>3 DEF Forget
  <2>6. registry[n] # "absent" => registry'[n] # "absent"
    BY <1>1, <2>2, <2>3
  <2> QED
    BY <1>1, <2>1, <2>2, <2>4, <2>5, <2>6
<1>12. \A n : On(call', n) = On(call, n)
  BY <1>4, <1>5
<1>13. Owed(call', inflight', store', registry', pins')
  BY <1>2, <1>11, <1>12, OwedOn
<1> QED
  BY <1>5, <1>7, <1>8, <1>10, <1>13 DEF KeptInv, CallsKept

(* The close waits for every node that carries a call it owes a channel.        *)
LEMMA CloseKept ==
    ASSUME ToldInv, KeptInv, Close
    PROVE  KeptInv'
<1> DEFINE known == Known(registry, pins)
           busy == {n \in known : Busy(n)}
           outs == IF known = {} THEN <<>> ELSE <<SnapshotOut(NoEntries, NoCount)>>
<1>1. CloseNodes(known \ busy, busy, inflight, call, outs) /\ UNCHANGED vanished
  BY DEF Close, boundVars
<1>2. /\ call \in [Call -> CallSlot] /\ inflight \in [Node -> Nat]
      /\ Stored(store, vanished)
      /\ Owed(call, inflight, store, registry, pins)
      /\ \A d \in Call : call[d].standing # "cut"
  BY DEF KeptInv, CallsKept
<1>3. ASSUME NEW c \in Call, Kept(call[c]) PROVE call[c].node \notin known \ busy
  <2> DEFINE n == call[c].node
  <2>1. /\ n \in Node /\ store[n] # "none"
        /\ registry[n] # "absent" \/ pins[n] > 0
        /\ IsFiniteSet(On(call, n)) /\ Cardinality(On(call, n)) <= inflight[n]
    BY <1>2, <1>3 DEF Owed
  <2>2. c \in On(call, n)
    BY <1>3 DEF On, Kept, NoCall
  <2>3. Cardinality(On(call, n)) \in Nat /\ Cardinality(On(call, n)) # 0
    BY <2>1, <2>2, FS_EmptySet, FS_CardinalityType
  <2>4. inflight[n] \in Nat
    BY <1>2, <2>1
  <2>5. inflight[n] > 0
    BY <2>1, <2>3, <2>4
  <2>6. /\ n \in Discovered => ~(pins[n] > 0)
        /\ n \notin Discovered => registry[n] = "absent"
    BY <2>1 DEF ToldInv, Told, Snapshot
  <2>7. /\ n \in Discovered => store[n] \in {"channels", "retired"}
        /\ n \notin Discovered => store[n] = "pinned"
    BY <1>2, <2>1 DEF Stored
  <2>8. Busy(n)
    BY <2>5, <2>6, <2>7 DEF Busy
  <2> QED
    BY <2>1, <2>8
<1> HIDE DEF known, busy, outs
<1> QED
  BY <1>1, <1>2, <1>3, CloseNodesKept

(* The other ends.                                                              *)
LEMMA EndKept ==
    ASSUME KeptInv, NEW outs, Terminate(inflight, call, "released", outs), UNCHANGED vanished
    PROVE  KeptInv'
<1>1. /\ call \in [Call -> CallSlot] /\ inflight \in [Node -> Nat]
      /\ Stored(store, vanished)
      /\ Owed(call, inflight, store, registry, pins)
      /\ \A d \in Call : call[d].standing # "cut"
  BY DEF KeptInv, CallsKept
<1> QED
  BY <1>1, TerminateKept

LEMMA SweepKept ==
    ASSUME KeptInv, NEW broken \in SUBSET Discovered, IdleSweep(broken)
    PROVE  KeptInv'
<1> DEFINE gone == {n \in broken : registry[n] = "retired"}
<1>1. /\ registry' = Forget(registry, gone, "absent")
      /\ DropChannels(gone, inflight, call, "released")
      /\ UNCHANGED <<pins, vanished>>
  BY DEF IdleSweep, boundVars
<1>2. /\ call \in [Call -> CallSlot] /\ inflight \in [Node -> Nat]
      /\ Stored(store, vanished)
      /\ Owed(call, inflight, store, registry, pins)
      /\ \A d \in Call : call[d].standing # "cut"
  BY DEF KeptInv, CallsKept
<1> HIDE DEF gone
<1>3. \A n \in Node \ gone : registry'[n] = registry[n] /\ pins'[n] = pins[n]
  BY <1>1 DEF Forget
<1> QED
  BY <1>1, <1>2, <1>3, DropsKeep

LEMMA PinKept ==
    ASSUME ToldInv, KeptInv, NEW h \in Handle, NEW renewed \in BOOLEAN, Pin(h, renewed)
    PROVE  KeptInv'
<1> DEFINE n == Target[h]
<1>1. /\ pins' = [pins EXCEPT ![n] = pins[n] + 1] /\ n \in Node
      /\ DropPinned(n) \/ UNCHANGED <<channelVars, call>>
      /\ UNCHANGED <<registry, vanished>>
  BY EndpointsAssumption DEF Pin, Referenced, boundVars
<1>2. \A m \in Node : pins[m] > 0 => pins'[m] > 0
  BY <1>1 DEF ToldInv
<1> QED
  BY <1>1, <1>2, DropPinnedKept, KeptRests DEF channelVars

LEMMA InvalidateKept ==
    ASSUME ToldInv, KeptInv, NEW h \in Handle, Target[h] \notin Discovered, Invalidate(h)
    PROVE  KeptInv'
<1> DEFINE n == Target[h]
           held == [pins EXCEPT ![n] = IF pins[n] = 0 THEN 0 ELSE pins[n] - 1]
<1>1. UNCHANGED vanished
  BY DEF Invalidate, boundVars
<1>2. n \in Node /\ pins \in [Node -> Nat] /\ registry[n] = "absent"
  BY EndpointsAssumption DEF ToldInv, Told, Snapshot
<1>3. \/ pins[n] # 1 /\ pins' = held /\ UNCHANGED <<registry, store, inflight, call>>
      \/ Terminate(inflight, call, "released", <<>>)
      \/ pins' = held /\ DropPinned(n) /\ UNCHANGED registry
  BY DEF Invalidate, channelVars
<1>4. /\ \A m \in Node \ {n} : held[m] = pins[m]
      /\ held[n] = IF pins[n] = 0 THEN 0 ELSE pins[n] - 1
  BY <1>2
<1>5. pins[n] # 1 /\ pins[n] > 0 => held[n] > 0
  BY <1>2, <1>4
<1> HIDE DEF held
<1>6. CASE pins[n] # 1 /\ pins' = held /\ UNCHANGED <<registry, store, inflight, call>>
  BY <1>1, <1>4, <1>5, <1>6, KeptRests
<1>7. CASE Terminate(inflight, call, "released", <<>>)
  BY <1>1, <1>7, EndKept
\* Without the pin's own channel the node has none, so nothing is owed on it.
<1>8. CASE pins' = held /\ DropPinned(n) /\ UNCHANGED registry
  <2>1. CASE store[n] = "pinned"
    BY <1>1, <1>2, <1>4, <1>8, <2>1, DropPinnedKept
  <2>2. CASE store[n] # "pinned"
    <3>1. UNCHANGED <<store, call, inflight>>
      BY <1>8, <2>2 DEF DropPinned
    <3>2. store[n] = "none"
      BY <1>2, <2>2 DEF KeptInv, Stored
    <3>3. Owed(call, inflight, store, registry, pins)
      BY DEF KeptInv
    <3>4. \A c \in Call : Kept(call[c]) => call[c].node \in Node \ {n}
      BY <3>2, <3>3 DEF Owed
    <3>5. Owed(call', inflight', store', registry', pins')
      BY <1>4, <1>8, <3>1, <3>3, <3>4 DEF Owed
    <3> QED
      BY <1>1, <3>1, <3>5 DEF KeptInv, CallsKept
  <2> QED
    BY <2>1, <2>2
<1> QED
  BY <1>3, <1>6, <1>7, <1>8

(* Every step keeps the calls.                                                  *)
LEMMA KeptStep ==
    ASSUME Separate, MaxVanish <= 1
    PROVE  RouteInv /\ ToldInv /\ KeptInv /\ [Next]_vars => KeptInv'
<1> SUFFICES ASSUME RouteInv, ToldInv, KeptInv, [Next]_vars PROVE KeptInv'
  OBVIOUS
<1>1. CASE Discovery
  <2>1. CASE FirstRoundRefused
    BY <2>1, EndKept DEF FirstRoundRefused, boundVars
  <2>2. CASE RoundFails \/ RoundAfterClosing \/ BackoffFires \/ IntervalFires
    BY <2>2, KeptRests DEF RoundFails, RoundAfterClosing, BackoffFires, IntervalFires,
       registryVars, channelVars, boundVars
  <2> QED
    BY <1>1, <2>1, <2>2, RoundKept, SweepKept DEF Discovery
<1>2. CASE Client
  <2>1. CASE CloseDeadline \/ Destroy
    BY <2>1, EndKept DEF CloseDeadline, Destroy, boundVars
  <2> QED
    BY <1>2, <2>1, CallKept, PinKept, InvalidateKept, CloseKept DEF Client, Separate
<1>3. ASSUME NEW c \in Call, NEW n \in Node, NEW hard \in BOOLEAN, CreateCall(c, n, hard)
      PROVE  KeptInv'
  BY <1>3, CreateKept
<1>4. CASE Drain
  BY <1>4, KeptRests DEF Drain, registryVars, channelVars, boundVars
<1>5. CASE UNCHANGED vars
  BY <1>5, KeptRests DEF vars, registryVars, channelVars, boundVars
<1> QED
  BY <1>1, <1>2, <1>3, <1>4, <1>5 DEF Next

(* No call in flight is cut, through retirement, revival, sweeps, moves of      *)
(* other nodes and a graceful close, for every cluster and any number of calls  *)
(* and clients: as long as no node drops out of discovery twice and clients of  *)
(* their own pin nodes that discovery does not name. Without either hypothesis  *)
(* the code cuts calls.                                                         *)
THEOREM CallsKeptHolds ==
    ASSUME Separate, MaxVanish <= 1 PROVE Spec => []CallsKept
<1>1. Init => RouteInv /\ ToldInv /\ KeptInv
  <2> SUFFICES ASSUME Init PROVE RouteInv /\ ToldInv /\ KeptInv
    OBVIOUS
  <2>1. /\ registry = NoEntries /\ state = "discovering" /\ outputs = <<>>
        /\ ready = "pending" /\ pins = NoCount /\ vanished = NoCount
        /\ snapshot = Snapshot(NoEntries, NoCount)
        /\ store = [n \in Node |-> "none"] /\ inflight = NoCount
        /\ call = [c \in Call |-> NoCall]
    BY DEF Init
  <2>2. outputs \in Seq(Output) /\ Len(outputs) = 0
    BY <2>1, NoReady
  <2>3. RouteInv
    BY <2>1, <2>2 DEF RouteInv, Unannounced, Serving, NoEntries, Sub
  <2>4. ToldInv
    BY <2>1, <2>2, EmptyTold DEF ToldInv, AllTold, NoCount
  <2>5. NoCall \in CallSlot /\ ~Kept(NoCall) /\ NoCall.standing # "cut"
    BY DEF NoCall, CallSlot, Standing, Kept
  <2>6. KeptInv
    BY <2>1, <2>5 DEF KeptInv, Stored, Owed, CallsKept, NoCount
  <2> QED
    BY <2>3, <2>4, <2>6
<1>2. KeptInv => CallsKept
  BY DEF KeptInv
<1>3. RouteInv /\ ToldInv /\ [Next]_vars => ToldInv'
  BY ToldStep
<1>4. RouteInv /\ ToldInv /\ KeptInv /\ [Next]_vars => KeptInv'
  BY KeptStep
<1> QED
  BY <1>1, <1>2, <1>3, <1>4, RouteStep, PTL DEF Spec

================================================================================
