------------------------------- MODULE Endpoints -------------------------------
(* The endpoints engine of the driver (packages/core): discovery of the         *)
(* cluster's nodes, the health of each of them, the channels the calls run on,  *)
(* the pins of direct clients, and the graceful close.                          *)
(*                                                                              *)
(* Everything a dispatch causes happens within it: the machine handles the      *)
(* events its own effects dispatch before it returns, so `channel_closeable`    *)
(* right behind a round or a close is part of that step. What is asynchronous   *)
(* is the reading side: snapshots and confirmations leave by a queue, and a     *)
(* call picks its node from the last snapshot read from it.                     *)
EXTENDS Naturals, Sequences, FiniteSets, SequencesExt, TLC

CONSTANTS
    Node,           \* cluster nodes
    Discovered,     \* the nodes that ListEndpoints may name
    Handle,         \* clients created with an endpoint of their own, in this order
    Target,         \* the node each of them pins
    Call,           \* slots for concurrent calls, the lowest free one is taken
    MaxVanish,      \* bound: how often one node drops out of discovery
    MaxMoves,       \* bound: how often a node comes back at another address
    MaxLag          \* bound: no event while this many outputs wait to be read

ASSUME EndpointsAssumption ==
    /\ IsFiniteSet(Node)
    /\ Discovered \subseteq Node
    /\ Handle \subseteq Nat /\ Call \subseteq Nat
    /\ Target \in [Handle -> Node]
    /\ MaxVanish \in Nat /\ MaxMoves \in Nat /\ MaxLag \in Nat

VARIABLES
    state,          \* the machine's state
    registry,       \* byNodeId: the entry's sub-state, "absent" when there is none
    pins,           \* pinned: references held on each node
    roundInFlight,  \* the flag of the machine
    backoff,        \* the discovery_backoff timer is armed
    rounds,         \* ListEndpoints calls under way
    store,          \* where each node's channel is kept, "none" when not dialed
    inflight,       \* calls counted per node
    draining,       \* nodes a close is waiting for
    outputs,        \* outputs emitted and not read yet
    snapshot,       \* what acquire() reads
    ready,          \* the promise of ready()
    handle,         \* each pinned client: its pin() promise
    call,           \* the calls: node and standing
    vanished, moves \* counters of the bounds

registryVars == <<state, registry, pins>>
discoveryVars == <<roundInFlight, backoff, rounds>>
channelVars == <<store, inflight, draining>>
readVars == <<snapshot, ready>>
boundVars == <<vanished, moves>>
vars == <<registryVars, discoveryVars, channelVars, outputs, readVars, handle, call, boundVars>>

Live == {"discovering", "ready", "degraded"}
Serving == {"ready", "degraded"}
Routable == {"active", "pessimized"}
NoCall == [node |-> "none", standing |-> "ended"]

(* A call stands "kept" while the engine owes it an open channel; "stray" when  *)
(* it started on a node the engine no longer knows, during the close, or beside *)
(* a call whose count was forgotten; "released" when its channel was closed for *)
(* a reason the design names; "cut" when it was closed without one.             *)
Standing == {"ended", "kept", "stray", "released", "cut"}

Snapshot(reg, held) == [registry |-> reg, pinned |-> {n \in Node : held[n] > 0}]
NoEntries == [n \in Node |-> "absent"]
NoCount == [n \in Node |-> 0]
SnapshotOut(reg, held) == [type |-> "snapshot", snapshot |-> Snapshot(reg, held)]
Out(type) == [type |-> type]
Emit(outs) == outputs' = outputs \o outs

WithCount(reg, sub) == Cardinality({n \in Node : reg[n] = sub})
HealthState(reg) ==
    IF WithCount(reg, "pessimized") > WithCount(reg, "active") THEN "degraded" ELSE "ready"

--------------------------------------------------------------------------------
(* Channels *)

\* Closing the channels of `nodes` ends the calls on them.
Over(calls, nodes, standing) ==
    [c \in Call |->
       IF calls[c].node \notin nodes \/ calls[c].standing \notin {"kept", "stray"} THEN calls[c]
       ELSE [calls[c] EXCEPT !.standing = IF @ = "stray" THEN "released" ELSE standing]]

Forget(f, nodes, value) == [n \in Node |-> IF n \in nodes THEN value ELSE f[n]]

\* dropChannel: the channel closes whichever store holds it, and the node's
\* bookkeeping is forgotten with it.
DropChannels(nodes, counts, calls, standing) ==
    /\ store' = Forget(store, nodes, "none")
    /\ inflight' = Forget(counts, nodes, 0)
    /\ call' = Over(calls, nodes, standing)

\* With store: 'pinned' only the pin's channel closes, and the count stays.
DropPinned(n) ==
    /\ store' = IF store[n] = "pinned" THEN [store EXCEPT ![n] = "none"] ELSE store
    /\ call' = IF store[n] = "pinned" THEN Over(call, {n}, "released") ELSE call
    /\ UNCHANGED <<inflight, draining>>

\* terminate and finalizeEnv: every channel closes, routing is emptied, the
\* abort signal ends the round under way.
Terminate(counts, calls, standing, outs) ==
    /\ state' = "closed"
    /\ registry' = NoEntries
    /\ pins' = NoCount
    /\ roundInFlight' = FALSE
    /\ backoff' = FALSE
    /\ rounds' = 0
    /\ draining' = {}
    /\ DropChannels(Node, counts, calls, standing)
    /\ Emit(outs \o <<SnapshotOut(NoEntries, NoCount), Out("closed")>>)

Known(reg, held) == {n \in Node : reg[n] # "absent" \/ held[n] > 0}

\* channel_closeable while closing: the entries of `nodes` go with their
\* channels, and the machine is closed with the last one.
CloseNodes(nodes, waited, counts, calls, outs) ==
    IF Known(registry, pins) \subseteq nodes
    THEN Terminate(counts, calls, "cut", outs)
    ELSE /\ state' = "closing"
         /\ registry' = Forget(registry, nodes, "absent")
         /\ pins' = Forget(pins, nodes, 0)
         /\ draining' = waited
         /\ DropChannels(nodes, counts, calls, "cut")
         /\ backoff' = FALSE
         /\ UNCHANGED <<roundInFlight, rounds>>
         /\ Emit(outs)

--------------------------------------------------------------------------------
(* Discovery *)

\* The snapshots of entries removed one after the other.
Removals(reg, gone) ==
    LET order == SetToSeq(gone)
        without(i) == [n \in Node |->
                         IF n \in {order[j] : j \in 1..i} THEN "absent" ELSE reg[n]]
    IN [i \in 1..Len(order) |-> SnapshotOut(without(i), pins)]

\* A vanished node with a channel is retired; retire_channel finds none in
\* `channels` for the others and reports them closeable at once.
ApplyRound(found, moved) ==
    LET vanishing == {n \in Node \ found : registry[n] \in Routable}
        undialed  == {n \in vanishing : store[n] # "channels"}
        retired   == vanishing \ undialed
        applied   == [n \in Node |-> IF n \in found THEN "active"
                                     ELSE IF n \in vanishing THEN "retired"
                                     ELSE registry[n]]
    IN /\ \A n \in vanishing : vanished[n] < MaxVanish
       /\ vanished' = [n \in Node |-> vanished[n] + IF n \in vanishing THEN 1 ELSE 0]
       /\ moves' = moves + Cardinality(moved)
       /\ registry' = [n \in Node |-> IF n \in undialed THEN "absent" ELSE applied[n]]
       /\ state' = HealthState(applied)
       /\ store' = Forget(Forget(store, retired, "retired"), moved \cup undialed, "none")
       /\ inflight' = Forget(inflight, moved \cup undialed, 0)
       /\ call' = Over(Over(call, moved, "released"), undialed, "cut")
       /\ Emit(<<SnapshotOut(applied, pins)>>
               \o (IF state = "discovering" THEN <<Out("ready")>> ELSE <<>>)
               \o Removals(applied, undialed))

Usable_Any(found) == TRUE

\* An answer that names no endpoint is a failure.
Usable(found) == found # {}

RoundSucceeds(found, moved) ==
    /\ rounds > 0
    /\ state \in Live
    /\ Usable(found)
    /\ moved \subseteq {n \in found : registry[n] # "absent"}
    /\ moves + Cardinality(moved) <= MaxMoves
    /\ rounds' = rounds - 1
    /\ roundInFlight' = FALSE
    /\ ApplyRound(found, moved)
    /\ UNCHANGED <<pins, backoff, draining, readVars, handle>>

\* A retryable failure, and an answer that names no endpoint: the registry stays.
RoundFails ==
    /\ rounds > 0
    /\ state \in Live
    /\ rounds' = rounds - 1
    /\ roundInFlight' = FALSE
    /\ backoff' = TRUE
    /\ UNCHANGED <<registryVars, channelVars, outputs, readVars, handle, call, boundVars>>

\* Before the first round a failure that may not be retried ends the pool; later
\* it is one more failure of the background.
FirstRoundRefused ==
    /\ rounds > 0
    /\ state = "discovering"
    /\ Terminate(inflight, call, "released", <<Out("failed")>>)
    /\ UNCHANGED <<readVars, handle, boundVars>>

RoundAfterClosing ==
    /\ rounds > 0
    /\ state = "closing"
    /\ rounds' = rounds - 1
    /\ roundInFlight' = FALSE
    /\ UNCHANGED <<registryVars, backoff, channelVars, outputs, readVars, handle, call, boundVars>>

StartRound ==
    /\ roundInFlight' = TRUE
    /\ rounds' = rounds + 1

BackoffFires ==
    /\ backoff
    /\ state \in Live
    /\ backoff' = FALSE
    /\ IF state \in Serving /\ roundInFlight
       THEN UNCHANGED <<roundInFlight, rounds>>
       ELSE StartRound
    /\ UNCHANGED <<registryVars, channelVars, outputs, readVars, handle, call, boundVars>>

IntervalFires_Unguarded ==
    /\ state \in Serving
    /\ StartRound
    /\ backoff' = FALSE
    /\ UNCHANGED <<registryVars, channelVars, outputs, readVars, handle, call, boundVars>>

\* The interval, and discovery.force.
IntervalFires ==
    /\ state \in Serving
    /\ ~roundInFlight
    /\ StartRound
    /\ backoff' = FALSE
    /\ UNCHANGED <<registryVars, channelVars, outputs, readVars, handle, call, boundVars>>

\* idle_sweep: a retired channel that is shut down, or not READY for longer than
\* the grace, is closed; `broken` is what the sweep finds so. A node that was
\* named again since keeps its channel.
IdleSweep(broken) ==
    LET gone == {n \in broken : registry[n] = "retired"} IN
    /\ state \in Serving
    /\ gone # {}
    /\ \A n \in broken : store[n] = "retired"
    /\ registry' = Forget(registry, gone, "absent")
    /\ DropChannels(gone, inflight, call, "released")
    /\ Emit(Removals(registry, gone))
    /\ UNCHANGED <<state, pins, discoveryVars, draining, readVars, handle, boundVars>>

--------------------------------------------------------------------------------
(* Calls *)

\* selectEndpoint: a preferred node that the snapshot still names, else any
\* active one (tiers of locality and pile only narrow the choice), else any
\* pessimized one. A hard client gets its own node or nothing.
Named(s, n) == s.registry[n] # "absent" \/ n \in s.pinned
In(s, sub) == {n \in Node : s.registry[n] = sub}
Balanced(s) == IF In(s, "active") # {} THEN In(s, "active") ELSE In(s, "pessimized")
Selected(s, n) == Named(s, n) \/ n \in Balanced(s)

\* #materialize: the channel there is, else a new one in the store of the ref.
StoreOf(n, hard) ==
    IF store[n] # "none" THEN store[n]
    ELSE IF n \in snapshot.pinned /\ (hard \/ snapshot.registry[n] = "absent") THEN "pinned"
    ELSE IF snapshot.registry[n] = "retired" THEN "retired"
    ELSE "channels"

Strays(n) ==
    \/ state = "closing"
    \/ registry[n] = "absent" /\ pins[n] = 0
    \/ \E c \in Call : call[c].node = n /\ call[c].standing # "kept"

CreateCall(c, n, hard) ==
    /\ call[c] = NoCall
    /\ \A d \in Call : d < c => call[d] # NoCall
    /\ state # "closed"
    /\ Selected(snapshot, n)
    /\ store' = [store EXCEPT ![n] = StoreOf(n, hard)]
    /\ inflight' = [inflight EXCEPT ![n] = @ + 1]
    /\ call' = [call EXCEPT ![c] =
                  [node |-> n, standing |-> IF Strays(n) THEN "stray" ELSE "kept"]]
    /\ UNCHANGED <<registryVars, discoveryVars, draining, outputs, readVars, handle, boundVars>>

Penalize(n) ==
    LET banned == [registry EXCEPT ![n] = "pessimized"] IN
    IF state \in Serving /\ registry[n] = "active"
    THEN /\ registry' = banned
         /\ state' = HealthState(banned)
         /\ Emit(<<SnapshotOut(banned, pins)>>)
         /\ IF HealthState(banned) = "degraded" /\ ~roundInFlight
            THEN StartRound /\ backoff' = FALSE
            ELSE UNCHANGED discoveryVars
    ELSE UNCHANGED <<state, registry, outputs, discoveryVars>>

Recover(n) ==
    LET healed == [registry EXCEPT ![n] = "active"] IN
    IF /\ snapshot.registry[n] = "pessimized"
       /\ state \in Serving
       /\ registry[n] = "pessimized"
    THEN /\ registry' = healed
         /\ state' = HealthState(healed)
         /\ Emit(<<SnapshotOut(healed, pins)>>)
         /\ UNCHANGED discoveryVars
    ELSE UNCHANGED <<state, registry, outputs, discoveryVars>>

\* callEnded, then the outcome. The node's count may have been forgotten with its
\* channel: then it stays at zero. At zero a close that waits for the node goes on.
Outcome == {"ok", "transport", "neither"}
CallEnds(c, outcome) ==
    LET n == call[c].node
        counts == [inflight EXCEPT ![n] = IF @ = 0 THEN 0 ELSE @ - 1]
        calls == [call EXCEPT ![c] = NoCall]
    IN /\ call[c] # NoCall
       /\ IF counts[n] = 0 /\ n \in draining
          THEN CloseNodes({n}, draining \ {n}, counts, calls, <<>>)
          ELSE /\ inflight' = counts
               /\ call' = calls
               /\ CASE outcome = "transport" -> Penalize(n)
                    [] outcome = "ok" -> Recover(n)
                    [] OTHER -> UNCHANGED <<state, registry, outputs, discoveryVars>>
               /\ UNCHANGED <<store, draining, pins>>
       /\ UNCHANGED <<readVars, handle, boundVars>>

--------------------------------------------------------------------------------
(* Pins *)

Referenced_Anew(n) == 1

\* A pin adds a reference to those the node has.
Referenced(n) == pins[n] + 1

\* Another generation or address than the pin before closes that pin's channel.
Pin(h, renewed) ==
    LET n == Target[h]
        held == [pins EXCEPT ![n] = Referenced(n)]
    IN /\ handle[h] = "none"
       /\ \A g \in Handle : g < h => handle[g] # "none"
       /\ state \in Live
       /\ renewed => pins[n] > 0
       /\ handle' = [handle EXCEPT ![h] = "pending"]
       /\ pins' = held
       /\ Emit(<<SnapshotOut(registry, held), [type |-> "pin_applied", handle |-> h]>>)
       /\ IF renewed THEN DropPinned(n) ELSE UNCHANGED <<channelVars, call>>
       /\ UNCHANGED <<state, registry, discoveryVars, readVars, boundVars>>

\* Dispose of the client: one reference less, and with the last one the pin goes.
Invalidate(h) ==
    LET n == Target[h]
        held == [pins EXCEPT ![n] = IF @ = 0 THEN 0 ELSE @ - 1]
    IN /\ handle[h] \in {"pending", "held"}
       /\ handle' = [handle EXCEPT ![h] = "disposed"]
       /\ IF pins[n] # 1
          THEN /\ pins' = held
               /\ UNCHANGED <<state, registry, outputs, discoveryVars, channelVars, call>>
          ELSE IF state = "closing" /\ Known(registry, held) = {}
          THEN Terminate(inflight, call, "released", <<>>)
          ELSE /\ pins' = held
               /\ DropPinned(n)
               /\ Emit(IF state = "closing" THEN <<>> ELSE <<SnapshotOut(registry, held)>>)
               /\ UNCHANGED <<state, registry, discoveryVars>>
       /\ UNCHANGED <<readVars, boundVars>>

--------------------------------------------------------------------------------
(* The end *)

Busy_NotRetired(n) ==
    /\ inflight[n] > 0
    /\ registry[n] # "absent" => store[n] = "channels"
    /\ pins[n] > 0 => store[n] = "pinned"

\* begin_close_drain: a node with a channel and calls counted on it is waited
\* for; any other is closeable now. A node both discovered and pinned is looked
\* up once for each.
Busy(n) ==
    /\ inflight[n] > 0
    /\ registry[n] # "absent" => store[n] \in {"channels", "retired"}
    /\ pins[n] > 0 => store[n] = "pinned"

Close_Unwatched ==
    LET known == Known(registry, pins)
        outs == IF known = {} THEN <<>> ELSE <<SnapshotOut(NoEntries, NoCount)>>
    IN /\ state \in Live
       /\ CloseNodes({n \in known : ~Busy(n)}, {}, inflight, call, outs)
       /\ UNCHANGED <<readVars, handle, boundVars>>

Close ==
    LET known == Known(registry, pins)
        busy == {n \in known : Busy(n)}
        outs == IF known = {} THEN <<>> ELSE <<SnapshotOut(NoEntries, NoCount)>>
    IN /\ state \in Live
       /\ CloseNodes(known \ busy, busy, inflight, call, outs)
       /\ UNCHANGED <<readVars, handle, boundVars>>

CloseDeadline ==
    /\ state = "closing"
    /\ Terminate(inflight, call, "released", <<>>)
    /\ UNCHANGED <<readVars, handle, boundVars>>

Destroy ==
    /\ state # "closed"
    /\ Terminate(inflight, call, "released", <<>>)
    /\ UNCHANGED <<readVars, handle, boundVars>>

\* #drain reads one output.
Drain ==
    LET out == Head(outputs)
        settle(p, how) == IF p = "pending" THEN how ELSE p
    IN /\ outputs # <<>>
       /\ outputs' = Tail(outputs)
       /\ snapshot' = IF out.type = "snapshot" THEN out.snapshot ELSE snapshot
       /\ ready' = CASE out.type = "ready" -> settle(ready, "resolved")
                     [] out.type \in {"failed", "closed"} -> settle(ready, "rejected")
                     [] OTHER -> ready
       /\ handle' = CASE out.type = "pin_applied" ->
                           [handle EXCEPT ![out.handle] = settle(@, "held")]
                      [] out.type = "closed" ->
                           [h \in Handle |-> settle(handle[h], "rejected")]
                      [] OTHER -> handle
       /\ UNCHANGED <<registryVars, discoveryVars, channelVars, call, boundVars>>

--------------------------------------------------------------------------------
Init ==
    /\ state = "discovering"
    /\ registry = NoEntries
    /\ pins = NoCount
    /\ roundInFlight = TRUE
    /\ backoff = FALSE
    /\ rounds = 1
    /\ store = [n \in Node |-> "none"]
    /\ inflight = NoCount
    /\ draining = {}
    /\ outputs = <<>>
    /\ snapshot = Snapshot(NoEntries, NoCount)
    /\ ready = "pending"
    /\ handle = [h \in Handle |-> "none"]
    /\ call = [c \in Call |-> NoCall]
    /\ vanished = NoCount
    /\ moves = 0

Discovery ==
    \/ \E found, moved \in SUBSET Discovered : RoundSucceeds(found, moved)
    \/ RoundFails
    \/ FirstRoundRefused
    \/ RoundAfterClosing
    \/ BackoffFires
    \/ IntervalFires
    \/ \E broken \in SUBSET Discovered : IdleSweep(broken)

Client ==
    \/ \E c \in Call, outcome \in Outcome : CallEnds(c, outcome)
    \/ \E h \in Handle, renewed \in BOOLEAN : Pin(h, renewed)
    \/ \E h \in Handle : Invalidate(h)
    \/ Close
    \/ CloseDeadline
    \/ Destroy

Next ==
    \/ Len(outputs) < MaxLag /\ (Discovery \/ Client)
    \/ \E c \in Call, n \in Node, hard \in BOOLEAN : CreateCall(c, n, hard)
    \/ Drain

Spec == Init /\ [][Next]_vars

(* Outputs are read and calls end. The close deadline is not counted on.        *)
Fairness ==
    /\ WF_vars(Drain)
    /\ \A c \in Call : WF_vars(\E outcome \in Outcome : CallEnds(c, outcome))

FairSpec == Spec /\ Fairness

--------------------------------------------------------------------------------
TypeOK ==
    /\ state \in Live \cup {"closing", "closed"}
    /\ registry \in [Node -> Routable \cup {"absent", "retired"}]
    /\ pins \in [Node -> 0..Cardinality(Handle)]
    /\ roundInFlight \in BOOLEAN /\ backoff \in BOOLEAN /\ rounds \in Nat
    /\ store \in [Node -> {"none", "channels", "retired", "pinned"}]
    /\ inflight \in [Node -> 0..Cardinality(Call)]
    /\ draining \subseteq Node
    /\ ready \in {"pending", "resolved", "rejected"}
    /\ handle \in [Handle -> {"none", "pending", "held", "disposed", "rejected"}]
    /\ \A c \in Call : call[c] = NoCall \/
                       call[c] \in [node : Node, standing : Standing \ {"ended"}]

(* Discovery is single-flight: whatever interval, backoff, force and penalties  *)
(* start, the flag counts the ListEndpoints calls under way exactly.            *)
SingleFlight == rounds = IF roundInFlight THEN 1 ELSE 0

(* A channel that carries a call stays open until the call is over, through     *)
(* retirement, revival, sweeps of other nodes and a graceful close, unless its  *)
(* node moved, its pin was renewed or released, the channel itself was broken,  *)
(* or the close was forced.                                                     *)
CallsKept == \A c \in Call : call[c].standing # "cut"

(* Once ready() resolved, a balanced call finds a node until the pool closes:   *)
(* no round, penalty or removal leaves the read snapshot without a target.      *)
NeverUnroutable ==
    ready = "resolved" /\ state \in Serving => Balanced(snapshot) # {}

(* A client whose pin() was confirmed and who has not disposed of it finds its  *)
(* own node in the snapshot, however other clients of the node come and go.     *)
PinRoutable ==
    \A h \in Handle : handle[h] = "held" /\ state \in Live => Target[h] \in snapshot.pinned

(* A graceful close ends without its deadline once the calls do, and nobody is  *)
(* left waiting: ready() and every pin() are settled.                           *)
CloseDrains ==
    (state = "closing") ~>
        /\ state = "closed"
        /\ ready # "pending"
        /\ \A h \in Handle : handle[h] # "pending"

================================================================================
