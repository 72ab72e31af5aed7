---------------------------- MODULE SessionPool ----------------------------
(***************************************************************************)
(* The query session pool: packages/query/src/session-pool.ts, with the    *)
(* part of packages/query/src/session.ts that decides when a session is    *)
(* alive.                                                                  *)
(*                                                                         *)
(* The program is single-threaded: an action is what runs between two      *)
(* awaits.  Three promise continuations are steps of their own, because    *)
(* another callback can run before them:                                   *)
(*   - Session.open has settled, #grow has not resumed     (s \in creates  *)
(*     with life[s] past "opening");                                       *)
(*   - #grow has returned to #growAndPark, which has not parked the session*)
(*     (s \in parking);                                                    *)
(*   - a waiter or an acquirer has been given a session and its acquire()  *)
(*     has not returned yet (pc[c] = "granted").                           *)
(***************************************************************************)
EXTENDS Naturals, Sequences, FiniteSets

CONSTANTS
  Client,       \* concurrent callers of acquire()
  Session,      \* identities of Session objects; reused once nothing refers to one
  MaxSize,      \* options.maxSize
  MinSize,      \* options.minSize
  MaxWaiters,   \* maxSize * waitQueueFactor
  Warmup,       \* the owner of a create started by #growAndPark
  NoSession,    \* "holds no session"
  OpenMayFail,  \* may Session.open reject while the pool is open?
  EarlyDeath    \* may the attach stream end before #grow binds the eviction listener?

ASSUME PoolAssumption ==
  /\ MaxSize \in Nat \ {0}
  /\ MinSize \in 0 .. MaxSize      \* the constructor's RangeError
  /\ MaxWaiters \in Nat
  /\ Warmup \notin Client
  /\ NoSession \notin Session
  /\ OpenMayFail \in BOOLEAN
  /\ EarlyDeath \in BOOLEAN
  /\ IsFiniteSet(Session)

VARIABLES
  pool,         \* "open", "closing" (close() awaits #creates), "closed"
  all,          \* #all
  available,    \* #available, the last element is popped first
  waiters,      \* #waiters, the first element is served first
  creates,      \* #creates: creates whose #grow has not resumed yet
  owner,        \* who a create is for: a client, or Warmup
  life,         \* the session's own state, see Life
  bound,        \* sessions whose abort listener will run the eviction handler
  parking,      \* sessions on their way from #grow to #growAndPark
  pc,           \* where each client is in acquire() / release()
  lease,        \* the session a client was granted or holds
  created,      \* history: sessions with a session.created event
  closedEvents  \* history: how many session.closed events each session had

poolVars    == <<pool, all, available, waiters, creates>>
sessionVars == <<owner, life, bound, parking, created, closedEvents>>
clientVars  == <<pc, lease>>
vars == <<poolVars, sessionVars, clientVars>>

Life == {"unborn", "opening", "failed", "alive", "dead"}
ClientState == {"idle", "waiting", "growing", "granted", "holding"}

TypeOK ==
  /\ pool \in {"open", "closing", "closed"}
  /\ all \in SUBSET Session
  /\ available \in Seq(Session)
  /\ waiters \in Seq(Client)
  /\ Len(waiters) <= MaxWaiters
  /\ creates \in SUBSET Session
  /\ owner \in [Session -> Client \cup {Warmup}]
  /\ life \in [Session -> Life]
  /\ bound \in SUBSET Session
  /\ parking \in SUBSET Session
  /\ pc \in [Client -> ClientState]
  /\ lease \in [Client -> Session \cup {NoSession}]
  /\ created \in SUBSET Session
  /\ closedEvents \in [Session -> Nat]

-----------------------------------------------------------------------------

IdleSet   == {available[i] : i \in 1 .. Len(available)}
WaiterSet == {waiters[i] : i \in 1 .. Len(waiters)}
LeasedSet == {lease[c] : c \in Client} \ {NoSession}

\* Identities a new Session object may take: never used, or dead and garbage.
Fresh ==
  {s \in Session : \/ life[s] = "unborn"
                   \/ /\ life[s] = "dead"
                      /\ s \notin all \cup creates \cup parking \cup IdleSet \cup LeasedSet}

\* (broken) creates in flight are not counted
Occupied_NoCreates(tracked) == Cardinality(tracked)

\* The pool's size as the capacity checks count it.
Occupied(tracked) == Cardinality(tracked) + Cardinality(creates)

HasRoom(tracked) == Occupied(tracked) < MaxSize

\* #available without position i (splice), and the stack below position i (pop).
WithoutIndex(seq, i) == SubSeq(seq, 1, i - 1) \o SubSeq(seq, i + 1, Len(seq))

\* The sessions that the acquire loop pops and drops because they are dead: those
\* above position i.
DroppedAbove(i) == {available[j] : j \in (i + 1) .. Len(available)}

\* #grow up to its await: the creates F are in flight for the owners given by who.
StartGrow(F, who) ==
  /\ creates' = creates \cup F
  /\ owner' = [s \in Session |-> IF s \in F THEN who[s] ELSE owner[s]]
  /\ created' = created \ F
  /\ closedEvents' = [s \in Session |-> IF s \in F THEN 0 ELSE closedEvents[s]]

Opening(F) == [s \in Session |-> IF s \in F THEN "opening" ELSE life[s]]

\* #publishClosed
PublishClosed(S) ==
  closedEvents' = [s \in Session |-> closedEvents[s] + (IF s \in S THEN 1 ELSE 0)]

\* Session.close: broken at once, the server is told in the background.
Killed(S) == [s \in Session |-> IF s \in S THEN "dead" ELSE life[s]]

-----------------------------------------------------------------------------
(* acquire() -> #acquireSession                                            *)

\* Fast path: the newest idle session that is alive; the dead ones above it are
\* dropped from #all.
AcquireIdle(c) ==
  /\ pool = "open" /\ pc[c] = "idle"
  /\ \E i \in 1 .. Len(available) :
       /\ life[available[i]] = "alive"
       /\ \A j \in (i + 1) .. Len(available) : life[available[j]] = "dead"
       /\ available' = SubSeq(available, 1, i - 1)
       /\ all' = all \ DroppedAbove(i)
       /\ lease' = [lease EXCEPT ![c] = available[i]]
  /\ pc' = [pc EXCEPT ![c] = "granted"]
  /\ UNCHANGED <<pool, waiters, creates, sessionVars>>

\* No idle session is alive: all of #available is popped and dropped first.
NoneAlive == \A i \in 1 .. Len(available) : life[available[i]] = "dead"

Drained == all \ IdleSet

AcquireGrow(c) ==
  /\ pool = "open" /\ pc[c] = "idle" /\ NoneAlive
  /\ HasRoom(Drained)
  /\ all' = Drained /\ available' = << >>
  /\ \E s \in Fresh :
       /\ StartGrow({s}, [x \in Session |-> c])
       /\ life' = Opening({s})
  /\ pc' = [pc EXCEPT ![c] = "growing"]
  /\ UNCHANGED <<pool, waiters, bound, parking, lease>>

\* (broken) the wait queue has no cap
AcquireWait_NoCap(c) ==
  /\ pool = "open" /\ pc[c] = "idle" /\ NoneAlive
  /\ ~ HasRoom(Drained)
  /\ all' = Drained /\ available' = << >>
  /\ waiters' = Append(waiters, c)
  /\ pc' = [pc EXCEPT ![c] = "waiting"]
  /\ UNCHANGED <<pool, creates, sessionVars, lease>>

\* #enqueue
AcquireWait(c) ==
  /\ pool = "open" /\ pc[c] = "idle" /\ NoneAlive
  /\ ~ HasRoom(Drained)
  /\ Len(waiters) < MaxWaiters
  /\ all' = Drained /\ available' = << >>
  /\ waiters' = Append(waiters, c)
  /\ pc' = [pc EXCEPT ![c] = "waiting"]
  /\ UNCHANGED <<pool, creates, sessionVars, lease>>

\* SessionPoolFullError: the caller gets nothing, the dead idle sessions are gone.
AcquireRejected(c) ==
  /\ pool = "open" /\ pc[c] = "idle" /\ NoneAlive
  /\ ~ HasRoom(Drained)
  /\ Len(waiters) >= MaxWaiters
  /\ all' = Drained /\ available' = << >>
  /\ UNCHANGED <<pool, waiters, creates, sessionVars, clientVars>>

\* The waiter's own AbortSignal fires (onAbort in #enqueue).
AbortWait(c) ==
  /\ pc[c] = "waiting"
  /\ \E i \in 1 .. Len(waiters) :
       /\ waiters[i] = c
       /\ waiters' = WithoutIndex(waiters, i)
  /\ pc' = [pc EXCEPT ![c] = "idle"]
  /\ UNCHANGED <<pool, all, available, creates, sessionVars, lease>>

\* acquire() resumes and builds the SessionLease.
Granted(c) ==
  /\ pc[c] = "granted"
  /\ pc' = [pc EXCEPT ![c] = "holding"]
  /\ UNCHANGED <<poolVars, sessionVars, lease>>

-----------------------------------------------------------------------------
(* Session.open and #grow after its await                                  *)

OpenSucceeds(s) ==
  /\ s \in creates /\ life[s] = "opening"
  /\ life' = [life EXCEPT ![s] = "alive"]
  /\ UNCHANGED <<poolVars, owner, bound, parking, created, closedEvents, clientVars>>

\* The RPC or the attach fails, the caller of acquire() aborts its own create, or
\* close() aborts every create.
OpenFails(s) ==
  /\ s \in creates /\ life[s] = "opening"
  /\ OpenMayFail \/ pool # "open"
  /\ life' = [life EXCEPT ![s] = "failed"]
  /\ UNCHANGED <<poolVars, owner, bound, parking, created, closedEvents, clientVars>>

\* The owner of a create that ends without a session: acquire() rejects, and
\* #growAndPark swallows the error.
OwnerGivesUp(s) ==
  pc' = [c \in Client |-> IF owner[s] = c THEN "idle" ELSE pc[c]]

\* (broken) no finally: a failed create stays in #creates
GrowRejects_KeepsCreate(s) ==
  /\ s \in creates /\ life[s] = "failed"
  /\ life' = [life EXCEPT ![s] = "unborn"]
  /\ OwnerGivesUp(s)
  /\ UNCHANGED <<poolVars, owner, bound, parking, created, closedEvents, lease>>

GrowRejects(s) ==
  /\ s \in creates /\ life[s] = "failed"
  /\ creates' = creates \ {s}
  /\ life' = [life EXCEPT ![s] = "unborn"]
  /\ OwnerGivesUp(s)
  /\ UNCHANGED <<pool, all, available, waiters, owner, bound, parking, created,
                 closedEvents, lease>>

\* The pool closed while the session was being created: dispose of it.
GrowFindsClosed(s) ==
  /\ s \in creates /\ life[s] \in {"alive", "dead"}
  /\ pool # "open"
  /\ creates' = creates \ {s}
  /\ life' = Killed({s})
  /\ OwnerGivesUp(s)
  /\ UNCHANGED <<pool, all, available, waiters, owner, bound, parking, created,
                 closedEvents, lease>>

\* #grow tracks the session and returns it.  A listener added to a signal that is
\* already aborted never runs, so a session that is dead by now is not bound.
GrowResolves(s) ==
  /\ s \in creates /\ life[s] \in {"alive", "dead"}
  /\ pool = "open"
  /\ creates' = creates \ {s}
  /\ all' = all \cup {s}
  /\ bound' = IF life[s] = "alive" THEN bound \cup {s} ELSE bound
  /\ created' = created \cup {s}
  /\ \/ /\ owner[s] = Warmup
        /\ parking' = parking \cup {s}
        /\ UNCHANGED clientVars
     \/ /\ owner[s] # Warmup
        /\ pc' = [pc EXCEPT ![owner[s]] = "granted"]
        /\ lease' = [lease EXCEPT ![owner[s]] = s]
        /\ UNCHANGED parking
  /\ UNCHANGED <<pool, available, waiters, owner, life, closedEvents>>

-----------------------------------------------------------------------------
(* Handing a session on: #growAndPark after its await, and release()       *)

\* The pool closed in the meantime: close() disposes of the session.
ParkClosed(s) ==
  /\ s \in parking /\ pool # "open"
  /\ parking' = parking \ {s}
  /\ UNCHANGED <<poolVars, owner, life, bound, created, closedEvents, clientVars>>

ParkToWaiter(s) ==
  /\ s \in parking /\ pool = "open" /\ waiters # << >>
  /\ parking' = parking \ {s}
  /\ waiters' = Tail(waiters)
  /\ pc' = [pc EXCEPT ![Head(waiters)] = "granted"]
  /\ lease' = [lease EXCEPT ![Head(waiters)] = s]
  /\ UNCHANGED <<pool, all, available, creates, owner, life, bound, created, closedEvents>>

\* (broken) the parked session goes past the waiters
ParkIdle_IgnoresWaiters(s) ==
  /\ s \in parking /\ pool = "open"
  /\ parking' = parking \ {s}
  /\ available' = Append(available, s)
  /\ UNCHANGED <<pool, all, waiters, creates, owner, life, bound, created, closedEvents,
                 clientVars>>

ParkIdle(s) ==
  /\ s \in parking /\ pool = "open" /\ waiters = << >>
  /\ parking' = parking \ {s}
  /\ available' = Append(available, s)
  /\ UNCHANGED <<pool, all, waiters, creates, owner, life, bound, created, closedEvents,
                 clientVars>>

Park(s) == ParkClosed(s) \/ ParkToWaiter(s) \/ ParkIdle(s)

\* release() of a session that died under the client.
ReleaseDead(c) ==
  /\ pc[c] = "holding"
  /\ life[lease[c]] = "dead" \/ lease[c] \notin all
  /\ pc' = [pc EXCEPT ![c] = "idle"]
  /\ lease' = [lease EXCEPT ![c] = NoSession]
  /\ UNCHANGED <<poolVars, sessionVars>>

\* (broken) the session is closed but stays tracked, so the sweep closes it again
ReleaseIntoClosed_KeepsTracked(c) ==
  LET s == lease[c] IN
  /\ pc[c] = "holding" /\ pool # "open"
  /\ s \in all /\ life[s] = "alive"
  /\ bound' = bound \ {s}
  /\ PublishClosed({s})
  /\ life' = Killed({s})
  /\ pc' = [pc EXCEPT ![c] = "idle"]
  /\ lease' = [lease EXCEPT ![c] = NoSession]
  /\ UNCHANGED <<pool, all, available, waiters, creates, owner, parking, created>>

\* release() of a live session once close() has begun.
ReleaseIntoClosed(c) ==
  LET s == lease[c] IN
  /\ pc[c] = "holding" /\ pool # "open"
  /\ s \in all /\ life[s] = "alive"
  /\ bound' = bound \ {s}
  /\ PublishClosed({s})
  /\ all' = all \ {s}
  /\ life' = Killed({s})
  /\ pc' = [pc EXCEPT ![c] = "idle"]
  /\ lease' = [lease EXCEPT ![c] = NoSession]
  /\ UNCHANGED <<pool, available, waiters, creates, owner, parking, created>>

\* (broken) no return after the handoff: the session is parked as well
ReleaseToWaiter_ParksToo(c) ==
  LET w == Head(waiters) IN
  /\ pc[c] = "holding" /\ pool = "open"
  /\ lease[c] \in all /\ life[lease[c]] = "alive"
  /\ waiters # << >>
  /\ waiters' = Tail(waiters)
  /\ available' = Append(available, lease[c])
  /\ pc' = [pc EXCEPT ![c] = "idle", ![w] = "granted"]
  /\ lease' = [lease EXCEPT ![c] = NoSession, ![w] = lease[c]]
  /\ UNCHANGED <<pool, all, creates, sessionVars>>

\* (broken) the newest waiter is served
ReleaseToWaiter_Newest(c) ==
  LET w == waiters[Len(waiters)] IN
  /\ pc[c] = "holding" /\ pool = "open"
  /\ lease[c] \in all /\ life[lease[c]] = "alive"
  /\ waiters # << >>
  /\ waiters' = SubSeq(waiters, 1, Len(waiters) - 1)
  /\ pc' = [pc EXCEPT ![c] = "idle", ![w] = "granted"]
  /\ lease' = [lease EXCEPT ![c] = NoSession, ![w] = lease[c]]
  /\ UNCHANGED <<pool, all, available, creates, sessionVars>>

\* release() hands a live session to the oldest waiter ...
ReleaseToWaiter(c) ==
  LET w == Head(waiters) IN
  /\ pc[c] = "holding" /\ pool = "open"
  /\ lease[c] \in all /\ life[lease[c]] = "alive"
  /\ waiters # << >>
  /\ waiters' = Tail(waiters)
  /\ pc' = [pc EXCEPT ![c] = "idle", ![w] = "granted"]
  /\ lease' = [lease EXCEPT ![c] = NoSession, ![w] = lease[c]]
  /\ UNCHANGED <<pool, all, available, creates, sessionVars>>

\* ... or parks it.
ReleaseToIdle(c) ==
  /\ pc[c] = "holding" /\ pool = "open"
  /\ lease[c] \in all /\ life[lease[c]] = "alive"
  /\ waiters = << >>
  /\ available' = Append(available, lease[c])
  /\ pc' = [pc EXCEPT ![c] = "idle"]
  /\ lease' = [lease EXCEPT ![c] = NoSession]
  /\ UNCHANGED <<pool, all, waiters, creates, sessionVars>>

Release(c) ==
  ReleaseDead(c) \/ ReleaseIntoClosed(c) \/ ReleaseToWaiter(c) \/ ReleaseToIdle(c)

-----------------------------------------------------------------------------
(* Death of a session: #runMonitor -> #markBroken                          *)

\* The attach stream ends between Session.open's success and #bindEviction.
BreakUnbound(s) ==
  /\ EarlyDeath
  /\ s \in creates /\ life[s] = "alive"
  /\ life' = [life EXCEPT ![s] = "dead"]
  /\ UNCHANGED <<poolVars, owner, bound, parking, created, closedEvents, clientVars>>

\* (broken) an eviction does not look at the waiters
PumpSize_None(tracked) == 0

\* #pumpWaitersAfterEviction replaces the session for the oldest waiter only.
PumpSize(tracked) ==
  IF pool = "open" /\ waiters # << >> /\ HasRoom(tracked) THEN 1 ELSE 0

\* #refillToMinSize, after the pump.
Deficit(occupied) ==
  IF pool = "open" /\ occupied < MinSize THEN MinSize - occupied ELSE 0

\* (broken) only idle sessions leave the pool, a busy one is left to release()
Survivors_BusyStay(s) == IF s \in IdleSet THEN all \ {s} ELSE all

Survivors(s) == all \ {s}

\* The eviction handler: forget the session, then pump, then refill.  P and W are
\* the creates that the pump and the refill start.
EvictStarting(s, P, W) ==
  /\ s \in bound /\ life[s] = "alive"
  /\ bound' = bound \ {s}
  /\ all' = Survivors(s)
  /\ IF s \in IdleSet
       THEN \E i \in 1 .. Len(available) :
              available[i] = s /\ available' = WithoutIndex(available, i)
       ELSE UNCHANGED available
  /\ P \cap W = {}
  /\ Cardinality(P) = PumpSize(Survivors(s))
  /\ Cardinality(W) = Deficit(Occupied(Survivors(s)) + PumpSize(Survivors(s)))
  /\ creates' = creates \cup P \cup W
  /\ owner' = [x \in Session |-> IF x \in P THEN Head(waiters)
                                 ELSE IF x \in W THEN Warmup ELSE owner[x]]
  /\ life' = [x \in Session |-> IF x = s THEN "dead"
                                ELSE IF x \in P \cup W THEN "opening" ELSE life[x]]
  /\ created' = created \ (P \cup W)
  /\ closedEvents' = [x \in Session |-> IF x \in P \cup W THEN 0
                                        ELSE closedEvents[x] + (IF x = s THEN 1 ELSE 0)]
  /\ waiters' = IF P = {} THEN waiters ELSE Tail(waiters)
  /\ pc' = IF P = {} THEN pc ELSE [pc EXCEPT ![Head(waiters)] = "growing"]
  /\ UNCHANGED <<pool, parking, lease>>

Evict(s) == \E P, W \in SUBSET Fresh : EvictStarting(s, P, W)

-----------------------------------------------------------------------------
(* close()                                                                 *)

\* Up to the await: the creates' signal is aborted and every waiter rejected.
Close ==
  /\ pool = "open"
  /\ pool' = "closing"
  /\ waiters' = << >>
  /\ pc' = [c \in Client |-> IF c \in WaiterSet THEN "idle" ELSE pc[c]]
  /\ UNCHANGED <<all, available, creates, sessionVars, lease>>

\* (broken) close() does not wait for the creates
CloseSweeps_NoWait ==
  /\ pool = "closing"
  /\ pool' = "closed"
  /\ all' = {} /\ available' = << >>
  /\ bound' = bound \ all
  /\ PublishClosed(all)
  /\ life' = Killed(all)
  /\ UNCHANGED <<waiters, creates, owner, parking, created, clientVars>>

\* After allSettled: every tracked session is closed, with its listener detached.
CloseSweeps ==
  /\ pool = "closing" /\ creates = {}
  /\ pool' = "closed"
  /\ all' = {} /\ available' = << >>
  /\ bound' = bound \ all
  /\ PublishClosed(all)
  /\ life' = Killed(all)
  /\ UNCHANGED <<waiters, creates, owner, parking, created, clientVars>>

-----------------------------------------------------------------------------

\* The constructor ends with #refillToMinSize.
Init ==
  /\ pool = "open"
  /\ all = {} /\ available = << >> /\ waiters = << >>
  /\ creates \in {F \in SUBSET Session : Cardinality(F) = MinSize}
  /\ owner = [s \in Session |-> Warmup]
  /\ life = [s \in Session |-> IF s \in creates THEN "opening" ELSE "unborn"]
  /\ bound = {} /\ parking = {} /\ created = {}
  /\ closedEvents = [s \in Session |-> 0]
  /\ pc = [c \in Client |-> "idle"]
  /\ lease = [c \in Client |-> NoSession]

Settle(s) == OpenSucceeds(s) \/ OpenFails(s)
Resume(s) == GrowResolves(s) \/ GrowFindsClosed(s) \/ GrowRejects(s)
Acquire(c) == AcquireIdle(c) \/ AcquireGrow(c) \/ AcquireWait(c) \/ AcquireRejected(c)

Next ==
  \/ \E c \in Client : Acquire(c) \/ AbortWait(c) \/ Granted(c) \/ Release(c)
  \/ \E s \in Session : Settle(s) \/ Resume(s) \/ Park(s) \/ BreakUnbound(s) \/ Evict(s)
  \/ Close
  \/ CloseSweeps

Spec == Init /\ [][Next]_vars

(***************************************************************************)
(* Promise continuations always run; an open RPC settles (the transport    *)
(* ends a stuck stream); a lease is scoped by `using`, so it is released.  *)
(* Nobody has to call acquire() or close(), and no session has to die.     *)
(***************************************************************************)
Fairness ==
  /\ \A s \in Session : WF_vars(Settle(s)) /\ WF_vars(Resume(s)) /\ WF_vars(Park(s))
  /\ \A c \in Client : WF_vars(Granted(c)) /\ WF_vars(Release(c))
  /\ WF_vars(CloseSweeps)

FairSpec == Spec /\ Fairness

-----------------------------------------------------------------------------
(* Properties                                                              *)

\* maxSize is a hard cap: sessions that are idle, busy or being created never exceed
\* it, whatever the interleaving of acquires, evictions, refills and failed creates.
Capacity == Cardinality(all) + Cardinality(creates) <= MaxSize

\* A session is in one place: two clients never share one, and a session that a
\* client was granted is neither idle, nor listed twice, nor about to be parked.
LeaseExclusive ==
  /\ \A c, d \in Client : c # d /\ lease[c] = lease[d] => lease[c] = NoSession
  /\ \A i, j \in 1 .. Len(available) : available[i] = available[j] => i = j
  /\ \A c \in Client, i \in 1 .. Len(available) : lease[c] # available[i]
  /\ \A c \in Client : lease[c] \notin parking
  /\ \A i \in 1 .. Len(available) : available[i] \notin parking

\* No client waits while a session is idle: every path that frees a session looks at
\* #waiters before #available.
NoIdleWhileWaiting == waiters # << >> => available = << >>

\* When close() has resolved, no session is left alive, tracked or being created and
\* no client waits, wherever each of them was when close() was called.
CloseDrains ==
  pool = "closed" => /\ all = {} /\ creates = {} /\ waiters = << >> /\ available = << >>
                     /\ \A s \in Session : life[s] \in {"unborn", "dead"}
                     /\ \A c \in Client : pc[c] \notin {"waiting", "growing"}

\* Subscribers see one session.closed per session.created: none while the session
\* lives, exactly one once it is dead, whether the stream, release() or close() ended it.
ClosedEventOnce ==
  \A s \in Session : closedEvents[s] = IF s \in created /\ life[s] = "dead" THEN 1 ELSE 0

\* Every slot an open pool counts is idle, held by a client or on its way to one: a
\* session that release() drops as dead is already out of #all.
NoLeakedSlot == pool = "open" => all \subseteq IdleSet \cup LeasedSet \cup parking

\* The wait queue is FIFO and nobody overtakes it: while clients wait, a session or a
\* replacement create goes to the first of them only, never to a caller of acquire().
FifoService ==
  [][\A c \in Client :
       /\ waiters # << >>
       /\ pc[c] \in {"idle", "waiting"}
       /\ pc'[c] \in {"growing", "granted"}
       => c = Head(waiters)]_vars

\* A client in the wait queue is eventually granted a session or rejected.
WaiterSettles == \A c \in Client : pc[c] = "waiting" ~> pc[c] # "waiting"

\* close() resolves, even if creates were in flight when it was called.
CloseCompletes == pool = "closing" ~> pool = "closed"

\* What makes the properties above inductive: where a session can be, ...
SessionPlaces ==
  \A s \in Session :
    /\ life[s] = "unborn" => s \notin creates
    /\ life[s] = "unborn" \/ s \in creates =>
         /\ s \notin all /\ s \notin parking
         /\ \A i \in 1 .. Len(available) : available[i] # s
         /\ \A c \in Client : lease[c] # s

\* ... that a client has a session exactly while it is granted or holds one, ...
LeaseStates ==
  \A c \in Client : lease[c] # NoSession <=> pc[c] \in {"granted", "holding"}

\* ... that the queue lists waiting clients, each once, ...
QueueStates ==
  /\ \A i \in 1 .. Len(waiters) : pc[waiters[i]] = "waiting"
  /\ \A i, j \in 1 .. Len(waiters) : waiters[i] = waiters[j] => i = j

\* ... and every waiting client, ...
Queued ==
  \A c \in Client : pc[c] = "waiting" => \E i \in 1 .. Len(waiters) : waiters[i] = c

\* ... that a create is for one client, and a client has one create, ...
CreateOwners ==
  /\ \A s \in creates : owner[s] # Warmup => pc[owner[s]] = "growing"
  /\ \A s, t \in creates : owner[s] = owner[t] /\ owner[s] # Warmup => s = t

\* ... and what close() can rely on.
Accounted ==
  /\ pool # "open" => waiters = << >>
  /\ \A s \in Session : life[s] \in {"opening", "failed"} => s \in creates
  /\ \A s \in Session : life[s] = "alive" => s \in all \cup creates
  /\ \A c \in Client : pc[c] = "growing" => \E s \in creates : owner[s] = c
  /\ pool = "closed" => all = {} /\ creates = {} /\ available = << >>

\* The inductive invariant.
PoolInv ==
  /\ TypeOK /\ Capacity
  /\ SessionPlaces /\ LeaseStates /\ QueueStates /\ Queued /\ CreateOwners /\ LeaseExclusive
  /\ NoIdleWhileWaiting
  /\ Accounted
=============================================================================
