------------------------- MODULE CoordinationCalls -------------------------
(***************************************************************************)
(* Semaphore calls over a coordination session: the request registry, the  *)
(* retries over a reconnect, leases and watches (packages/coordination/src:*)
(* runtime/session-registry.ts, runtime/session-transport.ts,              *)
(* semaphore.ts; mutex.ts and election.ts call these), composed with the   *)
(* session's lifecycle (CoordinationSession).                              *)
(*                                                                         *)
(* One client locks a semaphore, tries to, or watches its owner; others    *)
(* contend for it: everybody asks for all of it, as a mutex does.  A call  *)
(* is a promise: between the frame that settles it and the continuation    *)
(* that goes on, more frames may be handled; expired timers may not.  A    *)
(* step of the session carries along what it does to the client, to the    *)
(* requests and answers under way and to the semaphore.                    *)
(***************************************************************************)
EXTENDS CoordinationSession

CONSTANTS
  MaxAcquires,   \* bound: acquire() and tryAcquire() calls, and one that is abandoned
  MaxChanges,    \* bound: times somebody else takes the semaphore
  MaxIds         \* bound: request ids in use at once

ASSUME CallsAssumption == MaxAcquires \in Nat /\ MaxChanges \in Nat /\ MaxIds \in Nat

VARIABLES
  role,      \* what the client does: "acquire", "try" or "watch"; "none" yet
  pc,        \* how far the client is
  call,      \* the call it is in: none, try, acquire, pinned, release, describe
  reqId,     \* the request id of that call
  got,       \* the answer the continuation will see: pending, acquired, missed, released, an owner
  sent,      \* requests under way
  answers,   \* answers under way
  owner,     \* who holds the semaphore: none, us (the session `served`), other
  waiting,   \* is the session in the semaphore's queue?
  tellGrant, \* the request to answer when it is granted, 0 for none
  tellWatch, \* the watch to notify of a change, 0 for none; one notification each
  index,     \* subscription.reqId, 0 for none
  dirty,     \* does the subscription's queue hold a change?
  seen,      \* the owner in the last description the watcher yielded
  mishaps,   \* ghost: an answer or a request lost to a race; a wait that was abandoned
  acquires, changes   \* counters for the bounds

clientVars    == <<pc, call, reqId, got>>
watchVars     == <<index, dirty, seen>>
semaphoreVars == <<owner, waiting, tellGrant, tellWatch>>
countVars     == <<acquires, changes>>
callVars == <<role, clientVars, sent, answers, semaphoreVars, watchVars, mishaps, countVars>>
allVars == <<vars, callVars>>

\* wait_ready, registered: promises; ready, answered: settled, the continuation is due
Phase == {"idle", "wait_ready", "ready", "registered", "answered", "held", "watching", "ended"}

ReqId == 1 .. MaxIds
Owner == {"none", "us", "other"}

Request == [kind : {"acquire", "try", "release", "describe"}, id : ReqId]
Reply   == [kind : {"pending", "acquired", "missed", "released", "changed"} \cup Owner,
            id : ReqId]

CallsTypeOK ==
  /\ role \in {"none", "acquire", "try", "watch"} /\ pc \in Phase
  /\ call \in {"none", "try", "acquire", "pinned", "release", "describe"}
  /\ reqId \in ReqId \cup {0} /\ tellGrant \in ReqId \cup {0}
  /\ tellWatch \in ReqId \cup {0} /\ index \in ReqId \cup {0}
  /\ sent \in Seq(Request) /\ answers \in Seq(Reply)
  /\ owner \in Owner /\ seen \in Owner
  /\ got \in {"nothing", "pending", "acquired", "missed", "released"} \cup Owner
  /\ waiting \in BOOLEAN /\ dirty \in BOOLEAN
  /\ mishaps \subseteq {"raced", "abandoned"}

-----------------------------------------------------------------------------
(* The client's end: session-transport.ts and session-registry.ts          *)

\* The registry is closed by sessionStop and destroyed with the transport or the session.
Destroyed == state \in Terminal \/ transport = "closed"
Shut == Destroyed \/ transport = "stopping"

\* nextReqId().  Ids are never reused; the model recycles those nothing refers to any more.
Referenced ==
  {reqId, tellGrant, tellWatch, index}
    \cup {sent[i].id : i \in 1 .. Len(sent)} \cup {answers[i].id : i \in 1 .. Len(answers)}

NextReqId == {n \in ReqId \ Referenced : 1 .. n - 1 \subseteq Referenced}

Continuing == pc \in {"ready", "answered"}

\* transport.call(): waitReady() first, which settles at once if the transport is ready.
Call(kind) ==
  /\ call' = kind
  /\ pc' = IF transport = "ready" THEN "ready" ELSE "wait_ready"
  /\ UNCHANGED <<reqId, got>>

\* The call rejects: the lock stays where it was, a watch ends.
Reject ==
  /\ pc' = "ended" /\ call' = "none" /\ reqId' = 0 /\ got' = "nothing"

\* send(): without a stream the request is dropped.
Send(kind, id) ==
  IF stream = "none"
  THEN mishaps' = mishaps \cup {"raced"} /\ UNCHANGED sent
  ELSE sent' = Append(sent, [kind |-> kind, id |-> id]) /\ UNCHANGED mishaps

Kind == IF call = "pinned" THEN "acquire" ELSE call

\* (broken) the pending acquire is registered again after a reconnect, and not sent again
RequestProceeds_NoResend ==
  /\ pc = "ready" /\ ~Shut
  /\ pc' = "registered"
  /\ IF call = "pinned"
     THEN UNCHANGED <<reqId, sent, mishaps>>
     ELSE reqId' \in NextReqId /\ Send(Kind, reqId')
  /\ UNCHANGED <<vars, role, call, got, answers, semaphoreVars, watchVars, countVars>>

\* waitReady() has settled: the request is registered and sent, an acquire the server said
\* is pending under the id it had.
RequestProceeds ==
  /\ pc = "ready" /\ ~Shut
  /\ pc' = "registered"
  /\ reqId' \in IF call = "pinned" THEN {reqId} ELSE NextReqId
  /\ Send(Kind, reqId')
  /\ UNCHANGED <<vars, role, call, got, answers, semaphoreVars, watchVars, countVars>>

RequestRefused ==
  /\ pc = "ready" /\ Shut
  /\ Reject
  /\ UNCHANGED <<vars, role, sent, answers, semaphoreVars, watchVars, mishaps, countVars>>

\* (broken) an answer settles the call under way, whichever it answers
ReceiveAnswer_Unmatched ==
  /\ answers # << >> /\ stream # "none" /\ transport # "connecting"
  /\ answers' = Tail(answers)
  /\ IF Head(answers).kind = "changed"
     THEN dirty' = (dirty \/ Head(answers).id = index) /\ UNCHANGED <<pc, got>>
     ELSE /\ IF pc = "registered"
             THEN pc' = "answered" /\ got' = Head(answers).kind
             ELSE UNCHANGED <<pc, got>>
          /\ UNCHANGED dirty
  /\ UNCHANGED <<vars, role, call, reqId, sent, semaphoreVars, index, seen, mishaps, countVars>>

\* A response or a watch notification; they bypass the transport's machine.  One for which
\* nothing is registered is dropped, also if the continuation that registers it is due.
ReceiveAnswer ==
  /\ answers # << >> /\ stream # "none" /\ transport # "connecting"
  /\ answers' = Tail(answers)
  /\ LET answer   == Head(answers)
         change   == answer.kind = "changed"
         expected == ~change /\ pc = "registered" /\ answer.id = reqId
         early    == pc = "answered" /\ answer.id = reqId
     IN /\ IF expected
           THEN pc' = "answered" /\ got' = answer.kind
           ELSE UNCHANGED <<pc, got>>
        /\ dirty' = (dirty \/ (change /\ answer.id = index))
        /\ mishaps' = IF early THEN mishaps \cup {"raced"} ELSE mishaps
  /\ UNCHANGED <<vars, role, call, reqId, sent, semaphoreVars, index, seen, countVars>>

\* The first answer to an acquire that has to wait: the next answer to the same id is
\* waited for.  If the stream has ended meanwhile, nothing sends the request again.
WaitPinned ==
  /\ pc = "answered" /\ got = "pending"
  /\ \/ /\ Shut /\ Reject /\ UNCHANGED mishaps
     \/ /\ ~Shut
        /\ pc' = "registered" /\ call' = "pinned" /\ got' = "nothing" /\ UNCHANGED reqId
        /\ mishaps' = IF stream = "none" THEN mishaps \cup {"raced"} ELSE mishaps
  /\ UNCHANGED <<vars, role, sent, answers, semaphoreVars, watchVars, countVars>>

\* acquire() returns a lease or throws TryAcquireMissError, release() is done.
Settle ==
  /\ pc = "answered" /\ got \in {"acquired", "missed", "released"}
  /\ pc' = IF got = "acquired" THEN "held" ELSE "idle"
  /\ call' = "none" /\ reqId' = 0 /\ got' = "nothing"
  /\ UNCHANGED <<vars, role, sent, answers, semaphoreVars, watchVars, mishaps, countVars>>

\* The description is yielded, and the watch indexed under the request that added it.  The
\* queue of a destroyed transport is closed: the loop ends.
Describe ==
  /\ pc = "answered" /\ got \in Owner
  /\ pc' = IF Destroyed THEN "ended" ELSE "watching"
  /\ call' = "none" /\ got' = "nothing"
  /\ seen' = got /\ index' = reqId /\ reqId' = 0
  /\ UNCHANGED <<vars, role, sent, answers, semaphoreVars, dirty, mishaps, countVars>>

-----------------------------------------------------------------------------
(* The user of the lock, or the loop over the watch: semaphore.ts          *)

\* acquire() and tryAcquire(), an acquire that does not wait.
Acquire ==
  /\ pc = "idle" /\ acquires < MaxAcquires
  /\ acquires' = acquires + 1
  /\ role' \in IF role = "none" THEN {"acquire", "try"} ELSE {role} \ {"watch"}
  /\ IF Destroyed THEN Reject ELSE Call(role')
  /\ UNCHANGED <<vars, sent, answers, semaphoreVars, watchVars, mishaps, changes>>

\* Lease.release()
Release ==
  /\ pc = "held"
  /\ IF Destroyed THEN Reject ELSE Call("release")
  /\ UNCHANGED <<vars, role, sent, answers, semaphoreVars, watchVars, mishaps, countVars>>

\* The caller's signal aborts a waiting acquire(): the server is not told.
Abandon ==
  /\ pc \in {"wait_ready", "registered"} /\ call \in {"try", "acquire", "pinned"}
  /\ "abandoned" \notin mishaps /\ acquires' = acquires - 1   \* bound: once
  /\ pc' = "idle" /\ call' = "none" /\ reqId' = 0 /\ got' = "nothing"
  /\ mishaps' = mishaps \cup {"abandoned"}
  /\ UNCHANGED <<vars, role, sent, answers, semaphoreVars, watchVars, changes>>

\* The loop over the watch begins, or takes a change from its queue.
Watch ==
  /\ (role = "none" /\ pc = "idle") \/ (pc = "watching" /\ dirty)
  /\ role' = "watch"
  /\ IF Destroyed THEN Reject ELSE Call("describe")
  /\ dirty' = FALSE
  /\ UNCHANGED <<vars, sent, answers, semaphoreVars, index, seen, mishaps, countVars>>

-----------------------------------------------------------------------------
(* The semaphore (external)                                                *)

Answer(kind, id) == answers' = Append(answers, [kind |-> kind, id |-> id])

\* The semaphore changes hands: the watch is notified.
Notified(queue) ==
  IF tellWatch # 0 /\ stream = "attached"
  THEN Append(queue, [kind |-> "changed", id |-> tellWatch])
  ELSE queue

HandleAcquire(id, waits) ==
  \/ /\ owner = "other" /\ waits
     /\ waiting' = TRUE /\ tellGrant' = id
     /\ Answer("pending", id)
     /\ UNCHANGED owner
  \/ /\ owner = "other" /\ ~waits
     /\ Answer("missed", id)
     /\ UNCHANGED <<owner, waiting, tellGrant>>
  \/ /\ owner # "other"
     /\ owner' = "us" /\ waiting' = FALSE /\ tellGrant' = 0
     /\ Answer("acquired", id)

\* Releasing what is not held succeeds too.
HandleRelease(id) ==
  /\ owner' = IF owner = "us" THEN "none" ELSE owner
  /\ waiting' = FALSE /\ tellGrant' = 0
  /\ Answer("released", id)

HandleRequest ==
  /\ stream = "attached" /\ sent # << >>
  /\ sent' = Tail(sent)
  /\ LET request == Head(sent)
     IN \/ /\ request.kind \in {"acquire", "try"}
           /\ HandleAcquire(request.id, request.kind = "acquire")
           /\ UNCHANGED tellWatch
        \/ request.kind = "release" /\ HandleRelease(request.id) /\ UNCHANGED tellWatch
        \/ /\ request.kind = "describe"
           /\ tellWatch' = request.id
           /\ Answer(owner, request.id)
           /\ UNCHANGED <<owner, waiting, tellGrant>>
  /\ UNCHANGED <<vars, role, clientVars, watchVars, mishaps, countVars>>

OtherAcquires ==
  /\ owner = "none" /\ changes < MaxChanges
  /\ owner' = "other" /\ changes' = changes + 1
  /\ answers' = Notified(answers) /\ tellWatch' = 0
  /\ UNCHANGED <<vars, role, clientVars, sent, waiting, tellGrant, watchVars, mishaps, acquires>>

\* waitTimeout has passed.
WaitTimesOut ==
  /\ waiting
  /\ waiting' = FALSE /\ tellGrant' = 0
  /\ IF tellGrant # 0 THEN Answer("missed", tellGrant) ELSE UNCHANGED answers
  /\ UNCHANGED <<vars, role, clientVars, sent, owner, tellWatch, watchVars, mishaps, countVars>>

\* A session in the queue is granted the semaphore, and told if its request is known.
OtherReleases ==
  /\ owner = "other"
  /\ owner' = IF waiting THEN "us" ELSE "none"
  /\ waiting' = FALSE /\ tellGrant' = 0 /\ tellWatch' = 0
  /\ answers' = IF waiting /\ tellGrant # 0 /\ stream = "attached"
                THEN Append(answers, [kind |-> "acquired", id |-> tellGrant])
                ELSE Notified(answers)
  /\ UNCHANGED <<vars, role, clientVars, sent, watchVars, mishaps, countVars>>

-----------------------------------------------------------------------------
(* What a step of the session does to the calls                            *)

\* With the stream go the requests and answers on it, and the server forgets whom to tell.
StreamLost ==
  IF stream # "none" /\ stream' = "none"
  THEN sent' = << >> /\ answers' = << >> /\ tellGrant' = 0 /\ tellWatch' = 0
  ELSE UNCHANGED <<sent, answers, tellGrant, tellWatch>>

\* With the session goes what it holds and waits for.
SessionLost ==
  LET gone == served \in alive /\ served \notin alive'
  IN /\ owner' = IF gone /\ owner = "us" THEN "none" ELSE owner
     /\ waiting' = (waiting /\ ~gone)

\* (broken) a watch is not told that it has to read again
Renotified_Never == UNCHANGED dirty

\* notify_watches, when a stream other than the first is ready
Renotified ==
  dirty' = \/ dirty
           \/ /\ transport = "connecting" /\ transport' = "ready"
              /\ sessionId # 0 \/ Emitted("started")
              /\ role = "watch" /\ pc # "idle"

\* (broken) a release whose answer is lost with the stream counts as done
Settled_ReleaseDone ==
  LET destroyed == state' \in Terminal \/ transport' = "closed"
      rejected  == \/ destroyed /\ pc \in {"wait_ready", "registered", "watching"}
                   \/ transport' = "stopping" /\ pc = "registered"
      done      == call = "release" /\ pc = "registered" /\ transport' = "disconnected"
  IN \/ rejected /\ Reject
     \/ ~rejected /\ done /\ pc' = "idle" /\ call' = "none" /\ reqId' = 0 /\ UNCHANGED got
     \/ /\ ~rejected /\ ~done
        /\ pc' = IF pc = "registered" /\ transport' = "disconnected" THEN "wait_ready"
                 ELSE IF pc = "wait_ready" /\ transport' = "ready" THEN "ready" ELSE pc
        /\ UNCHANGED <<call, reqId, got>>

\* Pending requests are rejected: to be retried when the stream ended, for good when the
\* registry is closed or destroyed, and a watch ends.  Ready again, waitReady() settles.
Settled ==
  LET destroyed == state' \in Terminal \/ transport' = "closed"
      rejected  == \/ destroyed /\ pc \in {"wait_ready", "registered", "watching"}
                   \/ transport' = "stopping" /\ pc = "registered"
  IN \/ rejected /\ Reject
     \/ /\ ~rejected
        /\ pc' = IF pc = "registered" /\ transport' = "disconnected" THEN "wait_ready"
                 ELSE IF pc = "wait_ready" /\ transport' = "ready" THEN "ready" ELSE pc
        /\ UNCHANGED <<call, reqId, got>>

Reaction ==
  /\ StreamLost /\ SessionLost /\ Renotified /\ Settled
  /\ UNCHANGED <<role, index, seen, mishaps, countVars>>

CallIngest == Ingest /\ Reaction
CallReceive == Receive /\ Reaction
CallStreamEnds == StreamEnds /\ Reaction
CallServer == Server /\ Reaction
CallStartTimeout == StartTimeout /\ ~Continuing /\ Reaction
CallRetryBackoff == RetryBackoff /\ ~Continuing /\ Reaction
CallRecoveryWindow == RecoveryWindow /\ ~Continuing /\ Reaction
CallClose == Close /\ Reaction
CallDestroy == Destroy /\ Reaction

-----------------------------------------------------------------------------

CallsInit ==
  /\ Init
  /\ role = "none" /\ pc = "idle" /\ call = "none" /\ reqId = 0 /\ got = "nothing"
  /\ sent = << >> /\ answers = << >>
  /\ owner = "none" /\ waiting = FALSE /\ tellGrant = 0 /\ tellWatch = 0
  /\ index = 0 /\ dirty = FALSE /\ seen = "none"
  /\ mishaps = {} /\ acquires = 0 /\ changes = 0

Continue == RequestProceeds \/ RequestRefused \/ WaitPinned \/ Settle \/ Describe
Client == Acquire \/ Release \/ Abandon \/ Watch

CallsNext ==
  \/ CallIngest \/ CallReceive \/ CallStreamEnds \/ CallServer
  \/ CallStartTimeout \/ CallRetryBackoff \/ CallRecoveryWindow
  \/ CallClose \/ CallDestroy
  \/ Client \/ Continue \/ ReceiveAnswer
  \/ HandleRequest \/ WaitTimesOut \/ OtherAcquires \/ OtherReleases

CallsSpec == CallsInit /\ [][CallsNext]_allVars

\* The event loop and a server that answers, as for the session; continuations run, and
\* nobody keeps the semaphore for ever.
CallsFairSpec ==
  /\ CallsSpec
  /\ WF_allVars(CallIngest) /\ WF_allVars(CallReceive)
  /\ WF_allVars(CallStartTimeout) /\ WF_allVars(CallRetryBackoff)
  /\ WF_allVars(CallRecoveryWindow)
  /\ WF_allVars(ServerAttaches /\ Reaction) /\ WF_allVars(ServerRefuses /\ Reaction)
  /\ WF_allVars(ServerStops /\ Reaction)
  /\ WF_allVars(Continue) /\ WF_allVars(ReceiveAnswer) /\ WF_allVars(HandleRequest)
  /\ WF_allVars(OtherReleases) /\ WF_allVars(pc = "watching" /\ Watch)

-----------------------------------------------------------------------------

\* All that was under way has arrived, and the session is up.
Quiet ==
  /\ state = "ready" /\ outputs = << >> /\ down = << >>
  /\ sent = << >> /\ answers = << >>

\* Mutual exclusion over reconnects: whoever has a lease, and a session that is ready and
\* waits for no news, owns the semaphore.  (A session that is reconnecting may have lost it:
\* the lease's signal does not tell, the session's does.)
LeaseOwns == pc = "held" /\ Quiet => owner = "us"

\* No lock is left behind: once release() is done, or before acquire() is called, the
\* session neither owns the semaphore nor waits for it, however often the release had to be
\* sent; unless an acquire() was abandoned, which the server is never told.
NoGhostLock == pc = "idle" /\ Quiet /\ "abandoned" \notin mishaps => owner # "us" /\ ~waiting

\* What makes these inductive: an answer is to the request whose id it bears, ...
Apart ==
  /\ \A i, j \in 1 .. Len(sent) : sent[i].id = sent[j].id => i = j
  /\ \A i \in 1 .. Len(sent) :
       /\ sent[i].id \notin {tellGrant, tellWatch}
       /\ \A j \in 1 .. Len(answers) : sent[i].id # answers[j].id
  /\ pc \in {"registered", "answered"} \/ call = "pinned" => reqId # 0
  /\ pc = "answered" => \A i \in 1 .. Len(sent) : sent[i].id # reqId
  /\ pc \in {"wait_ready", "ready"} /\ call = "pinned" =>
       /\ reqId \notin {tellGrant, tellWatch}
       /\ \A i \in 1 .. Len(sent) : sent[i].id # reqId
       /\ \A i \in 1 .. Len(answers) : answers[i].id # reqId

\* ... nothing outlives its stream, and nothing precedes the session, ...
Carried ==
  /\ stream = "none" => sent = << >> /\ answers = << >> /\ tellGrant = 0 /\ tellWatch = 0
  /\ state \in Live /\ sessionId = 0 /\ ~Emitted("started") =>
       /\ pc \in {"idle", "wait_ready", "ended"} /\ sent = << >> /\ answers = << >>
       /\ owner # "us" /\ ~waiting /\ tellWatch = 0

\* ... a release under way is the one that is waited for, and so is every request unless
\* an acquire was abandoned, ...
Awaited ==
  /\ pc # "ended" =>
       \A i \in 1 .. Len(sent) : sent[i].kind = "release" \/ "abandoned" \notin mishaps =>
         pc = "registered" /\ sent[i].id = reqId /\ sent[i].kind = Kind
  /\ pc \in {"wait_ready", "ready", "registered", "answered"} => call # "none"

\* ... only an acquire() waits for the semaphore, ...
Patient ==
  /\ call = "try" => role = "try"
  /\ role \in {"none", "try"} =>
       /\ call \notin {"acquire", "pinned"} /\ ~waiting
       /\ ~(pc = "answered" /\ got = "pending")
       /\ \A i \in 1 .. Len(sent) : sent[i].kind # "acquire"
       /\ \A i \in 1 .. Len(answers) : answers[i].kind # "pending"

\* ... the semaphore is the session's from the answer that says so, as long as there is a
\* session, ...
Granted ==
  state \in Live /\ pc # "ended" =>
    \/ owner = "us" \/ served \notin alive
    \/ /\ pc # "held" /\ ~(pc = "answered" /\ got = "acquired")
       /\ \A i \in 1 .. Len(answers) : answers[i].kind = "acquired" => answers[i].id # reqId

\* ... and it is not the session's, nor waited for, from the answer that says so.
Given ==
  /\ waiting => owner = "other"
  /\ "abandoned" \notin mishaps /\ pc # "ended" =>
       \/ owner # "us" /\ ~waiting
       \/ /\ pc # "idle" /\ ~(pc = "answered" /\ got \in {"missed", "released"})
          /\ \A i \in 1 .. Len(answers) :
               answers[i].kind \in {"missed", "released"} => answers[i].id # reqId

\* The inductive invariant of the composition.
CallsInv ==
  /\ SessionInv /\ CallsTypeOK
  /\ Apart /\ Carried /\ Awaited /\ Patient /\ Granted /\ Given

\* acquire(), tryAcquire() and release() settle, though streams break while they wait for
\* the connection, for the answer or in the queue; unless a frame was lost to a
\* continuation that was due.
CallSettles ==
  pc \in {"wait_ready", "ready", "registered", "answered"} /\ role # "watch" ~>
    pc \in {"held", "idle", "ended"} \/ "raced" \in mishaps

\* A watch catches up with every change, whether it was notified or the stream broke before
\* it could be; under the same proviso.
WatchCatchesUp ==
  pc = "watching" /\ seen # owner ~> seen = owner \/ pc = "ended" \/ "raced" \in mishaps

\* What the guide says of a leader's signal ("aborts when leadership is lost (session
\* expired, resigned)"): a lease does not outlive its session.  Only release() aborts it.
LeaseSignalled == pc = "held" /\ state \in Terminal ~> pc # "held"
=============================================================================
