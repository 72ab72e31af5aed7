# A verification project for the YDB JavaScript SDK

TLA+ models of the concurrent parts of `ydb-nodejs-sdk`, TLC configurations that check
them on small instances, and TLAPS proofs of what matters most for instances of every size.

The SDK is a monorepo of single-threaded TypeScript packages. Nothing runs in parallel, but
everything overlaps: each component is a set of callbacks (promise continuations, timers,
stream messages, abort listeners, calls of the user) that run one at a time and read state
that other callbacks changed since the last `await`. The models keep exactly that: **an
action is what runs between two awaits**, and the order of actions is free wherever the
event loop leaves it free.

    tlc -workers 2 -config PoolSafety.cfg MCSessionPool.tla
    tlapm SessionPoolProofs.tla
    tlapm CoordinationProofs.tla
    tlapm TransactionsProofs.tla
    tlapm EndpointsProofs.tla
    tlapm TopicWriterProofs.tla
    tlapm WriterDurableProofs.tla
    tlapm TopicReaderProofs.tla
    tlapm ReaderRangesProofs.tla

## 1. Inventory

Paths are relative to `src/packages`. "State" is what a component keeps between callbacks.

| Component | State | Operations | What is hard, and what makes it correct |
| --- | --- | --- | --- |
| **Query session pool** `query/src/session-pool.ts`, `session.ts` | tracked sessions `#all`, idle stack `#available`, wait queue `#waiters`, creates in flight `#creates`; per session an attach stream, its monitor and an abort signal | `acquire`, `release`, abort of a wait, growth on demand, refill to `minSize`, eviction when the attach stream ends, `close` | Capacity is checked before an await; sessions die at any moment, also while idle, being parked or leased; `close()` overtakes creates. Cap, exclusive leases, no starvation, FIFO, nothing left after close |
| **Topic writer** `topic/src/writer` | sliding window of messages, numbering, machine state, timers, one stream, the byte budget and waiters of the public object | `write`, `flush`, `close`, `destroy`; init, acknowledgments, stream errors; connect watchdog, backoff, recovery window, graceful timeout, flush tick | Messages in flight when a stream breaks are stored or not, and must be resent in order with their old numbers; the server drops numbers it has seen. Exactly once, in order, confirmed only when stored, flush and close settle |
| **Topic reader** `topic/src/reader` | partition sessions with buffers and commit waiters, byte credit, machine state, stream | `read`, `commit`, `close`; partition start, stop (graceful or not), end, commit responses | Grants and revocations race with user commits; credit accounting. No offset is committed for a partition that was lost; every commit promise settles; no credit is lost |
| **Coordination session** `coordination/src/runtime` | two state machines (session, transport), three timers, one stream, the session id; request registry and watches | `close`, `destroy`, `call`, `callPinned`, `watch`; started, failure, stopped, stream end | The machines talk through commands and an output queue: one must never wait for the other in vain. The session survives reconnects with its locks, or everybody learns that it did not |
| **Coordination primitives** `coordination/src/semaphore.ts`, `mutex.ts`, `election.ts` | a pinned request id per acquire, leases, watch subscriptions | acquire/release, lock, campaign/observe | Requests are resent after reconnects; results may arrive while nobody is registered. Mutual exclusion, no lost grant |
| **Endpoints engine** `core/src/endpoints` | registry of nodes, pins, channels in three stores, calls counted per node, the round in flight, timers, the routing snapshot | `acquire`, `penalize`, `recover`, `pin`, `invalidate`, discovery, retirement, sweep, `close`, `destroy` | Rounds, penalties and pins refer to older snapshots, channels outlive their nodes. A channel in use is never closed, a ready driver always has a target, a confirmed pin stays, one round at a time, close ends with the last call |
| **Driver** `core/src/driver.ts`, `channel.ts` | connections, in-flight counts | `createClient`, `ready`, `close` | Wiring around the endpoints engine |
| **Query transactions** `query/src/index.ts`, `query.ts` | session, transaction id and hooks in one function all bodies share; the session lease | `transaction`, `do`, hooks, commit, rollback, retry | A retried attempt must not repeat a committed one; a lost answer, a dead session and a failing hook meet in one `catch`; bodies overlap. At most once unless declared idempotent, every lease returned |
| **Retry** `retry/src` | attempt count, last error | `retry` | Budget at its boundary, abort during the backoff |
| **Auth providers** `auth/src` | token, its expiry, the refresh in flight | `getToken` | One refresh at a time, shared by callers with different signals |
| **fsm runtime** `fsm/src` | event mailbox, output queue | `dispatch`, `emit`, `ingest`, `close`, `destroy` | Run-to-completion and what a terminal transition drops: part of every machine above |
| **abortable, debug, error, telemetry, value, api, yql, third-party adapters** | none that others depend on | | Stateless helpers, observers, generated code, conversions |

How they interact: the driver owns the endpoints engine and gives every client a balanced
channel; the query client leases sessions from the pool inside `retry`; writer, reader and
coordination session each run one or two `fsm` machines over one gRPC stream and reconnect on
their own; auth providers are asked for a token by every call. The components share no state
apart from the driver, which is why each can be modelled on its own with the server as an
external actor.

The hazards, each at its line with the properties aimed at it, are in `PROJECT.json`.

## 2. Plan

What loses data or blocks users came first; all of it is built except where marked.

1. **Session pool** - `SessionPool`, `MCSessionPool`, `SessionPoolProofs`.
2. **Topic writer** - `WriterWindow` (the window as operators on a record), `TopicWriter`
   (machine, runtime, public object, server), `DurableLog` (the abstract promise it
   implements), `TopicWriterProofs`, `WriterDurableProofs`.
3. **Coordination session** - `CoordinationSession`, `CoordinationProofs`.
4. **Coordination calls** - `CoordinationCalls`, composed with `CoordinationSession`:
   registry, `call`, `callPinned`, leases, watches, and a semaphore on the server;
   also in `CoordinationProofs`.
5. **Topic reader** - `TopicReader`, with `CommitPromise` as the abstract promise of
   `commit()`, `TopicReaderProofs`, `ReaderRangesProofs`.
6. **Endpoints engine and driver** - `Endpoints`, `EndpointsProofs`.
7. **Transactions and retry** - `Transactions`, `TransactionsProofs`.
8. *Left*: the token cache of `auth`; several partitions and batch limits in the reader.

`CoordinationCalls` EXTENDS `CoordinationSession` and conjoins to each of its steps what the
step does to the client, the requests and the semaphore; the session's properties are checked
on the composition. `TopicWriter` EXTENDS `WriterWindow`. `DurableLog` and `CommitPromise` are
instantiated with a refinement mapping and checked as properties. `Transactions` stands on
what `SessionPool` shows (who waits is served, a session is leased once), rather than on its
state.

## 3. What is modelled

### SessionPool

`all`, `available`, `waiters`, `creates` are the pool's private fields. `life[s]` is the
session's own state as far as the pool can see it (`signal.aborted` is `"dead"`). Each client
has a program counter through `acquire()` and `release()`.

| Action | Code (`session-pool.ts`) |
| --- | --- |
| `AcquireIdle`, `AcquireGrow`, `AcquireWait`, `AcquireRejected` | the four ends of `#acquireSession` before its first await |
| `OpenSucceeds`, `OpenFails` | `Session.open` settles |
| `GrowResolves`, `GrowRejects`, `GrowFindsClosed` | `#grow` resumes |
| `ParkIdle`, `ParkToWaiter`, `ParkClosed` | `#growAndPark` resumes |
| `Release*` | `release()`: dead session, closed pool, oldest waiter, idle |
| `Evict`, `BreakUnbound` | the attach stream ends with and without the eviction listener; pump of the waiters and refill are part of the step |
| `AbortWait`, `OwnerGivesUp` | the caller's signal |
| `Close`, `CloseSweeps` | `close()` before and after it awaits the creates |

Session identities are reused once nothing refers to the old object, so that behaviours are
unbounded although `Session` is finite.

### TopicWriter, WriterWindow, DurableLog

`WriterWindow` is the ring of messages with the four pointers the code keeps by hand.
`TopicWriter` has the machine's context, its mailbox and output queue (both FIFO and visible:
calls of the user run between them), the armed timers, the stream with what is under way in
both directions, the server's last number and log, and the public object's `#bufferedBytes`,
flush waiters, `#closing`, `#closed` and `#lastError`. `Handle*` are the branches of
`writerTransition` by event, `Consume*` the branches of `#consume`, timers are actions that
need an empty mailbox and output queue because a timer callback starts when all promise
continuations have run. A message is one unit of bytes; batches are bounded by `BatchLimit`.

A caller of flush() waits for one call at a time; an abort rejects it and takes its waiter out,
while the machine's request stays (writer.ts:240-245), and the caller may flush again at once.
Two auxiliary variables, which no action reads, describe the flush() a caller waits for, and
are cleared when it settles: `target`, how many messages had been written when it was called,
and `alone`, was no request under way at that moment, neither queued, nor remembered by the
machine, nor answered with the answer unread (`Flushing`)?

`DurableLog` is what a caller relies on: submitted messages are stored once each and in order,
nothing is confirmed before it is stored, a successful close means all were. `DurableSpec`
instantiates it with `written`, `log`, `acked` and the errors, and is checked as a property.

### CoordinationSession

Both machines, the three timers, the output queue between them, and the stream: the session id
it asked for, how far the server is, responses under way. A command of the session (`connect`,
`stop`, `close`) is part of the session's action, since the transport handles it before
anything else runs; what the transport emits waits in `outputs`, where a call of the user can
overtake it. The flags `retryScheduled`, `recoveryScheduled`, `startTimeoutScheduled` are
written and never read, and are left out. Pings, the aggregate of ready-promises and
`transport.fatal` (emitted nowhere) are left out as well.

### CoordinationCalls

One client that locks, tries to lock or watches a semaphore for which others contend. `pc` and
`call` are how far its promise is: waiting for the session (`waitReady`), registered in the
`SessionRequestRegistry`, answered with the continuation still due, holding a lease. `sent`
and `answers` are the requests and answers under way on the stream, `owner`, `waiting`,
`tellGrant` and `tellWatch` the server's semaphore. `Reaction` is what a step of the session
does to all of these: a broken stream loses what is under way and rejects pending requests to
be sent again, `sessionStop` and `destroy` close the registry for good, watches are renotified
when the session is back.

| Action | Code |
| --- | --- |
| `Acquire`, `Release`, `Watch`, `Abandon` | `semaphore.ts`: `acquire`, `tryAcquire`, `Lease.release`, `watch`, the caller's signal |
| `RequestProceeds`, `RequestRefused` | `session-transport.ts`: `call`, `callPinned` after `waitReady` |
| `ReceiveAnswer` | `session-registry.ts`: `resolve`; watch notifications |
| `WaitPinned`, `Settle`, `Describe` | the continuations of `acquire`, `release` and `describeAndWatch` |

Request ids are recycled once nothing refers to them (`NextReqId` takes the lowest of `1 ..
MaxIds` that is free). Two ghosts in `mishaps` name what the
properties except: `raced`, a frame handled while the continuation that registers the request
was due (whether gRPC leaves room for it is not in this repository), and `abandoned`, a wait
whose caller gave up without a message to the server.

### TopicReader, CommitPromise

`entries` is `ctx.partitions` with the commits waiting for each partition, `index` the map from
session ids to partitions, `hooks` the partition hooks under way, `inbox` the mailbox with the
frames behind it, `chunks` the responses `read()` has not taken. The server part of the state
grants, feeds, revokes and ends partition sessions; ids restart with each stream
(`IdsRestart`); what it would refuse is noted in `srv.refused`. `Handle*` are the branches of
`readerTransition` by event, the other actions timers, hooks that return, calls of the user.

A list of disjoint ranges is the set of its offsets; a response carries one message of one
unit of bytes. Two details are worth knowing when reading the properties: a commit for a
partition that is not served arms no `partition_reassign_gc` when it is recorded later than
the init (`recordCommit`, reader-state.ts:1106-1183), which `CommitSettles` excepts as `late`;
and `toReady` (1256) asks for the whole free buffer while responses of the old stream are
still to be read, so credit may be granted beyond the buffer: `CreditKept` states the lower
bound only. `CommitPromise` is what a caller relies on: committed offsets move forward, a
commit resolves only once they have reached it, and is settled once.

### Endpoints

A dispatch is handled, with all events its effects dispatch, before it returns; so a round,
the retirement it causes and the closeable report behind it are one action. Asynchronous is
the reading side: snapshots and confirmations wait in `outputs`, and a call selects its node
from the last snapshot read.

| Action | Code |
| --- | --- |
| `RoundSucceeds`, `RoundFails`, `FirstRoundRefused`, `RoundAfterClosing` | the end of `run_discovery_round` in each state, with `computeRoundDiff`, `applyRound`, `retire_channel` |
| `BackoffFires`, `IntervalFires` | the timers and `discovery.force` |
| `IdleSweep` | `idle_sweep` |
| `CreateCall`, `CallEnds` | `BalancedChannel.createCall`, `#wrapCall`: selection, `#materialize`, the count, penalty or recovery |
| `Pin`, `Invalidate` | a client with its own endpoint and its disposal |
| `Close`, `CloseDeadline`, `Destroy` | `toClosing` with `begin_close_drain`, `close_deadline`, `terminate` |
| `Drain` | `#consume`, `#drain` |

`store[n]` says in which of the three maps a node's channel is. `call[c].standing` is a ghost:
a call is `kept` while the engine owes it an open channel, and `cut` when the channel is closed
without a reason the design names. Tiers of locality and pile narrow which node is picked; the
model may pick any node of the best health. Addresses are abstracted to whether one changed.

### Transactions

`phase` is where `runAttempt` stands, `lease` the session it holds, `died` the flag
`sessionDiedLastAttempt`. Each promise the attempt awaits may settle with an error of one of
three classes: retried always, retried if idempotent, never. `carrier` and `hooks` are the
function all bodies share: who wrote its fields last, and whose hooks are in which list. A
commit that gets no answer may have been applied. Backoff is the wait in `acquiring`; the
budget of a transaction is infinite by default.

### Server and network

External in every model: it answers the requests of a stream in order, may be slow or silent,
may break a stream at any time (what is under way is lost), and keeps what it stored. It gives
the writer its last number only when asked, or in addition; it keeps a coordination session
whose stream broke until it forgets it.

## 4. What the runs show

| Run | Instance | Shows |
| --- | --- | --- |
| `pool_safety` | 3 clients, 4 identities, `maxSize` 2, `minSize` 1, queue 2; creates fail, sessions die at any time; symmetry | `Capacity`, `LeaseExclusive`, `NoIdleWhileWaiting`, `CloseDrains` |
| `pool_service` | 3 clients, 3 identities, `maxSize` 1, queue 2 | `NoLeakedSlot`, `FifoService`, `WaiterSettles`, `CloseCompletes` when creates fail only through close() and no stream ends before its listener is bound |
| `writer_safety` | 3 messages, 2 faults, buffer 3, 2 in flight, both numberings, one message of an earlier writer, one flusher that may abort and flush again, every timer | `WindowInv`, `Conservation`, `FlushBarrier`, and `DurableSpec`: the writer implements `DurableLog` |
| `writer_liveness` | 2 messages, 1 fault, fatal errors, one flusher that never tires of calling and aborting, close() at any time | `FlushSettles`, `Delivery` with a server that answers; `CloseSettles`, `RecoveryEnds` with any server |
| `writer_lost_on_close` | 2 messages, 1 fault | **finding**: close() during a reconnect lets later messages overtake unconfirmed ones; the server drops those and reports them stored |
| `coordination_calls` | 2 faults, one client in any of three roles, contenders | `Agreement`, `SameSession`, `Reconnects`, `CloseSettles` of the session (close() with the transport up); `LeaseOwns`, `NoGhostLock`, `CallSettles`, `WatchCatchesUp` of its client |
| `reader_safety` | one partition of two messages behind a hole, granted twice, two commits, one fault | `RegistryInv`, `NoRepeatedCommit`, `AnswersDue`, `RangesTile`, `CreditKept`, and `CommitPromised`: the reader implements `CommitPromise` |
| `reader_liveness` | one message, start hooks that commit, hooks that hang, fatal errors, one fault | `CommitSettles`, `StopAnswered`, `CloseSettles` |
| `reader_lost_route` | two partitions, ids that restart, one fault | **finding**: granting a partition after a reconnect removes another's session id from the index; its frames are dropped |
| `endpoints` | 2 discovered nodes, one pinned by two clients, 2 calls, one change of address, snapshots one step behind | `CallsKept`, `NeverUnroutable`, `PinRoutable`, `SingleFlight`, `CloseDrains` |
| `transactions` | 2 concurrent calls, one idempotent, 2 sessions, 3 failures | `Truthful`, `Settles` |
| `tx_shared_hooks` | as above, an attempt may begin before another body registers its hook | **finding**: the hook goes to the other transaction, and one is committed without its hook |

**Restrictions, and what lifting them shows.** Where the code breaks a property, a passing run
checks it under the narrowest restriction that excludes the case, and the restriction is a
named constant or part of the specification. Some of the cases have a run of their own above;
the others are found by TLC in seconds when the constant is changed:

| Restriction | Lifted, TLC refutes | What the code does |
| --- | --- | --- |
| `EarlyDeath = FALSE` (pool_service) | `NoLeakedSlot` | `#bindEviction` (session-pool.ts:385) adds its listener without asking whether the signal has aborted: a session that dies before keeps its slot until close() |
| `OpenMayFail = FALSE` (pool_service) | `WaiterSettles` | a failed create frees its slot (361) and does not look at the queue, although session-pool.ts:11 says a slot that opens is refilled for waiters |
| `OrderlyClose = TRUE` (writer_safety) | `AckedIsStored` | `writer_lost_on_close` |
| `alone[f]` in `FlushBarrier` | `FlushBarrier` | one `writer.flushed` resolves every waiter (writer.ts:347), whichever request it answers: a flush() that overlaps an earlier request, of another caller or of a call that the same caller aborted (242-245), resolves with that request's answer and before its own messages are acknowledged, against docs/guide/topic/options.md:58 |
| `Hasty = FALSE` (writer_liveness) | `Delivery`, `CloseSettles`, `RecoveryEnds` | a caller that aborts its flush() and calls again from the same continuations, for ever, keeps the mailbox filled, and no timer callback starts: it starves every timer of its process. A caller that is not hasty calls again once they have run, while its first request may still be remembered |
| `Orderly = TRUE` (coordination_calls) | `CloseSettles` | close() while the transport is connecting or waits for a retry stops it without an output (session-state.ts:713, 811): it never settles |
| a server that answers | `Reconnects` with `SilentServerSpec` | a recovery window that elapses during a connect attempt is ignored and started anew (355) |
| (none) | `LeaseSignalled` | a lease's signal is aborted by release() only (semaphore.ts:81), although docs/guide/coordination/index.md:216 says it aborts when the session expires |
| `MaxVanish = 1` (endpoints) | `CallsKept` | a node that comes back keeps its channel among the retired ones; when it leaves again `retire_channel` (endpoints-runtime.ts:396) finds none, reports it closeable and closes it under its calls, against core/README.md:154 |
| third clause of `Strays` (endpoints) | `CallsKept` | dropping a channel with calls on it forgets the count of its node (endpoints-runtime.ts:180); the end of such a call is then taken off the count of those begun later on the node's new channel (542-547), and a graceful close or retirement closes it under them |
| `Target` outside `Discovered` | `CallsKept` | one `channel_closeable` (endpoints-state.ts:853), or one retirement, closes both channels of a node that is discovered and pinned |
| `LateHooks = FALSE` (transactions) | `OwnHooks` | `tx_shared_hooks` |
| `HookErrors` without "retryable" | `Truthful` | a close hook that throws such an error after the commit makes the loop run a committed transaction again |
| `LostAs = {"conditional"}` | `Truthful` | INTERNAL, ABORTED and RESOURCE_EXHAUSTED in place of a commit's answer are retried for any transaction (retry/src/index.ts:192) |

`EarlyDeath` and `OpenMayFail` are on in `pool_safety`, disorderly close in `writer_liveness`:
the restrictions apply to the properties that need them only.

**Bounds.** Counters that would grow for ever are bounded by named constants: `MaxMsg`,
`MaxFaults`, `MaxRequests`, `MaxGrants`, `MaxCommits`, `MaxAcquires`, `MaxChanges`, `MaxIds`,
`MaxMoves`, `MaxVanish`, the number of identities. They are the smallest for which the interesting cases occur
together: two idle sessions of which one dies while a third client waits; a message stored and
unconfirmed, one in flight and one buffered when the stream breaks, and a second break during
recovery; a partition revoked and granted again with commits of both grants under way; a lost
answer to a lock, and a second break while it is asked again; a node retired, revived and
closing under a call while another is pinned; a commit whose answer is lost on a session that
died, and a failure of the next attempt. `MaxInflight = 1` in `writer_liveness` makes every
acknowledgment a wake-up. `MaxRequests = 1` holds back a flush() while another one is in the
mailbox or its answer unread, but not while the machine remembers one: an abort, a write and a
second flush() come between a request and its answer. `MaxLag = 1` lets a snapshot be one event old, which is what a
callback between an emit and its continuation can see; a dispatch that emits several outputs
is still read one by one. One unit per message hides batches of uneven sizes; only how many
messages a batch holds differs.

**Fairness.** Promise continuations always run (weak fairness of the handlers). An armed timer
expires: weak fairness where only its own event disarms it, strong fairness in the writer,
because the event loop returns to expired timers whenever the continuations run out, and a
caller that keeps calling flush() makes them run out again and again (one that aborts and never
lets them run out is excluded by `Hasty = FALSE`, see above). Servers are fair only in
properties that say so (`ServerFair`), and in the coordination calls, where a server that
answers and other owners that let go are assumed. In the reader only the init request must be
answered: hooks may hang and the server may never feed or commit. In the pool, an open RPC
settles, since the transport ends a stuck call, and a granted session is released, since leases
are scoped by `using`. In the endpoints outputs are read and calls end; the close deadline is
not counted on. In the transactions bodies, hooks and RPCs settle (weak), and whoever waits for
a session is served in turn, as `pool_service` shows (strong, since the session may be taken by
others in between). No client has to call and no session has to die.

**Two documents that differ from the code and have no run of their own**, since the difference
is one line: `query/README.md:215` and `session-pool.ts:63` say that the pool does not warm up
eagerly, while the constructor starts `minSize` creates (`session-pool.ts:169`, modelled in
`Init`); `docs/guide/topic/options.md:55` says that messages are sent by flush() or a periodic
flusher, while a write in `ready` is sent at once (`writer-state.ts:772`; `PumpKeepsUp` says
that the periodic tick never has anything to do).

## 5. What is proved

**Session pool** (`SessionPoolProofs`), for every set of clients and identities, every
`maxSize`, `minSize` and queue cap that `PoolAssumption` allows, and with every failure on:

| Theorem | Says |
| --- | --- |
| `TypeCorrect` | the state keeps its shape, the queue its cap |
| `CapacityHolds` | `#all.size + #creates.size` never exceeds `maxSize` |
| `PoolInvHolds` | the inductive invariant `PoolInv` |
| `LeaseExclusiveHolds` | a session is never leased twice, or leased and idle |
| `NoIdleWhileWaitingHolds` | nobody waits beside an idle session |
| `CloseDrainsHolds` | after `close()` nothing is tracked, in flight or waiting |
| `NoLeakedSlotHolds` | `NoLeakedSlot`, if `~EarlyDeath` |
| `FifoServiceHolds` | `FifoService`, if `~OpenMayFail` |

`Capacity` needs only the types and the cardinalities: a create starts where the check was
made, and it turns into a tracked session in one step. The other three are not inductive: that
a release hands a session to nobody else depends on where every session is, and who may be
waiting on whom the creates are for. `PoolInv` says it: an unborn session or one that is still
being created is nowhere else (`SessionPlaces`); leases and queue places agree with the
clients' program counters, and nobody
queues twice (`LeaseStates`, `QueueStates`, `Queued`); each create is for the one client that
awaits it, or for the pool itself (`CreateOwners`); a live session is tracked or being created,
and closing empties the queue and then the rest (`Accounted`). The proof has one step per
action.

The last two theorems carry the restrictions of `pool_service`, which section 4 shows to be
necessary: the code leaks the slot of a session that dies before its listener is bound, and a
failed create lets a newcomer overtake the queue. Without early deaths whatever is tracked is
alive (`TrackedAlive`), so a counted slot has a place (`SlotsPlaced`). Without failures nobody
waits unless the pool is full (`Full`), so no room is left for a newcomer's create, and every
slot that comes free goes to the head of the queue (`ServedInOrder`).

**Coordination session** (`CoordinationProofs`), for every number of faults and whether
or not `close()` waits for the transport; no assumption beyond `SessionAssumption`:

| Theorem | Says |
| --- | --- |
| `SessionInvariant` | the inductive invariant `SessionInv` |
| `SessionTypeCorrect` | `TypeOK` |
| `MachinesAgree` | an empty output queue means that the two machines agree |
| `AlwaysScheduled` | a session that waits has its timers, another has none |
| `StreamHasOwner` | no stream outlives its transport, no transport its closed session |
| `ReadySessionIsAlive` | a ready session with no news under way exists on the server |
| `SessionKeepsItsId` | `SameSession`: a reconnect never changes the id |

The argument: the outputs under way tell a live session about exactly one stream, that it
started and then that it ended (`Ordered`, `Follows`); hence an empty queue leaves nothing to
tell (`Agreement`). The server is no further than the transport allows, and a session whose
stream it has finished is told so (`StreamStages`). Every `started` under way names the session
the stream is attached to, which is the one the client knows if it knows one (`Identity`); so a
ready session is attached to a living session, its own. No conjunct is inductive alone: even
`TypeOK` needs `StreamStages`, since `sessionStop` is sent on a stream that exists.

**Coordination calls** (`CoordinationProofs`), for every number of faults, acquires,
contenders and request ids:

| Theorem | Says |
| --- | --- |
| `CallsKeepSession` | the composition's session is a session: `CallsSpec => Spec` |
| `CallsInvariant` | the inductive invariant `CallsInv` |
| `LeaseOwnsHolds` | `LeaseOwns`: a lease owns the semaphore while its session lives |
| `NoGhostLockHolds` | `NoGhostLock`: who is through owns and awaits nothing, unless a wait was abandoned |

`CallsKeepSession` carries the session's theorems over to the composition (`MachinesAgreeOnCalls`,
`SessionKeepsItsIdOnCalls`). What a lease means is decided by an answer handled long after the
server gave it, so `CallsInv` speaks of everything in between: an id names one request or
answer under way, and the one the client waits for is its own (`Apart`, `Awaited`); nothing
outlives its stream, and nothing precedes the session (`Carried`); from the moment an answer
says that the semaphore is the session's until the client has let go of it, it is (`Granted`),
and the other way round for a release or a miss (`Given`); only an `acquire()` waits
(`Patient`). That an abandoned wait may be granted to nobody is the exception of `Given`.

**Topic writer** (`TopicWriterProofs`, `WriterDurableProofs`), for every number of messages and
faults, every `maxInflightCount`, batch size and set of flushers, and with every failure on:

| Theorem | Says |
| --- | --- |
| `WindowHolds` | `WindowInv`: the pointers of the window agree with its lengths, numbers increase along it up to `lastSeqNo` |
| `PumpKeepsUpHolds` | `PumpKeepsUp`: a ready machine that may send has a pump in its mailbox, so nothing waits for `flush_tick` |
| `ConservationHolds` | `Conservation`: no message is lost, repeated or overtaken between `write()` and `onAck` |
| `DurableHolds` | `DurableSpec`: the writer implements `DurableLog`, if `OrderlyClose` |
| `AckedIsStoredHolds` | `AckedIsStored`: what `onAck` reports is stored, if `OrderlyClose` |
| `FlushBarrierHolds` | `FlushBarrier`: a flush() called while no earlier request is under way resolves only when all that was written before is acknowledged |

The first part of `TopicWriterProofs` shows what each operation on the window keeps
(`AcknowledgedSound`, `RewoundSound`, `EnqueuedSound`, `SentSound`); the steps of the machine
cite these. That numbers increase is not inductive when the caller gives them: a write is
handled long after it was accepted, so the mailbox must hold the writes in the order of their
numbers, each above all that are in the window (`Mail`). What comes back on the stream are
numbers at all because of what the requests under way are (`Types`). `PumpInv` is `PumpKeepsUp`
without the empty mailbox: each handler leaves a pump behind whenever its window may be sent
from.

`Conservation` is proved of sets of identities: what is reported and not yet read, what is in
the window and what is queued come in this order, each a run, without a gap above what the user
has been told (`Places`, `Tiled`), also after the writer failed, when what is missing is the
end. It needs that nothing is written behind a close (`CallsInv`).

The refinement is proved from `DurableInv`. Its parts say what the server may find on the
stream. Each message has the number `Base` plus its identity, once the mark of the server is
known, and until then nothing is numbered (`Numbers`, `Starting`). A stream begins with its
init, and nothing else is under way until that is handled; a reconnect finds no close waiting
(`Phase`). What the server has stored is `1 .. n`; each report under way covers what is stored
and no more; each batch under way continues what is stored or the batch before it, and what is
in flight is stored or under way (`Delivered`). A machine that stopped with something unsent
tells its failure before it says that it is closed (`EndInv`). Then a write is `Submit`, a batch
the server takes `Persist`, an `acks` output handled `Confirm`, a `closed` one `Close`, an
error or a `destroy()` `Fail`, and every other step leaves `DurableLog` alone. `Phase` is where
`OrderlyClose` is needed: section 4 shows what a close behind a lost stream does to it.

`FlushBarrier` is decided when the answer is read, by what the machine knew when it gave it, and
any number of callers may have called, aborted and called again in between. `FlushInv` says what
a caller that was `alone` is owed: in the mailbox there are only later writes behind a request
(`Ahead`), the same holds of the whole mailbox while the machine remembers one, and before each
answer stand the reports of all that it had written and nobody confirmed yet (`Barrier`), since
the window was empty when the answer was given and `Places` leaves no other place. It speaks of
every request and answer, not of the caller's own: all are its own or later ones, because none
was under way when it called. An earlier one would break it (section 4).

**Topic reader** (`TopicReaderProofs`; `ReaderRangesProofs` for the last), for every finite set
of partitions, every number of messages, grants, commits and faults, every
limit, and with every failure on:

| Theorem | Says |
| --- | --- |
| `ReaderConsistent` | `ReaderInv`: entries, index, frames under way, server and promises fit together |
| `CommitPromisedHolds` | `CommitPromised`: the reader implements `CommitPromise` |
| `RegistryHolds` | `RegistryInv`: an id leads to the partition that holds it, the claimed offsets are those pending commits still have to send |
| `AnswersConsistent` | the inductive invariant `AnswersInv` |
| `AnswersDueHolds` | `AnswersDue`: no commit precedes its grant's answer, each answer answers something, once |
| `NoRepeatedCommitHolds` | `NoRepeatedCommit`: no offset is sent twice on a session |
| `CreditKeptHolds` | `CreditKept`: byte credit is never lost |
| `RangesTileHolds` | `RangesTile`: the ranges of the messages leave nothing out and overlap nowhere |

A commit resolves when a response, a stop, a grant or a status says that the server is past its
target. The refinement therefore needs that no number the reader may come to believe is ahead
of the server: neither those in its entries (`Books`) nor those in frames under way (`Frames`:
a frame for a session must be true of the partition its id leads to now, and of the one it will
lead to once a grant ahead of it is handled). Session ids are reused, so `Granted` and `Links`
tie an id to one partition across the index, the server's sessions and the inbox while a stream
lives, and `Idle` says that no id leads anywhere before the next one is ready. `Book` keeps a
pending commit the one its caller made. Each handler is shown to end in a state that is `Ready`
to be finished; `FinishKeeps` does what every transition has in common (resolving, rejecting,
reconnecting, closing) once.

The server refuses what does not fit its session, so `AnswersInv` adds to `ReaderInv` what the
server has of each session the reader routes: nothing before the grant is answered, then what
the entry has committed, asked for or claimed. Grants under way are of different sessions and
the first the reader hears of them, a stop under way has been asked, and the start hook that
runs for the entry's grant has its session id; so an answer that comes late, from a hook that
outlived its session, finds that it no longer applies.

`CreditInv` counts credit in four places: what the server may still send, the reads and the
responses under way, what waits for `read()`; a stream that is not up has none. Only
`maxBufferBytes` as a lower bound is proved, since it is all that holds (section 3).

`RangesTile` is about messages read long after they were placed. `TileInv` says it for every
prefix of the responses that wait, says that up to its watermark a served grant is
acknowledged without a hole, that what is still to come on a session lies behind what its
grant has brought, in order, and that no two served grants have the same number. The messages
a stop discards are the last of their grant, and the grant that follows starts from the
committed offset, so dropping them leaves no hole.

**Endpoints** (`EndpointsProofs`), for every finite set of nodes and every set of clients, calls
and bounds:

| Theorem | Says |
| --- | --- |
| `SingleFlightHolds` | `SingleFlight`: the flag counts the `ListEndpoints` calls under way |
| `NeverUnroutableHolds` | `NeverUnroutable`: once `ready()` resolved, a balanced call finds a node |
| `PinRoutableHolds` | `PinRoutable`: a confirmed pin finds its node until it is disposed of |
| `CallsKeptHolds` | `CallsKept`, if `MaxVanish <= 1` and `Separate` |

`SingleFlight` needs to know that the backoff timer, which starts the first rounds without
looking at the flag, is only armed before the first round when none is under way (`FlightInv`).
`NeverUnroutable` is about a snapshot read late, so `RouteInv` looks at the whole queue: a
"ready" is right behind a snapshot that routes, and everything behind it routes too
(`Announced`); while discovering there is no "ready" (`Unannounced`). The snapshots of entries
removed one after the other (`RemovalsRoute`) are where the finiteness of `Node` is used.
`PinInv` does the same for pins: the count of a node is that of the clients which hold it
(`References`), a confirmation comes right behind a snapshot with the node, and nothing that is
read later forgets it (`Confirmations`).

`CallsKeptHolds` carries the restrictions of the run, without which section 4 shows the code to
cut calls: no node drops out of discovery twice, no pinned node is discovered (`Separate`), and
a call that begins beside one whose count was forgotten is owed nothing (`Strays`), as is one
that begins during the close or on a node the engine does not know any more.
A call starts on a node taken from an old snapshot, so `ToldInv` says of every snapshot under
way that it shows a node as retired only if it has vanished and as pinned only if discovery
does not name it; hence every channel is in the store where its node will be looked up
(`Stored`). A kept call has a channel, on a node the engine knows, and is counted together with
all others there (`Owed`): so a graceful close waits for it, and the call that takes the count
to zero is the last.

**Transactions** (`TransactionsProofs`), for every set of callers and sessions:

| Theorem | Says |
| --- | --- |
| `TransactionsTypeCorrect` | `TypeOK` |
| `TruthfulHolds` | `Truthful`: success means committed, and what is not idempotent is applied at most once |

`TruthfulHolds` assumes `SafeErrors`: neither a hook nor a lost answer fails with an error that
is always retried. Without it the property is false, as section 4 says. The invariant is that
an applied transaction that may not be repeated carries an error which ends the loop, or none
(`AppliedOnce`), and that an attempt behind its commit without an error has committed
(`SuccessIsCommit`).

**Only model-checked:** liveness, which depends on fairness and is out of the prover's reach
(`WaiterSettles`, `CloseCompletes`, `Reconnects`, `CloseSettles` of both, `CallSettles`,
`WatchCatchesUp`, `CommitSettles`, `StopAnswered`, `CloseDrains`, `Settles` and the writer's
four). Every invariant and every action property of the runs is a theorem.

## 6. What is not modelled, and why

- Auth providers: a cached token and one refresh its callers share. (A caller's AbortSignal is
  that of the shared refresh, `static.ts:139`: its abort rejects the others. Nothing says what
  they may expect.) One-shot queries (`query.ts`) and `do()` are single calls inside `retry`.
- In the writer: token refresh, codec failures (they end like a fatal error), a fault inside a
  handler, transactions in write options, repeated destroy().
- In the reader: token refresh, codec faults, offsets in a transaction, batch windows and
  limits, several partitions in one response, `end_partition` during a graceful stop
  (reader-state.ts:1050 overwrites the stop).
- In the pool: the outcome of `deleteServerSession` and `Session.claim`, which change nothing
  the pool reads. `ClosedEventOnce` (each session gets one `session.closed` event) holds on the
  instance of `pool_service`; the event is diagnostic.
- In the coordination session: the caller's signal on `close()` (it abandons the wait, not the
  close), a signal that has aborted before creation, and `session.abort`, which nothing sends.
  In its client: create, update, delete and describe without a watch, and the election, which
  is a semaphore with data.
- In the endpoints engine: tiers, addresses, hooks, diagnostics; in the driver: middleware and
  connection setup.
- In the transactions: a rollback that the next transaction of its session overtakes (it is
  not awaited, index.ts:382): what the server does with the two is outside this repository. A
  finite retry budget, and the length of backoffs.
- Time: a timer may expire at any moment it is armed. What depends on one timer being longer
  than another is not expressible, and no property depends on it.
- Telemetry, logging, value conversion, yql templates, generated code (most of `api`) and the
  third-party adapters keep no state the SDK's behaviour depends on.
