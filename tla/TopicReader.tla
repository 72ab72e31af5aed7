---------------------------- MODULE TopicReader ----------------------------
(***************************************************************************)
(* The topic reader: the state machine of reader-state.ts, the runtime     *)
(* that binds it to timers, to the partition hooks and to one stream       *)
(* (reader-runtime.ts, transport.ts, transport-state.ts) and the public    *)
(* object (reader.ts), all under packages/topic/src/reader.                *)
(*                                                                         *)
(* inbox is the machine's mailbox with the frames still under way behind   *)
(* it.  A frame joins at the end; a commit joins anywhere behind the last  *)
(* commit, the frames before it being in the mailbox already and those     *)
(* after it not yet here: commit() has looked at the sessions before these *)
(* frames are handled.  Every other callback of this process (a hook, a    *)
(* timer, read, close, destroy) decides nothing before its event is        *)
(* handled; it runs when the mailbox is empty (Quiet) and its event is     *)
(* handled at once, which leaves out no order of the handlers.  What the   *)
(* client sends is with the server at once: with one delayed direction     *)
(* every order of the two ends is still reached.                           *)
(*                                                                         *)
(* A list of disjoint offset ranges is the set of its offsets.  A response *)
(* carries one message of one unit of bytes.  The server is external: it   *)
(* grants, feeds, revokes and ends partitions, commits what it received    *)
(* when it likes and notes what it must refuse (srv.refused).              *)
(***************************************************************************)
EXTENDS Naturals, FiniteSets, Sequences, SequencesExt, FiniteSetsExt

CONSTANTS
  Partition,
  None,             \* no partition
  MaxOffset,        \* bound: offsets of a partition are below it
  Hole,             \* offsets that hold no message
  MaxGrants,        \* bound: how often a partition is granted to this reader
  MaxCommits,       \* bound: commit() calls
  MaxBuffer,        \* maxBufferBytes, in responses
  MaxUnderway,      \* bound: the server sends no frame behind that many others
  MaxFaults,        \* bound: broken streams and expired connect watchdogs
  IdsRestart,       \* do session ids restart with each stream?
  Override,         \* commitOffsets that onPartitionSessionStart returns, 0 for none
  FatalErrors,      \* may a stream break with an error that is not retryable?
  BoundedRecovery   \* is recoveryWindowMs finite?

ASSUME ReaderAssumption ==
  /\ IsFiniteSet(Partition) /\ Partition # {} /\ None \notin Partition
  /\ MaxOffset \in Nat \ {0} /\ Hole \subseteq 0 .. MaxOffset - 1
  /\ MaxGrants \in Nat /\ MaxCommits \in Nat /\ MaxFaults \in Nat
  /\ MaxBuffer \in Nat \ {0} /\ MaxUnderway \in Nat \ {0}
  /\ Override \subseteq 0 .. MaxOffset /\ 0 \in Override
  /\ {IdsRestart, FatalErrors, BoundedRecovery} \subseteq BOOLEAN

VARIABLES
  state,        \* the machine's state
  entries,      \* ctx.partitions
  index,        \* ctx.sessionIndex
  grantSeq,
  timers,       \* armed timers, those of a partition with the partition
  inbox,
  hooks,        \* partition hooks that are running
  srv,          \* the server and the stream
  chunks,       \* #chunks; the messages of a stopped session are gone from it
  delivered,    \* messages read() has yielded whose session is not stopped
  promise,      \* what became of each commit(), late: recorded while the stream was
                \* ready and its partition was not served
  closeCall,    \* was close() or destroy() called? (#closing)
  closed,       \* #closed
  faults        \* how many faults there were

machineVars == <<state, entries, index, grantSeq, timers, hooks>>
facadeVars  == <<chunks, delivered, promise, closeCall, closed>>
vars == <<machineVars, inbox, srv, facadeVars, faults>>

Offset   == 0 .. MaxOffset - 1
Sid      == 1 .. MaxGrants
Waiter   == 1 .. MaxCommits
Terminal == {"closed", "errored"}
State    == {"connecting", "ready", "reconnecting", "closing"} \cup Terminal
GlobalTimer == {"start_timeout", "retry_backoff", "recovery_window", "graceful_timeout"}
PartitionTimer == {"partition_graceful_timeout", "partition_reassign_gc",
                   "partition_commit_status"}
Watermark == 0 .. MaxOffset

Pending == [waiter : Waiter, target : Watermark, wire : SUBSET Offset]
Entry == [sid : {0} \cup Sid, grant : 0 .. MaxGrants, ackPending : BOOLEAN,
          committed : Watermark, requested : Watermark, watermark : Watermark,
          claimed : SUBSET Offset,
          state : {"absent", "active", "stopping-graceful", "stopped", "ended"},
          stopReady : BOOLEAN, pending : SUBSET Pending]
Session == [partition : Partition \cup {None}, started : BOOLEAN,
            asked : {"no", "graceful", "forced"}, answered : BOOLEAN,
            wire : SUBSET Offset, pos : 0 .. MaxOffset + 1]
Message == [partition : Partition, grant : 1 .. MaxGrants, offset : Offset, from : Offset]

Absent == [sid |-> 0, grant |-> 0, ackPending |-> FALSE, committed |-> 0, requested |-> 0,
           watermark |-> 0, claimed |-> {}, state |-> "absent", stopReady |-> FALSE,
           pending |-> {}]
NoSession == [partition |-> None, started |-> FALSE, asked |-> "no", answered |-> FALSE,
              wire |-> {}, pos |-> 0]

TypeOK ==
  /\ state \in State
  /\ entries \in [Partition -> Entry]
  /\ index \in [Sid -> Partition \cup {None}]
  /\ grantSeq \in 0 .. MaxGrants
  /\ timers \subseteq (GlobalTimer \X {None}) \cup (PartitionTimer \X Partition)
  /\ \A h \in hooks : h.type \in {"start", "stop"} /\ h.partition \in Partition
  /\ srv.conn \in {"none", "opened", "up"} /\ srv.sess \in [Sid -> Session]
  /\ srv.committed \in [Partition -> Watermark]
  /\ srv.accepted \in [Partition -> SUBSET Offset]
  /\ \A i \in 1 .. Len(chunks) : chunks[i] \subseteq Message
  /\ delivered \subseteq Message
  /\ promise \in [Waiter -> [partition : Partition, target : Watermark, late : BOOLEAN,
                             status : {"none", "pending", "resolved", "rejected"}]]
  /\ closeCall \in {"no", "close", "destroy"} /\ closed \in BOOLEAN
  /\ faults \in 0 .. MaxFaults

-----------------------------------------------------------------------------
(* The inbox                                                               *)

IsCommit(e) == e.type = "commit"
LastCommit == Max({0} \cup {i \in 1 .. Len(inbox) : IsCommit(inbox[i])})
Quiet == LastCommit = 0

\* dispatch() of a commit, behind some of the frames; a terminal machine ignores it.
Post(e) ==
  IF state \in Terminal
  THEN UNCHANGED inbox
  ELSE \E i \in LastCommit .. Len(inbox) : inbox' = InsertAt(inbox, i + 1, e)

\* The event being handled is the head of the inbox.
Event == Head(inbox)
Handles(states, type) == inbox # << >> /\ state \in states /\ Event.type = type

-----------------------------------------------------------------------------
(* The server's side of a stream (external)                                *)

Highest(a, b) == IF a < b THEN b ELSE a
EndOf(offsets) == Max({0} \cup {o + 1 : o \in offsets})
Below(offset) == 0 .. offset - 1
From(offsets, offset) == {o \in offsets : o >= offset}

Refuse(s, why) == [s EXCEPT !.refused = @ \cup {why}]
Live(sess) == sess.partition # None /\ sess.asked # "forced" /\ ~sess.answered

\* A commit: refused on a session that is unknown or not started, and when it repeats an
\* offset; without effect once the session is gone.
Commits(s, sid, offsets) ==
  LET sess == s.sess[sid]
  IN IF s.conn # "up" THEN s
     ELSE IF sess.partition = None THEN Refuse(s, "unknown")
     ELSE IF ~Live(sess) THEN s
     ELSE IF ~sess.started THEN Refuse(s, "unstarted")
     ELSE IF sess.wire \cap offsets # {} THEN Refuse(s, "repeated")
     ELSE [s EXCEPT !.sess[sid].wire = @ \cup offsets,
                    !.accepted[sess.partition] = @ \cup offsets]

\* What pending commits owe from an offset on goes out, a request for each of them.
CommitsAll(s, sid, pendings, floor) ==
  LET owed == From(UNION {q.wire : q \in pendings}, floor)
      twice == \E q, r \in pendings : q # r /\ From(q.wire \cap r.wire, floor) # {}
  IN IF owed = {} THEN s
     ELSE IF twice THEN Refuse(s, "repeated")
     ELSE Commits(s, sid, owed)

StartResponse(s, sid, commitOffset) ==
  LET sess == s.sess[sid]
      started == [sess EXCEPT !.started = TRUE, !.wire = @ \cup Below(commitOffset),
                              !.pos = Highest(@, commitOffset)]
  IN IF s.conn # "up" THEN s
     ELSE IF sess.partition = None \/ sess.started THEN Refuse(s, "stray start")
     ELSE IF ~Live(sess) THEN s
     ELSE [s EXCEPT !.sess[sid] = started,
                    !.accepted[sess.partition] = @ \cup Below(commitOffset)]

StopResponse(s, sid) ==
  LET sess == s.sess[sid]
      stopped == [sess EXCEPT !.answered = TRUE, !.wire = {}, !.pos = 0]
  IN IF s.conn # "up" THEN s
     ELSE IF sess.asked = "no" \/ sess.answered THEN Refuse(s, "stray stop")
     ELSE [s EXCEPT !.sess[sid] = stopped]

ReadRequest(s, n) == IF s.conn = "up" THEN [s EXCEPT !.credit = @ + n] ELSE s

\* The stream is gone; what the server accepted on it may still be committed.
Broken(s) == [s EXCEPT !.conn = "none", !.sess = [i \in Sid |-> NoSession],
                      !.credit = 0, !.queried = {}]

\* A fresh stream, its init request sent.
Opened(s) == [Broken(s) EXCEPT !.conn = "opened", !.next = IF IdsRestart THEN 1 ELSE @]

StatusRequest(s, sid) == IF s.conn = "up" THEN [s EXCEPT !.queried = @ \cup {sid}] ELSE s

\* A frame joins those under way.
Reply(frame) == Len(inbox) < MaxUnderway /\ inbox' = Append(inbox, frame)

ServerInit ==
  /\ srv.conn = "opened"
  /\ srv' = [srv EXCEPT !.conn = "up"]
  /\ Reply([type |-> "init"])
  /\ UNCHANGED <<machineVars, facadeVars, faults>>

\* The partition is assigned to this reader.
ServerGrant(p) ==
  /\ srv.conn = "up" /\ srv.grants < MaxGrants
  /\ \A i \in Sid : srv.sess[i].partition = p => ~Live(srv.sess[i])
  /\ srv' = [srv EXCEPT !.grants = @ + 1, !.next = @ + 1, !.accepted[p] = {},
                        !.sess[srv.next] = [NoSession EXCEPT !.partition = p,
                                                             !.wire = Below(srv.committed[p]),
                                                             !.pos = srv.committed[p]]]
  /\ Reply([type |-> "start", sid |-> srv.next, partition |-> p,
            committed |-> srv.committed[p]])
  /\ UNCHANGED <<machineVars, facadeVars, faults>>

\* The next message of the partition, within the credit.
ServerData(sid) ==
  LET next == {o \in Offset \ Hole : o >= srv.sess[sid].pos} IN
  /\ Live(srv.sess[sid]) /\ srv.sess[sid].started /\ srv.sess[sid].asked = "no"
  /\ srv.credit > 0 /\ next # {}
  /\ srv' = [srv EXCEPT !.credit = @ - 1, !.sess[sid].pos = Min(next) + 1]
  /\ Reply([type |-> "read", sid |-> sid, offset |-> Min(next)])
  /\ UNCHANGED <<machineVars, facadeVars, faults>>

\* The partition is revoked, softly or at once.
ServerStop(sid, graceful) ==
  /\ Live(srv.sess[sid])
  /\ graceful => srv.sess[sid].asked = "no"
  /\ srv' = [srv EXCEPT !.sess[sid] =
                IF graceful
                THEN [srv.sess[sid] EXCEPT !.asked = "graceful"]
                ELSE [srv.sess[sid] EXCEPT !.asked = "forced", !.wire = {}, !.pos = 0]]
  /\ Reply([type |-> "stop", sid |-> sid, graceful |-> graceful,
            committed |-> srv.committed[srv.sess[sid].partition]])
  /\ UNCHANGED <<machineVars, facadeVars, faults>>

\* The partition has split or merged and is read to its end.
ServerEnd(sid) ==
  /\ Live(srv.sess[sid]) /\ srv.sess[sid].started /\ srv.sess[sid].asked = "no"
  /\ srv.sess[sid].pos = MaxOffset
  /\ srv' = [srv EXCEPT !.sess[sid].pos = MaxOffset + 1]
  /\ Reply([type |-> "end", sid |-> sid])
  /\ UNCHANGED <<machineVars, facadeVars, faults>>

\* The consumer's offset advances over what was accepted without a gap; the session that is
\* live is told.
ServerCommit(p) ==
  LET reached == Max({srv.committed[p]} \cup
                     {n \in Watermark : srv.committed[p] .. n - 1 \subseteq srv.accepted[p]})
      told == {i \in Sid : srv.sess[i].partition = p /\ Live(srv.sess[i])}
  IN
  /\ reached > srv.committed[p]
  /\ srv' = [srv EXCEPT !.committed[p] = reached]
  /\ IF told = {}
     THEN UNCHANGED inbox
     ELSE Reply([type |-> "commit_response", sid |-> Max(told), committed |-> reached])
  /\ UNCHANGED <<machineVars, facadeVars, faults>>

\* A session's status is reported.
ServerStatus(sid) ==
  /\ sid \in srv.queried
  /\ srv' = [srv EXCEPT !.queried = @ \ {sid}]
  /\ Reply([type |-> "status", sid |-> sid,
            committed |-> srv.committed[srv.sess[sid].partition]])
  /\ UNCHANGED <<machineVars, facadeVars, faults>>

\* The stream breaks: some of the frames under way are lost.
StreamBreaks ==
  /\ srv.conn # "none" /\ faults < MaxFaults
  /\ faults' = faults + 1
  /\ srv' = Broken(srv)
  /\ \E n \in LastCommit .. Len(inbox), fatal \in {FALSE, FatalErrors} :
       inbox' = Append(SubSeq(inbox, 1, n), [type |-> "disconnected", fatal |-> fatal])
  /\ UNCHANGED <<machineVars, facadeVars>>

-----------------------------------------------------------------------------
(* What the handlers are made of                                           *)

Routed(p) == entries[p].state # "absent" /\ index[entries[p].sid] = p
Served(p) == Routed(p) /\ ~entries[p].ackPending
PartitionOf(sid) == index[sid]
Unrouted(sid) == [index EXCEPT ![sid] = None]
NoIndex == [sid \in Sid |-> None]

TimersOf(names, p) == names \X {p}
Waiters(pendings) == {q.waiter : q \in pendings}
AllWire(pendings) == UNION {q.wire : q \in pendings}
Timer(name) == <<name, None>>
ConnectTimers == TimersOf({"start_timeout", "retry_backoff", "recovery_window"}, None)

\* drainCommits: the commits a watermark covers, and the others.
Covered(pendings, offset) == {q \in pendings : q.target <= offset}
Uncovered_OffByOne(pendings, offset) == {q \in pendings : q.target > offset + 1}

Uncovered(pendings, offset) == {q \in pendings : q.target > offset}

\* subtractCovered: what of a commit is neither committed nor claimed by another one.
Unclaimed_Overlaps(entry, ranges) == From(ranges, entry.committed)

Unclaimed(entry, ranges) == From(ranges, entry.committed) \ entry.claimed

\* Offsets below it are with the server, or on their way as the start hook's override.
Floor_NoOverride(entry) == entry.committed

Floor(entry) == IF entry.requested # 0 THEN entry.requested ELSE entry.committed

\* Is the partition's session granted by this stream and its grant answered?
Sendable_Unanswered(p) == state = "ready" /\ Routed(p)

Sendable(p) == state = "ready" /\ Served(p)

\* The acknowledged range of a message begins where the last one ended.
RangeStart_NoHole(entry, offset) == offset

RangeStart(entry, offset) == IF entry.watermark < offset THEN entry.watermark ELSE offset

\* advanceCommitted, and drainCommits and the confirmation of an override behind it.
Advanced_KeepsClaims(entry, offset) ==
  LET c == Highest(entry.committed, offset) IN
  [entry EXCEPT !.committed = c,
                !.watermark = Highest(@, c),
                !.requested = IF @ <= c THEN 0 ELSE @,
                !.pending = Uncovered(@, c)]

Advanced(entry, offset) ==
  LET c == Highest(entry.committed, offset) IN
  [entry EXCEPT !.committed = c,
                !.claimed = From(@, c),
                !.watermark = Highest(@, c),
                !.requested = IF @ <= c THEN 0 ELSE @,
                !.pending = Uncovered(@, c)]

\* markStopped
MarkedStopped(entry) == [entry EXCEPT !.state = "stopped", !.requested = 0]

HasPendingWork(es) ==
  \E p \in Partition :
    es[p].pending # {} \/ es[p].requested # 0 \/ es[p].state = "stopping-graceful"

\* reader.commit.resolved and reader.commit.rejected, taken by #consume.
Settled(resolved, rejected) ==
  [w \in Waiter |->
     CASE w \in resolved /\ promise[w].status = "pending" ->
            [promise[w] EXCEPT !.status = "resolved"]
       [] w \in rejected \ resolved /\ promise[w].status = "pending" ->
            [promise[w] EXCEPT !.status = "rejected"]
       [] OTHER -> promise[w]]

\* A stop is answered over the stream that asked for it.
Answer_WhenDrained(s, p) ==
  IF Routed(p) /\ entries[p].pending = {} THEN StopResponse(s, entries[p].sid) ELSE s

Answer(s, p) == IF Routed(p) THEN StopResponse(s, entries[p].sid) ELSE s

\* What a handler works on.
Here == [entries |-> entries, index |-> index, timers |-> timers, hooks |-> hooks,
         srv |-> srv]

\* terminate: every commit left is rejected, the stream and the timers are dropped and the
\* tail of the mailbox is ignored.
Terminate(terminal, resolved) ==
  /\ state' = terminal
  /\ promise' = Settled(resolved, UNION {Waiters(entries[p].pending) : p \in Partition}
                                    \ resolved)
  /\ entries' = [p \in Partition |-> Absent] /\ index' = NoIndex
  /\ timers' = {} /\ hooks' = {} /\ inbox' = << >>
  /\ srv' = Broken(srv)

\* The end of a handler that keeps the state, rest being the inbox behind its event.  In
\* closing the reader finishes with its last pending work, and what the handler would have
\* sent is dropped.
Finish(to, resolved, rejected, rest) ==
  IF state = "closing" /\ ~HasPendingWork(to.entries)
  THEN Terminate("closed", resolved)
  ELSE /\ entries' = to.entries /\ index' = to.index /\ timers' = to.timers
       /\ hooks' = to.hooks /\ srv' = to.srv
       /\ promise' = Settled(resolved, rejected)
       /\ inbox' = rest
       /\ UNCHANGED state

\* session.stop(): read() leaves the session's messages out (the response still returns its
\* credit) and commit() refuses them.
StopSession_DropsResponses(grant) ==
  LET kept == [i \in 1 .. Len(chunks) |-> {m \in chunks[i] : m.grant # grant}] IN
  /\ chunks' = SelectSeq(kept, LAMBDA c : c # {})
  /\ delivered' = {m \in delivered : m.grant # grant}

StopSession(grant) ==
  /\ chunks' = [i \in 1 .. Len(chunks) |-> {m \in chunks[i] : m.grant # grant}]
  /\ delivered' = {m \in delivered : m.grant # grant}

\* An event that is ignored, or dropped by its handler.
Drop ==
  /\ inbox' = Tail(inbox)
  /\ UNCHANGED <<machineVars, srv, facadeVars, faults>>

-----------------------------------------------------------------------------
(* Frames of the stream                                                    *)

Streaming == {"ready", "closing"}

\* startPartitionSession: the grant is installed, commits that outlived the previous one
\* are narrowed to what the server has not got, and onPartitionSessionStart runs.
HandleStart ==
  LET e == Event
      p == e.partition
      old == entries[p]
      c == Highest(old.committed, e.committed)
      kept == {[q EXCEPT !.wire = From(@, c)] : q \in Uncovered(old.pending, c)}
      entry == [sid |-> e.sid, grant |-> grantSeq + 1, ackPending |-> TRUE,
                committed |-> c, requested |-> 0, watermark |-> c,
                claimed |-> AllWire(kept), state |-> "active", stopReady |-> FALSE,
                pending |-> kept]
      unrouted == IF old.state = "absent" THEN index ELSE Unrouted(old.sid)
  IN
  /\ Handles(Streaming, "start")
  /\ grantSeq' = grantSeq + 1
  /\ Finish([Here EXCEPT !.entries[p] = entry,
                         !.index = [unrouted EXCEPT ![e.sid] = p],
                         !.timers = @ \ TimersOf({"partition_commit_status",
                                                  "partition_graceful_timeout"}, p),
                         !.hooks = @ \cup {[type |-> "start", partition |-> p, sid |-> e.sid,
                                            grant |-> grantSeq + 1]}],
            Waiters(Covered(old.pending, c)), {}, Tail(inbox))
  /\ UNCHANGED <<chunks, delivered, closeCall, closed, faults>>

\* A stop for a session this stream has granted and that is not stopped yet.
StopsKnown ==
  /\ Handles(Streaming, "stop")
  /\ PartitionOf(Event.sid) # None
  /\ entries[PartitionOf(Event.sid)].state # "stopped"

\* stopPartitionSession, at once: what is still pending waits for the partition to come
\* back, for as long as the reassign timer lets it.
HandleForcedStop ==
  LET p == PartitionOf(Event.sid)
      old == entries[p]
      entry == MarkedStopped(Advanced(old, Event.committed))
      armed == IF entry.pending = {} THEN {} ELSE TimersOf({"partition_reassign_gc"}, p)
  IN
  /\ StopsKnown /\ ~Event.graceful
  /\ Finish([Here EXCEPT !.entries[p] = entry, !.index = Unrouted(old.sid),
                         !.timers = (@ \ TimersOf({"partition_commit_status",
                                                   "partition_graceful_timeout"}, p))
                                      \cup armed],
            Waiters(old.pending \ entry.pending), {}, Tail(inbox))
  /\ StopSession(old.grant)
  /\ UNCHANGED <<grantSeq, closeCall, closed, faults>>

\* stopPartitionSession, softly: onPartitionSessionStop runs and the answer waits for it and
\* for the pending commits.
HandleGracefulStop ==
  LET p == PartitionOf(Event.sid)
      old == entries[p]
      entry == [Advanced(old, Event.committed) EXCEPT !.state = "stopping-graceful",
                                                      !.stopReady = FALSE]
      confirmed == old.requested # 0 /\ entry.requested = 0
      cleared == IF confirmed THEN TimersOf({"partition_commit_status"}, p) ELSE {}
  IN
  /\ StopsKnown /\ Event.graceful
  /\ Finish([Here EXCEPT !.entries[p] = entry,
                         !.timers = (@ \ cleared)
                                      \cup TimersOf({"partition_graceful_timeout"}, p),
                         !.hooks = @ \cup {[type |-> "stop", partition |-> p, sid |-> old.sid,
                                            grant |-> old.grant]}],
            Waiters(old.pending \ entry.pending), {}, Tail(inbox))
  /\ UNCHANGED <<grantSeq, chunks, delivered, closeCall, closed, faults>>

\* commitOffsetResponse, and the stop that was waiting for it; a status response is a commit
\* response that keeps asking while an override is not confirmed.
HandleCommitResponse ==
  LET p == PartitionOf(Event.sid)
      old == entries[p]
      entry == Advanced(old, Event.committed)
      drained == /\ entry.state = "stopping-graceful" /\ entry.stopReady
                 /\ entry.requested = 0 /\ entry.pending = {}
      confirmed == old.requested # 0 /\ entry.requested = 0
      cleared == (IF confirmed THEN {"partition_commit_status"} ELSE {})
                 \cup (IF drained THEN {"partition_graceful_timeout"} ELSE {})
      armed == IF Event.type = "status" /\ entry.requested # 0
               THEN {"partition_commit_status"} ELSE {}
      advanced == [Here EXCEPT !.entries[p] = entry,
                               !.timers = (@ \ TimersOf(cleared, p)) \cup TimersOf(armed, p)]
  IN
  /\ Handles(Streaming, "commit_response") \/ Handles(Streaming, "status")
  /\ PartitionOf(Event.sid) # None
  /\ Finish(IF drained
            THEN [advanced EXCEPT !.entries[p] = MarkedStopped(entry),
                                  !.index = Unrouted(old.sid),
                                  !.srv = StopResponse(@, Event.sid)]
            ELSE advanced,
            Waiters(old.pending \ entry.pending), {}, Tail(inbox))
  /\ IF drained THEN StopSession(old.grant) ELSE UNCHANGED <<chunks, delivered>>
  /\ UNCHANGED <<grantSeq, closeCall, closed, faults>>

\* readResponse and collectMessages: the range a message acknowledges begins where the last
\* delivered one ended, and a response nobody wants still returns its credit.
HandleRead ==
  LET p == PartitionOf(Event.sid)
      wanted == /\ p # None
                /\ entries[p].sid = Event.sid /\ entries[p].state \notin {"stopped", "ended"}
      message == [partition |-> p, grant |-> entries[p].grant, offset |-> Event.offset,
                  from |-> RangeStart(entries[p], Event.offset)]
  IN
  /\ Handles(Streaming, "read")
  /\ inbox' = Tail(inbox)
  /\ chunks' = Append(chunks, IF wanted THEN {message} ELSE {})
  /\ entries' = IF wanted
                THEN [entries EXCEPT ![p].watermark = Highest(@, Event.offset + 1)]
                ELSE entries
  /\ UNCHANGED <<state, index, grantSeq, timers, hooks, srv, delivered, promise,
                 closeCall, closed, faults>>

\* endPartitionSession: nothing more to read, commits go on.
HandleEnd ==
  /\ Handles(Streaming, "end") /\ PartitionOf(Event.sid) # None
  /\ Finish([Here EXCEPT !.entries[PartitionOf(Event.sid)].state = "ended"], {}, {},
            Tail(inbox))
  /\ UNCHANGED <<grantSeq, chunks, delivered, closeCall, closed, faults>>

\* A frame for a session that has no partition any more.
DropFrame ==
  /\ \E type \in {"stop", "commit_response", "status", "end"} : Handles(Streaming, type)
  /\ PartitionOf(Event.sid) # None =>
       Event.type = "stop" /\ entries[PartitionOf(Event.sid)].state = "stopped"
  /\ Drop

\* toReady.  Session ids of the previous stream are dead; what is still pending waits for
\* its partition, for as long as the reassign timer lets it.
HandleInit_NoReassignGc ==
  /\ Handles({"connecting", "reconnecting"}, "init")
  /\ state' = "ready" /\ index' = NoIndex
  /\ timers' = timers \ ConnectTimers
  /\ srv' = ReadRequest(srv, MaxBuffer)
  /\ inbox' = Tail(inbox)
  /\ UNCHANGED <<entries, grantSeq, hooks, facadeVars, faults>>

HandleInit ==
  /\ Handles({"connecting", "reconnecting"}, "init")
  /\ state' = "ready" /\ index' = NoIndex
  /\ timers' = (timers \ ConnectTimers)
                 \cup {t \in {"partition_reassign_gc"} \X Partition : entries[t[2]].pending # {}}
  /\ srv' = ReadRequest(srv, MaxBuffer)
  /\ inbox' = Tail(inbox)
  /\ UNCHANGED <<entries, grantSeq, hooks, facadeVars, faults>>

\* toReconnecting
ToReconnecting ==
  /\ state' = "reconnecting" /\ index' = NoIndex
  /\ timers' = (timers \ ({Timer("start_timeout")}
                            \cup ({"partition_commit_status"} \X Partition)))
                 \cup {Timer("retry_backoff")}
                 \cup IF BoundedRecovery THEN {Timer("recovery_window")} ELSE {}
  /\ UNCHANGED <<entries, hooks, promise, srv>>

HandleDisconnected ==
  /\ Handles(State \ Terminal, "disconnected")
  /\ CASE state = "closing" -> Terminate("closed", {})
       [] state # "closing" /\ Event.fatal -> Terminate("errored", {})
       [] OTHER -> ToReconnecting /\ inbox' = Tail(inbox)
  /\ UNCHANGED <<grantSeq, chunks, delivered, closeCall, closed, faults>>

\* recordCommit: settled at once, or claimed and sent now, or claimed and sent when the
\* partition's next grant is answered.
HandleCommit ==
  LET e == Event
      p == e.partition
      old == entries[p]
      target == EndOf(e.ranges)
      wire == Unclaimed(old, e.ranges)
      owed == From(wire, Floor(old))
  IN
  /\ Handles({"connecting", "reconnecting", "ready"}, "commit")
  /\ inbox' = Tail(inbox)
  /\ CASE old.state # "absent" /\ target <= old.committed ->
            promise' = Settled({e.waiter}, {}) /\ UNCHANGED <<entries, srv>>
       [] \/ old.state = "absent"
          \/ target > old.committed /\ old.state = "stopped" ->
            promise' = Settled({}, {e.waiter}) /\ UNCHANGED <<entries, srv>>
       [] OTHER ->
            /\ entries' = [entries EXCEPT
                             ![p].pending = @ \cup {[waiter |-> e.waiter, target |-> target,
                                                     wire |-> wire]},
                             ![p].claimed = @ \cup wire]
            /\ srv' = IF Sendable(p) /\ owed # {} THEN Commits(srv, old.sid, owed) ELSE srv
            /\ promise' = [promise EXCEPT ![e.waiter].late = state = "ready" /\ ~Served(p)]
  /\ UNCHANGED <<state, index, grantSeq, timers, hooks, chunks, delivered, closeCall, closed,
                 faults>>

\* What a state does not handle.
Ignored ==
  /\ \/ \E type \in {"start", "stop", "commit_response", "status", "read", "end"} :
          Handles({"connecting", "reconnecting"}, type)
     \/ \E type \in {"init", "commit"} : Handles({"closing"}, type)
  /\ Drop

-----------------------------------------------------------------------------
(* Hooks and timers                                                        *)

\* onPartitionSessionStart returns, perhaps with an offset to commit.  ackPartitionStart:
\* the grant is answered and everything its partition still owes goes out behind the answer,
\* unless the grant was superseded while the hook ran.
StartHookReturns ==
  \E h \in hooks, commitOffset \in Override :
    LET p == h.partition
        old == entries[p]
        fresh == /\ state \in Streaming
                 /\ old.state = "active" /\ old.grant = h.grant /\ old.ackPending
                 /\ Routed(p)
        entry == [old EXCEPT !.ackPending = FALSE,
                             !.requested = IF commitOffset > old.committed
                                           THEN commitOffset ELSE @]
        sent == CommitsAll(StartResponse(srv, h.sid, commitOffset), old.sid, old.pending,
                           Floor(entry))
    IN
    /\ Quiet /\ h.type = "start"
    /\ hooks' = hooks \ {h}
    /\ IF fresh
       THEN /\ entries' = [entries EXCEPT ![p] = entry]
            /\ timers' = timers \ TimersOf({"partition_reassign_gc"}, p)
            /\ srv' = IF entry.requested # 0 THEN StatusRequest(sent, old.sid) ELSE sent
       ELSE UNCHANGED <<entries, timers, srv>>
    /\ UNCHANGED <<state, index, grantSeq, inbox, facadeVars, faults>>

\* onPartitionSessionStop returns.  ackPartitionStop: the stop is answered, now or when the
\* pending commits have drained.
StopHookReturns ==
  \E h \in hooks :
    LET p == h.partition
        old == entries[p]
        pinned == state \in Streaming /\ old.grant = h.grant /\ old.state = "stopping-graceful"
        drained == pinned /\ old.pending = {} /\ old.requested = 0
        done == [Here EXCEPT !.hooks = @ \ {h}]
        ready == [done EXCEPT !.entries[p].stopReady = TRUE]
    IN
    /\ Quiet /\ h.type = "stop"
    /\ Finish(CASE ~pinned -> done
                [] pinned /\ ~drained -> ready
                [] OTHER ->
                     [ready EXCEPT !.entries[p] = MarkedStopped(@),
                                   !.index = Unrouted(old.sid),
                                   !.timers = @ \ TimersOf({"partition_commit_status",
                                                            "partition_graceful_timeout"}, p),
                                   !.srv = Answer(@, p)],
              {}, {}, inbox)
    /\ IF drained THEN StopSession(old.grant) ELSE UNCHANGED <<chunks, delivered>>
    /\ UNCHANGED <<grantSeq, closeCall, closed, faults>>

Fires(timer) == timer \in timers /\ Quiet

StartTimeout ==
  /\ Fires(Timer("start_timeout")) /\ faults < MaxFaults
  /\ faults' = faults + 1
  /\ ToReconnecting
  /\ UNCHANGED <<grantSeq, inbox, chunks, delivered, closeCall, closed>>

\* The next attempt: the stream is opened afresh, whatever was left of the old one.
RetryBackoff ==
  /\ Fires(Timer("retry_backoff"))
  /\ state' = "connecting"
  /\ timers' = (timers \ {Timer("retry_backoff")}) \cup {Timer("start_timeout")}
  /\ srv' = Opened(srv) /\ inbox' = << >>
  /\ UNCHANGED <<entries, index, grantSeq, hooks, facadeVars, faults>>

RecoveryWindow ==
  /\ Fires(Timer("recovery_window"))
  /\ Terminate("errored", {})
  /\ UNCHANGED <<grantSeq, chunks, delivered, closeCall, closed, faults>>

GracefulTimeout ==
  /\ Fires(Timer("graceful_timeout"))
  /\ Terminate("closed", {})
  /\ UNCHANGED <<grantSeq, chunks, delivered, closeCall, closed, faults>>

\* forceStopStalledGraceful: the stop is answered although the hook or the commits have not
\* finished, if this stream asked for it.
PartitionGracefulTimeout(p) ==
  LET old == entries[p]
      stopping == old.state = "stopping-graceful"
      fired == [Here EXCEPT !.timers = @ \ TimersOf({"partition_graceful_timeout"}, p)]
      armed == IF old.pending = {} THEN {} ELSE TimersOf({"partition_reassign_gc"}, p)
      forced == [fired EXCEPT
                   !.entries[p] = MarkedStopped(@),
                   !.timers = (@ \ TimersOf({"partition_commit_status"}, p)) \cup armed,
                   !.index = IF Routed(p) THEN Unrouted(old.sid) ELSE @,
                   !.srv = Answer(@, p)]
  IN
  /\ Fires(<<"partition_graceful_timeout", p>>)
  /\ Finish(IF stopping THEN forced ELSE fired, {}, {}, inbox)
  /\ IF stopping THEN StopSession(old.grant) ELSE UNCHANGED <<chunks, delivered>>
  /\ UNCHANGED <<grantSeq, closeCall, closed, faults>>

\* gcPartition: a partition that did not come back, or whose grant was never answered.
PartitionReassignGc(p) ==
  LET old == entries[p]
      fired == [Here EXCEPT !.timers = @ \ TimersOf({"partition_reassign_gc"}, p)]
      served == Routed(p) /\ ~old.ackPending
      reaped == IF Routed(p) THEN [old EXCEPT !.pending = {}, !.claimed = {}] ELSE Absent
  IN
  /\ Fires(<<"partition_reassign_gc", p>>)
  /\ IF old.state = "absent" \/ served
     THEN Finish(fired, {}, {}, inbox)
     ELSE Finish([fired EXCEPT !.entries[p] = reaped], {}, Waiters(old.pending), inbox)
  /\ UNCHANGED <<grantSeq, chunks, delivered, closeCall, closed, faults>>

\* The committed offset a start hook asked for has no answer of its own: ask again.
PartitionCommitStatus(p) ==
  /\ Fires(<<"partition_commit_status", p>>) /\ state \in Streaming
  /\ timers' = timers \ TimersOf({"partition_commit_status"}, p)
  /\ srv' = IF entries[p].requested # 0 /\ Routed(p)
            THEN StatusRequest(srv, entries[p].sid) ELSE srv
  /\ UNCHANGED <<state, entries, index, grantSeq, hooks, inbox, facadeVars, faults>>

-----------------------------------------------------------------------------
(* The application and the public object                                   *)

\* read() passes a response on, or finds that all its messages were left out, and returns
\* its credit; releaseBytes sends it if a stream is ready.
Read ==
  /\ chunks # << >> /\ ~closed /\ Quiet
  /\ chunks' = Tail(chunks)
  /\ delivered' = delivered \cup Head(chunks)
  /\ srv' = IF state = "ready" THEN ReadRequest(srv, 1) ELSE srv
  /\ UNCHANGED <<machineVars, inbox, promise, closeCall, closed, faults>>

\* commit(): messages of one partition, none of them from a stopped session.
Commit(w) ==
  /\ closeCall = "no" /\ ~closed
  /\ promise[w].status = "none" /\ \A v \in 1 .. w - 1 : promise[v].status # "none"
  /\ \E p \in Partition : \E batch \in SUBSET {m \in delivered : m.partition = p} :
       LET ranges == UNION {m.from .. m.offset : m \in batch} IN
       /\ batch # {}
       /\ promise' = [promise EXCEPT ![w] = [partition |-> p, status |-> "pending",
                                             target |-> EndOf(ranges),
                                             late |-> FALSE]]
       /\ Post([type |-> "commit", partition |-> p, ranges |-> ranges, waiter |-> w])
  /\ UNCHANGED <<machineVars, srv, chunks, delivered, closeCall, closed, faults>>

\* close() and toClosing: at once when nothing is pending, within graceful_timeout otherwise.
Close ==
  /\ closeCall = "no" /\ ~closed /\ Quiet
  /\ closeCall' = "close"
  /\ CASE state \in Terminal -> UNCHANGED <<machineVars, inbox, srv, promise>>
       [] state \notin Terminal /\ HasPendingWork(entries) ->
            /\ state' = "closing"
            /\ timers' = (timers \ ConnectTimers) \cup {Timer("graceful_timeout")}
            /\ UNCHANGED <<entries, index, grantSeq, hooks, inbox, srv, promise>>
       [] OTHER -> Terminate("closed", {}) /\ UNCHANGED grantSeq
  /\ UNCHANGED <<chunks, delivered, closed, faults>>

Destroy ==
  /\ closeCall # "destroy" /\ ~closed /\ Quiet
  /\ closeCall' = "destroy"
  /\ IF state \in Terminal
     THEN UNCHANGED <<machineVars, inbox, srv, promise>>
     ELSE Terminate("closed", {}) /\ UNCHANGED grantSeq
  /\ UNCHANGED <<chunks, delivered, closed, faults>>

\* #markClosed, at the output reader.closed: the commits the machine never saw are rejected.
MarkClosed_LeavesWaiters ==
  /\ state \in Terminal /\ ~closed
  /\ closed' = TRUE
  /\ UNCHANGED <<machineVars, promise, inbox, srv, chunks, delivered, closeCall, faults>>

MarkClosed ==
  /\ state \in Terminal /\ ~closed
  /\ closed' = TRUE
  /\ promise' = Settled({}, Waiter)
  /\ UNCHANGED <<machineVars, inbox, srv, chunks, delivered, closeCall, faults>>

-----------------------------------------------------------------------------
Init ==
  /\ state = "connecting"
  /\ entries = [p \in Partition |-> Absent] /\ index = NoIndex /\ grantSeq = 0
  /\ timers = {Timer("start_timeout")} /\ inbox = << >> /\ hooks = {}
  /\ srv = [conn |-> "opened", next |-> 1, grants |-> 0, credit |-> 0,
            sess |-> [i \in Sid |-> NoSession], queried |-> {}, refused |-> {},
            committed |-> [p \in Partition |-> 0], accepted |-> [p \in Partition |-> {}]]
  /\ chunks = << >> /\ delivered = {}
  /\ promise = [w \in Waiter |-> [partition |-> CHOOSE p \in Partition : TRUE,
                                  target |-> 0, status |-> "none", late |-> FALSE]]
  /\ closeCall = "no" /\ closed = FALSE /\ faults = 0

Handle ==
  \/ HandleInit \/ HandleDisconnected
  \/ HandleStart \/ HandleForcedStop \/ HandleGracefulStop
  \/ HandleCommitResponse \/ HandleRead \/ HandleEnd \/ DropFrame
  \/ HandleCommit \/ Ignored

PartitionTimers(p) ==
  PartitionGracefulTimeout(p) \/ PartitionReassignGc(p) \/ PartitionCommitStatus(p)

Server ==
  \/ ServerInit \/ StreamBreaks
  \/ \E p \in Partition : ServerGrant(p) \/ ServerCommit(p)
  \/ \E sid \in Sid :
       \/ ServerData(sid) \/ ServerEnd(sid) \/ ServerStatus(sid)
       \/ \E graceful \in BOOLEAN : ServerStop(sid, graceful)

Next ==
  \/ Handle \/ Server
  \/ StartTimeout \/ RetryBackoff \/ RecoveryWindow \/ GracefulTimeout
  \/ \E p \in Partition : PartitionTimers(p)
  \/ StartHookReturns \/ StopHookReturns
  \/ Read \/ Close \/ Destroy \/ MarkClosed
  \/ \E w \in Waiter : Commit(w)

Spec == Init /\ [][Next]_vars

\* The event loop runs callbacks, armed timers fire, the server answers the init request.
\* Hooks may hang, and the server need not grant, feed or commit anything.
Fairness ==
  /\ WF_vars(Handle) /\ WF_vars(ServerInit) /\ WF_vars(MarkClosed)
  /\ WF_vars(RetryBackoff) /\ WF_vars(GracefulTimeout)
  /\ \A p \in Partition :
       WF_vars(PartitionGracefulTimeout(p)) /\ WF_vars(PartitionReassignGc(p))

FairSpec == Spec /\ Fairness

-----------------------------------------------------------------------------
(* Properties                                                              *)

\* The registry: an id of this stream leads to the partition that holds it, and the claimed
\* offsets are what the pending commits still have to put on the wire.
RegistryInv ==
  /\ \A sid \in Sid : index[sid] # None =>
       /\ entries[index[sid]].sid = sid
       /\ entries[index[sid]].state \in {"active", "stopping-graceful", "ended"}
  /\ \A p \in Partition :
       entries[p].claimed = From(AllWire(entries[p].pending), entries[p].committed)

\* Across commits, stops, reconnects and grants of the same partition, the server is never
\* sent an offset twice on one session, which would end the session.
NoRepeatedCommit == "repeated" \notin srv.refused

\* No commit goes out before its grant is answered, and only what this stream asked is
\* answered, once: session ids are reused.
AnswersDue == srv.refused \subseteq {"repeated"}

\* A session the server holds open leads to its partition: what arrives on it is not lost.
GrantsRouted ==
  state \in Streaming /\ srv.conn = "up" =>
    \A sid \in Sid :
      \/ ~Live(srv.sess[sid])
      \/ index[sid] = srv.sess[sid].partition
      \/ \E i \in 1 .. Len(inbox) : inbox[i].type = "start" /\ inbox[i].sid = sid

\* The ranges of the messages a session has delivered overlap nowhere and leave nothing
\* out: to acknowledge every message is to acknowledge every offset.
RangesTile ==
  \A m \in delivered :
    LET same == {n \in delivered : n.partition = m.partition /\ n.grant = m.grant} IN
    /\ \A o \in 0 .. m.offset :
         o < srv.committed[m.partition] \/ \E n \in same : o \in n.from .. n.offset
    /\ \A n \in same \ {m} : (n.from .. n.offset) \cap (m.from .. m.offset) = {}

\* The credit of a response is returned once it is read or filtered out, whatever became
\* of its session: no sequence of stops and reconnects starves the reader.
CreditKept ==
  state = "ready" /\ srv.conn = "up" =>
    srv.credit + Cardinality({i \in 1 .. Len(inbox) : inbox[i].type = "read"}) + Len(chunks)
      >= MaxBuffer

\* A commit resolves only when the server's committed offset has reached it, and is settled
\* once.
Promised == INSTANCE CommitPromise WITH
  Caller <- Waiter,
  committed <- srv.committed,
  target <- [w \in Waiter |-> [partition |-> promise[w].partition,
                               offset |-> promise[w].target]],
  outcome <- [w \in Waiter |-> promise[w].status]
CommitPromised == Promised!Spec

\* A commit does not hang on a partition this reader has lost: it is settled, or its
\* partition is served again.  Not so for a late one: recordCommit arms no timer.
CommitSettles ==
  \A w \in Waiter :
    []<>\/ promise[w].status # "pending" \/ promise[w].late
        \/ Served(promise[w].partition)

\* A soft stop is answered whatever hooks and commits do, as long as the stream lives.
StopAnswered ==
  \A sid \in Sid :
    LET open == srv.sess[sid].asked = "graceful" /\ ~srv.sess[sid].answered
    IN open ~> ~open

\* close() and destroy() settle, and every commit with them.
CloseSettles ==
  closeCall # "no" ~> closed /\ \A w \in Waiter : promise[w].status # "pending"
=============================================================================
