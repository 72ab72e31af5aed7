------------------------- MODULE TopicReaderProofs -------------------------
(* Proofs about TopicReader, for every number of partitions, grants,        *)
(* commits, faults and every limit: the reader implements CommitPromise,    *)
(* its registry is in order, the server has nothing to refuse and is owed   *)
(* no answer for long, and the credit is kept.                              *)
EXTENDS TopicReader, FiniteSetTheorems, SequenceTheorems, TLAPS

Refusal == {"unknown", "unstarted", "repeated", "stray start", "stray stop"}
SessionT ==
  [partition : Partition \cup {None}, started : BOOLEAN, asked : {"no", "graceful", "forced"},
   answered : BOOLEAN, wire : SUBSET Nat, pos : Nat]
ServerT ==
  [conn : {"none", "opened", "up"}, next : Nat, grants : Nat, credit : Nat,
   sess : [Sid -> SessionT], queried : SUBSET Sid, refused : SUBSET Refusal,
   committed : [Partition -> Nat], accepted : [Partition -> SUBSET Nat]]
PendingT == [waiter : Waiter, target : Nat, wire : SUBSET Nat]
EntryT ==
  [sid : Nat, grant : Nat, ackPending : BOOLEAN, committed : Nat, requested : Nat,
   watermark : Nat, claimed : SUBSET Nat,
   state : {"absent", "active", "stopping-graceful", "stopped", "ended"},
   stopReady : BOOLEAN, pending : SUBSET PendingT]
MessageT == [partition : Partition, grant : Nat, offset : Offset, from : Nat]
PromiseT == [partition : Partition, target : Nat, late : BOOLEAN,
             status : {"none", "pending", "resolved", "rejected"}]

EntriesT  == [Partition -> EntryT]
IndexT    == [Sid -> Partition \cup {None}]
PromisesT == [Waiter -> PromiseT]
HooksOk(hs) == \A h \in hs : h.partition \in Partition /\ (h.type = "start" => h.sid \in Sid)

\* The frames, and the commits among them.
StartT  == [type : {"start"}, sid : Sid, partition : Partition, committed : Nat]
CommitT == [type : {"commit"}, partition : Partition, ranges : SUBSET Offset, waiter : Waiter]
TellT   == [type : {"stop"}, sid : Sid, graceful : BOOLEAN, committed : Nat]
             \cup [type : {"commit_response", "status"}, sid : Sid, committed : Nat]
FrameT ==
  StartT \cup CommitT \cup TellT
    \cup [type : {"read"}, sid : Sid, offset : Offset]
    \cup [type : {"end"}, sid : Sid]
    \cup [type : {"disconnected"}, fatal : BOOLEAN]
    \cup [type : {"init"}]

Shape ==
  /\ state \in State
  /\ entries \in EntriesT
  /\ index \in IndexT
  /\ grantSeq \in Nat
  /\ inbox \in Seq(FrameT)
  /\ HooksOk(hooks)
  /\ srv \in ServerT
  /\ chunks \in Seq(SUBSET MessageT) /\ delivered \subseteq MessageT
  /\ promise \in PromisesT

\* No id leads anywhere before the stream is ready.
Idle(st, ix) == st \in Streaming \/ \A sid \in Sid : ix[sid] = None

\* What an entry knows of its partition the server has committed, and each commit it holds is
\* the one its caller made.
Book(e, p, com, pr) ==
  /\ e.committed <= com[p]
  /\ e.state # "absent" => e.sid \in Sid
  /\ \A q \in e.pending :
       /\ pr[q.waiter].status # "none"
       /\ pr[q.waiter].partition = p /\ pr[q.waiter].target = q.target
Books(es, com, pr) == \A p \in Partition : Book(es[p], p, com, pr)

\* An id leads to the partition whose entry has it.
Held == {"active", "stopping-graceful", "ended"}
Registered(es, ix) ==
  \A sid \in Sid : ix[sid] # None => es[ix[sid]].sid = sid /\ es[ix[sid]].state \in Held

\* The sessions of the stream that is open.
Granted(s) ==
  /\ 1 <= s.next /\ s.next <= s.grants + 1 /\ s.grants <= MaxGrants
  /\ \A sid \in Sid : s.sess[sid].partition # None => s.conn = "up" /\ sid < s.next
  /\ \A sid \in s.queried : s.sess[sid].partition # None

\* While the stream lives, the ids that lead somewhere and those of the frames under way are
\* of sessions it has granted, for the partition the reader takes them for.
Tells(f) == f.type \in {"stop", "commit_response", "status"}
Links(s, ix, frames) ==
  s.conn # "none" =>
    /\ \A sid \in Sid : ix[sid] # None => s.sess[sid].partition = ix[sid]
    /\ \A f \in frames :
         /\ f.type = "start" => s.sess[f.sid].partition = f.partition
         /\ Tells(f) => s.sess[f.sid].partition # None

\* The frames under way tell of offsets the server has committed of the partition their
\* session leads to once they are handled; a commit is the one its caller made.
Grants(f, com) == f.type = "start" => f.committed <= com[f.partition]
Made(f, pr) ==
  f.type = "commit" => /\ pr[f.waiter].status # "none"
                       /\ pr[f.waiter].partition = f.partition
                       /\ pr[f.waiter].target = EndOf(f.ranges)
Told(f, frames, ix, com) ==
  Tells(f) =>
    /\ ix[f.sid] # None => f.committed <= com[ix[f.sid]]
    /\ \A g \in frames : g.type = "start" /\ g.sid = f.sid => f.committed <= com[g.partition]
Frames(frames, ix, com, pr) ==
  \A f \in frames : Grants(f, com) /\ Made(f, pr) /\ Told(f, frames, ix, com)

Ties(es, s, ix, frames, pr) ==
  /\ Books(es, s.committed, pr)
  /\ Granted(s)
  /\ Links(s, ix, frames)
  /\ Frames(frames, ix, s.committed, pr)

\* The next attempt is not due while a stream is in use.
BackoffInv == Timer("retry_backoff") \in timers => state \notin Streaming

ReaderInv ==
  /\ Shape
  /\ BackoffInv
  /\ Registered(entries, index) /\ Idle(state, index)
  /\ Ties(entries, srv, index, Range(inbox), promise)

-----------------------------------------------------------------------------
(* Greatest and least elements                                              *)

\* A set of numbers up to k that is not empty has a greatest one: the smallest of the
\* intervals from one of them to k begins at it.
LEMMA GreatestIn ==
  ASSUME NEW k \in Nat, NEW S \in SUBSET (0 .. k), S # {}
  PROVE  Max(S) \in S /\ \A m \in S : m <= Max(S)
<1> DEFINE R == StrictSubsetOrdering(0 .. k)
           Tails == {n .. k : n \in S}
<1>1. IsFiniteSet(0 .. k)
  BY FS_Interval
<1>2. IsWellFoundedOn(R, SUBSET (0 .. k))
  BY <1>1, FS_StrictSubsetOrderingWellFounded, FS_FiniteSubsetsOfFinite
<1>3. Tails \subseteq SUBSET (0 .. k) /\ Tails # {}
  <2>1. PICK n \in S : TRUE
    OBVIOUS
  <2>2. n .. k \in Tails
    OBVIOUS
  <2>3. \A m \in S : m .. k \subseteq 0 .. k
    OBVIOUS
  <2> QED
    BY <2>2, <2>3
<1> HIDE DEF R
<1>4. PICK p \in Tails : \A q \in Tails : ~(<<q, p>> \in R)
  BY <1>2, <1>3, WFMin
<1>5. PICK n \in S : p = n .. k
  BY <1>4
<1>6. ASSUME NEW m \in S, m > n PROVE FALSE
  <2>1. m .. k \subseteq n .. k /\ n \in n .. k /\ n \notin m .. k
    BY <1>6
  <2>2. m .. k # n .. k /\ m .. k \in SUBSET (0 .. k) /\ n .. k \in SUBSET (0 .. k)
    BY <2>1
  <2>3. <<m .. k, n .. k>> \in R
    BY <2>1, <2>2 DEF R, StrictSubsetOrdering
  <2>4. m .. k \in Tails
    OBVIOUS
  <2> QED
    BY <1>4, <1>5, <2>3, <2>4
<1>7. \A m \in S : n >= m
  BY <1>6
<1>8. Max(S) \in S /\ \A m \in S : Max(S) >= m
  BY <1>7 DEF Max
<1> QED
  BY <1>8

\* It has a least one.
LEMMA LeastIn ==
  ASSUME NEW k \in Nat, NEW S \in SUBSET (0 .. k), S # {}
  PROVE  Min(S) \in S
<1> DEFINE T == {k - n : n \in S}
<1>1. T \in SUBSET (0 .. k) /\ T # {}
  <2>1. \A n \in S : k - n \in 0 .. k
    OBVIOUS
  <2>2. PICK n \in S : TRUE
    OBVIOUS
  <2>3. k - n \in T
    OBVIOUS
  <2> QED
    BY <2>1, <2>3
<1>2. Max(T) \in T /\ \A m \in T : m <= Max(T)
  BY <1>1, GreatestIn
<1>3. PICK n \in S : Max(T) = k - n
  BY <1>2
<1>4. \A m \in S : k - m <= k - n
  BY <1>2, <1>3
<1>5. \A m \in S : n =< m
  BY <1>4
<1> QED
  BY <1>5 DEF Min

\* The offset behind a commit's ranges.
LEMMA EndOfNat == ASSUME NEW offsets \in SUBSET Offset PROVE EndOf(offsets) \in Nat
<1> DEFINE S == {0} \cup {o + 1 : o \in offsets}
<1>1. S \in SUBSET (0 .. MaxOffset) /\ S # {} /\ MaxOffset \in Nat
  BY ReaderAssumption DEF Offset
<1>2. Max(S) \in S
  BY <1>1, GreatestIn
<1> QED
  BY <1>1, <1>2 DEF EndOf

-----------------------------------------------------------------------------
(* Frames under way                                                         *)

\* The kinds of frames.
LEMMA FrameKinds ==
  /\ \A f \in FrameT : f.type = "start" => f \in StartT
  /\ \A f \in FrameT : f.type = "commit" => f \in CommitT
  /\ \A f \in FrameT : Tells(f) => f \in TellT
  /\ \A f \in FrameT : f.type = "stop" => f.graceful \in BOOLEAN
  /\ \A f \in FrameT : f.type = "read" => f.sid \in Sid /\ f.offset \in Offset
  /\ \A f \in FrameT : f.type = "end" => f.sid \in Sid
BY DEF FrameT, StartT, CommitT, TellT, Tells

\* What is left under way when the head is taken.
LEMMA InboxTail ==
  ASSUME NEW box \in Seq(FrameT), box # << >>
  PROVE  /\ Head(box) \in FrameT /\ Head(box) \in Range(box)
         /\ Tail(box) \in Seq(FrameT) /\ Range(Tail(box)) \subseteq Range(box)
<1>1. /\ Head(box) \in FrameT /\ Tail(box) \in Seq(FrameT)
      /\ Len(box) \in Nat \ {0} /\ Len(Tail(box)) = Len(box) - 1
      /\ \A i \in 1 .. Len(Tail(box)) : Tail(box)[i] = box[i + 1]
      /\ DOMAIN box = 1 .. Len(box) /\ DOMAIN Tail(box) = 1 .. Len(Tail(box))
      /\ Head(box) = box[1]
  BY HeadTailProperties, EmptySeq, LenProperties
<1>2. \A i \in DOMAIN Tail(box) : i + 1 \in DOMAIN box /\ Tail(box)[i] = box[i + 1]
  BY <1>1
<1>3. 1 \in DOMAIN box
  BY <1>1
<1> QED
  BY <1>1, <1>2, <1>3 DEF Range

\* One frame more at the end.
LEMMA InboxAppend ==
  ASSUME NEW box \in Seq(FrameT), NEW f \in FrameT
  PROVE  /\ Append(box, f) \in Seq(FrameT)
         /\ Range(Append(box, f)) \subseteq Range(box) \cup {f}
<1>1. /\ Append(box, f) \in Seq(FrameT) /\ Len(box) \in Nat
      /\ Len(Append(box, f)) = Len(box) + 1
      /\ \A i \in 1 .. Len(box) : Append(box, f)[i] = box[i]
      /\ Append(box, f)[Len(box) + 1] = f
      /\ DOMAIN box = 1 .. Len(box) /\ DOMAIN Append(box, f) = 1 .. Len(Append(box, f))
  BY LenProperties
<1>2. \A i \in DOMAIN Append(box, f) :
        \/ i \in DOMAIN box /\ Append(box, f)[i] = box[i]
        \/ Append(box, f)[i] = f
  BY <1>1
<1> QED
  BY <1>1, <1>2 DEF Range

\* A prefix.
LEMMA InboxPrefix ==
  ASSUME NEW box \in Seq(FrameT), NEW n \in 0 .. Len(box)
  PROVE  /\ SubSeq(box, 1, n) \in Seq(FrameT)
         /\ Range(SubSeq(box, 1, n)) \subseteq Range(box)
<1> DEFINE cut == SubSeq(box, 1, n)
<1>1. Len(box) \in Nat /\ DOMAIN box = 1 .. Len(box)
  BY LenProperties
<1>2. \A i \in 1 .. n : box[i] \in FrameT
  BY <1>1, ElementOfSeq
<1>3. /\ cut \in Seq(FrameT) /\ Len(cut) = IF 1 <= n THEN n - 1 + 1 ELSE 0
      /\ \A i \in 1 .. n - 1 + 1 : cut[i] = box[1 + i - 1]
  BY <1>1, <1>2, SubSeqProperties
<1> HIDE DEF cut
<1>4. DOMAIN cut = 1 .. n
  BY <1>1, <1>3, LenProperties
<1>5. \A i \in DOMAIN cut : i \in DOMAIN box /\ cut[i] = box[i]
  BY <1>1, <1>3, <1>4
<1>6. Range(cut) \subseteq Range(box)
  BY <1>5 DEF Range
<1> QED
  BY <1>3, <1>6 DEF cut

\* A frame among them.
LEMMA InboxInsert ==
  ASSUME NEW box \in Seq(FrameT), NEW f \in FrameT, NEW n \in 0 .. Len(box)
  PROVE  /\ InsertAt(box, n + 1, f) \in Seq(FrameT)
         /\ Range(InsertAt(box, n + 1, f)) \subseteq Range(box) \cup {f}
<1> DEFINE a == SubSeq(box, 1, n)
           b == SubSeq(box, n + 1, Len(box))
           c == a \o <<f>>
<1>1. Len(box) \in Nat /\ DOMAIN box = 1 .. Len(box) /\ (n + 1) - 1 = n
  BY LenProperties
<1>2. a \in Seq(FrameT) /\ Range(a) \subseteq Range(box)
  BY InboxPrefix
<1>3. \A i \in n + 1 .. Len(box) : box[i] \in FrameT
  BY <1>1, ElementOfSeq
<1>4. /\ b \in Seq(FrameT)
      /\ Len(b) = IF n + 1 <= Len(box) THEN Len(box) - (n + 1) + 1 ELSE 0
      /\ \A i \in 1 .. Len(box) - (n + 1) + 1 : b[i] = box[n + 1 + i - 1]
  BY <1>1, <1>3, SubSeqProperties
<1>5. InsertAt(box, n + 1, f) = c \o b
  BY <1>1 DEF InsertAt
<1> HIDE DEF a, b
<1>6. c = Append(a, f) /\ c \in Seq(FrameT) /\ Range(c) \subseteq Range(a) \cup {f}
  <2>1. c = Append(a, f)
    BY <1>2
  <2> QED
    BY <1>2, <2>1, InboxAppend, ZenonT(40)
<1>7. \A i \in DOMAIN b : n + i \in DOMAIN box /\ b[i] = box[n + i]
  <2>1. DOMAIN b = 1 .. Len(b)
    BY <1>4, LenProperties
  <2>2. ASSUME NEW i \in DOMAIN b PROVE n + i \in DOMAIN box /\ b[i] = box[n + i]
    <3>8. \A l \in Nat, m \in Nat : m <= l =>
            /\ (IF m + 1 <= l THEN l - (m + 1) + 1 ELSE 0) = l - m
            /\ l - (m + 1) + 1 = l - m
      OBVIOUS
    <3>9. Len(b) = Len(box) - n /\ Len(box) - (n + 1) + 1 = Len(box) - n
      <4>1. Len(b) = IF n + 1 <= Len(box) THEN Len(box) - (n + 1) + 1 ELSE 0
        BY <1>4
      <4>2. n \in Nat /\ n <= Len(box)
        BY <1>1
      <4> QED
        BY <1>1, <3>8, <4>1, <4>2
    <3>1. i \in 1 .. Len(box) - (n + 1) + 1 /\ n + 1 + i - 1 = n + i /\ n + i \in 1 .. Len(box)
      BY <1>1, <2>1, <3>9
    <3>2. b[i] = box[n + 1 + i - 1]
      BY <1>4, <3>1
    <3> QED
      BY <1>1, <3>1, <3>2
  <2> QED
    BY <2>2
<1> HIDE DEF c
<1>8. /\ c \o b \in Seq(FrameT)
      /\ DOMAIN (c \o b) = 1 .. Len(c) + Len(b)
      /\ Len(c) \in Nat /\ Len(b) \in Nat
      /\ DOMAIN c = 1 .. Len(c) /\ DOMAIN b = 1 .. Len(b)
      /\ \A i \in 1 .. Len(c) + Len(b) :
           (c \o b)[i] = IF i <= Len(c) THEN c[i] ELSE b[i - Len(c)]
  <2>1. /\ c \o b \in Seq(FrameT) /\ Len(c \o b) = Len(c) + Len(b)
        /\ \A i \in 1 .. Len(c) + Len(b) :
             (c \o b)[i] = IF i <= Len(c) THEN c[i] ELSE b[i - Len(c)]
    BY <1>4, <1>6, ConcatProperties
  <2>2. Len(c) \in Nat /\ DOMAIN c = 1 .. Len(c)
    BY <1>6, LenProperties
  <2>3. Len(b) \in Nat /\ DOMAIN b = 1 .. Len(b)
    BY <1>4, LenProperties
  <2>4. DOMAIN (c \o b) = 1 .. Len(c \o b)
    BY <2>1, LenProperties
  <2> QED
    BY <2>1, <2>2, <2>3, <2>4
<1>9. \A i \in DOMAIN (c \o b) :
        \/ i \in DOMAIN c /\ (c \o b)[i] = c[i]
        \/ i - Len(c) \in DOMAIN b /\ (c \o b)[i] = b[i - Len(c)]
  BY <1>8
<1>10. Range(b) \subseteq Range(box)
  BY <1>7 DEF Range
<1>11. Range(c \o b) \subseteq Range(c) \cup Range(b)
  BY <1>9 DEF Range
<1> QED
  BY <1>2, <1>5, <1>6, <1>8, <1>10, <1>11

\* The frames under way are frames.
LEMMA InboxRange == ASSUME NEW box \in Seq(FrameT) PROVE Range(box) \in SUBSET FrameT
<1>1. DOMAIN box = 1 .. Len(box) /\ \A i \in 1 .. Len(box) : box[i] \in FrameT
  BY LenProperties, ElementOfSeq
<1> QED
  BY <1>1 DEF Range

\* No frames at all.
LEMMA InboxEmpty == << >> \in Seq(FrameT) /\ Range(<< >>) = {}
<1>1. Len(<< >>) = 0 /\ << >> \in Seq(FrameT)
  BY EmptySeq
<1>2. DOMAIN << >> = 1 .. 0
  BY <1>1, LenProperties
<1> QED
  BY <1>1, <1>2 DEF Range

\* The last commit under way.
LEMMA LastCommitIn == ASSUME inbox \in Seq(FrameT) PROVE LastCommit \in 0 .. Len(inbox)
<1> DEFINE S == {0} \cup {i \in 1 .. Len(inbox) : IsCommit(inbox[i])}
<1>1. Len(inbox) \in Nat
  BY LenProperties
<1>2. S \in SUBSET (0 .. Len(inbox)) /\ S # {}
  BY <1>1
<1>3. Max(S) \in S
  BY <1>1, <1>2, GreatestIn
<1> QED
  BY <1>2, <1>3 DEF LastCommit

-----------------------------------------------------------------------------
(* What the client sends                                                    *)

\* t is s but for what it notes of requests.
Same(s, t) ==
  /\ t \in ServerT
  /\ t.conn = s.conn /\ t.next = s.next /\ t.grants = s.grants /\ t.committed = s.committed
  /\ \A sid \in Sid : t.sess[sid].partition = s.sess[sid].partition
  /\ \A sid \in t.queried : sid \in s.queried \/ s.sess[sid].partition # None

\* Requests keep what the server has granted, and what leads there.
LEMMA SameKeeps ==
  ASSUME NEW s, NEW t, NEW ix, NEW frames, Same(s, t), Granted(s), Links(s, ix, frames),
         frames \subseteq FrameT
  PROVE  Granted(t) /\ Links(t, ix, frames)
<1>1. Granted(t)
  BY DEF Same, Granted, ServerT
<1>2. \A f \in frames : (f.type = "start" \/ Tells(f)) => f.sid \in Sid
  BY FrameKinds DEF StartT, TellT
<1>3. Links(t, ix, frames)
  BY <1>2 DEF Same, Links
<1> QED
  BY <1>1, <1>3

\* One request after another.
LEMMA SameTrans ==
  ASSUME NEW s, NEW t, NEW u, Same(s, t), Same(t, u)
  PROVE  Same(s, u)
BY DEF Same, ServerT

LEMMA SameSelf == ASSUME NEW s \in ServerT PROVE Same(s, s)
BY DEF Same, ServerT

LEMMA RefuseSame ==
  ASSUME NEW s \in ServerT
  PROVE  /\ Same(s, Refuse(s, "unknown")) /\ Same(s, Refuse(s, "unstarted"))
         /\ Same(s, Refuse(s, "repeated"))
         /\ Same(s, Refuse(s, "stray start")) /\ Same(s, Refuse(s, "stray stop"))
<1>1. \A why \in Refusal : Same(s, Refuse(s, why))
  BY DEF Same, ServerT, Refuse
<1> QED
  BY <1>1 DEF Refusal
\* The fields of the server, and of a session.
LEMMA ServerFields ==
  ASSUME NEW s \in ServerT
  PROVE  /\ s.conn \in {"none", "opened", "up"} /\ s.next \in Nat /\ s.grants \in Nat
         /\ s.credit \in Nat /\ s.sess \in [Sid -> SessionT] /\ s.queried \subseteq Sid
         /\ s.committed \in [Partition -> Nat] /\ s.accepted \in [Partition -> SUBSET Nat]
         /\ \A sid \in Sid :
              /\ s.sess[sid].partition \in Partition \cup {None}
              /\ s.sess[sid].wire \subseteq Nat /\ s.sess[sid].pos \in Nat
BY DEF ServerT, SessionT

LEMMA CommitsSame ==
  ASSUME NEW s \in ServerT, NEW sid \in Sid, NEW offsets \in SUBSET Nat
  PROVE  Same(s, Commits(s, sid, offsets))
<1> DEFINE t == [s EXCEPT !.sess[sid].wire = @ \cup offsets,
                          !.accepted[s.sess[sid].partition] = @ \cup offsets]
<1>1. ASSUME s.sess[sid].partition # None PROVE Same(s, t)
  <2>1. s.sess[sid].partition \in Partition
    BY <1>1, ServerFields
  <2>2. /\ t.sess = [s.sess EXCEPT ![sid].wire = @ \cup offsets]
        /\ t.accepted = [s.accepted EXCEPT ![s.sess[sid].partition] = @ \cup offsets]
    BY DEF ServerT
  <2>3. /\ t.sess \in [Sid -> SessionT]
        /\ \A i \in Sid : t.sess[i].partition = s.sess[i].partition
    BY <2>2, ServerFields DEF SessionT
  <2>4. t.accepted \in [Partition -> SUBSET Nat]
    BY <2>1, <2>2, ServerFields
  <2> QED
    BY <2>3, <2>4 DEF Same, ServerT
<1>2. CASE s.conn # "up"
  BY <1>2, SameSelf DEF Commits
<1>3. CASE s.conn = "up" /\ s.sess[sid].partition = None
  BY <1>3, RefuseSame DEF Commits
<1>4. CASE s.conn = "up" /\ s.sess[sid].partition # None /\ ~Live(s.sess[sid])
  BY <1>4, SameSelf DEF Commits
<1>5. CASE /\ s.conn = "up" /\ s.sess[sid].partition # None /\ Live(s.sess[sid])
           /\ ~s.sess[sid].started
  BY <1>5, RefuseSame DEF Commits
<1>6. CASE /\ s.conn = "up" /\ s.sess[sid].partition # None /\ Live(s.sess[sid])
           /\ s.sess[sid].started /\ s.sess[sid].wire \cap offsets # {}
  BY <1>6, RefuseSame DEF Commits
<1>7. CASE /\ s.conn = "up" /\ s.sess[sid].partition # None /\ Live(s.sess[sid])
           /\ s.sess[sid].started /\ s.sess[sid].wire \cap offsets = {}
  <2>1. Commits(s, sid, offsets) = t
    BY <1>7 DEF Commits
  <2> QED
    BY <1>1, <1>7, <2>1
<1> QED
  BY <1>2, <1>3, <1>4, <1>5, <1>6, <1>7

LEMMA CommitsAllSame ==
  ASSUME NEW s \in ServerT, NEW sid \in Sid, NEW pendings \in SUBSET PendingT, NEW floor
  PROVE  Same(s, CommitsAll(s, sid, pendings, floor))
<1> DEFINE owed == From(UNION {q.wire : q \in pendings}, floor)
<1>1. owed \in SUBSET Nat
  BY DEF From, PendingT
<1>2. CASE CommitsAll(s, sid, pendings, floor) = s
  BY <1>2, SameSelf
<1>3. CASE CommitsAll(s, sid, pendings, floor) = Refuse(s, "repeated")
  BY <1>3, RefuseSame
<1>4. CASE CommitsAll(s, sid, pendings, floor) = Commits(s, sid, owed)
  BY <1>1, <1>4, CommitsSame
<1> QED
  BY <1>2, <1>3, <1>4 DEF CommitsAll

LEMMA StartResponseSame ==
  ASSUME NEW s \in ServerT, NEW sid \in Sid, NEW commitOffset \in Nat
  PROVE  Same(s, StartResponse(s, sid, commitOffset))
<1> DEFINE new == [s.sess[sid] EXCEPT !.started = TRUE, !.wire = @ \cup Below(commitOffset),
                                      !.pos = Highest(@, commitOffset)]
           t == [s EXCEPT !.sess[sid] = new,
                          !.accepted[s.sess[sid].partition] = @ \cup Below(commitOffset)]
<1>1. ASSUME s.sess[sid].partition # None PROVE Same(s, t)
  <2>1. s.sess[sid].partition \in Partition /\ s.sess[sid] \in SessionT
    BY <1>1, ServerFields
  <2>2. Below(commitOffset) \in SUBSET Nat /\ Highest(s.sess[sid].pos, commitOffset) \in Nat
    BY ServerFields DEF Below, Highest
  <2>3. new \in SessionT /\ new.partition = s.sess[sid].partition
    BY <2>1, <2>2 DEF SessionT
  <2> HIDE DEF new
  <2>4. /\ t.sess = [s.sess EXCEPT ![sid] = new]
        /\ t.accepted = [s.accepted EXCEPT ![s.sess[sid].partition] = @ \cup Below(commitOffset)]
    BY DEF ServerT
  <2>5. /\ t.sess \in [Sid -> SessionT]
        /\ \A i \in Sid : t.sess[i].partition = s.sess[i].partition
    BY <2>3, <2>4, ServerFields
  <2>6. t.accepted \in [Partition -> SUBSET Nat]
    BY <2>1, <2>2, <2>4, ServerFields
  <2> QED
    BY <2>5, <2>6 DEF Same, ServerT
<1>2. CASE s.conn # "up"
  BY <1>2, SameSelf DEF StartResponse
<1>3. CASE s.conn = "up" /\ (s.sess[sid].partition = None \/ s.sess[sid].started)
  BY <1>3, RefuseSame DEF StartResponse
<1>4. CASE /\ s.conn = "up" /\ s.sess[sid].partition # None /\ ~s.sess[sid].started
           /\ ~Live(s.sess[sid])
  BY <1>4, SameSelf DEF StartResponse
<1>5. CASE /\ s.conn = "up" /\ s.sess[sid].partition # None /\ ~s.sess[sid].started
           /\ Live(s.sess[sid])
  <2>1. StartResponse(s, sid, commitOffset) = t
    BY <1>5 DEF StartResponse
  <2> QED
    BY <1>1, <1>5, <2>1
<1> QED
  BY <1>2, <1>3, <1>4, <1>5

LEMMA StopResponseSame ==
  ASSUME NEW s \in ServerT, NEW sid \in Sid
  PROVE  Same(s, StopResponse(s, sid))
<1> DEFINE new == [s.sess[sid] EXCEPT !.answered = TRUE, !.wire = {}, !.pos = 0]
           t == [s EXCEPT !.sess[sid] = new]
<1>1. Same(s, t)
  <2>1. s.sess[sid] \in SessionT
    BY ServerFields
  <2>2. new \in SessionT /\ new.partition = s.sess[sid].partition
    BY <2>1 DEF SessionT
  <2> HIDE DEF new
  <2> QED
    BY <2>2 DEF Same, ServerT
<1>2. CASE s.conn # "up"
  BY <1>2, SameSelf DEF StopResponse
<1>3. CASE s.conn = "up" /\ (s.sess[sid].asked = "no" \/ s.sess[sid].answered)
  BY <1>3, RefuseSame DEF StopResponse
<1>4. CASE s.conn = "up" /\ s.sess[sid].asked # "no" /\ ~s.sess[sid].answered
  <2>1. StopResponse(s, sid) = t
    BY <1>4 DEF StopResponse
  <2> QED
    BY <1>1, <2>1
<1> QED
  BY <1>2, <1>3, <1>4

LEMMA ReadRequestSame ==
  ASSUME NEW s \in ServerT, NEW n \in Nat PROVE Same(s, ReadRequest(s, n))
BY DEF Same, ServerT, ReadRequest

LEMMA StatusRequestSame ==
  ASSUME NEW s \in ServerT, NEW sid \in Sid, s.conn # "none" => s.sess[sid].partition # None
  PROVE  Same(s, StatusRequest(s, sid))
BY DEF Same, ServerT, StatusRequest

\* A stream that is gone, and a fresh one.
LEMMA BrokenKeeps ==
  ASSUME NEW s \in ServerT, Granted(s)
  PROVE  /\ \A t \in {Broken(s), Opened(s)} :
              t \in ServerT /\ Granted(t) /\ t.committed = s.committed
         /\ Broken(s).conn = "none"
         /\ \A ix, frames : Links(Broken(s), ix, frames)
<1>1. NoSession \in SessionT /\ NoSession.partition = None
  BY DEF NoSession, SessionT
<1> HIDE DEF NoSession
<1>2. /\ Broken(s) \in ServerT /\ Broken(s).committed = s.committed
      /\ Broken(s).conn = "none" /\ Broken(s).queried = {}
      /\ Broken(s).next = s.next /\ Broken(s).grants = s.grants
      /\ Broken(s).sess = [i \in Sid |-> NoSession]
  BY <1>1 DEF Broken, ServerT
<1>3. /\ Opened(s) \in ServerT /\ Opened(s).committed = s.committed
      /\ Opened(s).queried = {} /\ Opened(s).grants = s.grants
      /\ Opened(s).next \in {1, s.next}
      /\ Opened(s).sess = [i \in Sid |-> NoSession]
  BY <1>1, <1>2 DEF Opened, ServerT
<1>4. Granted(Broken(s))
  BY <1>1, <1>2 DEF Granted
<1>5. s.grants \in Nat
  BY ServerFields
<1>6. Granted(Opened(s))
  BY <1>1, <1>3, <1>5 DEF Granted
<1> QED
  BY <1>2, <1>3, <1>4, <1>6 DEF Links

-----------------------------------------------------------------------------
(* What ties the reader to the server                                       *)

\* What a commit is about, and whether it was made.
Kept(pr, qr) ==
  \A w \in Waiter : /\ qr[w].partition = pr[w].partition /\ qr[w].target = pr[w].target
                    /\ qr[w].status # "none" <=> pr[w].status # "none"

\* Each session leads where it did, or nowhere.
Narrower(ix, jx) == \A sid \in Sid : jx[sid] = None \/ jx[sid] = ix[sid]

LEMMA KeptSelf == ASSUME NEW pr PROVE Kept(pr, pr)
BY DEF Kept

\* The fields of a frame.
LEMMA FrameFields ==
  ASSUME NEW f \in FrameT
  PROVE  /\ f.type = "start" => f.sid \in Sid /\ f.partition \in Partition /\ f.committed \in Nat
         /\ f.type = "commit" => /\ f.partition \in Partition /\ f.waiter \in Waiter
                                 /\ f.ranges \in SUBSET Offset
         /\ Tells(f) => f.sid \in Sid /\ f.committed \in Nat
BY FrameKinds DEF StartT, CommitT, TellT

\* The commits an entry holds.
LEMMA PendingFields ==
  ASSUME NEW es \in EntriesT, NEW p \in Partition
  PROVE  /\ es[p] \in EntryT /\ es[p].committed \in Nat
         /\ \A q \in es[p].pending : q \in PendingT /\ q.waiter \in Waiter /\ q.target \in Nat
BY DEF EntriesT, EntryT, PendingT

\* The entries' part lives on when the server has committed more.
LEMMA BooksKept ==
  ASSUME NEW es \in EntriesT, NEW com \in [Partition -> Nat], NEW more \in [Partition -> Nat],
         NEW pr, NEW qr, Books(es, com, pr), Kept(pr, qr),
         \A p \in Partition : com[p] <= more[p]
  PROVE  Books(es, more, qr)
<1> SUFFICES ASSUME NEW p \in Partition
    PROVE  /\ es[p].committed <= more[p]
           /\ es[p].state # "absent" => es[p].sid \in Sid
           /\ \A q \in es[p].pending :
                /\ qr[q.waiter].status # "none"
                /\ qr[q.waiter].partition = p /\ qr[q.waiter].target = q.target
  BY DEF Books, Book
<1>1. es[p].committed \in Nat /\ com[p] \in Nat /\ more[p] \in Nat
  BY PendingFields
<1>2. es[p].committed <= com[p]
  BY DEF Books, Book
<1>3. es[p].committed <= more[p]
  BY <1>1, <1>2
<1>4. ASSUME NEW q \in es[p].pending
      PROVE  /\ qr[q.waiter].status # "none"
             /\ qr[q.waiter].partition = p /\ qr[q.waiter].target = q.target
  <2>1. q.waiter \in Waiter
    BY PendingFields
  <2> QED
    BY <2>1 DEF Books, Book, Kept
<1> QED
  BY <1>3, <1>4 DEF Books, Book

\* So does that of the frames, of which some may be gone.
LEMMA FramesKept ==
  ASSUME NEW frames \in SUBSET FrameT, NEW fewer \in SUBSET frames,
         NEW ix \in IndexT, NEW jx \in IndexT, Narrower(ix, jx),
         NEW com \in [Partition -> Nat], NEW more \in [Partition -> Nat],
         \A p \in Partition : com[p] <= more[p],
         NEW pr, NEW qr, Kept(pr, qr), Frames(frames, ix, com, pr)
  PROVE  Frames(fewer, jx, more, qr)
<1> SUFFICES ASSUME NEW f \in fewer
             PROVE  Grants(f, more) /\ Made(f, qr) /\ Told(f, fewer, jx, more)
  BY DEF Frames
<1>1. f \in FrameT /\ f \in frames
  OBVIOUS
<1>2. Grants(f, com) /\ Made(f, pr) /\ Told(f, frames, ix, com)
  BY <1>1 DEF Frames
<1>3. \A c \in Nat, p \in Partition : c <= com[p] => c <= more[p]
  <2> SUFFICES ASSUME NEW c \in Nat, NEW p \in Partition, c <= com[p] PROVE c <= more[p]
    OBVIOUS
  <2>1. com[p] \in Nat /\ more[p] \in Nat /\ com[p] <= more[p]
    OBVIOUS
  <2> QED
    BY <2>1
<1>4. Grants(f, more)
  BY <1>1, <1>2, <1>3, FrameFields DEF Grants
<1>5. Made(f, qr)
  BY <1>1, <1>2, FrameFields DEF Made, Kept
<1>6. ASSUME Tells(f)
      PROVE  /\ jx[f.sid] # None => f.committed <= more[jx[f.sid]]
             /\ \A g \in fewer : g.type = "start" /\ g.sid = f.sid =>
                  f.committed <= more[g.partition]
  <2>1. f.sid \in Sid /\ f.committed \in Nat
    BY <1>1, <1>6, FrameFields
  <2>2. ASSUME jx[f.sid] # None PROVE f.committed <= more[jx[f.sid]]
    <3>1. jx[f.sid] = ix[f.sid] /\ ix[f.sid] \in Partition
      BY <2>1, <2>2 DEF Narrower, IndexT
    <3>2. f.committed <= com[ix[f.sid]]
      BY <1>2, <1>6, <2>2, <3>1 DEF Told
    <3> QED
      BY <1>3, <2>1, <3>1, <3>2
  <2>3. ASSUME NEW g \in fewer, g.type = "start", g.sid = f.sid
        PROVE  f.committed <= more[g.partition]
    <3>1. g \in frames /\ g \in FrameT
      OBVIOUS
    <3>2. g.partition \in Partition
      BY <2>3, <3>1, FrameFields
    <3>3. f.committed <= com[g.partition]
      BY <1>2, <1>6, <2>3, <3>1 DEF Told
    <3> QED
      BY <1>3, <2>1, <3>2, <3>3
  <2> QED
    BY <2>2, <2>3
<1>7. Told(f, fewer, jx, more)
  BY <1>6 DEF Told
<1> QED
  BY <1>4, <1>5, <1>7

\* And what leads to the sessions.
LEMMA LinksKept ==
  ASSUME NEW s, NEW frames \in SUBSET FrameT, NEW fewer \in SUBSET frames,
         NEW ix, NEW jx, Narrower(ix, jx), Links(s, ix, frames)
  PROVE  Links(s, jx, fewer)
BY DEF Links, Narrower

\* All of it, when the server only notes requests.
LEMMA TiesKept ==
  ASSUME NEW es \in EntriesT, NEW fs \in EntriesT, NEW s \in ServerT, NEW t, Same(s, t),
         NEW frames \in SUBSET FrameT, NEW fewer \in SUBSET frames,
         NEW ix \in IndexT, NEW jx \in IndexT, Narrower(ix, jx),
         NEW pr, NEW qr, Kept(pr, qr),
         Ties(es, s, ix, frames, pr), Books(fs, s.committed, pr)
  PROVE  Ties(fs, t, jx, fewer, qr)
<1>1. Granted(t) /\ Links(t, ix, frames)
  BY SameKeeps DEF Ties
<1>2. Links(t, jx, fewer)
  BY <1>1, LinksKept
<1>3. s.committed \in [Partition -> Nat] /\ t.committed = s.committed
  BY ServerFields DEF Same
<1>4. \A p \in Partition : s.committed[p] <= s.committed[p]
  BY <1>3
<1>5. Books(fs, t.committed, qr)
  BY <1>3, <1>4, BooksKept
<1>6. Frames(fewer, jx, t.committed, qr)
  BY <1>3, <1>4, FramesKept DEF Ties
<1> QED
  BY <1>1, <1>2, <1>5, <1>6 DEF Ties

LEMMA NarrowerSelf == ASSUME NEW ix PROVE Narrower(ix, ix)
BY DEF Narrower

\* Nothing leads to a stream that is gone.
LEMMA TiesBroken ==
  ASSUME NEW es \in EntriesT, NEW fs \in EntriesT, NEW s \in ServerT,
         NEW frames \in SUBSET FrameT, NEW fewer \in SUBSET frames,
         NEW ix \in IndexT, NEW jx \in IndexT, Narrower(ix, jx),
         NEW pr, NEW qr, Kept(pr, qr),
         Ties(es, s, ix, frames, pr), Books(fs, s.committed, pr)
  PROVE  Ties(fs, Broken(s), jx, fewer, qr)
<1>1. Granted(Broken(s)) /\ Broken(s).committed = s.committed /\ Links(Broken(s), jx, fewer)
  BY BrokenKeeps DEF Ties
<1>2. s.committed \in [Partition -> Nat]
  BY ServerFields
<1>3. \A p \in Partition : s.committed[p] <= s.committed[p]
  BY <1>2
<1>4. Books(fs, s.committed, qr)
  BY <1>2, <1>3, BooksKept
<1>5. Frames(fewer, jx, s.committed, qr)
  BY <1>2, <1>3, FramesKept DEF Ties
<1> QED
  BY <1>1, <1>4, <1>5 DEF Ties

\* An empty book.
LEMMA AbsentBooks ==
  ASSUME NEW com \in [Partition -> Nat], NEW pr
  PROVE  /\ [p \in Partition |-> Absent] \in EntriesT
         /\ Books([p \in Partition |-> Absent], com, pr)
<1>1. /\ Absent \in EntryT /\ Absent.committed = 0 /\ Absent.state = "absent"
      /\ Absent.pending = {}
  BY DEF Absent, EntryT
<1> HIDE DEF Absent
<1> QED
  BY <1>1 DEF EntriesT, Books, Book

LEMMA NoIndexOk ==
  /\ NoIndex \in IndexT /\ \A ix : Narrower(ix, NoIndex)
  /\ \A es : Registered(es, NoIndex)
  /\ \A st : Idle(st, NoIndex)
BY DEF NoIndex, IndexT, Narrower, Registered, Idle

-----------------------------------------------------------------------------
(* Commits settle                                                           *)

\* Each of the commits in resolved has been reached if it is still open.
Reached(resolved, pr, com) ==
  \A w \in resolved : w \in Waiter /\ pr[w].status = "pending" =>
    pr[w].target <= com[pr[w].partition]

\* Each commit stays as it is, or it is settled.
Settles(resolved, pr, qr) ==
  \A w \in Waiter :
    \/ qr[w].status = pr[w].status
    \/ w \in resolved /\ pr[w].status = "pending" /\ qr[w].status = "resolved"
    \/ pr[w].status = "pending" /\ qr[w].status = "rejected"

LEMMA SettledKeeps ==
  ASSUME promise \in PromisesT, NEW resolved, NEW rejected
  PROVE  /\ Settled(resolved, rejected) \in PromisesT
         /\ Kept(promise, Settled(resolved, rejected))
         /\ Settles(resolved, promise, Settled(resolved, rejected))
<1> DEFINE S == Settled(resolved, rejected)
<1>1. ASSUME NEW w \in Waiter
      PROVE  /\ S[w] \in PromiseT
             /\ S[w].partition = promise[w].partition /\ S[w].target = promise[w].target
             /\ \/ S[w] = promise[w]
                \/ w \in resolved /\ promise[w].status = "pending" /\ S[w].status = "resolved"
                \/ promise[w].status = "pending" /\ S[w].status = "rejected"
  <2>1. promise[w] \in PromiseT
    BY DEF PromisesT
  <2>2. CASE w \in resolved /\ promise[w].status = "pending"
    <3>1. S[w] = [promise[w] EXCEPT !.status = "resolved"]
      BY <2>2 DEF Settled
    <3> QED
      BY <2>1, <2>2, <3>1 DEF PromiseT
  <2>3. CASE w \in rejected \ resolved /\ promise[w].status = "pending"
    <3>1. S[w] = [promise[w] EXCEPT !.status = "rejected"]
      BY <2>3 DEF Settled
    <3> QED
      BY <2>1, <2>3, <3>1 DEF PromiseT
  <2>4. CASE ~(w \in resolved /\ promise[w].status = "pending")
             /\ ~(w \in rejected \ resolved /\ promise[w].status = "pending")
    <3>1. S[w] = promise[w]
      BY <2>4 DEF Settled
    <3> QED
      BY <2>1, <3>1
  <2> QED
    BY <2>2, <2>3, <2>4
<1>2. S = [w \in Waiter |-> S[w]]
  BY DEF Settled
<1> HIDE DEF S
<1>3. S \in PromisesT
  BY <1>1, <1>2 DEF PromisesT
<1>4. Kept(promise, S) /\ Settles(resolved, promise, S)
  BY <1>1 DEF Kept, Settles
<1> QED
  BY <1>3, <1>4 DEF S

\* Commits that are reached may resolve: what CommitPromise calls Settle.
LEMMA SettleStep ==
  ASSUME promise \in PromisesT, promise' \in PromisesT, NEW resolved,
         Settles(resolved, promise, promise'), Kept(promise, promise'),
         Reached(resolved, promise, srv.committed), srv'.committed = srv.committed
  PROVE  Promised!Settle
<1>1. ASSUME NEW c \in Waiter
      PROVE  \/ promise'[c].status = promise[c].status
             \/ /\ promise[c].status = "pending" /\ promise'[c].status = "resolved"
                /\ promise[c].target <= srv.committed[promise[c].partition]
             \/ promise[c].status = "pending" /\ promise'[c].status = "rejected"
  BY DEF Settles, Reached
<1>2. [w \in Waiter |-> [partition |-> promise'[w].partition, offset |-> promise'[w].target]]
      = [w \in Waiter |-> [partition |-> promise[w].partition, offset |-> promise[w].target]]
  BY DEF Kept
<1>3. \A c \in Waiter : \/ promise'[c].status = promise[c].status
                        \/ c \in Promised!Reached /\ promise'[c].status = "resolved"
                        \/ c \in Promised!Open /\ promise'[c].status = "rejected"
  BY <1>1 DEF Promised!Reached, Promised!Open
<1> QED
  BY <1>2, <1>3 DEF Promised!Settle

\* Nothing becomes of any commit.
LEMMA QuietStep ==
  ASSUME promise \in PromisesT, promise' = promise, srv'.committed = srv.committed
  PROVE  Promised!Settle
<1>1. Settles({}, promise, promise') /\ Kept(promise, promise')
      /\ Reached({}, promise, srv.committed)
  BY DEF Settles, Kept, Reached
<1> QED
  BY <1>1, SettleStep

\* The commits that a committed offset covers have been reached.
LEMMA CoveredReached ==
  ASSUME NEW es \in EntriesT, NEW com \in [Partition -> Nat], NEW pr, Books(es, com, pr),
         NEW p \in Partition, NEW c \in Nat, c <= com[p],
         NEW drained \in SUBSET es[p].pending, \A q \in drained : q.target <= c
  PROVE  Reached(Waiters(drained), pr, com)
<1> SUFFICES ASSUME NEW w \in Waiters(drained), w \in Waiter
             PROVE  pr[w].target <= com[pr[w].partition]
  BY DEF Reached
<1>1. PICK q \in drained : w = q.waiter
  BY DEF Waiters
<1>2. q.target \in Nat /\ q.target <= c /\ com[p] \in Nat
  BY <1>1, PendingFields
<1>3. pr[w].partition = p /\ pr[w].target = q.target
  BY <1>1 DEF Books, Book
<1> QED
  BY <1>2, <1>3

\* No commit is resolved.
LEMMA NoneReached == ASSUME NEW pr, NEW com PROVE Reached({}, pr, com)
BY DEF Reached

-----------------------------------------------------------------------------
(* The ends of the handlers                                                 *)

\* What the next state has to keep; the messages are only the handlers' and read()'s.
Keeps ==
  /\ state' \in State /\ entries' \in EntriesT /\ index' \in IndexT
  /\ inbox' \in Seq(FrameT) /\ HooksOk(hooks') /\ srv' \in ServerT
  /\ promise' \in PromisesT
  /\ Registered(entries', index') /\ Idle(state', index')
  /\ Ties(entries', srv', index', Range(inbox'), promise')

\* The reader is through.
LEMMA TerminateKeeps ==
  ASSUME ReaderInv, NEW terminal \in Terminal, NEW resolved,
         Reached(resolved, promise, srv.committed), Terminate(terminal, resolved)
  PROVE  Keeps /\ Promised!Settle
<1> DEFINE es == [p \in Partition |-> Absent]
           rejected == UNION {Waiters(entries[p].pending) : p \in Partition} \ resolved
<1>1. /\ state' = terminal /\ promise' = Settled(resolved, rejected) /\ entries' = es
      /\ index' = NoIndex /\ hooks' = {} /\ inbox' = << >> /\ srv' = Broken(srv)
  BY DEF Terminate
<1>2. promise \in PromisesT /\ srv \in ServerT /\ entries \in EntriesT
      /\ index \in IndexT /\ inbox \in Seq(FrameT)
  BY DEF ReaderInv, Shape
<1>3. /\ promise' \in PromisesT /\ Kept(promise, promise')
      /\ Settles(resolved, promise, promise')
  BY <1>1, <1>2, SettledKeeps
<1>4. /\ Ties(entries, srv, index, Range(inbox), promise)
      /\ srv.committed \in [Partition -> Nat] /\ Granted(srv)
  BY <1>2, ServerFields DEF ReaderInv, Ties
<1>5. es \in EntriesT /\ Books(es, srv.committed, promise)
  BY <1>4, AbsentBooks
<1>6. /\ Range(inbox) \in SUBSET FrameT /\ {} \in SUBSET Range(inbox)
      /\ << >> \in Seq(FrameT) /\ Range(<< >>) = {}
  BY <1>2, InboxEmpty, InboxRange
<1>7. /\ NoIndex \in IndexT
      /\ Narrower(index, NoIndex) /\ Registered(es, NoIndex)
  BY <1>2, NoIndexOk
<1> HIDE DEF es, rejected
<1>8. Ties(es, Broken(srv), NoIndex, {}, promise')
  BY <1>2, <1>3, <1>4, <1>5, <1>6, <1>7, TiesBroken
<1>9. /\ Broken(srv) \in ServerT /\ Broken(srv).committed = srv.committed
  BY <1>2, <1>4, BrokenKeeps
<1>10. Idle(terminal, NoIndex)
  BY NoIndexOk
<1>11. HooksOk({}) /\ terminal \in State
  BY DEF HooksOk, State
<1>12. Keeps
  BY <1>1, <1>3, <1>5, <1>6, <1>7, <1>8, <1>9, <1>10, <1>11 DEF Keeps
<1>13. Promised!Settle
  BY <1>1, <1>2, <1>3, <1>9, SettleStep
<1> QED
  BY <1>12, <1>13

\* What a handler may hand to Finish.
Ready(to, rest) ==
  /\ to.entries \in EntriesT /\ to.index \in IndexT /\ HooksOk(to.hooks)
  /\ Registered(to.entries, to.index) /\ Idle(state, to.index)
  /\ to.srv \in ServerT /\ to.srv.committed = srv.committed
  /\ rest \in Seq(FrameT)
  /\ Ties(to.entries, to.srv, to.index, Range(rest), promise)

\* A handler ends.
LEMMA FinishKeeps ==
  ASSUME ReaderInv, NEW to, NEW rest, Ready(to, rest), NEW resolved, NEW rejected,
         Reached(resolved, promise, srv.committed), Finish(to, resolved, rejected, rest)
  PROVE  Keeps /\ Promised!Settle
<1>1. CASE state = "closing" /\ ~HasPendingWork(to.entries)
  <2>1. Terminate("closed", resolved) /\ "closed" \in Terminal
    BY <1>1 DEF Finish, Terminal
  <2> QED
    BY <2>1, TerminateKeeps
<1>2. CASE ~(state = "closing" /\ ~HasPendingWork(to.entries))
  <2>1. /\ entries' = to.entries /\ index' = to.index /\ hooks' = to.hooks /\ srv' = to.srv
        /\ promise' = Settled(resolved, rejected) /\ inbox' = rest /\ state' = state
    BY <1>2 DEF Finish
  <2>2. promise \in PromisesT /\ state \in State
    BY DEF ReaderInv, Shape
  <2>3. /\ promise' \in PromisesT /\ Kept(promise, promise')
        /\ Settles(resolved, promise, promise')
    BY <2>1, <2>2, SettledKeeps
  <2>4. to.index \in IndexT /\ Range(rest) \in SUBSET FrameT
    BY InboxRange DEF Ready
  <2>5. Books(to.entries, to.srv.committed, promise)
    BY DEF Ready, Ties
  <2>6. Same(to.srv, to.srv)
    BY SameSelf DEF Ready
  <2>7. Ties(to.entries, to.srv, to.index, Range(rest), promise')
    BY <2>3, <2>4, <2>5, <2>6, NarrowerSelf, TiesKept DEF Ready
  <2>8. Keeps
    BY <2>1, <2>2, <2>3, <2>7 DEF Keeps, Ready
  <2>9. Promised!Settle
    BY <2>1, <2>2, <2>3, SettleStep DEF Ready
  <2> QED
    BY <2>8, <2>9
<1> QED
  BY <1>1, <1>2

-----------------------------------------------------------------------------
(* What the handlers are made of                                            *)

\* One entry is changed.
LEMMA EntryChanged ==
  ASSUME NEW es \in EntriesT, NEW com, NEW pr, Books(es, com, pr),
         NEW p \in Partition, NEW e \in EntryT, Book(e, p, com, pr)
  PROVE  [es EXCEPT ![p] = e] \in EntriesT /\ Books([es EXCEPT ![p] = e], com, pr)
BY DEF EntriesT, Books

\* The fields of an entry.
LEMMA EntryFields ==
  ASSUME NEW e \in EntryT
  PROVE  /\ e.committed \in Nat /\ e.requested \in Nat /\ e.watermark \in Nat
         /\ e.claimed \subseteq Nat /\ e.pending \subseteq PendingT
         /\ \A q \in e.pending : q.waiter \in Waiter /\ q.target \in Nat /\ q.wire \subseteq Nat
BY DEF EntryT, PendingT

\* A committed offset arrives.
LEMMA AdvancedBook ==
  ASSUME NEW e \in EntryT, NEW p \in Partition, NEW com \in [Partition -> Nat], NEW pr,
         Book(e, p, com, pr), NEW offset \in Nat, offset <= com[p]
  PROVE  /\ Advanced(e, offset) \in EntryT /\ Book(Advanced(e, offset), p, com, pr)
         /\ Advanced(e, offset).state = e.state /\ Advanced(e, offset).sid = e.sid
         /\ Reached(Waiters(e.pending \ Advanced(e, offset).pending), pr, com)
<1> DEFINE c == Highest(e.committed, offset)
           a == Advanced(e, offset)
<1>1. c \in Nat /\ c <= com[p] /\ com[p] \in Nat
  BY EntryFields DEF Highest, Book
<1>2. /\ From(e.claimed, c) \subseteq Nat /\ Highest(e.watermark, c) \in Nat
      /\ Uncovered(e.pending, c) \subseteq e.pending /\ Uncovered(e.pending, c) \subseteq PendingT
  BY <1>1, EntryFields DEF From, Highest, Uncovered
<1>3. a = [e EXCEPT !.committed = c, !.claimed = From(@, c), !.watermark = Highest(@, c),
                    !.requested = IF @ <= c THEN 0 ELSE @, !.pending = Uncovered(@, c)]
  BY DEF Advanced
<1> HIDE DEF c, a
<1>4. /\ a.committed = c /\ a.state = e.state /\ a.sid = e.sid
      /\ a.pending = Uncovered(e.pending, c) /\ a.claimed = From(e.claimed, c)
      /\ a.watermark = Highest(e.watermark, c) /\ a.requested \in {0, e.requested}
  BY <1>3 DEF EntryT
<1>5. a \in EntryT
  BY <1>1, <1>2, <1>3, <1>4, EntryFields DEF EntryT
<1>6. Book(a, p, com, pr)
  BY <1>1, <1>2, <1>4 DEF Book
<1>7. ASSUME NEW w \in Waiters(e.pending \ a.pending) PROVE pr[w].target <= com[pr[w].partition]
  <2>1. PICK q \in e.pending \ a.pending : w = q.waiter
    BY DEF Waiters
  <2>2. q.target \in Nat /\ ~(q.target > c)
    BY <1>4, <2>1, EntryFields DEF Uncovered
  <2>3. pr[w].partition = p /\ pr[w].target = q.target
    BY <2>1 DEF Book
  <2> QED
    BY <1>1, <2>2, <2>3
<1>8. Reached(Waiters(e.pending \ a.pending), pr, com)
  BY <1>7 DEF Reached
<1> QED
  BY <1>4, <1>5, <1>6, <1>8 DEF a

\* An entry is stopped, or its stop begins.
LEMMA StoppedBook ==
  ASSUME NEW e \in EntryT, NEW p, NEW com, NEW pr, Book(e, p, com, pr), e.state # "absent"
  PROVE  /\ MarkedStopped(e) \in EntryT /\ Book(MarkedStopped(e), p, com, pr)
         /\ MarkedStopped(e).pending = e.pending
<1>1. /\ MarkedStopped(e) \in EntryT /\ MarkedStopped(e).pending = e.pending
      /\ MarkedStopped(e).committed = e.committed /\ MarkedStopped(e).sid = e.sid
  BY DEF MarkedStopped, EntryT
<1> QED
  BY <1>1 DEF Book

Stopping(e) == [e EXCEPT !.state = "stopping-graceful", !.stopReady = FALSE]

LEMMA StoppingBook ==
  ASSUME NEW e \in EntryT, NEW p, NEW com, NEW pr, Book(e, p, com, pr), e.state # "absent"
  PROVE  /\ Stopping(e) \in EntryT /\ Book(Stopping(e), p, com, pr)
         /\ Stopping(e).pending = e.pending /\ Stopping(e).sid = e.sid
         /\ Stopping(e).state \in Held
<1>1. /\ Stopping(e) \in EntryT /\ Stopping(e).pending = e.pending
      /\ Stopping(e).committed = e.committed
      /\ Stopping(e).sid = e.sid /\ Stopping(e).state = "stopping-graceful"
  BY DEF EntryT, Stopping
<1> QED
  BY <1>1 DEF Book, Held

\* What ReaderInv says of the variables.
LEMMA InvFields ==
  ASSUME ReaderInv
  PROVE  /\ state \in State /\ entries \in EntriesT /\ index \in IndexT /\ grantSeq \in Nat
         /\ inbox \in Seq(FrameT) /\ HooksOk(hooks) /\ srv \in ServerT
         /\ chunks \in Seq(SUBSET MessageT) /\ delivered \subseteq MessageT
         /\ promise \in PromisesT
         /\ srv.committed \in [Partition -> Nat]
         /\ Registered(entries, index) /\ Books(entries, srv.committed, promise)
         /\ Idle(state, index)
         /\ Range(inbox) \in SUBSET FrameT
         /\ Ties(entries, srv, index, Range(inbox), promise)
         /\ \A p \in Partition :
              /\ entries[p] \in EntryT /\ Book(entries[p], p, srv.committed, promise)
              /\ srv.committed[p] \in Nat
<1>1. /\ Shape /\ Registered(entries, index) /\ Idle(state, index)
      /\ Ties(entries, srv, index, Range(inbox), promise)
  BY DEF ReaderInv
<1>2. srv.committed \in [Partition -> Nat] /\ Range(inbox) \in SUBSET FrameT
  BY <1>1, ServerFields, InboxRange DEF Shape
<1>3. Books(entries, srv.committed, promise)
  BY <1>1 DEF Ties
<1>4. \A p \in Partition : entries[p] \in EntryT
  BY <1>1 DEF Shape, EntriesT
<1> QED
  BY <1>1, <1>2, <1>3, <1>4 DEF Shape, Books

\* The frame being handled.
LEMMA EventFields ==
  ASSUME ReaderInv, NEW states, NEW type, Handles(states, type)
  PROVE  /\ Event \in FrameT /\ Event \in Range(inbox) /\ Event.type = type /\ state \in states
         /\ Tail(inbox) \in Seq(FrameT) /\ Range(Tail(inbox)) \in SUBSET Range(inbox)
<1>1. inbox # << >> /\ state \in states /\ Event.type = type
  BY DEF Handles
<1> QED
  BY <1>1, InvFields, InboxTail DEF Event

\* A frame that tells of a partition's offset.
LEMMA EventTells ==
  ASSUME ReaderInv, state \in Streaming, Event \in Range(inbox), Tells(Event),
         PartitionOf(Event.sid) # None
  PROVE  /\ Event.sid \in Sid /\ Event.committed \in Nat
         /\ PartitionOf(Event.sid) \in Partition
         /\ Event.committed <= srv.committed[PartitionOf(Event.sid)]
<1>1. Event \in FrameT
  BY InvFields
<1>2. Event.sid \in Sid /\ Event.committed \in Nat
  BY <1>1, FrameFields
<1>3. PartitionOf(Event.sid) \in Partition
  BY <1>2, InvFields DEF PartitionOf, IndexT
<1>4. Told(Event, Range(inbox), index, srv.committed)
  BY InvFields DEF Ties, Frames
<1>5. Event.committed <= srv.committed[PartitionOf(Event.sid)]
  BY <1>4 DEF Told, PartitionOf
<1> QED
  BY <1>2, <1>3, <1>5

\* What a handler has to show when it only narrows the index.
LEMMA NarrowReady ==
  ASSUME ReaderInv, NEW to, NEW rest \in Seq(FrameT), Range(rest) \in SUBSET Range(inbox),
         to.entries \in EntriesT, Books(to.entries, srv.committed, promise),
         to.index \in IndexT, Narrower(index, to.index), Registered(to.entries, to.index),
         HooksOk(to.hooks), Same(srv, to.srv)
  PROVE  Ready(to, rest)
<1>1. Idle(state, to.index)
  BY InvFields DEF Idle, Narrower
<1>2. Ties(to.entries, to.srv, to.index, Range(rest), promise)
  BY InvFields, KeptSelf, TiesKept
<1> QED
  BY <1>1, <1>2 DEF Ready, Same

LEMMA UnroutedNarrow ==
  ASSUME index \in IndexT, NEW sid
  PROVE  Unrouted(sid) \in IndexT /\ Narrower(index, Unrouted(sid))
BY DEF Unrouted, IndexT, Narrower

\* An entry keeps its place in the index, or it is taken out of it.
LEMMA KeepsPlace ==
  ASSUME NEW es \in EntriesT, NEW ix \in IndexT, Registered(es, ix), NEW p \in Partition,
         NEW e, e.sid = es[p].sid, e.state \in Held \/ e.state = es[p].state
  PROVE  Registered([es EXCEPT ![p] = e], ix)
BY DEF Registered, EntriesT, IndexT

LEMMA LosesPlace ==
  ASSUME NEW es \in EntriesT, index \in IndexT, Registered(es, index), NEW p \in Partition, NEW e
  PROVE  Registered([es EXCEPT ![p] = e], Unrouted(es[p].sid))
BY DEF Registered, EntriesT, IndexT, Unrouted

LEMMA HasNoPlace ==
  ASSUME NEW es \in EntriesT, NEW ix \in IndexT, Registered(es, ix), NEW p \in Partition, NEW e,
         es[p].state \notin Held \/ ix[es[p].sid] # p
  PROVE  Registered([es EXCEPT ![p] = e], ix)
BY DEF Registered, EntriesT, IndexT

-----------------------------------------------------------------------------
(* The handlers                                                             *)

LEMMA ForcedStopKeeps ==
  ASSUME ReaderInv, HandleForcedStop PROVE Keeps /\ Promised!Settle
<1> DEFINE p == PartitionOf(Event.sid)
           old == entries[p]
           advanced == Advanced(old, Event.committed)
           entry == MarkedStopped(advanced)
           armed == IF entry.pending = {} THEN {} ELSE TimersOf({"partition_reassign_gc"}, p)
           to == [Here EXCEPT !.entries[p] = entry, !.index = Unrouted(old.sid),
                              !.timers = (@ \ TimersOf({"partition_commit_status",
                                                        "partition_graceful_timeout"}, p))
                                           \cup armed]
           resolved == Waiters(old.pending \ entry.pending)
<1>1. /\ Handles(Streaming, "stop") /\ p # None /\ old.state # "stopped"
      /\ Finish(to, resolved, {}, Tail(inbox))
  BY DEF HandleForcedStop, StopsKnown
<1>2. /\ to.entries = [entries EXCEPT ![p] = entry] /\ to.index = Unrouted(old.sid)
      /\ to.hooks = hooks /\ to.srv = srv
  BY DEF Here
<1> HIDE DEF to
<1>3. /\ Event \in Range(inbox) /\ state \in Streaming /\ Tells(Event)
      /\ Tail(inbox) \in Seq(FrameT) /\ Range(Tail(inbox)) \in SUBSET Range(inbox)
  BY <1>1, EventFields DEF Tells
<1>4. /\ p \in Partition /\ Event.committed \in Nat /\ Event.committed <= srv.committed[p]
      /\ old.state # "absent"
  BY <1>1, <1>3, EventTells, InvFields DEF Registered, PartitionOf, Held
<1>5. /\ old \in EntryT /\ Book(old, p, srv.committed, promise)
      /\ srv.committed \in [Partition -> Nat]
  BY <1>4, InvFields
<1>6. /\ advanced \in EntryT /\ Book(advanced, p, srv.committed, promise)
      /\ advanced.state = old.state
      /\ Reached(Waiters(old.pending \ advanced.pending), promise, srv.committed)
  BY <1>4, <1>5, AdvancedBook
<1>7. /\ entry \in EntryT /\ Book(entry, p, srv.committed, promise)
      /\ entry.pending = advanced.pending
  BY <1>4, <1>6, StoppedBook
<1>8. /\ [entries EXCEPT ![p] = entry] \in EntriesT
      /\ Books([entries EXCEPT ![p] = entry], srv.committed, promise)
  BY <1>4, <1>7, InvFields, EntryChanged DEF Ties
<1>9. Registered([entries EXCEPT ![p] = entry], Unrouted(old.sid))
  BY <1>4, InvFields, LosesPlace
<1>10. Ready(to, Tail(inbox))
  BY <1>2, <1>3, <1>8, <1>9, InvFields, UnroutedNarrow, SameSelf, NarrowReady, ZenonT(40)
<1> QED
  BY <1>1, <1>6, <1>7, <1>10, FinishKeeps

LEMMA GracefulStopKeeps ==
  ASSUME ReaderInv, HandleGracefulStop PROVE Keeps /\ Promised!Settle
<1> DEFINE p == PartitionOf(Event.sid)
           old == entries[p]
           advanced == Advanced(old, Event.committed)
           entry == Stopping(advanced)
           confirmed == old.requested # 0 /\ entry.requested = 0
           cleared == IF confirmed THEN TimersOf({"partition_commit_status"}, p) ELSE {}
           hook == [type |-> "stop", partition |-> p, sid |-> old.sid, grant |-> old.grant]
           to == [Here EXCEPT !.entries[p] = entry,
                              !.timers = (@ \ cleared)
                                           \cup TimersOf({"partition_graceful_timeout"}, p),
                              !.hooks = @ \cup {hook}]
           resolved == Waiters(old.pending \ entry.pending)
<1>1. /\ Handles(Streaming, "stop") /\ p # None /\ old.state # "stopped"
      /\ Finish(to, resolved, {}, Tail(inbox))
  BY DEF HandleGracefulStop, StopsKnown, Stopping
<1>2. /\ to.entries = [entries EXCEPT ![p] = entry] /\ to.index = index
      /\ to.hooks = hooks \cup {hook} /\ to.srv = srv
  BY DEF Here
<1> HIDE DEF to
<1>3. /\ Event \in Range(inbox) /\ state \in Streaming /\ Tells(Event)
      /\ Tail(inbox) \in Seq(FrameT) /\ Range(Tail(inbox)) \in SUBSET Range(inbox)
  BY <1>1, EventFields DEF Tells
<1>4. p \in Partition /\ Event.committed \in Nat /\ Event.committed <= srv.committed[p]
  BY <1>1, <1>3, EventTells
<1>5. /\ old \in EntryT /\ Book(old, p, srv.committed, promise)
      /\ srv.committed \in [Partition -> Nat]
  BY <1>4, InvFields
<1>6. /\ advanced \in EntryT /\ Book(advanced, p, srv.committed, promise)
      /\ advanced.state = old.state /\ advanced.sid = old.sid
      /\ Reached(Waiters(old.pending \ advanced.pending), promise, srv.committed)
  BY <1>4, <1>5, AdvancedBook
<1>7. old.state # "absent"
  BY <1>1, <1>3, <1>4, EventTells, InvFields DEF Registered, PartitionOf, Held
<1>8. /\ entry \in EntryT /\ Book(entry, p, srv.committed, promise)
      /\ entry.pending = advanced.pending /\ entry.sid = old.sid /\ entry.state \in Held
  BY <1>6, <1>7, StoppingBook
<1>9. /\ [entries EXCEPT ![p] = entry] \in EntriesT
      /\ Books([entries EXCEPT ![p] = entry], srv.committed, promise)
  BY <1>4, <1>8, InvFields, EntryChanged DEF Ties
<1>10. HooksOk(hooks \cup {hook})
  BY <1>4, InvFields DEF HooksOk
<1>11. Registered([entries EXCEPT ![p] = entry], index)
  BY <1>4, <1>8, InvFields, KeepsPlace
<1>12. Ready(to, Tail(inbox))
  BY <1>2, <1>3, <1>9, <1>10, <1>11, InvFields, NarrowerSelf, SameSelf, NarrowReady
<1> QED
  BY <1>1, <1>6, <1>8, <1>12, FinishKeeps

LEMMA CommitResponseKeeps ==
  ASSUME ReaderInv, HandleCommitResponse PROVE Keeps /\ Promised!Settle
<1> DEFINE p == PartitionOf(Event.sid)
           old == entries[p]
           entry == Advanced(old, Event.committed)
           drained == /\ entry.state = "stopping-graceful" /\ entry.stopReady
                      /\ entry.requested = 0 /\ entry.pending = {}
           confirmed == old.requested # 0 /\ entry.requested = 0
           cleared == (IF confirmed THEN {"partition_commit_status"} ELSE {})
                      \cup (IF drained THEN {"partition_graceful_timeout"} ELSE {})
           armed == IF Event.type = "status" /\ entry.requested # 0
                    THEN {"partition_commit_status"} ELSE {}
           advanced == [Here EXCEPT !.entries[p] = entry,
                                    !.timers = (@ \ TimersOf(cleared, p)) \cup TimersOf(armed, p)]
           stopped == [advanced EXCEPT !.entries[p] = MarkedStopped(entry),
                                       !.index = Unrouted(old.sid),
                                       !.srv = StopResponse(@, Event.sid)]
           resolved == Waiters(old.pending \ entry.pending)
<1>1. /\ Handles(Streaming, "commit_response") \/ Handles(Streaming, "status")
      /\ p # None
      /\ Finish(IF drained THEN stopped ELSE advanced, resolved, {}, Tail(inbox))
  BY DEF HandleCommitResponse
<1>2. /\ advanced.entries = [entries EXCEPT ![p] = entry] /\ advanced.index = index
      /\ advanced.hooks = hooks /\ advanced.srv = srv
  BY DEF Here
<1>3. /\ stopped.entries = [[entries EXCEPT ![p] = entry] EXCEPT ![p] = MarkedStopped(entry)]
      /\ stopped.index = Unrouted(old.sid)
      /\ stopped.hooks = hooks /\ stopped.srv = StopResponse(srv, Event.sid)
  BY <1>2 DEF Here
<1> HIDE DEF advanced, stopped, drained
<1>4. /\ Event \in Range(inbox) /\ state \in Streaming /\ Tells(Event)
      /\ Tail(inbox) \in Seq(FrameT) /\ Range(Tail(inbox)) \in SUBSET Range(inbox)
  BY <1>1, EventFields DEF Tells
<1>5. /\ p \in Partition /\ Event.committed \in Nat /\ Event.committed <= srv.committed[p]
      /\ Event.sid \in Sid /\ old.state # "absent"
  BY <1>1, <1>4, EventTells, InvFields DEF Registered, PartitionOf, Held
<1>6. /\ old \in EntryT /\ Book(old, p, srv.committed, promise)
      /\ srv.committed \in [Partition -> Nat]
  BY <1>5, InvFields
<1>7. /\ entry \in EntryT /\ Book(entry, p, srv.committed, promise)
      /\ entry.state = old.state /\ entry.sid = old.sid
      /\ Reached(resolved, promise, srv.committed)
  BY <1>5, <1>6, AdvancedBook
<1> HIDE DEF entry
<1>8. /\ [entries EXCEPT ![p] = entry] \in EntriesT
      /\ Books([entries EXCEPT ![p] = entry], srv.committed, promise)
      /\ Registered([entries EXCEPT ![p] = entry], index)
  BY <1>5, <1>7, InvFields, EntryChanged, KeepsPlace
<1>9. Ready(advanced, Tail(inbox))
  BY <1>2, <1>4, <1>8, InvFields, NarrowerSelf, SameSelf, NarrowReady
<1>10. Ready(stopped, Tail(inbox))
  <2> DEFINE es == [entries EXCEPT ![p] = entry]
             fs == [es EXCEPT ![p] = MarkedStopped(entry)]
  <2>1. MarkedStopped(entry) \in EntryT /\ Book(MarkedStopped(entry), p, srv.committed, promise)
    BY <1>5, <1>7, StoppedBook
  <2>2. es[p].sid = old.sid
    BY <1>5, <1>7, InvFields DEF EntriesT
  <2> HIDE DEF es
  <2>3. fs \in EntriesT /\ Books(fs, srv.committed, promise)
    BY <1>5, <1>8, <2>1, EntryChanged DEF es
  <2>4. Registered(fs, Unrouted(old.sid))
    BY <1>5, <1>8, <2>2, InvFields, LosesPlace DEF es
  <2>5. stopped.entries = fs
    BY <1>3 DEF es
  <2> HIDE DEF fs
  <2>6. Same(srv, StopResponse(srv, Event.sid))
    BY <1>5, InvFields, StopResponseSame
  <2> QED
    BY <1>3, <1>4, <2>3, <2>4, <2>5, <2>6, InvFields, UnroutedNarrow, NarrowReady, ZenonT(40)
<1>11. CASE drained
  <2>1. Finish(stopped, resolved, {}, Tail(inbox))
    BY <1>1, <1>11
  <2> QED
    BY <1>7, <1>10, <2>1, FinishKeeps
<1>12. CASE ~drained
  <2>1. Finish(advanced, resolved, {}, Tail(inbox))
    BY <1>1, <1>12
  <2> QED
    BY <1>7, <1>9, <2>1, FinishKeeps
<1> QED
  BY <1>11, <1>12

LEMMA EndKeeps ==
  ASSUME ReaderInv, HandleEnd PROVE Keeps /\ Promised!Settle
<1> DEFINE p == PartitionOf(Event.sid)
           old == entries[p]
           entry == [old EXCEPT !.state = "ended"]
           to == [Here EXCEPT !.entries[p].state = "ended"]
<1>1. Handles(Streaming, "end") /\ p # None /\ Finish(to, {}, {}, Tail(inbox))
  BY DEF HandleEnd
<1>2. /\ to.entries = [entries EXCEPT ![p] = entry] /\ to.index = index
      /\ to.hooks = hooks /\ to.srv = srv
  BY DEF Here
<1> HIDE DEF to
<1>3. /\ Event \in FrameT /\ Event.type = "end"
      /\ Tail(inbox) \in Seq(FrameT) /\ Range(Tail(inbox)) \in SUBSET Range(inbox)
  BY <1>1, EventFields
<1>4. Event.sid \in Sid
  BY <1>3, FrameKinds
<1>5. p \in Partition /\ old.state \in Held
  BY <1>1, <1>4, InvFields DEF Registered, PartitionOf, IndexT
<1>6. old \in EntryT /\ Book(old, p, srv.committed, promise)
  BY <1>5, InvFields
<1>7. /\ entry \in EntryT /\ entry.committed = old.committed /\ entry.sid = old.sid
      /\ entry.pending = old.pending /\ entry.state = "ended"
  BY <1>6 DEF EntryT
<1>8. Book(entry, p, srv.committed, promise) /\ entry.state \in Held
  BY <1>5, <1>6, <1>7 DEF Book, Held
<1> HIDE DEF entry
<1>9. /\ [entries EXCEPT ![p] = entry] \in EntriesT
      /\ Books([entries EXCEPT ![p] = entry], srv.committed, promise)
      /\ Registered([entries EXCEPT ![p] = entry], index)
  BY <1>5, <1>7, <1>8, InvFields, EntryChanged, KeepsPlace
<1>10. Ready(to, Tail(inbox))
  BY <1>2, <1>3, <1>9, InvFields, NarrowerSelf, SameSelf, NarrowReady
<1> QED
  BY <1>1, <1>10, NoneReached, FinishKeeps

\* The commits that a new grant takes over.
Narrowed(pendings, c) == {[q EXCEPT !.wire = From(@, c)] : q \in Uncovered(pendings, c)}

LEMMA TakenOver ==
  ASSUME NEW old \in EntryT, NEW p \in Partition, NEW com \in [Partition -> Nat], NEW pr,
         Book(old, p, com, pr), NEW c \in Nat, c <= com[p]
  PROVE  /\ Narrowed(old.pending, c) \subseteq PendingT
         /\ AllWire(Narrowed(old.pending, c)) \subseteq Nat
         /\ \A r \in Narrowed(old.pending, c) :
              /\ pr[r.waiter].status # "none"
              /\ pr[r.waiter].partition = p /\ pr[r.waiter].target = r.target
         /\ Reached(Waiters(Covered(old.pending, c)), pr, com)
<1> DEFINE kept == Narrowed(old.pending, c)
<1>1. ASSUME NEW r \in kept
      PROVE  /\ r \in PendingT
             /\ pr[r.waiter].status # "none"
             /\ pr[r.waiter].partition = p /\ pr[r.waiter].target = r.target
  <2>1. PICK q \in Uncovered(old.pending, c) : r = [q EXCEPT !.wire = From(@, c)]
    BY DEF Narrowed
  <2>2. q \in old.pending /\ q \in PendingT
    BY EntryFields DEF Uncovered
  <2>3. r \in PendingT /\ r.waiter = q.waiter /\ r.target = q.target
    BY <2>1, <2>2 DEF PendingT, From
  <2> QED
    BY <2>2, <2>3 DEF Book
<1>2. AllWire(kept) \subseteq Nat
  BY <1>1 DEF AllWire, PendingT
<1>3. ASSUME NEW w \in Waiters(Covered(old.pending, c))
      PROVE  pr[w].target <= com[pr[w].partition]
  <2>1. PICK q \in old.pending : w = q.waiter /\ q.target <= c
    BY DEF Waiters, Covered
  <2>2. q.target \in Nat /\ com[p] \in Nat
    BY EntryFields
  <2>3. pr[w].partition = p /\ pr[w].target = q.target
    BY <2>1 DEF Book
  <2> QED
    BY <2>1, <2>2, <2>3
<1> QED
  BY <1>1, <1>2, <1>3 DEF Reached

LEMMA StartKeeps ==
  ASSUME ReaderInv, HandleStart PROVE Keeps /\ Promised!Settle
<1> DEFINE e == Event
           p == e.partition
           old == entries[p]
           c == Highest(old.committed, e.committed)
           kept == Narrowed(old.pending, c)
           entry == [sid |-> e.sid, grant |-> grantSeq + 1, ackPending |-> TRUE,
                     committed |-> c, requested |-> 0, watermark |-> c,
                     claimed |-> AllWire(kept), state |-> "active", stopReady |-> FALSE,
                     pending |-> kept]
           unrouted == IF old.state = "absent" THEN index ELSE Unrouted(old.sid)
           ix == [unrouted EXCEPT ![e.sid] = p]
           hook == [type |-> "start", partition |-> p, sid |-> e.sid, grant |-> grantSeq + 1]
           to == [Here EXCEPT !.entries[p] = entry, !.index = ix,
                              !.timers = @ \ TimersOf({"partition_commit_status",
                                                       "partition_graceful_timeout"}, p),
                              !.hooks = @ \cup {hook}]
           es == [entries EXCEPT ![p] = entry]
           resolved == Waiters(Covered(old.pending, c))
<1>1. /\ Handles(Streaming, "start")
      /\ Finish(to, resolved, {}, Tail(inbox))
  BY DEF HandleStart, Narrowed
<1>2. /\ to.entries = es /\ to.index = ix
      /\ to.hooks = hooks \cup {hook} /\ to.srv = srv
  BY DEF Here
<1> HIDE DEF to
<1>3. /\ e \in FrameT /\ e \in Range(inbox) /\ e.type = "start" /\ state \in Streaming
      /\ Tail(inbox) \in Seq(FrameT) /\ Range(Tail(inbox)) \in SUBSET Range(inbox)
  BY <1>1, EventFields
<1>4. e.sid \in Sid /\ p \in Partition /\ e.committed \in Nat
  BY <1>3, FrameFields
<1>5. /\ Links(srv, index, Range(inbox))
      /\ Frames(Range(inbox), index, srv.committed, promise)
      /\ Granted(srv)
  BY InvFields DEF Ties
<1>6. /\ old \in EntryT /\ Book(old, p, srv.committed, promise)
      /\ srv.committed \in [Partition -> Nat] /\ grantSeq \in Nat
  BY <1>4, InvFields
<1>7. c \in Nat /\ c <= srv.committed[p]
  <2>1. e.committed <= srv.committed[p]
    BY <1>3, <1>5 DEF Frames, Grants
  <2> QED
    BY <1>4, <1>6, <2>1, EntryFields DEF Highest, Book
<1> HIDE DEF c
<1>8. /\ kept \subseteq PendingT /\ AllWire(kept) \subseteq Nat
      /\ \A r \in kept : /\ promise[r.waiter].status # "none"
                         /\ promise[r.waiter].partition = p
                         /\ promise[r.waiter].target = r.target
      /\ Reached(resolved, promise, srv.committed)
  BY <1>4, <1>6, <1>7, TakenOver
<1> HIDE DEF kept
<1>9. entry \in EntryT
  <2>1. e.sid \in Nat
    BY <1>4, ReaderAssumption DEF Sid
  <2> QED
    BY <1>6, <1>7, <1>8, <2>1 DEF EntryT
<1>10. Book(entry, p, srv.committed, promise)
  BY <1>4, <1>7, <1>8 DEF Book
<1>11. entry.sid = e.sid /\ entry.state \in Held
  BY DEF Held
<1> HIDE DEF entry, e
<1>12. es \in EntriesT /\ Books(es, srv.committed, promise)
  BY <1>4, <1>9, <1>10, InvFields, EntryChanged
<1>13. /\ ix \in IndexT
       /\ \A sid \in Sid : \/ sid = e.sid /\ ix[sid] = p
                           \/ sid # e.sid /\ ix[sid] \in {None, index[sid]}
       /\ \A sid \in Sid : old.state # "absent" /\ sid = old.sid /\ sid # e.sid => ix[sid] = None
  BY <1>4, InvFields DEF IndexT, Unrouted
<1> HIDE DEF ix
<1>14. Registered(es, ix)
  <2> SUFFICES ASSUME NEW sid \in Sid, ix[sid] # None
               PROVE  es[ix[sid]].sid = sid /\ es[ix[sid]].state \in Held
    BY DEF Registered
  <2>1. es[p] = entry /\ \A q \in Partition : q # p => es[q] = entries[q]
    BY <1>4, InvFields DEF EntriesT
  <2>2. CASE sid = e.sid
    BY <1>11, <1>13, <2>1, <2>2
  <2>3. CASE sid # e.sid
    <3>1. ix[sid] = index[sid] /\ index[sid] \in Partition
      BY <1>13, <2>3, InvFields DEF IndexT
    <3>2. entries[index[sid]].sid = sid /\ entries[index[sid]].state \in Held
      BY <3>1, InvFields DEF Registered
    <3>3. index[sid] # p
      BY <1>13, <2>3, <3>1, <3>2 DEF Held
    <3> QED
      BY <2>1, <3>1, <3>2, <3>3
  <2> QED
    BY <2>2, <2>3
<1> HIDE DEF es
<1>15. Links(srv, ix, Range(Tail(inbox)))
  BY <1>3, <1>5, <1>13 DEF Links
<1>16. Frames(Range(Tail(inbox)), ix, srv.committed, promise)
  <2> SUFFICES ASSUME NEW f \in Range(Tail(inbox))
               PROVE  /\ Grants(f, srv.committed) /\ Made(f, promise)
                      /\ Told(f, Range(Tail(inbox)), ix, srv.committed)
    BY DEF Frames
  <2>1. f \in Range(inbox) /\ f \in FrameT
    BY <1>3, InvFields
  <2>2. /\ Grants(f, srv.committed) /\ Made(f, promise)
        /\ Told(f, Range(inbox), index, srv.committed)
    BY <1>5, <2>1 DEF Frames
  <2>3. ASSUME Tells(f), ix[f.sid] # None PROVE f.committed <= srv.committed[ix[f.sid]]
    <3>1. f.sid \in Sid
      BY <2>1, <2>3, FrameFields
    <3>2. CASE f.sid = e.sid
      BY <1>3, <1>13, <2>2, <2>3, <3>1, <3>2 DEF Told
    <3>3. CASE f.sid # e.sid
      BY <1>13, <2>2, <2>3, <3>1, <3>3 DEF Told
    <3> QED
      BY <3>2, <3>3
  <2>4. Told(f, Range(Tail(inbox)), ix, srv.committed)
    BY <1>3, <2>2, <2>3 DEF Told
  <2> QED
    BY <2>2, <2>4
<1>17. HooksOk(hooks \cup {hook})
  BY <1>4, InvFields DEF HooksOk
<1>18. Ready(to, Tail(inbox))
  <2>1. Idle(state, ix)
    BY <1>3 DEF Idle
  <2> QED
    BY <1>2, <1>3, <1>5, <1>12, <1>13, <1>14, <1>15, <1>16, <1>17, <2>1, InvFields
    DEF Ready, Ties
<1> QED
  BY <1>1, <1>8, <1>18, FinishKeeps

\* A step that sends at most requests and takes no frame in.
LEMMA StepKeeps ==
  ASSUME ReaderInv, state' \in State, HooksOk(hooks'), NEW resolved,
         promise' \in PromisesT, Kept(promise, promise'), Settles(resolved, promise, promise'),
         Reached(resolved, promise, srv.committed),
         entries' \in EntriesT, Books(entries', srv.committed, promise),
         index' \in IndexT, Registered(entries', index'),
         Narrower(index, index'), Idle(state', index'),
         inbox' \in Seq(FrameT), Range(inbox') \in SUBSET Range(inbox), Same(srv, srv')
  PROVE  Keeps /\ Promised!Settle
<1>1. Ties(entries', srv', index', Range(inbox'), promise')
  BY InvFields, TiesKept
<1>2. srv' \in ServerT /\ srv'.committed = srv.committed
  BY DEF Same
<1>3. Keeps
  BY <1>1, <1>2, InvFields DEF Keeps
<1>4. Promised!Settle
  BY <1>2, InvFields, SettleStep
<1> QED
  BY <1>3, <1>4

\* The same when nothing becomes of the commits.
LEMMA PlainKeeps ==
  ASSUME ReaderInv, state' \in State, promise' = promise, HooksOk(hooks'),
         entries' \in EntriesT, Books(entries', srv.committed, promise),
         index' \in IndexT, Registered(entries', index'),
         Narrower(index, index'), Idle(state', index'),
         inbox' \in Seq(FrameT), Range(inbox') \in SUBSET Range(inbox), Same(srv, srv')
  PROVE  Keeps /\ Promised!Settle
<1>1. promise' \in PromisesT
  BY InvFields
<1>2. Kept(promise, promise') /\ Settles({}, promise, promise')
  BY DEF Kept, Settles
<1> QED
  BY <1>1, <1>2, NoneReached, StepKeeps

\* The same when the entries and the index stay.
LEMMA StillKeeps ==
  ASSUME ReaderInv, UNCHANGED <<state, entries, index, promise>>, HooksOk(hooks'),
         inbox' \in Seq(FrameT), Range(inbox') \in SUBSET Range(inbox), Same(srv, srv')
  PROVE  Keeps /\ Promised!Settle
<1>1. Narrower(index, index') /\ Idle(state', index')
  BY InvFields, NarrowerSelf
<1> QED
  BY <1>1, InvFields, PlainKeeps

LEMMA DropKeeps ==
  ASSUME ReaderInv, NEW states, NEW type, Handles(states, type), Drop
  PROVE  Keeps /\ Promised!Settle
<1>1. /\ inbox' = Tail(inbox) /\ hooks' = hooks /\ srv' = srv
      /\ UNCHANGED <<state, entries, index, promise>>
  BY DEF Drop, machineVars, facadeVars
<1>2. inbox' \in Seq(FrameT) /\ Range(inbox') \in SUBSET Range(inbox)
  BY <1>1, EventFields
<1>3. HooksOk(hooks') /\ Same(srv, srv')
  BY <1>1, InvFields, SameSelf
<1> QED
  BY <1>1, <1>2, <1>3, StillKeeps

LEMMA ReadKeeps ==
  ASSUME ReaderInv, HandleRead PROVE Keeps /\ Promised!Settle
<1> DEFINE p == PartitionOf(Event.sid)
           wanted == /\ p # None
                     /\ entries[p].sid = Event.sid /\ entries[p].state \notin {"stopped", "ended"}
<1>1. /\ Handles(Streaming, "read") /\ inbox' = Tail(inbox)
      /\ entries' = IF wanted
                    THEN [entries EXCEPT ![p].watermark = Highest(@, Event.offset + 1)]
                    ELSE entries
      /\ UNCHANGED <<state, index, promise>> /\ hooks' = hooks /\ srv' = srv
  BY DEF HandleRead
<1> HIDE DEF wanted
<1>2. /\ inbox' \in Seq(FrameT) /\ Range(inbox') \in SUBSET Range(inbox)
      /\ HooksOk(hooks') /\ Same(srv, srv')
      /\ Narrower(index, index') /\ Idle(state', index')
  BY <1>1, InvFields, EventFields, SameSelf, NarrowerSelf
<1>3. CASE ~wanted
  BY <1>1, <1>2, <1>3, InvFields, StillKeeps
<1>4. CASE wanted
  <2> DEFINE w == Highest(entries[p].watermark, Event.offset + 1)
             entry == [entries[p] EXCEPT !.watermark = w]
  <2>1. Event.sid \in Sid /\ Event.offset \in Nat /\ p # None
    BY <1>1, <1>4, EventFields, FrameKinds, ReaderAssumption DEF Offset, wanted
  <2>2. p \in Partition
    BY <2>1, InvFields DEF PartitionOf, IndexT
  <2>3. entries[p] \in EntryT /\ Book(entries[p], p, srv.committed, promise)
    BY <2>2, InvFields
  <2>4. w \in Nat
    BY <2>1, <2>3, EntryFields DEF Highest
  <2> HIDE DEF w
  <2>5. /\ entry \in EntryT /\ entry.sid = entries[p].sid /\ entry.state = entries[p].state
        /\ entry.pending = entries[p].pending /\ entry.committed = entries[p].committed
    BY <2>3, <2>4 DEF EntryT
  <2>6. entries' = [entries EXCEPT ![p] = entry]
    BY <1>1, <1>4 DEF w
  <2> HIDE DEF entry
  <2>7. Book(entry, p, srv.committed, promise)
    BY <2>3, <2>5 DEF Book
  <2>8. entries' \in EntriesT /\ Books(entries', srv.committed, promise)
    BY <2>2, <2>5, <2>6, <2>7, InvFields, EntryChanged
  <2>9. Registered([entries EXCEPT ![p] = entry], index)
    BY <2>2, <2>5, InvFields, KeepsPlace
  <2> QED
    BY <1>1, <1>2, <2>6, <2>8, <2>9, InvFields, PlainKeeps
<1> QED
  BY <1>3, <1>4

LEMMA InitKeeps ==
  ASSUME ReaderInv, HandleInit PROVE Keeps /\ Promised!Settle
<1>1. /\ Handles({"connecting", "reconnecting"}, "init")
      /\ state' = "ready" /\ index' = NoIndex /\ entries' = entries
      /\ srv' = ReadRequest(srv, MaxBuffer) /\ inbox' = Tail(inbox)
      /\ promise' = promise /\ hooks' = hooks
  BY DEF HandleInit, facadeVars
<1>2. /\ inbox' \in Seq(FrameT) /\ Range(inbox') \in SUBSET Range(inbox)
      /\ HooksOk(hooks') /\ state' \in State
  BY <1>1, InvFields, EventFields DEF State
<1>3. Same(srv, srv')
  BY <1>1, InvFields, ReadRequestSame, ReaderAssumption
<1>4. /\ index' \in IndexT /\ Registered(entries', index')
      /\ Narrower(index, index') /\ Idle(state', index')
  BY <1>1, NoIndexOk
<1> QED
  BY <1>1, <1>2, <1>3, <1>4, InvFields, PlainKeeps

LEMMA ReconnectingKeeps ==
  ASSUME ReaderInv, ToReconnecting, inbox' \in Seq(FrameT),
         Range(inbox') \in SUBSET Range(inbox)
  PROVE  Keeps /\ Promised!Settle
<1>1. /\ state' = "reconnecting" /\ index' = NoIndex
      /\ UNCHANGED <<entries, hooks, promise, srv>>
  BY DEF ToReconnecting
<1>2. HooksOk(hooks') /\ state' \in State /\ Same(srv, srv')
  BY <1>1, InvFields, SameSelf DEF State
<1>3. /\ index' \in IndexT /\ Registered(entries', index')
      /\ Narrower(index, index') /\ Idle(state', index')
  BY <1>1, NoIndexOk
<1> QED
  BY <1>1, <1>2, <1>3, InvFields, PlainKeeps

LEMMA DisconnectedKeeps ==
  ASSUME ReaderInv, HandleDisconnected PROVE Keeps /\ Promised!Settle
<1>1. inbox # << >> /\ Handles(State \ Terminal, "disconnected")
  BY DEF HandleDisconnected, Handles
<1>2. Tail(inbox) \in Seq(FrameT) /\ Range(Tail(inbox)) \in SUBSET Range(inbox)
  BY <1>1, EventFields
<1>3. \/ \E terminal \in Terminal : Terminate(terminal, {})
      \/ ToReconnecting /\ inbox' = Tail(inbox)
  BY DEF HandleDisconnected, Terminal
<1>4. CASE \E terminal \in Terminal : Terminate(terminal, {})
  BY <1>4, NoneReached, TerminateKeeps
<1>5. CASE ToReconnecting /\ inbox' = Tail(inbox)
  BY <1>2, <1>5, ReconnectingKeeps
<1> QED
  BY <1>3, <1>4, <1>5

\* A commit that is recorded.
Recorded(old, q) == [old EXCEPT !.pending = @ \cup {q}, !.claimed = @ \cup q.wire]

LEMMA RecordedBook ==
  ASSUME NEW old \in EntryT, NEW p, NEW com, NEW pr, Book(old, p, com, pr),
         NEW q \in PendingT,
         pr[q.waiter].status # "none", pr[q.waiter].partition = p,
         pr[q.waiter].target = q.target
  PROVE  /\ Recorded(old, q) \in EntryT /\ Book(Recorded(old, q), p, com, pr)
         /\ Recorded(old, q).sid = old.sid /\ Recorded(old, q).state = old.state
<1> DEFINE entry == Recorded(old, q)
<1>1. q.wire \subseteq Nat /\ old.pending \subseteq PendingT /\ old.claimed \subseteq Nat
  BY EntryFields DEF PendingT
<1>2. /\ entry.sid = old.sid /\ entry.state = old.state /\ entry.committed = old.committed
      /\ entry.pending = old.pending \cup {q} /\ entry.claimed = old.claimed \cup q.wire
  BY DEF EntryT, Recorded
<1>3. entry \in EntryT
  BY <1>1, <1>2 DEF EntryT, Recorded
<1> HIDE DEF entry
<1>4. Book(entry, p, com, pr)
  BY <1>2 DEF Book
<1> QED
  BY <1>2, <1>3, <1>4 DEF entry

LEMMA CommitKeeps ==
  ASSUME ReaderInv, HandleCommit PROVE Keeps /\ Promised!Settle
<1> DEFINE e == Event
           p == e.partition
           old == entries[p]
           target == EndOf(e.ranges)
           wire == Unclaimed(old, e.ranges)
           owed == From(wire, Floor(old))
           q == [waiter |-> e.waiter, target |-> target, wire |-> wire]
           reached == old.state # "absent" /\ target <= old.committed
           lost == old.state = "absent" \/ (target > old.committed /\ old.state = "stopped")
           late == state = "ready" /\ ~Served(p)
<1>1. /\ Handles({"connecting", "reconnecting", "ready"}, "commit")
      /\ inbox' = Tail(inbox) /\ UNCHANGED <<state, index>> /\ hooks' = hooks
  BY DEF HandleCommit
<1>2. \/ promise' = Settled({e.waiter}, {}) /\ reached /\ UNCHANGED <<entries, srv>>
      \/ promise' = Settled({}, {e.waiter}) /\ UNCHANGED <<entries, srv>>
      \/ /\ entries' = [entries EXCEPT ![p].pending = @ \cup {q}, ![p].claimed = @ \cup wire]
         /\ srv' = IF Sendable(p) /\ owed # {} THEN Commits(srv, old.sid, owed) ELSE srv
         /\ promise' = [promise EXCEPT ![e.waiter].late = late]
  BY DEF HandleCommit
<1>3. /\ e \in FrameT /\ e \in Range(inbox) /\ e.type = "commit"
      /\ inbox' \in Seq(FrameT) /\ Range(inbox') \in SUBSET Range(inbox)
      /\ HooksOk(hooks') /\ state' \in State /\ index' \in IndexT
      /\ Narrower(index, index') /\ Idle(state', index')
  BY <1>1, EventFields, InvFields, NarrowerSelf
<1>4. p \in Partition /\ e.waiter \in Waiter /\ e.ranges \in SUBSET Offset
  BY <1>3, FrameFields
<1>5. /\ promise[e.waiter].status # "none" /\ promise[e.waiter].partition = p
      /\ promise[e.waiter].target = target
  BY <1>3, InvFields DEF Ties, Frames, Made
<1>6. /\ old \in EntryT /\ Book(old, p, srv.committed, promise)
      /\ srv.committed[p] \in Nat /\ old.committed \in Nat /\ target \in Nat
  BY <1>4, InvFields, EntryFields, EndOfNat
<1>7. wire \in SUBSET Nat /\ owed \in SUBSET Nat
  BY <1>4, ReaderAssumption DEF Unclaimed, From, Offset
<1> HIDE DEF e, target, wire, owed, late
<1>8. CASE promise' = Settled({e.waiter}, {}) /\ reached /\ UNCHANGED <<entries, srv>>
  <2>1. target <= srv.committed[p]
    BY <1>6, <1>8 DEF Book
  <2>2. Reached({e.waiter}, promise, srv.committed)
    BY <1>5, <2>1 DEF Reached
  <2>3. /\ promise' \in PromisesT /\ Kept(promise, promise')
        /\ Settles({e.waiter}, promise, promise')
    BY <1>8, InvFields, SettledKeeps
  <2>4. Registered(entries', index') /\ Same(srv, srv')
    BY <1>1, <1>8, InvFields, SameSelf
  <2> QED
    BY <1>3, <1>8, <2>2, <2>3, <2>4, InvFields, StepKeeps
<1>9. CASE promise' = Settled({}, {e.waiter}) /\ UNCHANGED <<entries, srv>>
  <2>1. /\ promise' \in PromisesT /\ Kept(promise, promise')
        /\ Settles({}, promise, promise')
    BY <1>9, InvFields, SettledKeeps
  <2>2. Registered(entries', index') /\ Same(srv, srv')
    BY <1>1, <1>9, InvFields, SameSelf
  <2> QED
    BY <1>3, <1>9, <2>1, <2>2, InvFields, NoneReached, StepKeeps
<1>10. CASE /\ entries' = [entries EXCEPT ![p].pending = @ \cup {q}, ![p].claimed = @ \cup wire]
            /\ srv' = IF Sendable(p) /\ owed # {} THEN Commits(srv, old.sid, owed) ELSE srv
            /\ promise' = [promise EXCEPT ![e.waiter].late = late]
  <2> DEFINE entry == Recorded(old, q)
  <2>1. q \in PendingT /\ q.waiter = e.waiter /\ q.target = target /\ q.wire = wire
    BY <1>4, <1>6, <1>7 DEF PendingT
  <2>2. entries' = [entries EXCEPT ![p] = entry]
    BY <1>4, <1>10, <2>1, InvFields DEF EntriesT, Recorded
  <2> HIDE DEF q
  <2>3. /\ entry \in EntryT /\ Book(entry, p, srv.committed, promise)
        /\ entry.sid = old.sid /\ entry.state = old.state
    BY <1>5, <1>6, <2>1, RecordedBook
  <2> HIDE DEF entry
  <2>4. entries' \in EntriesT /\ Books(entries', srv.committed, promise)
    BY <1>4, <2>2, <2>3, InvFields, EntryChanged
  <2>5. Registered([entries EXCEPT ![p] = entry], index)
    BY <1>4, <2>3, InvFields, KeepsPlace
  <2>6. Same(srv, srv')
    <3>1. CASE Sendable(p) /\ owed # {}
      <4>1. old.sid \in Sid
        BY <1>6, <3>1 DEF Sendable, Served, Routed, Book
      <4> QED
        BY <1>7, <1>10, <3>1, <4>1, InvFields, CommitsSame
    <3>2. CASE ~(Sendable(p) /\ owed # {})
      BY <1>10, <3>2, InvFields, SameSelf
    <3> QED
      BY <3>1, <3>2
  <2>7. late \in BOOLEAN
    BY DEF late
  <2>8. /\ promise' \in PromisesT /\ Kept(promise, promise')
        /\ Settles({}, promise, promise')
    <3>1. promise[e.waiter] \in PromiseT
      BY <1>4, InvFields DEF PromisesT
    <3>2. promise' = [promise EXCEPT ![e.waiter] = [promise[e.waiter] EXCEPT !.late = late]]
      BY <1>10
    <3>3. [promise[e.waiter] EXCEPT !.late = late] \in PromiseT
      BY <2>7, <3>1 DEF PromiseT
    <3>4. /\ [promise[e.waiter] EXCEPT !.late = late].status = promise[e.waiter].status
          /\ [promise[e.waiter] EXCEPT !.late = late].target = promise[e.waiter].target
          /\ [promise[e.waiter] EXCEPT !.late = late].partition = promise[e.waiter].partition
      BY <3>1 DEF PromiseT
    <3> QED
      BY <3>2, <3>3, <3>4, InvFields DEF PromisesT, Kept, Settles
  <2> QED
    BY <1>1, <1>3, <2>2, <2>4, <2>5, <2>6, <2>8, NoneReached, StepKeeps
<1> QED
  BY <1>2, <1>8, <1>9, <1>10

\* Every frame that is handled.
LEMMA HandleKeeps ==
  ASSUME ReaderInv, Handle PROVE Keeps /\ Promised!Settle
<1>1. CASE DropFrame
  BY <1>1, DropKeeps DEF DropFrame
<1>2. CASE Ignored
  BY <1>2, DropKeeps DEF Ignored
<1> QED
  BY <1>1, <1>2, InitKeeps, DisconnectedKeeps, StartKeeps, ForcedStopKeeps, GracefulStopKeeps,
     CommitResponseKeeps, ReadKeeps, EndKeeps, CommitKeeps
  DEF Handle

-----------------------------------------------------------------------------
(* Hooks and timers                                                         *)

\* The answer to a stop.
LEMMA AnswerSame ==
  ASSUME ReaderInv, NEW p \in Partition PROVE Same(srv, Answer(srv, p))
<1>1. CASE Routed(p)
  <2>1. entries[p].sid \in Sid
    BY <1>1, InvFields DEF Routed, Book
  <2> QED
    BY <1>1, <2>1, InvFields, StopResponseSame DEF Answer
<1>2. CASE ~Routed(p)
  BY <1>2, InvFields, SameSelf DEF Answer
<1> QED
  BY <1>1, <1>2

\* The grant is answered.
Answered(e, commitOffset) ==
  [e EXCEPT !.ackPending = FALSE,
            !.requested = IF commitOffset > e.committed THEN commitOffset ELSE @]

LEMMA AnsweredBook ==
  ASSUME NEW e \in EntryT, NEW p, NEW com, NEW pr, Book(e, p, com, pr), NEW commitOffset \in Nat
  PROVE  /\ Answered(e, commitOffset) \in EntryT /\ Book(Answered(e, commitOffset), p, com, pr)
         /\ Answered(e, commitOffset).sid = e.sid /\ Answered(e, commitOffset).state = e.state
<1> DEFINE a == Answered(e, commitOffset)
<1>1. /\ a.sid = e.sid /\ a.state = e.state /\ a.committed = e.committed
      /\ a.pending = e.pending
  BY DEF EntryT, Answered
<1>2. a \in EntryT
  <2>1. CASE commitOffset > e.committed
    BY <2>1 DEF EntryT, Answered
  <2>2. CASE ~(commitOffset > e.committed)
    BY <2>2 DEF EntryT, Answered
  <2> QED
    BY <2>1, <2>2
<1> HIDE DEF a
<1>3. Book(a, p, com, pr)
  BY <1>1 DEF Book
<1> QED
  BY <1>1, <1>2, <1>3 DEF a

LEMMA StartHookKeeps ==
  ASSUME ReaderInv, StartHookReturns PROVE Keeps /\ Promised!Settle
<1>1. PICK h \in hooks, commitOffset \in Override :
        LET p == h.partition
            old == entries[p]
            fresh == /\ state \in Streaming
                     /\ old.state = "active" /\ old.grant = h.grant /\ old.ackPending
                     /\ Routed(p)
            entry == Answered(old, commitOffset)
            sent == CommitsAll(StartResponse(srv, h.sid, commitOffset), old.sid, old.pending,
                               Floor(entry))
        IN
        /\ h.type = "start"
        /\ hooks' = hooks \ {h}
        /\ IF fresh
           THEN /\ entries' = [entries EXCEPT ![p] = entry]
                /\ srv' = IF entry.requested # 0 THEN StatusRequest(sent, old.sid) ELSE sent
           ELSE UNCHANGED <<entries, srv>>
        /\ UNCHANGED <<state, index, inbox, promise>>
  BY ZenonT(40) DEF StartHookReturns, facadeVars, Answered
<1> DEFINE p == h.partition
           old == entries[p]
           fresh == /\ state \in Streaming
                    /\ old.state = "active" /\ old.grant = h.grant /\ old.ackPending
                    /\ Routed(p)
           entry == Answered(old, commitOffset)
           started == StartResponse(srv, h.sid, commitOffset)
           sent == CommitsAll(started, old.sid, old.pending, Floor(entry))
<1>2. /\ h.type = "start" /\ hooks' = hooks \ {h}
      /\ UNCHANGED <<state, index, inbox, promise>>
  BY <1>1
<1>3. /\ HooksOk(hooks') /\ p \in Partition /\ h.sid \in Sid /\ commitOffset \in Nat
  BY <1>2, InvFields, ReaderAssumption DEF HooksOk
<1>4. /\ inbox' \in Seq(FrameT) /\ Range(inbox') \in SUBSET Range(inbox)
      /\ Narrower(index, index') /\ Idle(state', index')
  BY <1>2, InvFields, NarrowerSelf
<1>5. CASE ~fresh
  <2>1. UNCHANGED <<entries, srv>>
    BY <1>1, <1>5
  <2> QED
    BY <1>2, <1>3, <1>4, <2>1, InvFields, SameSelf, StillKeeps
<1>6. CASE fresh
  <2>1. /\ entries' = [entries EXCEPT ![p] = entry]
        /\ srv' = IF entry.requested # 0 THEN StatusRequest(sent, old.sid) ELSE sent
    BY <1>1, <1>6
  <2>2. old \in EntryT /\ Book(old, p, srv.committed, promise)
    BY <1>3, InvFields
  <2>3. old.sid \in Sid /\ old.pending \in SUBSET PendingT
    BY <1>6, <2>2, EntryFields DEF Book
  <2>4. srv.conn # "none" => srv.sess[old.sid].partition # None
    <3>1. index[old.sid] = p /\ p # None
      BY <1>3, <1>6, ReaderAssumption DEF Routed
    <3>2. Links(srv, index, Range(inbox))
      BY <1>6, InvFields DEF Ties
    <3> QED
      BY <2>3, <3>1, <3>2 DEF Links
  <2>5. /\ entry \in EntryT /\ Book(entry, p, srv.committed, promise)
        /\ entry.sid = old.sid /\ entry.state = old.state
    BY <1>3, <2>2, AnsweredBook
  <2> HIDE DEF entry, old
  <2>6. Same(srv, started)
    BY <1>3, InvFields, StartResponseSame
  <2>7. Same(started, sent)
    <3>1. started \in ServerT
      BY <2>6 DEF Same
    <3> DEFINE floor == Floor(entry)
    <3>2. sent = CommitsAll(started, old.sid, old.pending, floor)
      OBVIOUS
    <3> HIDE DEF sent, started, floor
    <3> QED
      BY <2>3, <3>1, <3>2, CommitsAllSame
  <2>8. Same(srv, sent)
    BY <2>6, <2>7, SameTrans
  <2> HIDE DEF sent, started
  <2>9. Same(srv, srv')
    <3>1. sent \in ServerT /\ (sent.conn # "none" => sent.sess[old.sid].partition # None)
      BY <2>3, <2>4, <2>8 DEF Same
    <3>2. Same(sent, StatusRequest(sent, old.sid))
      BY <2>3, <3>1, StatusRequestSame
    <3>3. Same(srv, StatusRequest(sent, old.sid))
      BY <2>8, <3>2, SameTrans
    <3> QED
      BY <2>1, <2>8, <3>3
  <2>10. entries' \in EntriesT /\ Books(entries', srv.committed, promise)
    BY <1>3, <2>1, <2>5, InvFields, EntryChanged
  <2>11. Registered([entries EXCEPT ![p] = entry], index)
    BY <1>3, <2>5, InvFields, KeepsPlace DEF old
  <2> QED
    BY <1>2, <1>3, <1>4, <2>1, <2>9, <2>10, <2>11, InvFields, PlainKeeps
<1> QED
  BY <1>5, <1>6

\* A stop is through: its entry is stopped and its session answered.
LEMMA StoppedReady ==
  ASSUME ReaderInv, NEW p \in Partition, entries[p].state # "absent", NEW e \in EntryT,
         Book(e, p, srv.committed, promise), e.state # "absent",
         NEW to, to.entries = [entries EXCEPT ![p] = MarkedStopped(e)],
         \/ to.index = Unrouted(entries[p].sid)
         \/ to.index = index /\ ~Routed(p),
         to.srv = Answer(srv, p), HooksOk(to.hooks)
  PROVE  Ready(to, inbox)
<1>1. MarkedStopped(e) \in EntryT /\ Book(MarkedStopped(e), p, srv.committed, promise)
  BY StoppedBook
<1>2. to.entries \in EntriesT /\ Books(to.entries, srv.committed, promise)
  BY <1>1, InvFields, EntryChanged
<1>3. Registered(to.entries, to.index)
  <2>1. entries \in EntriesT /\ index \in IndexT /\ Registered(entries, index)
    BY InvFields
  <2>2. CASE to.index = Unrouted(entries[p].sid)
    BY <2>1, <2>2, LosesPlace
  <2>3. CASE to.index = index /\ ~Routed(p)
    <3>1. index[entries[p].sid] # p
      BY <2>3 DEF Routed
    <3> QED
      BY <2>1, <2>3, <3>1, HasNoPlace
  <2> QED
    BY <2>2, <2>3
<1>4. to.index \in IndexT /\ Narrower(index, to.index)
  BY InvFields, UnroutedNarrow, NarrowerSelf
<1>5. Same(srv, to.srv)
  BY AnswerSame
<1> QED
  BY <1>2, <1>3, <1>4, <1>5, InvFields, NarrowReady

LEMMA StopHookKeeps ==
  ASSUME ReaderInv, StopHookReturns PROVE Keeps /\ Promised!Settle
<1>1. PICK h \in hooks :
        LET p == h.partition
            old == entries[p]
            pinned == state \in Streaming /\ old.grant = h.grant /\ old.state = "stopping-graceful"
            drained == pinned /\ old.pending = {} /\ old.requested = 0
            done == [Here EXCEPT !.hooks = @ \ {h}]
            ready == [done EXCEPT !.entries[p].stopReady = TRUE]
        IN Finish(CASE ~pinned -> done
                    [] pinned /\ ~drained -> ready
                    [] OTHER ->
                         [ready EXCEPT !.entries[p] = MarkedStopped(@),
                                       !.index = Unrouted(old.sid),
                                       !.timers = @ \ TimersOf({"partition_commit_status",
                                                                "partition_graceful_timeout"}, p),
                                       !.srv = Answer(@, p)],
                  {}, {}, inbox)
  BY DEF StopHookReturns
<1> DEFINE p == h.partition
           old == entries[p]
           pinned == state \in Streaming /\ old.grant = h.grant /\ old.state = "stopping-graceful"
           drained == pinned /\ old.pending = {} /\ old.requested = 0
           done == [Here EXCEPT !.hooks = @ \ {h}]
           ready == [done EXCEPT !.entries[p].stopReady = TRUE]
           stopped == [ready EXCEPT !.entries[p] = MarkedStopped(@),
                                    !.index = Unrouted(old.sid),
                                    !.timers = @ \ TimersOf({"partition_commit_status",
                                                             "partition_graceful_timeout"}, p),
                                    !.srv = Answer(@, p)]
           entry == [old EXCEPT !.stopReady = TRUE]
<1>2. p \in Partition /\ HooksOk(hooks \ {h})
  BY InvFields DEF HooksOk
<1>3. old \in EntryT /\ Book(old, p, srv.committed, promise)
  BY <1>2, InvFields
<1>4. /\ done.entries = entries /\ done.index = index /\ done.hooks = hooks \ {h}
      /\ done.srv = srv
  BY DEF Here
<1>5. /\ ready.entries = [entries EXCEPT ![p] = entry] /\ ready.index = index
      /\ ready.hooks = hooks \ {h} /\ ready.srv = srv
  BY <1>4 DEF Here
<1>6. /\ stopped.entries = [ready.entries EXCEPT ![p] = MarkedStopped(@)]
      /\ stopped.index = Unrouted(old.sid)
      /\ stopped.hooks = hooks \ {h} /\ stopped.srv = Answer(srv, p)
  BY <1>5 DEF Here
<1> HIDE DEF done, ready, stopped
<1>7. /\ entry \in EntryT /\ entry.sid = old.sid /\ entry.state = old.state
      /\ entry.pending = old.pending /\ entry.committed = old.committed
  BY <1>3 DEF EntryT
<1> HIDE DEF entry
<1>8. Book(entry, p, srv.committed, promise)
  BY <1>3, <1>7 DEF Book
<1>9. Ready(done, inbox)
  BY <1>2, <1>4, InvFields, NarrowerSelf, SameSelf, NarrowReady
<1>10. Ready(ready, inbox)
  <2>1. ready.entries \in EntriesT /\ Books(ready.entries, srv.committed, promise)
    BY <1>2, <1>5, <1>7, <1>8, InvFields, EntryChanged
  <2>2. Registered([entries EXCEPT ![p] = entry], index)
    BY <1>2, <1>7, InvFields, KeepsPlace
  <2>3. Registered(ready.entries, ready.index)
    BY <1>5, <2>2
  <2> QED
    BY <1>2, <1>5, <2>1, <2>3, InvFields, NarrowerSelf, SameSelf, NarrowReady
<1>11. ASSUME pinned PROVE Ready(stopped, inbox)
  <2>1. stopped.entries = [entries EXCEPT ![p] = MarkedStopped(entry)]
    BY <1>2, <1>5, <1>6, InvFields DEF EntriesT
  <2>2. old.state # "absent" /\ entry.state # "absent"
    BY <1>7, <1>11
  <2>3. /\ stopped.index = Unrouted(entries[p].sid) /\ stopped.srv = Answer(srv, p)
        /\ HooksOk(stopped.hooks)
    BY <1>2, <1>6
  <2> DEFINE to == stopped
  <2> HIDE DEF to
  <2>4. /\ to.entries = [entries EXCEPT ![p] = MarkedStopped(entry)]
        /\ to.index = Unrouted(entries[p].sid) /\ to.srv = Answer(srv, p) /\ HooksOk(to.hooks)
    BY <2>1, <2>3 DEF to
  <2>5. Ready(to, inbox)
    BY <1>2, <1>7, <1>8, <2>2, <2>4, StoppedReady
  <2> QED
    BY <2>5 DEF to
<1>12. CASE ~pinned
  <2>1. Finish(done, {}, {}, inbox)
    BY <1>1, <1>12 DEF done
  <2> QED
    BY <1>9, <2>1, NoneReached, FinishKeeps
<1>13. CASE pinned /\ ~drained
  <2>1. Finish(ready, {}, {}, inbox)
    BY <1>1, <1>13 DEF ready, done
  <2> QED
    BY <1>10, <2>1, NoneReached, FinishKeeps
<1>14. CASE pinned /\ drained
  <2>1. Finish(stopped, {}, {}, inbox)
    BY <1>1, <1>14 DEF stopped, ready, done
  <2> QED
    BY <1>11, <1>14, <2>1, NoneReached, FinishKeeps
<1> QED
  BY <1>12, <1>13, <1>14

LEMMA PartitionGracefulTimeoutKeeps ==
  ASSUME ReaderInv, NEW p \in Partition, PartitionGracefulTimeout(p)
  PROVE  Keeps /\ Promised!Settle
<1> DEFINE old == entries[p]
           stopping == old.state = "stopping-graceful"
           fired == [Here EXCEPT !.timers = @ \ TimersOf({"partition_graceful_timeout"}, p)]
           armed == IF old.pending = {} THEN {} ELSE TimersOf({"partition_reassign_gc"}, p)
           forced == [fired EXCEPT
                        !.entries[p] = MarkedStopped(@),
                        !.timers = (@ \ TimersOf({"partition_commit_status"}, p)) \cup armed,
                        !.index = IF Routed(p) THEN Unrouted(old.sid) ELSE @,
                        !.srv = Answer(@, p)]
<1>1. Finish(IF stopping THEN forced ELSE fired, {}, {}, inbox)
  BY DEF PartitionGracefulTimeout
<1>2. /\ fired.entries = entries /\ fired.index = index /\ fired.hooks = hooks
      /\ fired.srv = srv
  BY DEF Here
<1>3. /\ forced.entries = [entries EXCEPT ![p] = MarkedStopped(@)]
      /\ forced.index = IF Routed(p) THEN Unrouted(old.sid) ELSE index
      /\ forced.hooks = hooks /\ forced.srv = Answer(srv, p)
  BY <1>2 DEF Here
<1> HIDE DEF fired, forced
<1>4. CASE ~stopping
  <2>1. Ready(fired, inbox)
    BY <1>2, InvFields, NarrowerSelf, SameSelf, NarrowReady
  <2>2. Finish(fired, {}, {}, inbox)
    BY <1>1, <1>4
  <2> QED
    BY <2>1, <2>2, NoneReached, FinishKeeps
<1>5. CASE stopping
  <2>1. /\ entries[p] \in EntryT /\ Book(entries[p], p, srv.committed, promise)
        /\ HooksOk(hooks) /\ entries[p].state # "absent"
    BY <1>5, InvFields
  <2>2. forced.entries = [entries EXCEPT ![p] = MarkedStopped(entries[p])]
    BY <1>3
  <2>3. \/ forced.index = Unrouted(entries[p].sid)
        \/ forced.index = index /\ ~Routed(p)
    BY <1>3
  <2>4. Ready(forced, inbox)
    BY <1>3, <2>1, <2>2, <2>3, StoppedReady
  <2>5. Finish(forced, {}, {}, inbox)
    BY <1>1, <1>5
  <2> QED
    BY <2>4, <2>5, NoneReached, FinishKeeps
<1> QED
  BY <1>4, <1>5

LEMMA PartitionReassignGcKeeps ==
  ASSUME ReaderInv, NEW p \in Partition, PartitionReassignGc(p)
  PROVE  Keeps /\ Promised!Settle
<1> DEFINE old == entries[p]
           fired == [Here EXCEPT !.timers = @ \ TimersOf({"partition_reassign_gc"}, p)]
           served == Routed(p) /\ ~old.ackPending
           emptied == [old EXCEPT !.pending = {}, !.claimed = {}]
           reaped == IF Routed(p) THEN emptied ELSE Absent
           gone == [fired EXCEPT !.entries[p] = reaped]
<1>1. IF old.state = "absent" \/ served
      THEN Finish(fired, {}, {}, inbox)
      ELSE Finish(gone, {}, Waiters(old.pending), inbox)
  BY DEF PartitionReassignGc
<1>2. /\ fired.entries = entries /\ fired.index = index /\ fired.hooks = hooks
      /\ fired.srv = srv
  BY DEF Here
<1>3. /\ gone.entries = [entries EXCEPT ![p] = reaped] /\ gone.index = index
      /\ gone.hooks = hooks /\ gone.srv = srv
  BY <1>2 DEF Here
<1> HIDE DEF fired, gone
<1>4. CASE old.state = "absent" \/ served
  <2>1. Ready(fired, inbox)
    BY <1>2, InvFields, NarrowerSelf, SameSelf, NarrowReady
  <2>2. Finish(fired, {}, {}, inbox)
    BY <1>1, <1>4
  <2> QED
    BY <2>1, <2>2, NoneReached, FinishKeeps
<1>5. CASE ~(old.state = "absent" \/ served)
  <2>1. old \in EntryT /\ Book(old, p, srv.committed, promise) /\ srv.committed[p] \in Nat
    BY InvFields
  <2>2. /\ reaped \in EntryT /\ Book(reaped, p, srv.committed, promise)
        /\ Registered([entries EXCEPT ![p] = reaped], index)
    <3>1. CASE Routed(p)
      <4>1. /\ emptied \in EntryT /\ emptied.sid = old.sid /\ emptied.state = old.state
            /\ emptied.pending = {} /\ emptied.committed = old.committed
        BY <2>1 DEF EntryT
      <4> HIDE DEF emptied
      <4>2. Book(emptied, p, srv.committed, promise)
        BY <2>1, <4>1 DEF Book
      <4>3. Registered([entries EXCEPT ![p] = emptied], index)
        BY <4>1, InvFields, KeepsPlace
      <4> QED
        BY <3>1, <4>1, <4>2, <4>3
    <3>2. CASE ~Routed(p)
      <4>1. /\ Absent \in EntryT /\ Absent.committed = 0 /\ Absent.state = "absent"
            /\ Absent.pending = {}
        BY DEF Absent, EntryT
      <4> HIDE DEF Absent
      <4>2. Book(Absent, p, srv.committed, promise)
        BY <2>1, <4>1 DEF Book
      <4>3. index[old.sid] # p
        BY <1>5, <3>2 DEF Routed
      <4>4. Registered([entries EXCEPT ![p] = Absent], index)
        BY <4>3, InvFields, HasNoPlace
      <4> QED
        BY <3>2, <4>1, <4>2, <4>4
    <3> QED
      BY <3>1, <3>2
  <2> HIDE DEF reaped
  <2>3. /\ [entries EXCEPT ![p] = reaped] \in EntriesT
        /\ Books([entries EXCEPT ![p] = reaped], srv.committed, promise)
    BY <2>2, InvFields, EntryChanged
  <2>4. Ready(gone, inbox)
    BY <1>3, <2>2, <2>3, InvFields, NarrowerSelf, SameSelf, NarrowReady
  <2>5. Finish(gone, {}, Waiters(old.pending), inbox)
    BY <1>1, <1>5
  <2> QED
    BY <2>4, <2>5, NoneReached, FinishKeeps
<1> QED
  BY <1>4, <1>5

LEMMA PartitionCommitStatusKeeps ==
  ASSUME ReaderInv, NEW p \in Partition, PartitionCommitStatus(p)
  PROVE  Keeps /\ Promised!Settle
<1>1. /\ state \in Streaming
      /\ srv' = IF entries[p].requested # 0 /\ Routed(p)
                THEN StatusRequest(srv, entries[p].sid) ELSE srv
      /\ inbox' = inbox /\ hooks' = hooks
      /\ UNCHANGED <<state, entries, index, promise>>
  BY DEF PartitionCommitStatus, facadeVars
<1>2. CASE Routed(p)
  <2>1. entries[p].sid \in Sid /\ index[entries[p].sid] = p /\ p # None
    BY <1>2, InvFields, ReaderAssumption DEF Routed, Book
  <2>2. Links(srv, index, Range(inbox))
    BY <1>1, InvFields DEF Ties
  <2>3. srv.conn # "none" => srv.sess[entries[p].sid].partition # None
    BY <2>1, <2>2 DEF Links
  <2>4. Same(srv, StatusRequest(srv, entries[p].sid)) /\ Same(srv, srv)
    BY <2>1, <2>3, InvFields, StatusRequestSame, SameSelf
  <2>5. Same(srv, srv')
    BY <1>1, <2>4
  <2> QED
    BY <1>1, <2>5, InvFields, StillKeeps
<1>3. CASE ~Routed(p)
  <2>1. Same(srv, srv')
    BY <1>1, <1>3, InvFields, SameSelf
  <2> QED
    BY <1>1, <2>1, InvFields, StillKeeps
<1> QED
  BY <1>2, <1>3

\* The timers of the reader.
LEMMA TimersKeep ==
  ASSUME ReaderInv, StartTimeout \/ RetryBackoff \/ RecoveryWindow \/ GracefulTimeout
  PROVE  Keeps /\ Promised!Settle
<1>1. CASE StartTimeout
  BY <1>1, InvFields, ReconnectingKeeps DEF StartTimeout
<1>2. CASE RecoveryWindow
  <2>1. "errored" \in Terminal /\ Terminate("errored", {})
    BY <1>2 DEF RecoveryWindow, Terminal
  <2> QED
    BY <2>1, NoneReached, TerminateKeeps
<1>3. CASE GracefulTimeout
  <2>1. "closed" \in Terminal /\ Terminate("closed", {})
    BY <1>3 DEF GracefulTimeout, Terminal
  <2> QED
    BY <2>1, NoneReached, TerminateKeeps
<1>4. CASE RetryBackoff
  <2>1. /\ state' = "connecting" /\ srv' = Opened(srv) /\ inbox' = << >>
        /\ entries' = entries /\ index' = index /\ hooks' = hooks /\ promise' = promise
    BY <1>4 DEF RetryBackoff, facadeVars
  <2>2. Granted(srv)
    BY InvFields DEF Ties
  <2>3. srv' \in ServerT /\ Granted(srv') /\ srv'.committed = srv.committed
    BY <2>1, <2>2, InvFields, BrokenKeeps
  <2>4. inbox' \in Seq(FrameT) /\ Range(inbox') = {}
    BY <2>1, InboxEmpty
  <2>5. state \notin Streaming
    BY <1>4 DEF ReaderInv, BackoffInv, RetryBackoff, Fires
  <2>6. /\ Links(srv', index', {}) /\ Frames({}, index', srv'.committed, promise')
        /\ Idle(state', index')
    BY <2>1, <2>5, InvFields DEF Links, Frames, Idle
  <2>7. Books(entries', srv'.committed, promise')
    BY <2>1, <2>3, InvFields
  <2>8. Ties(entries', srv', index', Range(inbox'), promise')
    BY <2>3, <2>4, <2>6, <2>7 DEF Ties
  <2>9. Keeps
    BY <2>1, <2>3, <2>4, <2>6, <2>8, InvFields DEF Keeps, State
  <2> QED
    BY <2>1, <2>3, <2>9, InvFields, QuietStep
<1> QED
  BY <1>1, <1>2, <1>3, <1>4

-----------------------------------------------------------------------------
(* The application and the public object                                    *)

LEMMA FacadeKeeps ==
  ASSUME ReaderInv, Read \/ Close \/ Destroy \/ MarkClosed
  PROVE  Keeps /\ Promised!Settle
<1>1. CASE Read
  <2>1. /\ srv' = IF state = "ready" THEN ReadRequest(srv, 1) ELSE srv
        /\ inbox' = inbox /\ hooks' = hooks /\ UNCHANGED <<state, entries, index, promise>>
    BY <1>1 DEF Read, machineVars
  <2>2. Same(srv, srv')
    BY <2>1, InvFields, SameSelf, ReadRequestSame
  <2> QED
    BY <2>1, <2>2, InvFields, StillKeeps
<1>2. CASE UNCHANGED <<machineVars, inbox, srv, promise>>
  <2>1. /\ inbox' = inbox /\ hooks' = hooks /\ srv' = srv
        /\ UNCHANGED <<state, entries, index, promise>>
    BY <1>2 DEF machineVars
  <2> QED
    BY <2>1, InvFields, SameSelf, StillKeeps
<1>3. CASE Terminate("closed", {})
  <2>1. "closed" \in Terminal
    BY DEF Terminal
  <2> QED
    BY <1>3, <2>1, NoneReached, TerminateKeeps
<1>4. CASE /\ state' = "closing" /\ state \notin Terminal
           /\ UNCHANGED <<entries, index, grantSeq, hooks, inbox, srv, promise>>
  <2>1. state' \in State /\ Same(srv, srv')
    BY <1>4, InvFields, SameSelf DEF State
  <2>2. Narrower(index, index') /\ Idle(state', index')
    BY <1>4, NarrowerSelf DEF Idle, Streaming
  <2> QED
    BY <1>4, <2>1, <2>2, InvFields, PlainKeeps
<1>5. CASE Close
  BY <1>2, <1>3, <1>4, <1>5 DEF Close
<1>6. CASE Destroy
  BY <1>2, <1>3, <1>6 DEF Destroy
<1>7. CASE MarkClosed
  <2>1. /\ promise' = Settled({}, Waiter) /\ inbox' = inbox /\ hooks' = hooks /\ srv' = srv
        /\ UNCHANGED <<state, entries, index>>
    BY <1>7 DEF MarkClosed, machineVars
  <2>2. /\ promise' \in PromisesT /\ Kept(promise, promise')
        /\ Settles({}, promise, promise')
    BY <2>1, InvFields, SettledKeeps
  <2>3. /\ Narrower(index, index') /\ Idle(state', index') /\ Same(srv, srv')
        /\ Registered(entries', index')
    BY <2>1, InvFields, NarrowerSelf, SameSelf
  <2> QED
    BY <2>1, <2>2, <2>3, InvFields, NoneReached, StepKeeps
<1> QED
  BY <1>1, <1>5, <1>6, <1>7

-----------------------------------------------------------------------------
(* The server, and commit()                                                *)

\* A frame joins those under way.
LEMMA FrameAdded ==
  ASSUME NEW frames \in SUBSET FrameT, NEW f \in FrameT, NEW ix, NEW com, NEW pr,
         Frames(frames, ix, com, pr), Grants(f, com), Made(f, pr),
         Told(f, frames \cup {f}, ix, com),
         f.type = "start" => \A g \in frames : Tells(g) => g.sid # f.sid
  PROVE  Frames(frames \cup {f}, ix, com, pr)
<1>1. ASSUME NEW g \in frames PROVE Told(g, frames \cup {f}, ix, com)
  BY DEF Frames, Told
<1> QED
  BY <1>1 DEF Frames

\* One that tells of nothing.
LEMMA PlainFrame ==
  ASSUME NEW frames \in SUBSET FrameT, NEW f \in FrameT, NEW s, NEW ix, NEW com, NEW pr,
         Links(s, ix, frames), Frames(frames, ix, com, pr),
         f.type \in {"init", "read", "end", "disconnected"}
  PROVE  Links(s, ix, frames \cup {f}) /\ Frames(frames \cup {f}, ix, com, pr)
<1>1. ~Tells(f) /\ f.type # "start" /\ f.type # "commit"
  BY DEF Tells
<1>2. Grants(f, com) /\ Made(f, pr) /\ Told(f, frames \cup {f}, ix, com)
  BY <1>1 DEF Grants, Made, Told
<1>3. Frames(frames \cup {f}, ix, com, pr)
  BY <1>1, <1>2, FrameAdded
<1>4. Links(s, ix, frames \cup {f})
  BY <1>1 DEF Links
<1> QED
  BY <1>3, <1>4

\* One that tells of the offset committed for its session's partition.
LEMMA TellingFrame ==
  ASSUME NEW frames \in SUBSET FrameT, NEW f \in FrameT, Tells(f),
         NEW s \in ServerT, s.conn # "none", s.sess[f.sid].partition # None,
         f.committed = s.committed[s.sess[f.sid].partition],
         NEW ix, NEW pr, Links(s, ix, frames), Frames(frames, ix, s.committed, pr)
  PROVE  Links(s, ix, frames \cup {f}) /\ Frames(frames \cup {f}, ix, s.committed, pr)
<1>1. f.sid \in Sid /\ f.type # "start" /\ f.type # "commit" /\ f.committed \in Nat
  BY FrameFields DEF Tells
<1>2. Grants(f, s.committed) /\ Made(f, pr)
  BY <1>1 DEF Grants, Made
<1>3. f.committed <= f.committed
  BY <1>1
<1>4. ASSUME ix[f.sid] # None PROVE f.committed <= s.committed[ix[f.sid]]
  BY <1>1, <1>3, <1>4 DEF Links
<1>5. ASSUME NEW g \in frames \cup {f}, g.type = "start", g.sid = f.sid
      PROVE  f.committed <= s.committed[g.partition]
  BY <1>1, <1>3, <1>5 DEF Links
<1>6. Told(f, frames \cup {f}, ix, s.committed)
  BY <1>4, <1>5 DEF Told
<1>7. Frames(frames \cup {f}, ix, s.committed, pr)
  BY <1>1, <1>2, <1>6, FrameAdded
<1>8. Links(s, ix, frames \cup {f})
  BY <1>1 DEF Links
<1> QED
  BY <1>7, <1>8

\* What a step of the server has to show.
LEMMA ServerKeeps ==
  ASSUME ReaderInv, NEW frames \in SUBSET FrameT, inbox' \in Seq(FrameT),
         Range(inbox') \subseteq frames, UNCHANGED <<machineVars, facadeVars>>,
         srv' \in ServerT, Ties(entries, srv', index, frames, promise)
  PROVE  Keeps
<1>1. UNCHANGED <<state, entries, index, hooks, promise>>
  BY DEF machineVars, facadeVars
<1>2. Same(srv', srv') /\ Books(entries, srv'.committed, promise)
  BY SameSelf DEF Ties
<1>3. Ties(entries, srv', index, Range(inbox'), promise)
  BY <1>2, InvFields, KeptSelf, NarrowerSelf, TiesKept
<1> QED
  BY <1>1, <1>3, InvFields DEF Keeps

\* The same for a request noted and a frame sent.
LEMMA ReplyKeeps ==
  ASSUME ReaderInv, NEW f \in FrameT, Reply(f), UNCHANGED <<machineVars, facadeVars>>,
         Same(srv, srv'),
         \/ f.type \in {"init", "read", "end", "disconnected"}
         \/ /\ Tells(f) /\ srv.sess[f.sid].partition # None
            /\ f.committed = srv.committed[srv.sess[f.sid].partition]
  PROVE  Keeps /\ Promised!Settle
<1> DEFINE frames == Range(inbox) \cup {f}
<1>1. /\ inbox' \in Seq(FrameT) /\ Range(inbox') \subseteq frames
      /\ Range(inbox) \in SUBSET FrameT /\ frames \in SUBSET FrameT
  BY InvFields, InboxAppend DEF Reply
<1>2. Granted(srv) /\ Links(srv, index, Range(inbox))
      /\ Frames(Range(inbox), index, srv.committed, promise)
  BY InvFields DEF Ties
<1>3. /\ srv' \in ServerT /\ srv'.committed = srv.committed
      /\ Granted(srv') /\ Links(srv', index, Range(inbox))
  BY <1>1, <1>2, SameKeeps DEF Same
<1>4. Links(srv', index, frames) /\ Frames(frames, index, srv'.committed, promise)
  <2>1. CASE f.type \in {"init", "read", "end", "disconnected"}
    BY <1>1, <1>2, <1>3, <2>1, PlainFrame
  <2>2. CASE /\ Tells(f) /\ srv.sess[f.sid].partition # None
             /\ f.committed = srv.committed[srv.sess[f.sid].partition]
    <3>1. f.sid \in Sid
      BY <2>2, FrameFields
    <3>2. /\ srv'.conn # "none" /\ srv'.sess[f.sid].partition # None
          /\ f.committed = srv'.committed[srv'.sess[f.sid].partition]
      BY <1>2, <2>2, <3>1 DEF Same, Granted
    <3> QED
      BY <1>1, <1>2, <1>3, <2>2, <3>2, TellingFrame
  <2> QED
    BY <2>1, <2>2
<1> HIDE DEF frames
<1>5. Ties(entries, srv', index, frames, promise)
  BY <1>3, <1>4, InvFields DEF Ties
<1>6. promise' = promise
  BY DEF facadeVars
<1> QED
  BY <1>1, <1>3, <1>5, <1>6, InvFields, ServerKeeps, QuietStep

LEMMA ServerInitKeeps ==
  ASSUME ReaderInv, ServerInit PROVE Keeps /\ Promised!Settle
<1> DEFINE f == [type |-> "init"]
           frames == Range(inbox) \cup {f}
<1>1. /\ srv.conn = "opened" /\ srv' = [srv EXCEPT !.conn = "up"] /\ inbox' = Append(inbox, f)
      /\ UNCHANGED <<machineVars, facadeVars>>
  BY DEF ServerInit, Reply
<1>2. f \in FrameT /\ f.type = "init"
  BY DEF FrameT
<1> HIDE DEF f
<1>3. /\ inbox' \in Seq(FrameT) /\ Range(inbox') \subseteq frames
      /\ Range(inbox) \in SUBSET FrameT /\ frames \in SUBSET FrameT
  BY <1>1, <1>2, InvFields, InboxAppend
<1>4. Granted(srv) /\ Links(srv, index, Range(inbox))
      /\ Frames(Range(inbox), index, srv.committed, promise)
  BY InvFields DEF Ties
<1>5. /\ srv' \in ServerT /\ srv'.conn = "up" /\ srv'.sess = srv.sess
      /\ srv'.next = srv.next /\ srv'.grants = srv.grants /\ srv'.queried = srv.queried
      /\ srv'.committed = srv.committed
  BY <1>1, InvFields DEF ServerT
<1>6. Granted(srv') /\ Links(srv', index, Range(inbox))
  BY <1>1, <1>4, <1>5 DEF Granted, Links
<1>7. Links(srv', index, frames) /\ Frames(frames, index, srv'.committed, promise)
  BY <1>2, <1>3, <1>4, <1>5, <1>6, PlainFrame
<1> HIDE DEF frames
<1>8. Ties(entries, srv', index, frames, promise)
  BY <1>5, <1>6, <1>7, InvFields DEF Ties
<1>9. promise' = promise
  BY <1>1 DEF facadeVars
<1> QED
  BY <1>1, <1>3, <1>5, <1>8, <1>9, InvFields, ServerKeeps, QuietStep

\* A session's place in the stream changes, whose it is does not.
LEMMA SessionSame ==
  ASSUME NEW s \in ServerT, NEW sid \in Sid, NEW new \in SessionT, NEW left \in Nat,
         new.partition = s.sess[sid].partition
  PROVE  Same(s, [s EXCEPT !.sess[sid] = new]) /\
         Same(s, [s EXCEPT !.credit = left, !.sess[sid] = new])
BY DEF Same, ServerT

LEMMA ServerDataKeeps ==
  ASSUME ReaderInv, NEW sid \in Sid, ServerData(sid) PROVE Keeps /\ Promised!Settle
<1> DEFINE next == {o \in Offset \ Hole : o >= srv.sess[sid].pos}
           f == [type |-> "read", sid |-> sid, offset |-> Min(next)]
           new == [srv.sess[sid] EXCEPT !.pos = Min(next) + 1]
           left == srv.credit - 1
<1>1. /\ srv.credit > 0 /\ next # {}
      /\ srv' = [srv EXCEPT !.credit = @ - 1, !.sess[sid].pos = Min(next) + 1]
      /\ Reply(f) /\ UNCHANGED <<machineVars, facadeVars>>
  BY DEF ServerData
<1>2. Min(next) \in Offset /\ Min(next) + 1 \in Nat
  <2>1. next \in SUBSET (0 .. MaxOffset) /\ MaxOffset \in Nat
    BY ReaderAssumption DEF Offset
  <2>2. Min(next) \in next
    BY <1>1, <2>1, LeastIn
  <2>3. next \subseteq Offset /\ Offset \subseteq Nat
    BY ReaderAssumption DEF Offset
  <2> DEFINE m == Min(next)
  <2>4. m \in Offset
    BY <2>2, <2>3
  <2> HIDE DEF m
  <2>5. m \in Nat
    BY <2>3, <2>4
  <2>6. m + 1 \in Nat
    BY <2>5
  <2> QED
    BY <2>4, <2>6 DEF m
<1>3. f \in FrameT /\ f.type = "read"
  BY <1>2 DEF FrameT
<1>4. srv.sess[sid] \in SessionT /\ left \in Nat /\ srv \in ServerT
  BY <1>1, InvFields, ServerFields
<1>5. new \in SessionT /\ new.partition = srv.sess[sid].partition
  BY <1>2, <1>4 DEF SessionT
<1>6. srv' = [srv EXCEPT !.credit = left, !.sess[sid] = new]
  BY <1>1
<1> HIDE DEF f, new, left
<1>7. Same(srv, srv')
  BY <1>4, <1>5, <1>6, SessionSame
<1> QED
  BY <1>1, <1>3, <1>7, ReplyKeeps

LEMMA ServerEndKeeps ==
  ASSUME ReaderInv, NEW sid \in Sid, ServerEnd(sid) PROVE Keeps /\ Promised!Settle
<1> DEFINE f == [type |-> "end", sid |-> sid]
           new == [srv.sess[sid] EXCEPT !.pos = MaxOffset + 1]
<1>1. /\ srv' = [srv EXCEPT !.sess[sid].pos = MaxOffset + 1]
      /\ Reply(f) /\ UNCHANGED <<machineVars, facadeVars>>
  BY DEF ServerEnd
<1>2. f \in FrameT /\ f.type = "end"
  BY DEF FrameT
<1>3. srv.sess[sid] \in SessionT /\ srv \in ServerT
  BY InvFields, ServerFields
<1>4. new \in SessionT /\ new.partition = srv.sess[sid].partition
  BY <1>3, ReaderAssumption DEF SessionT
<1>5. srv' = [srv EXCEPT !.sess[sid] = new]
  BY <1>1
<1> HIDE DEF f, new
<1>6. Same(srv, srv')
  BY <1>3, <1>4, <1>5, SessionSame
<1> QED
  BY <1>1, <1>2, <1>6, ReplyKeeps

LEMMA ServerStopKeeps ==
  ASSUME ReaderInv, NEW sid \in Sid, NEW graceful \in BOOLEAN, ServerStop(sid, graceful)
  PROVE  Keeps /\ Promised!Settle
<1> DEFINE sess == srv.sess[sid]
           f == [type |-> "stop", sid |-> sid, graceful |-> graceful,
                 committed |-> srv.committed[sess.partition]]
           new == IF graceful
                  THEN [sess EXCEPT !.asked = "graceful"]
                  ELSE [sess EXCEPT !.asked = "forced", !.wire = {}, !.pos = 0]
<1>1. /\ sess.partition # None
      /\ srv' = [srv EXCEPT !.sess[sid] = new]
      /\ Reply(f) /\ UNCHANGED <<machineVars, facadeVars>>
  BY DEF ServerStop, Live
<1>2. sess \in SessionT /\ srv \in ServerT /\ sess.partition \in Partition
  BY <1>1, InvFields, ServerFields
<1>3. srv.committed[sess.partition] \in Nat
  BY <1>2, ServerFields
<1>4. f \in FrameT /\ Tells(f) /\ f.sid = sid /\ f.committed = srv.committed[sess.partition]
  BY <1>3 DEF FrameT, TellT, Tells
<1>5. new \in SessionT /\ new.partition = sess.partition
  <2>1. CASE graceful
    BY <1>2, <2>1 DEF SessionT
  <2>2. CASE ~graceful
    BY <1>2, <2>2 DEF SessionT
  <2> QED
    BY <2>1, <2>2
<1> HIDE DEF f, new
<1>6. Same(srv, srv')
  BY <1>1, <1>2, <1>5, SessionSame
<1> QED
  BY <1>1, <1>4, <1>6, ReplyKeeps

LEMMA ServerStatusKeeps ==
  ASSUME ReaderInv, NEW sid \in Sid, ServerStatus(sid) PROVE Keeps /\ Promised!Settle
<1> DEFINE sess == srv.sess[sid]
           f == [type |-> "status", sid |-> sid, committed |-> srv.committed[sess.partition]]
<1>1. /\ sid \in srv.queried /\ srv' = [srv EXCEPT !.queried = @ \ {sid}]
      /\ Reply(f) /\ UNCHANGED <<machineVars, facadeVars>>
  BY DEF ServerStatus
<1>2. sess.partition # None
  BY <1>1, InvFields DEF Ties, Granted
<1>3. sess.partition \in Partition /\ srv \in ServerT
  BY <1>2, InvFields, ServerFields
<1>4. srv.committed[sess.partition] \in Nat
  BY <1>3, ServerFields
<1>5. f \in FrameT /\ Tells(f) /\ f.sid = sid /\ f.committed = srv.committed[sess.partition]
  BY <1>4 DEF FrameT, TellT, Tells
<1>6. Same(srv, srv')
  BY <1>1, <1>3 DEF Same, ServerT
<1> HIDE DEF f
<1> QED
  BY <1>1, <1>2, <1>5, <1>6, ReplyKeeps

LEMMA ServerGrantKeeps ==
  ASSUME ReaderInv, NEW p \in Partition, ServerGrant(p) PROVE Keeps /\ Promised!Settle
<1> DEFINE new == [NoSession EXCEPT !.partition = p, !.wire = Below(srv.committed[p]),
                                    !.pos = srv.committed[p]]
           f == [type |-> "start", sid |-> srv.next, partition |-> p,
                 committed |-> srv.committed[p]]
           frames == Range(inbox) \cup {f}
<1>1. /\ srv.conn = "up" /\ srv.grants < MaxGrants
      /\ srv' = [srv EXCEPT !.grants = @ + 1, !.next = @ + 1, !.accepted[p] = {},
                            !.sess[srv.next] = new]
      /\ inbox' = Append(inbox, f) /\ UNCHANGED <<machineVars, facadeVars>>
  BY DEF ServerGrant, Reply
<1>2. /\ srv \in ServerT /\ srv.committed[p] \in Nat /\ Granted(srv)
      /\ Links(srv, index, Range(inbox)) /\ Frames(Range(inbox), index, srv.committed, promise)
      /\ srv.next \in Nat /\ srv.grants \in Nat
  BY InvFields, ServerFields DEF Ties
<1>3. srv.next \in Sid /\ srv.sess[srv.next].partition = None
  BY <1>1, <1>2, ReaderAssumption DEF Granted, Sid
<1>4. new \in SessionT /\ new.partition = p
  <2>1. Below(srv.committed[p]) \in SUBSET Nat
    BY <1>2 DEF Below
  <2>2. NoSession \in SessionT
    BY DEF NoSession, SessionT
  <2> HIDE DEF NoSession
  <2> QED
    BY <1>2, <2>1, <2>2 DEF SessionT
<1>5. f \in FrameT /\ f.type = "start" /\ f.sid = srv.next /\ f.partition = p
      /\ f.committed = srv.committed[p]
  BY <1>2, <1>3 DEF FrameT, StartT
<1> HIDE DEF new, f
<1>6. /\ srv' \in ServerT /\ srv'.conn = "up" /\ srv'.committed = srv.committed
      /\ srv'.next = srv.next + 1 /\ srv'.grants = srv.grants + 1
      /\ srv'.queried = srv.queried /\ srv'.sess = [srv.sess EXCEPT ![srv.next] = new]
  <2>1. /\ srv'.conn = "up" /\ srv'.committed = srv.committed
        /\ srv'.next = srv.next + 1 /\ srv'.grants = srv.grants + 1
        /\ srv'.queried = srv.queried /\ srv'.sess = [srv.sess EXCEPT ![srv.next] = new]
    BY <1>1, <1>2 DEF ServerT
  <2>2. [srv.sess EXCEPT ![srv.next] = new] \in [Sid -> SessionT]
    BY <1>2, <1>3, <1>4, ServerFields
  <2>3. [srv.accepted EXCEPT ![p] = {}] \in [Partition -> SUBSET Nat]
    BY <1>2, ServerFields
  <2>4. srv.next + 1 \in Nat /\ srv.grants + 1 \in Nat
    BY <1>2
  <2>5. srv' \in ServerT
    BY <1>1, <1>2, <2>2, <2>3, <2>4 DEF ServerT
  <2> QED
    BY <2>1, <2>5
<1>7. /\ srv'.sess[srv.next].partition = p
      /\ \A sid \in Sid : sid # srv.next => srv'.sess[sid].partition = srv.sess[sid].partition
  BY <1>2, <1>3, <1>4, <1>6 DEF ServerT
<1>8. p # None /\ Sid \subseteq Nat /\ MaxGrants \in Nat
  BY ReaderAssumption DEF Sid
<1>9. Granted(srv')
  <2>1. 1 <= srv'.next /\ srv'.next <= srv'.grants + 1 /\ srv'.grants <= MaxGrants
    BY <1>1, <1>2, <1>6, <1>8 DEF Granted
  <2>2. ASSUME NEW sid \in Sid, srv'.sess[sid].partition # None PROVE sid < srv'.next
    <3>1. CASE sid = srv.next
      BY <1>2, <1>6, <3>1
    <3>2. CASE sid # srv.next
      BY <1>2, <1>6, <1>7, <1>8, <2>2, <3>2 DEF Granted
    <3> QED
      BY <3>1, <3>2
  <2>3. \A sid \in srv'.queried : srv'.sess[sid].partition # None
    BY <1>2, <1>6, <1>7, <1>8, ServerFields DEF Granted
  <2> QED
    BY <1>6, <2>1, <2>2, <2>3 DEF Granted
<1>10. /\ inbox' \in Seq(FrameT) /\ Range(inbox') \subseteq frames
       /\ Range(inbox) \in SUBSET FrameT /\ frames \in SUBSET FrameT
  BY <1>1, <1>5, InvFields, InboxAppend
<1>11. \A g \in Range(inbox) : (g.type = "start" \/ Tells(g)) => g.sid \in Sid
  BY <1>10, FrameFields
<1>12. \A g \in Range(inbox) : Tells(g) => g.sid # f.sid
  BY <1>1, <1>2, <1>3, <1>5 DEF Links
<1>13. Links(srv', index, frames)
  <2>1. \A sid \in Sid : index[sid] # None => srv'.sess[sid].partition = index[sid]
    BY <1>1, <1>2, <1>3, <1>7 DEF Links
  <2>2. ASSUME NEW g \in Range(inbox)
        PROVE  /\ g.type = "start" => srv'.sess[g.sid].partition = g.partition
               /\ Tells(g) => srv'.sess[g.sid].partition # None
    <3>1. ASSUME g.type = "start" PROVE srv'.sess[g.sid].partition = g.partition
      <4>1. srv.sess[g.sid].partition = g.partition /\ g.partition \in Partition
        BY <1>1, <1>2, <1>10, <3>1, FrameFields DEF Links
      <4>2. g.sid # srv.next
        BY <1>3, <4>1, ReaderAssumption
      <4> QED
        BY <1>7, <1>11, <3>1, <4>1, <4>2
    <3>2. ASSUME Tells(g) PROVE srv'.sess[g.sid].partition # None
      BY <1>1, <1>2, <1>5, <1>7, <1>11, <1>12, <3>2 DEF Links
    <3> QED
      BY <3>1, <3>2
  <2>3. ~Tells(f)
    BY <1>5 DEF Tells
  <2> QED
    BY <1>5, <1>7, <2>1, <2>2, <2>3 DEF Links
<1>14. Frames(frames, index, srv'.committed, promise)
  <2>1. srv.committed[p] <= srv.committed[p]
    BY <1>2
  <2>2. Grants(f, srv.committed) /\ Made(f, promise)
        /\ Told(f, frames, index, srv.committed)
    BY <1>5, <2>1 DEF Grants, Made, Told, Tells
  <2> QED
    BY <1>2, <1>5, <1>6, <1>10, <1>12, <2>2, FrameAdded
<1> HIDE DEF frames
<1>15. Ties(entries, srv', index, frames, promise)
  BY <1>6, <1>9, <1>13, <1>14, InvFields DEF Ties
<1>16. promise' = promise
  BY <1>1 DEF facadeVars
<1> QED
  BY <1>1, <1>6, <1>10, <1>15, <1>16, InvFields, ServerKeeps, QuietStep

LEMMA StreamBreaksKeeps ==
  ASSUME ReaderInv, StreamBreaks PROVE Keeps /\ Promised!Settle
<1>1. PICK n \in LastCommit .. Len(inbox), fatal \in {FALSE, FatalErrors} :
        inbox' = Append(SubSeq(inbox, 1, n), [type |-> "disconnected", fatal |-> fatal])
  BY DEF StreamBreaks
<1>2. srv' = Broken(srv) /\ UNCHANGED <<machineVars, facadeVars>>
  BY DEF StreamBreaks
<1> DEFINE f == [type |-> "disconnected", fatal |-> fatal]
           cut == SubSeq(inbox, 1, n)
           frames == Range(inbox) \cup {f}
<1>3. f \in FrameT /\ f.type = "disconnected"
  BY ReaderAssumption DEF FrameT
<1> HIDE DEF f
<1>4. n \in 0 .. Len(inbox)
  <2>1. LastCommit \in 0 .. Len(inbox) /\ Len(inbox) \in Nat
    BY InvFields, LastCommitIn, LenProperties
  <2> QED
    BY <2>1
<1>5. cut \in Seq(FrameT) /\ Range(cut) \subseteq Range(inbox)
  BY <1>4, InvFields, InboxPrefix
<1>6. /\ inbox' \in Seq(FrameT) /\ Range(inbox') \subseteq frames
      /\ Range(inbox) \in SUBSET FrameT /\ frames \in SUBSET FrameT
  <2>1. inbox' = Append(cut, f)
    BY <1>1 DEF f
  <2> HIDE DEF cut
  <2> QED
    BY <1>3, <1>5, <2>1, InvFields, InboxAppend
<1>7. Granted(srv)
  BY InvFields DEF Ties
<1>8. srv' \in ServerT /\ srv'.committed = srv.committed
  BY <1>2, <1>7, InvFields, BrokenKeeps
<1>9. Ties(entries, srv', index, Range(inbox), promise)
  BY <1>2, <1>6, InvFields, KeptSelf, NarrowerSelf, TiesBroken
<1>10. Links(srv', index, frames) /\ Frames(frames, index, srv'.committed, promise)
  BY <1>3, <1>6, <1>9, PlainFrame DEF Ties
<1> HIDE DEF frames
<1>11. Ties(entries, srv', index, frames, promise)
  BY <1>9, <1>10 DEF Ties
<1>12. promise' = promise
  BY <1>2 DEF facadeVars
<1> QED
  BY <1>2, <1>6, <1>8, <1>11, <1>12, InvFields, ServerKeeps, QuietStep

LEMMA ServerCommitKeeps ==
  ASSUME ReaderInv, NEW p \in Partition, ServerCommit(p) PROVE Keeps /\ Promised!Advance
<1> DEFINE com == srv.committed
           S == {com[p]} \cup {n \in Watermark : com[p] .. n - 1 \subseteq srv.accepted[p]}
           reached == Max(S)
           told == {i \in Sid : srv.sess[i].partition = p /\ Live(srv.sess[i])}
           f == [type |-> "commit_response", sid |-> Max(told), committed |-> reached]
           more == [com EXCEPT ![p] = reached]
<1>1. /\ reached > com[p] /\ srv' = [srv EXCEPT !.committed[p] = reached]
      /\ IF told = {} THEN UNCHANGED inbox ELSE Reply(f)
      /\ UNCHANGED <<machineVars, facadeVars>>
  BY DEF ServerCommit
<1>2. com \in [Partition -> Nat] /\ com[p] \in Nat /\ srv \in ServerT
  BY InvFields
<1>3. reached \in Nat
  <2>1. MaxOffset \in Nat /\ com[p] + MaxOffset \in Nat
    BY <1>2, ReaderAssumption
  <2>2. S \in SUBSET (0 .. com[p] + MaxOffset) /\ S # {}
    BY <1>2, <2>1 DEF Watermark
  <2>3. Max(S) \in S
    BY <2>1, <2>2, GreatestIn
  <2> HIDE DEF S
  <2> QED
    BY <2>2, <2>3
<1> HIDE DEF reached
<1>4. more \in [Partition -> Nat] /\ more[p] = reached /\ \A q \in Partition : com[q] <= more[q]
  <2>1. \A q \in Partition : q # p => more[q] = com[q]
    BY <1>2
  <2>2. more \in [Partition -> Nat] /\ more[p] = reached
    BY <1>2, <1>3
  <2> HIDE DEF more
  <2>3. ASSUME NEW q \in Partition PROVE com[q] <= more[q]
    <3>1. com[q] \in Nat
      BY <1>2
    <3>2. CASE q = p
      BY <1>1, <1>2, <1>3, <2>2, <3>2
    <3>3. CASE q # p
      BY <2>1, <3>1, <3>3
    <3> QED
      BY <3>2, <3>3
  <2> QED
    BY <2>2, <2>3
<1>5. /\ srv' \in ServerT /\ srv'.committed = more /\ srv'.conn = srv.conn
      /\ srv'.sess = srv.sess /\ srv'.next = srv.next /\ srv'.grants = srv.grants
      /\ srv'.queried = srv.queried
  BY <1>1, <1>2, <1>4 DEF ServerT
<1> HIDE DEF more
<1>6. /\ Granted(srv) /\ Links(srv, index, Range(inbox))
      /\ Frames(Range(inbox), index, com, promise) /\ Books(entries, com, promise)
      /\ Range(inbox) \in SUBSET FrameT /\ inbox \in Seq(FrameT)
      /\ entries \in EntriesT /\ index \in IndexT
  BY InvFields DEF Ties
<1>7. Granted(srv') /\ Links(srv', index, Range(inbox))
  BY <1>5, <1>6 DEF Granted, Links
<1>8. Books(entries, more, promise)
  BY <1>2, <1>4, <1>6, KeptSelf, BooksKept
<1>9. Frames(Range(inbox), index, more, promise)
  BY <1>2, <1>4, <1>6, KeptSelf, NarrowerSelf, FramesKept
<1>10. Ties(entries, srv', index, Range(inbox), promise)
  BY <1>5, <1>7, <1>8, <1>9 DEF Ties
<1>11. CASE told = {}
  <2>1. inbox' = inbox
    BY <1>1, <1>11
  <2> QED
    <3>1. Keeps
      BY <1>1, <1>5, <1>6, <1>10, <2>1, ServerKeeps
    <3>2. Promised!Advance
      BY <1>1, <1>2, <1>4, <1>5 DEF Promised!Advance, facadeVars
    <3> QED
      BY <3>1, <3>2
<1>12. CASE told # {}
  <2>1. Max(told) \in told
    <3>1. told \in SUBSET (0 .. MaxGrants) /\ MaxGrants \in Nat
      BY ReaderAssumption DEF Sid
    <3> QED
      BY <1>12, <3>1, GreatestIn
  <2>2. Max(told) \in Sid /\ srv.sess[Max(told)].partition = p
    BY <2>1
  <2>3. f \in FrameT /\ Tells(f) /\ f.sid = Max(told) /\ f.committed = reached
    BY <1>3, <2>2 DEF FrameT, TellT, Tells
  <2>4. inbox' = Append(inbox, f)
    BY <1>1, <1>12 DEF Reply
  <2> DEFINE top == Max(told)
             frames == Range(inbox) \cup {f}
  <2> HIDE DEF f
  <2>5. /\ inbox' \in Seq(FrameT) /\ Range(inbox') \subseteq frames /\ frames \in SUBSET FrameT
    BY <1>6, <2>3, <2>4, InboxAppend
  <2>6. /\ srv'.conn # "none" /\ srv'.sess[f.sid].partition # None
        /\ f.committed = srv'.committed[srv'.sess[f.sid].partition]
    <3>1. srv.sess[f.sid].partition = p /\ f.sid \in Sid /\ p # None
      BY <2>2, <2>3, ReaderAssumption
    <3>2. srv.conn = "up"
      BY <1>6, <3>1 DEF Granted
    <3> QED
      BY <1>4, <1>5, <2>3, <3>1, <3>2
  <2>7. Links(srv', index, frames) /\ Frames(frames, index, srv'.committed, promise)
    BY <1>5, <1>6, <1>7, <1>9, <2>3, <2>6, TellingFrame
  <2> HIDE DEF frames
  <2>8. Ties(entries, srv', index, frames, promise)
    BY <1>10, <2>7 DEF Ties
  <2>9. Keeps
    BY <1>1, <1>5, <2>5, <2>8, ServerKeeps
  <2>10. Promised!Advance
    BY <1>1, <1>2, <1>4, <1>5 DEF Promised!Advance, facadeVars
  <2> QED
    BY <2>9, <2>10
<1> QED
  BY <1>11, <1>12

\* commit() records its promise and posts its event.
LEMMA PostKeeps ==
  ASSUME ReaderInv, NEW w \in Waiter, Commit(w) PROVE Keeps /\ Promised!Ask(w)
<1>1. PICK p \in Partition : \E batch \in SUBSET {m \in delivered : m.partition = p} :
        LET ranges == UNION {m.from .. m.offset : m \in batch} IN
        /\ promise' = [promise EXCEPT ![w] = [partition |-> p, status |-> "pending",
                                              target |-> EndOf(ranges), late |-> FALSE]]
        /\ Post([type |-> "commit", partition |-> p, ranges |-> ranges, waiter |-> w])
  BY DEF Commit
<1>2. PICK batch \in SUBSET {m \in delivered : m.partition = p} :
        LET ranges == UNION {m.from .. m.offset : m \in batch} IN
        /\ promise' = [promise EXCEPT ![w] = [partition |-> p, status |-> "pending",
                                              target |-> EndOf(ranges), late |-> FALSE]]
        /\ Post([type |-> "commit", partition |-> p, ranges |-> ranges, waiter |-> w])
  BY <1>1
<1> DEFINE ranges == UNION {m.from .. m.offset : m \in batch}
           target == EndOf(ranges)
           new == [partition |-> p, status |-> "pending", target |-> target, late |-> FALSE]
           f == [type |-> "commit", partition |-> p, ranges |-> ranges, waiter |-> w]
           frames == Range(inbox) \cup {f}
<1>3. /\ promise' = [promise EXCEPT ![w] = new] /\ Post(f)
      /\ promise[w].status = "none"
      /\ hooks' = hooks /\ srv' = srv /\ UNCHANGED <<state, entries, index>>
  BY <1>2 DEF Commit, machineVars
<1>4. ranges \in SUBSET Offset
  <2>1. \A m \in batch : m.from \in Nat /\ m.offset \in Offset
    BY InvFields DEF MessageT
  <2>2. \A m \in batch : m.from .. m.offset \subseteq Offset
    BY <2>1, ReaderAssumption DEF Offset
  <2> QED
    BY <2>2
<1>5. target \in Nat
  BY <1>4, EndOfNat
<1>6. f \in FrameT /\ f.type = "commit" /\ f.waiter = w /\ f.partition = p
      /\ EndOf(f.ranges) = target
  BY <1>4 DEF FrameT, CommitT
<1> HIDE DEF ranges, target, f
<1>7. new \in PromiseT /\ new.status = "pending" /\ new.partition = p /\ new.target = target
  BY <1>5 DEF PromiseT
<1> HIDE DEF new
<1>8. /\ promise' \in PromisesT /\ promise'[w] = new
      /\ \A v \in Waiter \ {w} : promise'[v] = promise[v]
  BY <1>3, <1>7, InvFields DEF PromisesT
<1>9. /\ inbox' \in Seq(FrameT) /\ Range(inbox') \subseteq frames
      /\ Range(inbox) \in SUBSET FrameT /\ frames \in SUBSET FrameT
  <2>1. inbox \in Seq(FrameT) /\ Range(inbox) \in SUBSET FrameT
    BY InvFields
  <2>2. CASE inbox' = inbox
    BY <1>6, <2>1, <2>2
  <2>3. CASE \E i \in LastCommit .. Len(inbox) : inbox' = InsertAt(inbox, i + 1, f)
    <3>1. PICK i \in LastCommit .. Len(inbox) : inbox' = InsertAt(inbox, i + 1, f)
      BY <2>3
    <3>2. LastCommit \in 0 .. Len(inbox) /\ Len(inbox) \in Nat
      BY <2>1, LastCommitIn, LenProperties
    <3>3. i \in 0 .. Len(inbox)
      BY <3>2
    <3> QED
      BY <1>6, <2>1, <3>1, <3>3, InboxInsert
  <2> QED
    BY <1>3, <2>2, <2>3 DEF Post
<1>10. Books(entries, srv.committed, promise')
  <2> SUFFICES ASSUME NEW q \in Partition PROVE Book(entries[q], q, srv.committed, promise')
    BY DEF Books
  <2>1. Book(entries[q], q, srv.committed, promise) /\ entries \in EntriesT
    BY InvFields
  <2>2. \A r \in entries[q].pending : r.waiter \in Waiter \ {w}
    BY <1>3, <2>1, PendingFields DEF Book
  <2> QED
    BY <1>8, <2>1, <2>2 DEF Book
<1>11. Granted(srv) /\ Links(srv, index, frames)
  BY <1>6, InvFields DEF Ties, Links, Tells
<1>12. Frames(Range(inbox), index, srv.committed, promise')
  <2>1. Frames(Range(inbox), index, srv.committed, promise)
    BY InvFields DEF Ties
  <2>2. ASSUME NEW g \in Range(inbox) PROVE Made(g, promise')
    <3>1. g.type = "commit" => g.waiter \in Waiter \ {w}
      BY <1>3, <1>9, <2>1, FrameFields DEF Frames, Made
    <3> QED
      BY <1>8, <2>1, <3>1 DEF Frames, Made
  <2> QED
    BY <2>1, <2>2 DEF Frames
<1>13. Frames(frames, index, srv.committed, promise')
  <2>1. Grants(f, srv.committed) /\ Made(f, promise') /\ Told(f, frames, index, srv.committed)
    BY <1>6, <1>7, <1>8 DEF Grants, Made, Told, Tells
  <2> QED
    BY <1>6, <1>9, <1>12, <2>1, FrameAdded
<1> HIDE DEF frames
<1>14. Ties(entries, srv, index, frames, promise')
  BY <1>10, <1>11, <1>13 DEF Ties
<1>15. Ties(entries, srv, index, Range(inbox'), promise')
  BY <1>9, <1>10, <1>14, InvFields, KeptSelf, NarrowerSelf, SameSelf, TiesKept
<1>16. Keeps
  BY <1>3, <1>8, <1>9, <1>15, InvFields DEF Keeps
<1>17. Promised!Ask(w)
  <2>1. \A v \in Waiter \ {w} :
          /\ promise'[v].status = promise[v].status /\ promise'[v].target = promise[v].target
          /\ promise'[v].partition = promise[v].partition
    BY <1>8
  <2>2. [v \in Waiter |-> promise'[v].status]
          = [[v \in Waiter |-> promise[v].status] EXCEPT ![w] = "pending"]
    BY <1>7, <1>8, <2>1
  <2> QED
    BY <1>3, <2>1, <2>2 DEF Promised!Ask
<1> QED
  BY <1>16, <1>17

-----------------------------------------------------------------------------
(* The messages and the retry timer                                        *)

\* The messages of a session are left out.
LEMMA StopSessionKeeps ==
  ASSUME chunks \in Seq(SUBSET MessageT), delivered \subseteq MessageT, NEW g, StopSession(g)
  PROVE  chunks' \in Seq(SUBSET MessageT) /\ delivered' \subseteq MessageT
<1>1. /\ chunks' = [i \in 1 .. Len(chunks) |-> {m \in chunks[i] : m.grant # g}]
      /\ delivered' = {m \in delivered : m.grant # g}
  BY DEF StopSession
<1>2. Len(chunks) \in Nat /\ \A i \in 1 .. Len(chunks) : chunks[i] \in SUBSET MessageT
  BY LenProperties, ElementOfSeq
<1>3. \A i \in 1 .. Len(chunks) : {m \in chunks[i] : m.grant # g} \in SUBSET MessageT
  BY <1>2
<1>4. chunks' \in [1 .. Len(chunks) -> SUBSET MessageT]
  BY <1>1, <1>3
<1> QED
  BY <1>1, <1>2, <1>4, SeqDef

\* What the reader has delivered, and the grants it counts, stay typed.
LEMMA MessagesStep ==
  ASSUME ReaderInv, [Next]_vars
  PROVE  grantSeq' \in Nat /\ chunks' \in Seq(SUBSET MessageT) /\ delivered' \subseteq MessageT
<1>1. grantSeq \in Nat /\ chunks \in Seq(SUBSET MessageT) /\ delivered \subseteq MessageT
  BY InvFields
<1>2. CASE UNCHANGED <<grantSeq, chunks, delivered>>
  BY <1>1, <1>2
<1>3. ASSUME NEW g, UNCHANGED grantSeq, StopSession(g) \/ UNCHANGED <<chunks, delivered>>
      PROVE  grantSeq' \in Nat /\ chunks' \in Seq(SUBSET MessageT) /\ delivered' \subseteq MessageT
  BY <1>1, <1>3, StopSessionKeeps
<1>4. CASE HandleStart
  BY <1>1, <1>4 DEF HandleStart
<1>5. CASE HandleForcedStop
  BY <1>3, <1>5 DEF HandleForcedStop
<1>6. CASE HandleCommitResponse
  BY <1>3, <1>6 DEF HandleCommitResponse
<1>7. CASE StopHookReturns
  BY <1>3, <1>7 DEF StopHookReturns
<1>8. CASE \E p \in Partition : PartitionGracefulTimeout(p)
  BY <1>3, <1>8 DEF PartitionGracefulTimeout
<1>9. CASE HandleRead
  <2> DEFINE p == PartitionOf(Event.sid)
             wanted == /\ p # None
                       /\ entries[p].sid = Event.sid
                       /\ entries[p].state \notin {"stopped", "ended"}
             message == [partition |-> p, grant |-> entries[p].grant, offset |-> Event.offset,
                         from |-> RangeStart(entries[p], Event.offset)]
             chunk == IF wanted THEN {message} ELSE {}
  <2>1. /\ Handles(Streaming, "read") /\ chunks' = Append(chunks, chunk)
        /\ UNCHANGED <<grantSeq, delivered>>
    BY <1>9 DEF HandleRead
  <2>2. Event.sid \in Sid /\ Event.offset \in Offset /\ Event.offset \in Nat
    BY <2>1, EventFields, FrameKinds, ReaderAssumption DEF Offset
  <2>3. ASSUME wanted PROVE message \in MessageT
    <3>1. p \in Partition
      BY <2>2, <2>3, InvFields DEF PartitionOf, IndexT
    <3>2. entries[p].grant \in Nat /\ entries[p].watermark \in Nat
      BY <3>1, InvFields DEF EntryT
    <3>3. RangeStart(entries[p], Event.offset) \in Nat
      BY <2>2, <3>2 DEF RangeStart
    <3> QED
      BY <2>2, <3>1, <3>2, <3>3 DEF MessageT
  <2> HIDE DEF message, wanted
  <2>4. chunk \in SUBSET MessageT
    BY <2>3
  <2> HIDE DEF chunk
  <2> QED
    BY <1>1, <2>1, <2>4
<1>10. CASE Read
  <2>1. /\ chunks # << >> /\ chunks' = Tail(chunks) /\ grantSeq' = grantSeq
        /\ delivered' = delivered \cup Head(chunks)
    BY <1>10 DEF Read, machineVars
  <2>2. Head(chunks) \in SUBSET MessageT /\ Tail(chunks) \in Seq(SUBSET MessageT)
    BY <1>1, <2>1, HeadTailProperties
  <2> QED
    BY <1>1, <2>1, <2>2
<1>11. CASE UNCHANGED vars
  BY <1>2, <1>11 DEF vars, machineVars, facadeVars
<1>12. CASE HandleInit \/ HandleDisconnected \/ HandleGracefulStop \/ HandleEnd \/ HandleCommit
  BY <1>2, <1>12 DEF HandleInit, HandleDisconnected, HandleGracefulStop, HandleEnd, HandleCommit,
     facadeVars
<1>13. CASE DropFrame \/ Ignored
  BY <1>2, <1>13 DEF DropFrame, Ignored, Drop, machineVars, facadeVars
<1>14. CASE Server
  BY <1>2, <1>14
  DEF Server, ServerInit, StreamBreaks, ServerGrant, ServerCommit, ServerData, ServerEnd,
      ServerStatus, ServerStop, machineVars, facadeVars
<1>15. CASE StartTimeout \/ RetryBackoff \/ RecoveryWindow \/ GracefulTimeout
  BY <1>2, <1>15 DEF StartTimeout, RetryBackoff, RecoveryWindow, GracefulTimeout, facadeVars
<1>16. CASE \E p \in Partition : PartitionReassignGc(p) \/ PartitionCommitStatus(p)
  BY <1>2, <1>16 DEF PartitionReassignGc, PartitionCommitStatus, facadeVars
<1>17. CASE StartHookReturns
  BY <1>2, <1>17 DEF StartHookReturns, facadeVars
<1>18. CASE Close \/ Destroy \/ MarkClosed \/ \E w \in Waiter : Commit(w)
  BY <1>2, <1>18 DEF Close, Destroy, MarkClosed, Commit, machineVars
<1> QED
  BY <1>4, <1>5, <1>6, <1>7, <1>8, <1>9, <1>10, <1>11, <1>12, <1>13, <1>14, <1>15, <1>16, <1>17,
     <1>18
  DEF Next, Handle, PartitionTimers

\* A handler arms only timers of partitions.
LEMMA FinishBackoff ==
  ASSUME BackoffInv, NEW to, NEW resolved, NEW rejected, NEW rest,
         Timer("retry_backoff") \in to.timers => Timer("retry_backoff") \in timers,
         Finish(to, resolved, rejected, rest)
  PROVE  BackoffInv'
BY DEF BackoffInv, Finish, Terminate, Timer

\* The next attempt is due only between two streams.
LEMMA BackoffStep ==
  ASSUME ReaderInv, [Next]_vars PROVE BackoffInv'
<1>1. BackoffInv
  BY DEF ReaderInv
<1>2. CASE UNCHANGED <<state, timers>>
  BY <1>1, <1>2 DEF BackoffInv, Timer
<1>3. CASE timers' = {}
  BY <1>3 DEF BackoffInv
<1>4. CASE state' \notin Streaming
  BY <1>4 DEF BackoffInv, Streaming
<1>5. \A names, p : "retry_backoff" \notin names => Timer("retry_backoff") \notin TimersOf(names, p)
  BY DEF Timer, TimersOf
<1>6. CASE HandleInit
  <2>1. /\ state' = "ready"
        /\ timers' = (timers \ ConnectTimers)
                       \cup {t \in {"partition_reassign_gc"} \X Partition :
                               entries[t[2]].pending # {}}
    BY <1>6 DEF HandleInit
  <2>2. Timer("retry_backoff") \in ConnectTimers
    BY DEF Timer, ConnectTimers, TimersOf
  <2>3. Timer("retry_backoff") \notin {"partition_reassign_gc"} \X Partition
    BY DEF Timer
  <2>4. Timer("retry_backoff") \notin timers'
    BY <2>1, <2>2, <2>3
  <2> QED
    BY <2>4 DEF BackoffInv, Timer
<1>7. CASE HandleDisconnected \/ StartTimeout
  BY <1>3, <1>4, <1>7
  DEF HandleDisconnected, StartTimeout, ToReconnecting, Terminate, Streaming
<1>8. CASE HandleStart
  BY <1>1, <1>8, FinishBackoff DEF HandleStart, Here
<1>9. CASE HandleForcedStop
  BY <1>1, <1>5, <1>9, FinishBackoff DEF HandleForcedStop, Here
<1>10. CASE HandleGracefulStop
  BY <1>1, <1>5, <1>10, FinishBackoff DEF HandleGracefulStop, Here
<1>11. CASE HandleCommitResponse
  BY <1>1, <1>5, <1>11, FinishBackoff DEF HandleCommitResponse, Here
<1>12. CASE HandleRead \/ HandleCommit
  BY <1>2, <1>12 DEF HandleRead, HandleCommit
<1>13. CASE HandleEnd
  BY <1>1, <1>13, FinishBackoff DEF HandleEnd, Here
<1>14. CASE DropFrame \/ Ignored
  BY <1>2, <1>14 DEF DropFrame, Ignored, Drop, machineVars
<1>15. CASE Server
  BY <1>2, <1>15
  DEF Server, ServerInit, StreamBreaks, ServerGrant, ServerCommit, ServerData, ServerEnd,
      ServerStatus, ServerStop, machineVars
<1>16. CASE RetryBackoff
  BY <1>4, <1>16 DEF RetryBackoff, Streaming
<1>17. CASE RecoveryWindow \/ GracefulTimeout
  BY <1>3, <1>17 DEF RecoveryWindow, GracefulTimeout, Terminate
<1>18. CASE \E p \in Partition : PartitionGracefulTimeout(p)
  BY <1>1, <1>5, <1>18, FinishBackoff DEF PartitionGracefulTimeout, Here
<1>19. CASE \E p \in Partition : PartitionReassignGc(p)
  BY <1>1, <1>19, FinishBackoff DEF PartitionReassignGc, Here
<1>20. CASE (\E p \in Partition : PartitionCommitStatus(p)) \/ StartHookReturns
  <2>1. state' = state /\ timers' \subseteq timers
    BY <1>20 DEF PartitionCommitStatus, StartHookReturns
  <2> QED
    BY <1>1, <2>1 DEF BackoffInv, Timer
<1>21. CASE StopHookReturns
  BY <1>1, <1>21, FinishBackoff, ZenonT(40) DEF StopHookReturns, Here
<1>22. CASE Read \/ MarkClosed \/ \E w \in Waiter : Commit(w)
  BY <1>2, <1>22 DEF Read, MarkClosed, Commit, machineVars
<1>23. CASE Close \/ Destroy
  <2>1. CASE UNCHANGED <<machineVars, inbox, srv, promise>>
    BY <1>2, <2>1 DEF machineVars
  <2>2. CASE Terminate("closed", {})
    BY <1>3, <2>2 DEF Terminate
  <2>3. CASE timers' = (timers \ ConnectTimers) \cup {Timer("graceful_timeout")}
    BY <2>3 DEF BackoffInv, Timer, ConnectTimers, TimersOf
  <2> QED
    BY <1>23, <2>1, <2>2, <2>3 DEF Close, Destroy
<1>24. CASE UNCHANGED vars
  BY <1>2, <1>24 DEF vars, machineVars
<1> QED
  BY <1>6, <1>7, <1>8, <1>9, <1>10, <1>11, <1>12, <1>13, <1>14, <1>15, <1>16, <1>17, <1>18, <1>19,
     <1>20, <1>21, <1>22, <1>23, <1>24
  DEF Next, Handle, PartitionTimers

-----------------------------------------------------------------------------
(* Every step, and the theorem                                              *)

LEMMA InvInit == Init => ReaderInv
<1> SUFFICES ASSUME Init PROVE ReaderInv
  OBVIOUS
<1>1. /\ state = "connecting" /\ entries = [p \in Partition |-> Absent] /\ index = NoIndex
      /\ grantSeq = 0 /\ inbox = << >> /\ hooks = {} /\ chunks = << >> /\ delivered = {}
  BY DEF Init
<1>2. srv = [conn |-> "opened", next |-> 1, grants |-> 0, credit |-> 0,
             sess |-> [i \in Sid |-> NoSession], queried |-> {}, refused |-> {},
             committed |-> [p \in Partition |-> 0], accepted |-> [p \in Partition |-> {}]]
  BY DEF Init
<1>3. NoSession \in SessionT /\ NoSession.partition = None
  BY DEF NoSession, SessionT
<1> HIDE DEF NoSession
<1>4. /\ srv \in ServerT /\ srv.committed \in [Partition -> Nat] /\ srv.queried = {}
      /\ srv.next = 1 /\ srv.grants = 0 /\ srv.sess = [i \in Sid |-> NoSession]
  BY <1>2, <1>3 DEF ServerT
<1>5. entries \in EntriesT /\ Books(entries, srv.committed, promise)
  BY <1>1, <1>4, AbsentBooks
<1>6. /\ index \in IndexT /\ Registered(entries, index) /\ Idle(state, index)
      /\ \A sid \in Sid : index[sid] = None
  BY <1>1, NoIndexOk DEF NoIndex
<1>7. inbox \in Seq(FrameT) /\ Range(inbox) = {}
  BY <1>1, InboxEmpty
<1>8. promise \in PromisesT
  <2>1. (CHOOSE p \in Partition : TRUE) \in Partition
    BY ReaderAssumption
  <2> DEFINE q == CHOOSE p \in Partition : TRUE
  <2>2. promise = [w \in Waiter |-> [partition |-> q, target |-> 0, status |-> "none",
                                     late |-> FALSE]]
    BY DEF Init
  <2> HIDE DEF q
  <2>3. q \in Partition
    BY <2>1 DEF q
  <2> QED
    BY <2>2, <2>3 DEF PromisesT, PromiseT
<1>9. Granted(srv)
  BY <1>3, <1>4, ReaderAssumption DEF Granted
<1>10. Links(srv, index, {}) /\ Frames({}, index, srv.committed, promise)
  BY <1>6 DEF Links, Frames
<1>11. Ties(entries, srv, index, Range(inbox), promise)
  BY <1>5, <1>7, <1>9, <1>10 DEF Ties
<1>12. chunks \in Seq(SUBSET MessageT) /\ delivered \subseteq MessageT
  BY <1>1, EmptySeq
<1>13. HooksOk(hooks) /\ state \in State /\ grantSeq \in Nat
  BY <1>1 DEF HooksOk, State
<1>14. BackoffInv
  BY <1>1 DEF BackoffInv, Streaming
<1> QED
  BY <1>4, <1>5, <1>6, <1>7, <1>8, <1>11, <1>12, <1>13, <1>14 DEF ReaderInv, Shape

LEMMA ServerStep ==
  ASSUME ReaderInv, Server PROVE Keeps /\ (Promised!Settle \/ Promised!Advance)
<1>1. CASE ServerInit \/ StreamBreaks
  BY <1>1, ServerInitKeeps, StreamBreaksKeeps
<1>2. CASE \E p \in Partition : ServerGrant(p) \/ ServerCommit(p)
  BY <1>2, ServerGrantKeeps, ServerCommitKeeps
<1>3. CASE \E sid \in Sid : ServerData(sid) \/ ServerEnd(sid) \/ ServerStatus(sid)
  BY <1>3, ServerDataKeeps, ServerEndKeeps, ServerStatusKeeps
<1>4. CASE \E sid \in Sid, graceful \in BOOLEAN : ServerStop(sid, graceful)
  BY <1>4, ServerStopKeeps
<1> QED
  BY <1>1, <1>2, <1>3, <1>4 DEF Server

\* A step keeps the invariant, and is one of CommitPromise.
LEMMA NextKeeps == ASSUME ReaderInv, Next PROVE Keeps /\ Promised!Next
<1>1. CASE Handle
  BY <1>1, HandleKeeps DEF Promised!Next
<1>2. CASE Server
  BY <1>2, ServerStep DEF Promised!Next
<1>3. CASE StartTimeout \/ RetryBackoff \/ RecoveryWindow \/ GracefulTimeout
  BY <1>3, TimersKeep DEF Promised!Next
<1>4. CASE \E p \in Partition : PartitionTimers(p)
  BY <1>4, PartitionGracefulTimeoutKeeps, PartitionReassignGcKeeps, PartitionCommitStatusKeeps
  DEF PartitionTimers, Promised!Next
<1>5. CASE StartHookReturns \/ StopHookReturns
  BY <1>5, StartHookKeeps, StopHookKeeps DEF Promised!Next
<1>6. CASE Read \/ Close \/ Destroy \/ MarkClosed
  BY <1>6, FacadeKeeps DEF Promised!Next
<1>7. CASE \E w \in Waiter : Commit(w)
  BY <1>7, PostKeeps DEF Promised!Next
<1> QED
  BY <1>1, <1>2, <1>3, <1>4, <1>5, <1>6, <1>7 DEF Next

LEMMA InvStep == ReaderInv /\ [Next]_vars => ReaderInv'
<1> SUFFICES ASSUME ReaderInv, [Next]_vars PROVE ReaderInv'
  OBVIOUS
<1>1. CASE Next
  <2>1. Keeps
    BY <1>1, NextKeeps
  <2> QED
    BY <2>1, MessagesStep, BackoffStep DEF Keeps, ReaderInv, Shape
<1>2. CASE UNCHANGED vars
  <2>1. /\ UNCHANGED <<state, entries, index, grantSeq, timers, hooks, inbox, srv>>
        /\ UNCHANGED <<chunks, delivered, promise>>
    BY <1>2 DEF vars, machineVars, facadeVars
  <2>2. ReaderInv' <=> ReaderInv
    BY <2>1 DEF ReaderInv, Shape, BackoffInv, Timer
  <2> QED
    BY <2>2
<1> QED
  BY <1>1, <1>2

\* The entries, the index, the frames under way, the server and the promises fit together in
\* every state: no entry is ahead of what the server has committed for its partition, a
\* session id leads only to the partition that holds it, and a commit the reader holds is one
\* a caller made.
THEOREM ReaderConsistent == Spec => []ReaderInv
<1> QED
  BY InvInit, InvStep, PTL DEF Spec

\* commit() keeps its promise through reconnects, revocations, regrants and timeouts: it
\* resolves only when the server has committed its target, it is settled once, and the
\* consumer's offset never goes back.
THEOREM CommitPromisedHolds == Spec => CommitPromised
<1> DEFINE targets == [w \in Waiter |-> [partition |-> promise[w].partition,
                                         offset |-> promise[w].target]]
           outcomes == [w \in Waiter |-> promise[w].status]
<1>1. Init => Promised!Init
  <2> SUFFICES ASSUME Init PROVE Promised!Init
    OBVIOUS
  <2>1. promise \in PromisesT /\ srv.committed \in [Partition -> Nat]
    BY InvInit, InvFields
  <2>2. \A w \in Waiter : /\ promise[w].partition \in Partition /\ promise[w].target \in Nat
                          /\ promise[w].status = "none"
    BY <2>1 DEF PromisesT, PromiseT, Init
  <2> QED
    BY <2>1, <2>2 DEF Promised!Init
<1>2. ReaderInv /\ [Next]_vars => [Promised!Next]_<<srv.committed, targets, outcomes>>
  <2> SUFFICES ASSUME ReaderInv, [Next]_vars
               PROVE  [Promised!Next]_<<srv.committed, targets, outcomes>>
    OBVIOUS
  <2>1. CASE Next
    BY <2>1, NextKeeps
  <2>2. CASE UNCHANGED vars
    BY <2>2 DEF vars, facadeVars
  <2> QED
    BY <2>1, <2>2
<1> QED
  BY <1>1, <1>2, ReaderConsistent, PTL DEF Spec, CommitPromised, Promised!Spec

-----------------------------------------------------------------------------
(* The registry                                                             *)

\* What an entry claims is what its commits still have to put on the wire, all of it below
\* their targets, and no two of them the same offset.
Parted(pendings) == \A q, r \in pendings : q # r => q.wire \cap r.wire = {}
ClaimOk(e) ==
  /\ e.claimed = From(AllWire(e.pending), e.committed)
  /\ \A q \in e.pending : \A o \in q.wire : o < q.target
  /\ Parted(e.pending)
Claims(es) == \A p \in Partition : ClaimOk(es[p])

\* Every offset of a commit lies below its target.
LEMMA EndOfAbove ==
  ASSUME NEW offsets \in SUBSET Offset PROVE \A o \in offsets : o < EndOf(offsets)
<1> DEFINE S == {0} \cup {o + 1 : o \in offsets}
<1>1. S \in SUBSET (0 .. MaxOffset) /\ S # {} /\ MaxOffset \in Nat
  BY ReaderAssumption DEF Offset
<1>2. Max(S) \in S /\ \A m \in S : m <= Max(S)
  BY <1>1, GreatestIn
<1> DEFINE top == Max(S)
<1>3. top \in Nat /\ \A o \in offsets : o + 1 <= top
  BY <1>1, <1>2
<1>4. top = EndOf(offsets) /\ offsets \subseteq Nat
  BY ReaderAssumption DEF EndOf, Offset
<1> HIDE DEF top, S
<1>5. \A o \in offsets : o < top
  BY <1>3, <1>4
<1> QED
  BY <1>4, <1>5

LEMMA ClaimAlike ==
  ASSUME NEW e, ClaimOk(e), NEW f, f.claimed = e.claimed, f.pending = e.pending,
         f.committed = e.committed
  PROVE  ClaimOk(f)
BY DEF ClaimOk

LEMMA ClaimNone ==
  ASSUME NEW e, e.claimed = {}, e.pending = {} PROVE ClaimOk(e)
BY DEF ClaimOk, From, AllWire, Parted

LEMMA ClaimAdvanced ==
  ASSUME NEW e \in EntryT, ClaimOk(e), NEW offset \in Nat PROVE ClaimOk(Advanced(e, offset))
<1> DEFINE c == Highest(e.committed, offset)
           a == Advanced(e, offset)
<1>1. c \in Nat /\ e.committed \in Nat /\ c >= e.committed
  BY EntryFields DEF Highest
<1>2. a.committed = c /\ a.pending = Uncovered(e.pending, c) /\ a.claimed = From(e.claimed, c)
  BY DEF EntryT, Advanced
<1> HIDE DEF c, a
<1>3. ASSUME NEW o \in From(e.claimed, c) PROVE o \in From(AllWire(Uncovered(e.pending, c)), c)
  <2>1. PICK q \in e.pending : o \in q.wire
    BY <1>3 DEF ClaimOk, From, AllWire
  <2>2. o >= c /\ o < q.target /\ o \in Nat /\ q.target \in Nat
    BY <1>3, <2>1, EntryFields DEF ClaimOk, From
  <2>3. q \in Uncovered(e.pending, c)
    BY <1>1, <2>1, <2>2 DEF Uncovered
  <2> QED
    BY <2>1, <2>2, <2>3 DEF From, AllWire
<1>4. ASSUME NEW o \in From(AllWire(Uncovered(e.pending, c)), c) PROVE o \in From(e.claimed, c)
  <2>1. PICK q \in e.pending : o \in q.wire
    BY <1>4 DEF From, AllWire, Uncovered
  <2>2. o \in Nat /\ o >= c
    BY <1>4, <2>1, EntryFields DEF From
  <2>3. o >= e.committed
    BY <1>1, <2>2
  <2> QED
    BY <2>1, <2>2, <2>3 DEF ClaimOk, From, AllWire
<1>5. a.claimed = From(AllWire(a.pending), a.committed)
  BY <1>2, <1>3, <1>4
<1>6. \A q \in a.pending : \A o \in q.wire : o < q.target
  BY <1>2 DEF ClaimOk, Uncovered
<1>7. Parted(a.pending)
  BY <1>2 DEF ClaimOk, Uncovered, Parted
<1>8. ClaimOk(a)
  BY <1>5, <1>6, <1>7 DEF ClaimOk
<1> QED
  BY <1>8 DEF a

LEMMA ClaimStopped ==
  ASSUME NEW e \in EntryT, ClaimOk(e) PROVE ClaimOk(MarkedStopped(e)) /\ ClaimOk(Stopping(e))
<1>1. /\ MarkedStopped(e).claimed = e.claimed /\ MarkedStopped(e).pending = e.pending
      /\ MarkedStopped(e).committed = e.committed
      /\ Stopping(e).claimed = e.claimed /\ Stopping(e).pending = e.pending
      /\ Stopping(e).committed = e.committed
  BY DEF MarkedStopped, Stopping, EntryT
<1> QED
  BY <1>1, ClaimAlike

LEMMA ClaimChanged ==
  ASSUME entries \in EntriesT, Claims(entries), NEW p \in Partition, NEW e, ClaimOk(e)
  PROVE  Claims([entries EXCEPT ![p] = e])
BY DEF Claims, EntriesT

\* A handler ends.
LEMMA FinishClaims ==
  ASSUME NEW to, NEW resolved, NEW rejected, NEW rest, Claims(to.entries),
         Finish(to, resolved, rejected, rest)
  PROVE  Claims(entries')
<1>1. CASE entries' = to.entries
  BY <1>1
<1>2. CASE entries' = [p \in Partition |-> Absent]
  <2>1. Absent.claimed = {} /\ Absent.pending = {}
    BY DEF Absent
  <2>2. ClaimOk(Absent)
    BY <2>1, ClaimNone
  <2> QED
    BY <1>2, <2>2 DEF Claims
<1> QED
  BY <1>1, <1>2 DEF Finish, Terminate

\* The handlers that change an entry.
LEMMA StopClaims ==
  ASSUME ReaderInv, Claims(entries), HandleForcedStop \/ HandleGracefulStop
  PROVE  Claims(entries')
<1> DEFINE p == PartitionOf(Event.sid)
           advanced == Advanced(entries[p], Event.committed)
<1>1. Handles(Streaming, "stop") /\ p # None
  BY DEF HandleForcedStop, HandleGracefulStop, StopsKnown
<1>2. Event \in Range(inbox) /\ state \in Streaming /\ Tells(Event)
  BY <1>1, EventFields DEF Tells
<1>3. /\ p \in Partition /\ Event.committed \in Nat
      /\ Event.committed <= srv.committed[p]
  BY <1>1, <1>2, EventTells
<1>4. entries[p] \in EntryT /\ ClaimOk(entries[p]) /\ entries \in EntriesT
      /\ Book(entries[p], p, srv.committed, promise) /\ srv.committed \in [Partition -> Nat]
  BY <1>3, InvFields DEF Claims
<1>5. advanced \in EntryT /\ ClaimOk(advanced)
  BY <1>3, <1>4, AdvancedBook, ClaimAdvanced
<1>6. ClaimOk(MarkedStopped(advanced)) /\ ClaimOk(Stopping(advanced))
  BY <1>5, ClaimStopped
<1>7. /\ Claims([entries EXCEPT ![p] = MarkedStopped(advanced)])
      /\ Claims([entries EXCEPT ![p] = Stopping(advanced)])
  BY <1>3, <1>4, <1>6, ClaimChanged
<1>8. CASE HandleForcedStop
  <2>1. PICK to, resolved :
          /\ to.entries = [entries EXCEPT ![p] = MarkedStopped(advanced)]
          /\ Finish(to, resolved, {}, Tail(inbox))
    BY <1>8 DEF HandleForcedStop, Here
  <2> QED
    BY <1>7, <2>1, FinishClaims
<1>9. CASE HandleGracefulStop
  <2>1. PICK to, resolved :
          /\ to.entries = [entries EXCEPT ![p] = Stopping(advanced)]
          /\ Finish(to, resolved, {}, Tail(inbox))
    BY <1>9 DEF HandleGracefulStop, Here, Stopping
  <2> QED
    BY <1>7, <2>1, FinishClaims
<1> QED
  BY <1>8, <1>9

LEMMA CommitResponseClaims ==
  ASSUME ReaderInv, Claims(entries), HandleCommitResponse PROVE Claims(entries')
<1> DEFINE p == PartitionOf(Event.sid)
           advanced == Advanced(entries[p], Event.committed)
<1>1. (Handles(Streaming, "commit_response") \/ Handles(Streaming, "status")) /\ p # None
  BY DEF HandleCommitResponse
<1>2. Event \in Range(inbox) /\ state \in Streaming /\ Tells(Event)
  BY <1>1, EventFields DEF Tells
<1>3. /\ p \in Partition /\ Event.committed \in Nat
      /\ Event.committed <= srv.committed[p]
  BY <1>1, <1>2, EventTells
<1>4. entries[p] \in EntryT /\ ClaimOk(entries[p]) /\ entries \in EntriesT
      /\ Book(entries[p], p, srv.committed, promise) /\ srv.committed \in [Partition -> Nat]
  BY <1>3, InvFields DEF Claims
<1>5. advanced \in EntryT /\ ClaimOk(advanced)
  BY <1>3, <1>4, AdvancedBook, ClaimAdvanced
<1>6. ClaimOk(MarkedStopped(advanced))
  BY <1>5, ClaimStopped
<1>7. /\ Claims([entries EXCEPT ![p] = MarkedStopped(advanced)])
      /\ Claims([entries EXCEPT ![p] = advanced])
  BY <1>3, <1>4, <1>5, <1>6, ClaimChanged
<1>8. PICK to, resolved :
        /\ \/ to.entries = [[entries EXCEPT ![p] = advanced] EXCEPT ![p] = MarkedStopped(advanced)]
           \/ to.entries = [entries EXCEPT ![p] = advanced]
        /\ Finish(to, resolved, {}, Tail(inbox))
  <2> DEFINE drained == /\ advanced.state = "stopping-graceful" /\ advanced.stopReady
                        /\ advanced.requested = 0 /\ advanced.pending = {}
  <2>1. CASE drained
    BY <2>1 DEF HandleCommitResponse, Here
  <2>2. CASE ~drained
    BY <2>2 DEF HandleCommitResponse, Here
  <2> QED
    BY <2>1, <2>2
<1>9. Claims(to.entries)
  <2>1. [[entries EXCEPT ![p] = advanced] EXCEPT ![p] = MarkedStopped(advanced)]
          = [entries EXCEPT ![p] = MarkedStopped(advanced)]
    BY <1>3, <1>4 DEF EntriesT
  <2> QED
    BY <1>7, <1>8, <2>1
<1> QED
  BY <1>8, <1>9, FinishClaims

LEMMA StartClaims ==
  ASSUME ReaderInv, Claims(entries), HandleStart PROVE Claims(entries')
<1> DEFINE e == Event
           p == e.partition
           old == entries[p]
           c == Highest(old.committed, e.committed)
           kept == Narrowed(old.pending, c)
           entry == [sid |-> e.sid, grant |-> grantSeq + 1, ackPending |-> TRUE,
                     committed |-> c, requested |-> 0, watermark |-> c,
                     claimed |-> AllWire(kept), state |-> "active", stopReady |-> FALSE,
                     pending |-> kept]
<1>1. Handles(Streaming, "start")
  BY DEF HandleStart
<1>2. e \in FrameT /\ e.type = "start"
  BY <1>1, EventFields
<1>3. p \in Partition
  BY <1>2, FrameFields
<1>4. old \in EntryT /\ ClaimOk(old) /\ entries \in EntriesT
  BY <1>3, InvFields DEF Claims
<1>5. \E to, resolved : /\ to.entries = [entries EXCEPT ![p] = entry]
                        /\ Finish(to, resolved, {}, Tail(inbox))
  BY DEF HandleStart, Here, Narrowed
<1>6. entry.claimed = AllWire(kept) /\ entry.pending = kept /\ entry.committed = c
  OBVIOUS
<1> HIDE DEF entry, c
<1>7. ASSUME NEW r \in kept PROVE \A o \in r.wire : o >= c /\ o < r.target
  <2>1. PICK q \in Uncovered(old.pending, c) : r = [q EXCEPT !.wire = From(@, c)]
    BY DEF Narrowed
  <2>2. q \in PendingT /\ q \in old.pending
    BY <1>4, <2>1, EntryFields DEF Uncovered
  <2>3. r.wire = From(q.wire, c) /\ r.target = q.target
    BY <2>1, <2>2 DEF PendingT
  <2> QED
    BY <1>4, <2>2, <2>3 DEF ClaimOk, From
<1>8. Parted(kept)
  <2> SUFFICES ASSUME NEW r \in kept, NEW t \in kept, r # t PROVE r.wire \cap t.wire = {}
    BY DEF Parted
  <2>1. PICK q \in Uncovered(old.pending, c) : r = [q EXCEPT !.wire = From(@, c)]
    BY DEF Narrowed
  <2>2. PICK u \in Uncovered(old.pending, c) : t = [u EXCEPT !.wire = From(@, c)]
    BY DEF Narrowed
  <2>3. q \in PendingT /\ u \in PendingT /\ q \in old.pending /\ u \in old.pending
    BY <1>4, <2>1, <2>2, EntryFields DEF Uncovered
  <2>4. q # u
    BY <2>1, <2>2
  <2>5. q.wire \cap u.wire = {}
    BY <1>4, <2>3, <2>4 DEF ClaimOk, Parted
  <2>6. r.wire = From(q.wire, c) /\ t.wire = From(u.wire, c)
    BY <2>1, <2>2, <2>3 DEF PendingT
  <2> QED
    BY <2>5, <2>6 DEF From
<1> HIDE DEF kept
<1>9. AllWire(kept) = From(AllWire(kept), c)
  BY <1>7 DEF AllWire, From
<1>10. ClaimOk(entry)
  BY <1>6, <1>7, <1>8, <1>9 DEF ClaimOk
<1> QED
  BY <1>3, <1>4, <1>5, <1>10, ClaimChanged, FinishClaims

LEMMA CommitClaims ==
  ASSUME ReaderInv, Claims(entries), HandleCommit PROVE Claims(entries')
<1> DEFINE e == Event
           p == e.partition
           old == entries[p]
           target == EndOf(e.ranges)
           wire == Unclaimed(old, e.ranges)
           q == [waiter |-> e.waiter, target |-> target, wire |-> wire]
           entry == Recorded(old, q)
<1>1. Handles({"connecting", "reconnecting", "ready"}, "commit")
  BY DEF HandleCommit
<1>2. \/ entries' = entries
      \/ entries' = [entries EXCEPT ![p].pending = @ \cup {q}, ![p].claimed = @ \cup wire]
  BY DEF HandleCommit
<1>3. e \in FrameT /\ e.type = "commit"
  BY <1>1, EventFields
<1>4. p \in Partition /\ e.ranges \in SUBSET Offset
  BY <1>3, FrameFields
<1>5. old \in EntryT /\ ClaimOk(old) /\ entries \in EntriesT
  BY <1>4, InvFields DEF Claims
<1>6. \A o \in wire : o < target
  BY <1>4, EndOfAbove DEF Unclaimed, From
<1>7. \A o \in wire : o >= old.committed
  BY DEF Unclaimed, From
<1> HIDE DEF e, target, wire
<1>8. q.wire = wire /\ q.target = target
  OBVIOUS
<1> HIDE DEF q
<1>9. /\ entry.claimed = old.claimed \cup wire /\ entry.pending = old.pending \cup {q}
      /\ entry.committed = old.committed
  BY <1>5, <1>8 DEF EntryT, Recorded
<1>10. CASE entries' = entries
  BY <1>10
<1>11. CASE entries' = [entries EXCEPT ![p].pending = @ \cup {q}, ![p].claimed = @ \cup wire]
  <2>1. entries' = [entries EXCEPT ![p] = entry]
    BY <1>4, <1>8, <1>11, InvFields DEF EntriesT, Recorded
  <2> HIDE DEF entry
  <2>2. From(AllWire(entry.pending), old.committed)
          = From(AllWire(old.pending), old.committed) \cup wire
    BY <1>7, <1>8, <1>9 DEF From, AllWire
  <2>3. Parted(entry.pending)
    <3>1. \A r \in old.pending : r.wire \cap q.wire = {}
      <4> SUFFICES ASSUME NEW r \in old.pending, NEW o \in r.wire, o \in wire PROVE FALSE
        BY <1>8
      <4>1. o \in old.claimed
        BY <1>5, <1>7 DEF ClaimOk, From, AllWire
      <4> QED
        BY <4>1 DEF wire, Unclaimed
    <3> QED
      BY <1>5, <1>9, <3>1 DEF ClaimOk, Parted
  <2>4. ClaimOk(entry)
    BY <1>5, <1>6, <1>8, <1>9, <2>2, <2>3 DEF ClaimOk
  <2> QED
    BY <1>4, <1>5, <2>1, <2>4, ClaimChanged
<1> QED
  BY <1>2, <1>10, <1>11 DEF q

\* Those that change no commit of an entry.
LEMMA AlikeClaims ==
  ASSUME entries \in EntriesT, Claims(entries), NEW es, NEW p \in Partition, NEW e,
         es = [entries EXCEPT ![p] = e],
         e.claimed = entries[p].claimed, e.pending = entries[p].pending,
         e.committed = entries[p].committed
  PROVE  Claims(es)
<1>1. ClaimOk(e)
  BY ClaimAlike DEF Claims
<1> QED
  BY <1>1, ClaimChanged

LEMMA OtherClaims ==
  ASSUME ReaderInv, Claims(entries),
         \/ HandleRead \/ HandleEnd \/ StartHookReturns \/ StopHookReturns
         \/ \E p \in Partition : PartitionGracefulTimeout(p) \/ PartitionReassignGc(p)
  PROVE  Claims(entries')
<1>1. entries \in EntriesT
  BY InvFields
<1>2. \A p \in Partition : entries[p] \in EntryT /\ ClaimOk(entries[p])
  BY InvFields DEF Claims
<1>3. CASE HandleRead
  <2> DEFINE p == PartitionOf(Event.sid)
             w == Highest(entries[p].watermark, Event.offset + 1)
             entry == [entries[p] EXCEPT !.watermark = w]
             wanted == /\ p # None
                       /\ entries[p].sid = Event.sid
                       /\ entries[p].state \notin {"stopped", "ended"}
  <2>1. /\ Handles(Streaming, "read")
        /\ entries' = IF wanted
                      THEN [entries EXCEPT ![p].watermark = Highest(@, Event.offset + 1)]
                      ELSE entries
    BY <1>3 DEF HandleRead
  <2>2. CASE ~wanted
    BY <2>1, <2>2
  <2>3. CASE wanted
    <3>1. Event.sid \in Sid
      BY <2>1, EventFields, FrameKinds
    <3>2. p \in Partition
      BY <2>3, <3>1, InvFields DEF PartitionOf, IndexT
    <3>3. entries' = [entries EXCEPT ![p] = entry]
      BY <2>1, <2>3
    <3> HIDE DEF w
    <3>4. /\ entry.claimed = entries[p].claimed /\ entry.pending = entries[p].pending
          /\ entry.committed = entries[p].committed
      BY <1>2, <3>2 DEF EntryT
    <3> HIDE DEF entry
    <3> QED
      BY <1>1, <3>2, <3>3, <3>4, AlikeClaims
  <2> QED
    BY <2>2, <2>3
<1>4. CASE HandleEnd
  <2> DEFINE p == PartitionOf(Event.sid)
             entry == [entries[p] EXCEPT !.state = "ended"]
  <2>1. /\ Handles(Streaming, "end") /\ p # None
        /\ \E to : to.entries = [entries EXCEPT ![p] = entry] /\ Finish(to, {}, {}, Tail(inbox))
    BY <1>4 DEF HandleEnd, Here
  <2>2. Event.sid \in Sid
    BY <2>1, EventFields, FrameKinds
  <2>3. p \in Partition
    BY <2>1, <2>2, InvFields DEF PartitionOf, IndexT
  <2>4. /\ entry.claimed = entries[p].claimed /\ entry.pending = entries[p].pending
        /\ entry.committed = entries[p].committed
    BY <1>2, <2>3 DEF EntryT
  <2> HIDE DEF entry
  <2>5. Claims([entries EXCEPT ![p] = entry])
    BY <1>1, <2>3, <2>4, AlikeClaims
  <2> QED
    BY <2>1, <2>5, FinishClaims
<1>5. CASE StartHookReturns
  <2>1. PICK h \in hooks, commitOffset \in Override :
          \/ entries' = entries
          \/ entries' = [entries EXCEPT ![h.partition] =
                           Answered(entries[h.partition], commitOffset)]
    BY <1>5 DEF StartHookReturns, Answered
  <2> DEFINE p == h.partition
             entry == Answered(entries[p], commitOffset)
  <2>2. p \in Partition
    BY InvFields DEF HooksOk
  <2>3. /\ entry.claimed = entries[p].claimed /\ entry.pending = entries[p].pending
        /\ entry.committed = entries[p].committed
    BY <1>2, <2>2 DEF EntryT, Answered
  <2> HIDE DEF entry
  <2>4. Claims([entries EXCEPT ![p] = entry])
    BY <1>1, <2>2, <2>3, AlikeClaims
  <2> QED
    BY <2>1, <2>4 DEF entry
<1>6. CASE StopHookReturns
  <2>1. PICK h \in hooks :
          \E to : /\ \/ to.entries = entries
                     \/ to.entries = [entries EXCEPT ![h.partition].stopReady = TRUE]
                     \/ to.entries = [[entries EXCEPT ![h.partition].stopReady = TRUE]
                                        EXCEPT ![h.partition] = MarkedStopped(@)]
                  /\ Finish(to, {}, {}, inbox)
    <3>1. PICK h \in hooks :
            LET p == h.partition
                old == entries[p]
                pinned == state \in Streaming /\ old.grant = h.grant
                            /\ old.state = "stopping-graceful"
                drained == pinned /\ old.pending = {} /\ old.requested = 0
                done == [Here EXCEPT !.hooks = @ \ {h}]
                ready == [done EXCEPT !.entries[p].stopReady = TRUE]
            IN Finish(CASE ~pinned -> done
                        [] pinned /\ ~drained -> ready
                        [] OTHER ->
                             [ready EXCEPT !.entries[p] = MarkedStopped(@),
                                           !.index = Unrouted(old.sid),
                                           !.timers =
                                             @ \ TimersOf({"partition_commit_status",
                                                           "partition_graceful_timeout"}, p),
                                           !.srv = Answer(@, p)],
                      {}, {}, inbox)
      BY <1>6 DEF StopHookReturns
    <3> DEFINE p == h.partition
               old == entries[p]
               pinned == state \in Streaming /\ old.grant = h.grant
                           /\ old.state = "stopping-graceful"
               drained == pinned /\ old.pending = {} /\ old.requested = 0
               done == [Here EXCEPT !.hooks = @ \ {h}]
               ready == [done EXCEPT !.entries[p].stopReady = TRUE]
               stopped == [ready EXCEPT !.entries[p] = MarkedStopped(@),
                                        !.index = Unrouted(old.sid),
                                        !.timers = @ \ TimersOf({"partition_commit_status",
                                                                 "partition_graceful_timeout"}, p),
                                        !.srv = Answer(@, p)]
    <3>2. /\ done.entries = entries
          /\ ready.entries = [entries EXCEPT ![p].stopReady = TRUE]
          /\ stopped.entries = [[entries EXCEPT ![p].stopReady = TRUE]
                                  EXCEPT ![p] = MarkedStopped(@)]
      BY DEF Here
    <3>3. CASE ~pinned
      <4>1. Finish(done, {}, {}, inbox)
        BY <3>1, <3>3
      <4> QED
        BY <3>2, <4>1
    <3>4. CASE pinned /\ ~drained
      <4>1. Finish(ready, {}, {}, inbox)
        BY <3>1, <3>4
      <4> QED
        BY <3>2, <4>1
    <3>5. CASE pinned /\ drained
      <4>1. Finish(stopped, {}, {}, inbox)
        BY <3>1, <3>5
      <4> QED
        BY <3>2, <4>1
    <3> QED
      BY <3>3, <3>4, <3>5
  <2> DEFINE p == h.partition
             entry == [entries[p] EXCEPT !.stopReady = TRUE]
             es == [entries EXCEPT ![p] = entry]
  <2>2. p \in Partition
    BY InvFields DEF HooksOk
  <2>3. /\ entry.claimed = entries[p].claimed /\ entry.pending = entries[p].pending
        /\ entry.committed = entries[p].committed /\ entry \in EntryT
    <3>1. entries[p] \in EntryT
      BY <1>1, <2>2 DEF EntriesT
    <3> HIDE DEF p
    <3>2. entry \in EntryT
      BY <3>1 DEF EntryT
    <3>3. /\ entry.claimed = entries[p].claimed /\ entry.pending = entries[p].pending
          /\ entry.committed = entries[p].committed
      BY <3>1 DEF EntryT
    <3> QED
      BY <3>2, <3>3
  <2>4. es = [entries EXCEPT ![p].stopReady = TRUE]
    OBVIOUS
  <2> HIDE DEF entry
  <2>5. Claims(es)
    BY <1>1, <2>2, <2>3, AlikeClaims
  <2>6. es[p] = entry /\ [es EXCEPT ![p] = MarkedStopped(@)]
                           = [entries EXCEPT ![p] = MarkedStopped(entry)]
    BY <1>1, <2>2 DEF EntriesT
  <2>7. ClaimOk(MarkedStopped(entry))
    <3>1. ClaimOk(entry)
      BY <2>2, <2>5, <2>6 DEF Claims
    <3> QED
      BY <2>3, <3>1, ClaimStopped
  <2>8. Claims([es EXCEPT ![p] = MarkedStopped(@)])
    BY <1>1, <2>2, <2>6, <2>7, ClaimChanged
  <2> HIDE DEF es
  <2> QED
    BY <2>1, <2>4, <2>5, <2>8, FinishClaims
<1>7. ASSUME NEW p \in Partition, PartitionGracefulTimeout(p) PROVE Claims(entries')
  <2>1. PICK to : /\ \/ to.entries = entries
                     \/ to.entries = [entries EXCEPT ![p] = MarkedStopped(@)]
                  /\ Finish(to, {}, {}, inbox)
    <3>1. CASE entries[p].state = "stopping-graceful"
      BY <1>7, <3>1 DEF PartitionGracefulTimeout, Here
    <3>2. CASE entries[p].state # "stopping-graceful"
      BY <1>7, <3>2 DEF PartitionGracefulTimeout, Here
    <3> QED
      BY <3>1, <3>2
  <2>2. ClaimOk(MarkedStopped(entries[p]))
    BY <1>2, ClaimStopped
  <2>3. Claims([entries EXCEPT ![p] = MarkedStopped(@)])
    BY <1>1, <2>2, ClaimChanged
  <2> QED
    BY <2>1, <2>3, FinishClaims
<1>8. ASSUME NEW p \in Partition, PartitionReassignGc(p) PROVE Claims(entries')
  <2> DEFINE emptied == [entries[p] EXCEPT !.pending = {}, !.claimed = {}]
             reaped == IF Routed(p) THEN emptied ELSE Absent
  <2>1. PICK to, rejected : /\ \/ to.entries = entries
                               \/ to.entries = [entries EXCEPT ![p] = reaped]
                            /\ Finish(to, {}, rejected, inbox)
    BY <1>8 DEF PartitionReassignGc, Here
  <2>2. emptied.claimed = {} /\ emptied.pending = {}
    BY <1>2 DEF EntryT
  <2>3. Absent.claimed = {} /\ Absent.pending = {}
    BY DEF Absent
  <2>4. ClaimOk(reaped)
    BY <2>2, <2>3, ClaimNone
  <2> HIDE DEF reaped
  <2>5. Claims([entries EXCEPT ![p] = reaped])
    BY <1>1, <2>4, ClaimChanged
  <2> QED
    BY <2>1, <2>5, FinishClaims
<1> QED
  BY <1>3, <1>4, <1>5, <1>6, <1>7, <1>8

LEMMA ClaimStep ==
  ASSUME ReaderInv, Claims(entries), [Next]_vars PROVE Claims(entries')
<1>1. CASE entries' = entries
  BY <1>1
<1>2. CASE entries' = [p \in Partition |-> Absent]
  <2>1. Absent.claimed = {} /\ Absent.pending = {}
    BY DEF Absent
  <2>2. ClaimOk(Absent)
    BY <2>1, ClaimNone
  <2> QED
    BY <1>2, <2>2 DEF Claims
<1>3. CASE HandleInit \/ HandleDisconnected
  BY <1>1, <1>2, <1>3 DEF HandleInit, HandleDisconnected, ToReconnecting, Terminate
<1>4. CASE HandleStart \/ HandleForcedStop \/ HandleGracefulStop \/ HandleCommitResponse
           \/ HandleCommit
  BY <1>4, StartClaims, StopClaims, CommitResponseClaims, CommitClaims
<1>5. CASE DropFrame \/ Ignored
  BY <1>1, <1>5 DEF DropFrame, Ignored, Drop, machineVars
<1>6. CASE Server
  BY <1>1, <1>6
  DEF Server, ServerInit, StreamBreaks, ServerGrant, ServerCommit, ServerData, ServerEnd,
      ServerStatus, ServerStop, machineVars
<1>7. CASE StartTimeout \/ RetryBackoff \/ RecoveryWindow \/ GracefulTimeout
  BY <1>1, <1>2, <1>7
  DEF StartTimeout, RetryBackoff, RecoveryWindow, GracefulTimeout, ToReconnecting, Terminate
<1>8. CASE \E p \in Partition : PartitionCommitStatus(p)
  BY <1>1, <1>8 DEF PartitionCommitStatus
<1>9. CASE Read \/ Close \/ Destroy \/ MarkClosed \/ \E w \in Waiter : Commit(w)
  BY <1>1, <1>2, <1>9 DEF Read, Close, Destroy, MarkClosed, Commit, machineVars, Terminate
<1>10. CASE UNCHANGED vars
  BY <1>1, <1>10 DEF vars, machineVars
<1> QED
  BY <1>3, <1>4, <1>5, <1>6, <1>7, <1>8, <1>9, <1>10, OtherClaims
  DEF Next, Handle, PartitionTimers

LEMMA ClaimsHold == Spec => []Claims(entries)
<1>1. Init => Claims(entries)
  <2>1. Absent.claimed = {} /\ Absent.pending = {}
    BY DEF Absent
  <2>2. ClaimOk(Absent)
    BY <2>1, ClaimNone
  <2> QED
    BY <2>2 DEF Init, Claims
<1>2. ReaderInv /\ Claims(entries) /\ [Next]_vars => Claims(entries')
  BY ClaimStep
<1>3. Claims(entries)' = Claims(entries')
  BY DEF Claims
<1>4. ReaderInv /\ Claims(entries) /\ [Next]_vars => Claims(entries)'
  BY <1>2, <1>3
<1> QED
  BY <1>1, <1>4, ReaderConsistent, PTL DEF Spec

\* The registry is in order whatever stops, reconnects, regrants and commits do: a session id
\* of the stream leads to the partition that holds it, and the offsets an entry has claimed
\* are those its pending commits still have to put on the wire.
THEOREM RegistryHolds == Spec => []RegistryInv
<1>1. ReaderInv /\ Claims(entries) => RegistryInv
  BY DEF ReaderInv, Registered, Held, Claims, ClaimOk, RegistryInv
<1> QED
  BY <1>1, ClaimsHold, ReaderConsistent, PTL

-----------------------------------------------------------------------------
(* Answers and commits the server expects                                   *)

\* What the server has of the session that an entry holds: nothing before the grant is
\* answered, and then what the entry has committed, asked for or claimed; a stop the entry
\* is preparing for has been asked.
Sound(e, sess) ==
  /\ ~sess.answered
  /\ e.state = "stopping-graceful" => sess.asked # "no"
  /\ e.ackPending => ~sess.started /\ e.requested = 0 /\ sess.wire \subseteq Below(e.committed)
  /\ ~e.ackPending => /\ Live(sess) => sess.started
                      /\ sess.wire \subseteq Below(Floor(e)) \cup e.claimed
Tracked(es, s, ix) == \A sid \in Sid : ix[sid] # None => Sound(es[ix[sid]], s.sess[sid])

\* A grant under way is the first the reader hears of its session, a stop has been asked.
Due(f, s, ix) ==
  /\ f.type = "start" => /\ ix[f.sid] = None
                         /\ ~s.sess[f.sid].started /\ ~s.sess[f.sid].answered
                         /\ s.sess[f.sid].wire \subseteq Below(f.committed)
  /\ f.type = "stop" => s.sess[f.sid].asked # "no"
Once(box) ==
  \A i, j \in DOMAIN box :
    box[i].type = "start" /\ box[j].type = "start" /\ box[i].sid = box[j].sid => i = j

\* A start hook that runs for the entry's grant has its session id.
Fits(h, e, grant) ==
  h.type = "start" => /\ h.grant \in 1 .. grant
                      /\ e.state # "absent" /\ e.grant = h.grant => e.sid = h.sid

Expected(es, s, ix, box, hs, grant) ==
  /\ s.refused = {}
  /\ \A h \in hs : Fits(h, es[h.partition], grant)
  /\ s.conn = "up" => /\ Tracked(es, s, ix)
                      /\ \A f \in Range(box) : Due(f, s, ix)
                      /\ Once(box)
ExpectedNow == Expected(entries, srv, index, inbox, hooks, grantSeq)

\* Everything an answer depends on.
AnswersInv == ReaderInv /\ Claims(entries) /\ ExpectedNow

-----------------------------------------------------------------------------
(* Grants under way are of different sessions                               *)

LEMMA OnceTail ==
  ASSUME NEW box \in Seq(FrameT), box # << >>, Once(box)
  PROVE  /\ Once(Tail(box))
         /\ Head(box).type = "start" =>
              \A f \in Range(Tail(box)) : f.type = "start" => f.sid # Head(box).sid
<1>1. /\ Len(box) \in Nat \ {0} /\ Len(Tail(box)) = Len(box) - 1
      /\ \A i \in 1 .. Len(Tail(box)) : Tail(box)[i] = box[i + 1]
      /\ DOMAIN box = 1 .. Len(box) /\ DOMAIN Tail(box) = 1 .. Len(Tail(box))
      /\ Head(box) = box[1]
  BY HeadTailProperties, EmptySeq, LenProperties
<1>2. \A i \in DOMAIN Tail(box) :
        i \in Nat /\ i > 0 /\ i + 1 \in DOMAIN box /\ Tail(box)[i] = box[i + 1]
  BY <1>1
<1>3. 1 \in DOMAIN box
  BY <1>1
<1>4. \A i, j \in DOMAIN Tail(box) : i + 1 = j + 1 => i = j
  BY <1>2
<1>5. Once(Tail(box))
  BY <1>2, <1>4 DEF Once
<1>6. ASSUME NEW i \in DOMAIN Tail(box), box[1].type = "start", box[i + 1].type = "start",
             box[i + 1].sid = box[1].sid
      PROVE  FALSE
  <2>1. i + 1 = 1
    BY <1>2, <1>3, <1>6 DEF Once
  <2> QED
    BY <1>2, <2>1
<1> QED
  BY <1>1, <1>2, <1>5, <1>6 DEF Range

LEMMA OnceAppend ==
  ASSUME NEW box \in Seq(FrameT), Once(box), NEW f \in FrameT,
         f.type = "start" => \A g \in Range(box) : g.type = "start" => g.sid # f.sid
  PROVE  Once(Append(box, f))
<1> DEFINE new == Append(box, f)
<1>1. /\ new \in Seq(FrameT) /\ Len(box) \in Nat
      /\ Len(new) = Len(box) + 1
      /\ \A i \in 1 .. Len(box) : new[i] = box[i]
      /\ new[Len(box) + 1] = f
      /\ DOMAIN box = 1 .. Len(box) /\ DOMAIN new = 1 .. Len(new)
  BY LenProperties
<1> HIDE DEF new
<1>2. \A i \in DOMAIN new : \/ i \in DOMAIN box /\ new[i] = box[i] /\ box[i] \in Range(box)
                            \/ i = Len(box) + 1 /\ new[i] = f
  BY <1>1 DEF Range
<1>3. Once(new)
  BY <1>2 DEF Once
<1> QED
  BY <1>3 DEF new

LEMMA OncePrefix ==
  ASSUME NEW box \in Seq(FrameT), Once(box), NEW n \in 0 .. Len(box)
  PROVE  Once(SubSeq(box, 1, n))
<1> DEFINE cut == SubSeq(box, 1, n)
<1>1. Len(box) \in Nat /\ DOMAIN box = 1 .. Len(box)
  BY LenProperties
<1>2. \A i \in 1 .. n : box[i] \in FrameT
  BY <1>1, ElementOfSeq
<1>3. /\ cut \in Seq(FrameT) /\ Len(cut) = IF 1 <= n THEN n - 1 + 1 ELSE 0
      /\ \A i \in 1 .. n - 1 + 1 : cut[i] = box[1 + i - 1]
  BY <1>1, <1>2, SubSeqProperties
<1> HIDE DEF cut
<1>4. DOMAIN cut = 1 .. n
  BY <1>1, <1>3, LenProperties
<1>5. \A i \in DOMAIN cut : i \in DOMAIN box /\ cut[i] = box[i]
  BY <1>1, <1>3, <1>4
<1>6. Once(cut)
  BY <1>5 DEF Once
<1> QED
  BY <1>6 DEF cut

\* Where the frames are when one is put among them.
LEMMA InsertPlaces ==
  ASSUME NEW box \in Seq(FrameT), NEW f \in FrameT, NEW n \in 0 .. Len(box)
  PROVE  LET new == InsertAt(box, n + 1, f)
         IN /\ new \in Seq(FrameT) /\ Len(new) = Len(box) + 1
            /\ DOMAIN new = 1 .. Len(box) + 1
            /\ \A i \in 1 .. Len(box) + 1 :
                 \/ i <= n /\ i \in DOMAIN box /\ new[i] = box[i]
                 \/ i = n + 1 /\ new[i] = f
                 \/ i > n + 1 /\ i - 1 \in DOMAIN box /\ new[i] = box[i - 1]
<1> DEFINE a == SubSeq(box, 1, n)
           b == SubSeq(box, n + 1, Len(box))
           c == Append(a, f)
           new == c \o b
<1>1. Len(box) \in Nat /\ DOMAIN box = 1 .. Len(box) /\ (n + 1) - 1 = n /\ n \in Nat
      /\ n <= Len(box)
  BY LenProperties
<1>2. \A i \in 1 .. Len(box) : box[i] \in FrameT
  BY <1>1, ElementOfSeq
<1>3. /\ a \in Seq(FrameT) /\ Len(a) = IF 1 <= n THEN n - 1 + 1 ELSE 0
      /\ \A i \in 1 .. n - 1 + 1 : a[i] = box[1 + i - 1]
  BY <1>1, <1>2, SubSeqProperties
<1>4. /\ b \in Seq(FrameT)
      /\ Len(b) = IF n + 1 <= Len(box) THEN Len(box) - (n + 1) + 1 ELSE 0
      /\ \A i \in 1 .. Len(box) - (n + 1) + 1 : b[i] = box[n + 1 + i - 1]
  BY <1>1, <1>2, SubSeqProperties
<1>5. InsertAt(box, n + 1, f) = new
  <2>1. InsertAt(box, n + 1, f) = (a \o <<f>>) \o b
    BY <1>1 DEF InsertAt
  <2> HIDE DEF a, b
  <2>2. c = a \o <<f>>
    BY <1>3
  <2> QED
    BY <2>1, <2>2
<1> HIDE DEF a, b
<1>6. Len(a) = n /\ \A i \in 1 .. n : a[i] = box[i]
  <2>1. Len(a) = n
    BY <1>1, <1>3
  <2>2. \A i \in 1 .. n : i \in 1 .. n - 1 + 1 /\ 1 + i - 1 = i
    BY <1>1
  <2> QED
    BY <1>3, <2>1, <2>2
<1>7. Len(b) = Len(box) - n /\ \A i \in 1 .. Len(box) - n : b[i] = box[n + i]
  <2> DEFINE m == Len(box)
  <2>1. m \in Nat /\ n <= m /\ Len(b) = (IF n + 1 <= m THEN m - (n + 1) + 1 ELSE 0)
        /\ \A i \in 1 .. m - (n + 1) + 1 : b[i] = box[n + 1 + i - 1]
    BY <1>1, <1>4
  <2> HIDE DEF m
  <2>2. Len(b) = m - n
    BY <1>1, <2>1
  <2>3. \A i \in 1 .. m - n : i \in 1 .. m - (n + 1) + 1 /\ n + 1 + i - 1 = n + i
    BY <1>1, <2>1
  <2>4. \A i \in 1 .. m - n : b[i] = box[n + i]
    BY <2>1, <2>3
  <2> QED
    BY <2>2, <2>4 DEF m
<1>8. /\ c \in Seq(FrameT) /\ Len(c) = n + 1 /\ c[n + 1] = f
      /\ \A i \in 1 .. n : c[i] = box[i]
  BY <1>3, <1>6
<1> HIDE DEF c
<1>9. /\ new \in Seq(FrameT) /\ Len(new) = Len(c) + Len(b)
      /\ \A i \in 1 .. Len(c) + Len(b) :
           new[i] = IF i <= Len(c) THEN c[i] ELSE b[i - Len(c)]
  BY <1>4, <1>8, ConcatProperties
<1>10. Len(new) = Len(box) + 1 /\ DOMAIN new = 1 .. Len(box) + 1
  <2>1. Len(new) = Len(box) + 1
    BY <1>1, <1>7, <1>8, <1>9
  <2> QED
    BY <1>9, <2>1, LenProperties
<1> HIDE DEF new
<1>11. ASSUME NEW i \in 1 .. Len(box) + 1
       PROVE  \/ i <= n /\ i \in DOMAIN box /\ new[i] = box[i]
              \/ i = n + 1 /\ new[i] = f
              \/ i > n + 1 /\ i - 1 \in DOMAIN box /\ new[i] = box[i - 1]
  <2>1. i \in Nat /\ i \in 1 .. Len(c) + Len(b)
    BY <1>1, <1>7, <1>8
  <2>2. CASE i <= n
    BY <1>1, <1>8, <1>9, <2>1, <2>2
  <2>3. CASE i = n + 1
    BY <1>1, <1>8, <1>9, <2>1, <2>3
  <2>4. CASE i > n + 1
    <3>1. new[i] = b[i - (n + 1)]
      BY <1>1, <1>8, <1>9, <2>1, <2>4
    <3>2. i - (n + 1) \in 1 .. Len(box) - n /\ n + (i - (n + 1)) = i - 1
          /\ i - 1 \in 1 .. Len(box)
      BY <1>1, <2>1, <2>4
    <3> QED
      BY <1>1, <1>7, <2>4, <3>1, <3>2
  <2> QED
    BY <1>1, <2>1, <2>2, <2>3, <2>4
<1> QED
  BY <1>5, <1>9, <1>10, <1>11

\* A commit among them.
LEMMA OnceInsert ==
  ASSUME NEW box \in Seq(FrameT), Once(box), NEW f \in FrameT, f.type # "start",
         NEW n \in 0 .. Len(box)
  PROVE  Once(InsertAt(box, n + 1, f))
<1> DEFINE new == InsertAt(box, n + 1, f)
<1>1. n \in Nat /\ DOMAIN new = 1 .. Len(box) + 1
      /\ \A i \in 1 .. Len(box) + 1 :
           \/ i <= n /\ i \in DOMAIN box /\ new[i] = box[i]
           \/ i = n + 1 /\ new[i] = f
           \/ i > n + 1 /\ i - 1 \in DOMAIN box /\ new[i] = box[i - 1]
  BY InsertPlaces
<1> HIDE DEF new
<1>2. Once(new)
  <2> SUFFICES ASSUME NEW i \in DOMAIN new, NEW j \in DOMAIN new,
                      new[i].type = "start", new[j].type = "start", new[i].sid = new[j].sid
               PROVE  i = j
    BY DEF Once
  <2>1. i \in Nat /\ j \in Nat
    BY <1>1
  <2>2. /\ \/ i <= n /\ i \in DOMAIN box /\ new[i] = box[i]
           \/ i > n + 1 /\ i - 1 \in DOMAIN box /\ new[i] = box[i - 1]
        /\ \/ j <= n /\ j \in DOMAIN box /\ new[j] = box[j]
           \/ j > n + 1 /\ j - 1 \in DOMAIN box /\ new[j] = box[j - 1]
    BY <1>1
  <2>3. \A k, l \in DOMAIN box :
          box[k].type = "start" /\ box[l].type = "start" /\ box[k].sid = box[l].sid => k = l
    BY DEF Once
  <2>4. CASE i <= n /\ j <= n
    BY <1>1, <2>1, <2>2, <2>3, <2>4
  <2>5. CASE i <= n /\ j > n
    <3>1. i = j - 1
      BY <1>1, <2>1, <2>2, <2>3, <2>5
    <3> QED
      BY <1>1, <2>1, <2>2, <2>5, <3>1
  <2>6. CASE i > n /\ j <= n
    <3>1. j = i - 1
      BY <1>1, <2>1, <2>2, <2>3, <2>6
    <3> QED
      BY <1>1, <2>1, <2>2, <2>6, <3>1
  <2>7. CASE i > n /\ j > n
    <3>1. i - 1 = j - 1
      BY <1>1, <2>1, <2>2, <2>3, <2>7
    <3> QED
      BY <2>1, <3>1
  <2> QED
    BY <1>1, <2>1, <2>4, <2>5, <2>6, <2>7
<1> QED
  BY <1>2 DEF new

-----------------------------------------------------------------------------
(* What a request does to its session                                       *)

\* t is s but for what one session has put on the wire, and whether it has started.
Adds(s, t, sid, offsets) ==
  /\ t.refused = s.refused /\ t.conn = s.conn
  /\ \A i \in Sid : i # sid => t.sess[i] = s.sess[i]
  /\ t.sess[sid].partition = s.sess[sid].partition /\ t.sess[sid].asked = s.sess[sid].asked
  /\ t.sess[sid].answered = s.sess[sid].answered
  /\ s.sess[sid].started => t.sess[sid].started
  /\ t.sess[sid].wire \subseteq s.sess[sid].wire \cup offsets

\* A commit on a session that has started, of offsets that are not yet on its wire.
LEMMA CommitsAdds ==
  ASSUME NEW s \in ServerT, NEW sid \in Sid, NEW offsets \in SUBSET Nat,
         s.conn = "up" => /\ s.sess[sid].partition # None
                          /\ Live(s.sess[sid]) => /\ s.sess[sid].started
                                                  /\ s.sess[sid].wire \cap offsets = {}
  PROVE  Adds(s, Commits(s, sid, offsets), sid, offsets)
<1> DEFINE t == [s EXCEPT !.sess[sid].wire = @ \cup offsets,
                          !.accepted[s.sess[sid].partition] = @ \cup offsets]
<1>1. Adds(s, s, sid, offsets)
  BY DEF Adds
<1>2. Adds(s, t, sid, offsets)
  <2>1. /\ t.sess = [s.sess EXCEPT ![sid].wire = @ \cup offsets]
        /\ t.refused = s.refused /\ t.conn = s.conn
    BY DEF ServerT
  <2> HIDE DEF t
  <2>2. s.sess \in [Sid -> SessionT]
    BY ServerFields
  <2> QED
    BY <2>1, <2>2 DEF Adds, SessionT
<1>3. Commits(s, sid, offsets) \in {s, t}
  BY DEF Commits
<1> QED
  BY <1>1, <1>2, <1>3

\* What pending commits owe.
Owed(pendings, floor) == From(AllWire(pendings), floor)

LEMMA CommitsAllAdds ==
  ASSUME NEW s \in ServerT, NEW sid \in Sid, NEW pendings \in SUBSET PendingT, NEW floor,
         Parted(pendings),
         s.conn = "up" => /\ s.sess[sid].partition # None
                          /\ Live(s.sess[sid]) =>
                               /\ s.sess[sid].started
                               /\ s.sess[sid].wire \cap Owed(pendings, floor) = {}
  PROVE  Adds(s, CommitsAll(s, sid, pendings, floor), sid, Owed(pendings, floor))
<1> DEFINE owed == Owed(pendings, floor)
<1>1. owed \in SUBSET Nat
  BY DEF Owed, AllWire, From, PendingT
<1>2. Adds(s, s, sid, owed)
  BY DEF Adds
<1>3. Adds(s, Commits(s, sid, owed), sid, owed)
  BY <1>1, CommitsAdds
<1>4. \A q, r \in pendings : q # r => From(q.wire \cap r.wire, floor) = {}
  BY DEF Parted, From
<1>5. CommitsAll(s, sid, pendings, floor) \in {s, Commits(s, sid, owed)}
  BY <1>4 DEF CommitsAll, Owed, AllWire
<1> QED
  BY <1>2, <1>3, <1>5

\* The answer to a grant that has none.
LEMMA StartResponseAdds ==
  ASSUME NEW s \in ServerT, NEW sid \in Sid, NEW commitOffset \in Nat,
         s.conn = "up" => s.sess[sid].partition # None /\ ~s.sess[sid].started
  PROVE  LET t == StartResponse(s, sid, commitOffset)
         IN /\ Adds(s, t, sid, Below(commitOffset))
            /\ s.conn = "up" /\ Live(s.sess[sid]) => t.sess[sid].started
<1> DEFINE new == [s.sess[sid] EXCEPT !.started = TRUE, !.wire = @ \cup Below(commitOffset),
                                      !.pos = Highest(@, commitOffset)]
           t == [s EXCEPT !.sess[sid] = new,
                          !.accepted[s.sess[sid].partition] = @ \cup Below(commitOffset)]
<1>1. Adds(s, s, sid, Below(commitOffset))
  BY DEF Adds
<1>2. Adds(s, t, sid, Below(commitOffset)) /\ t.sess[sid].started
  <2>1. s.sess \in [Sid -> SessionT] /\ s.sess[sid] \in SessionT
    BY ServerFields
  <2>2. /\ new.partition = s.sess[sid].partition /\ new.asked = s.sess[sid].asked
        /\ new.answered = s.sess[sid].answered /\ new.started
        /\ new.wire = s.sess[sid].wire \cup Below(commitOffset)
    BY <2>1 DEF SessionT
  <2> HIDE DEF new
  <2>3. /\ t.sess = [s.sess EXCEPT ![sid] = new]
        /\ t.refused = s.refused /\ t.conn = s.conn
    BY DEF ServerT
  <2> QED
    BY <2>1, <2>2, <2>3 DEF Adds
<1>3. CASE s.conn = "up" /\ Live(s.sess[sid])
  <2>1. StartResponse(s, sid, commitOffset) = t
    BY <1>3 DEF StartResponse
  <2> QED
    BY <1>2, <2>1
<1>4. CASE ~(s.conn = "up" /\ Live(s.sess[sid]))
  <2>1. StartResponse(s, sid, commitOffset) = s
    BY <1>4 DEF StartResponse
  <2> QED
    BY <1>1, <1>4, <2>1
<1> QED
  BY <1>3, <1>4

\* t is s but for one session, which has still been asked what it was asked.
Touches(s, t, sid) ==
  /\ t.refused = s.refused /\ t.conn = s.conn
  /\ \A i \in Sid : i # sid => t.sess[i] = s.sess[i]
  /\ t.sess[sid].asked = s.sess[sid].asked

LEMMA AddsTouches ==
  ASSUME NEW s, NEW t, NEW sid, NEW offsets, Adds(s, t, sid, offsets) PROVE Touches(s, t, sid)
BY DEF Adds, Touches

LEMMA AddsTrans ==
  ASSUME NEW s, NEW t, NEW u, NEW sid, NEW a, NEW b, Adds(s, t, sid, a), Adds(t, u, sid, b)
  PROVE  Adds(s, u, sid, a \cup b)
BY DEF Adds

\* The answer to a stop that has none.
LEMMA StopResponseTouches ==
  ASSUME NEW s \in ServerT, NEW sid \in Sid,
         s.conn = "up" => s.sess[sid].asked # "no" /\ ~s.sess[sid].answered
  PROVE  Touches(s, StopResponse(s, sid), sid)
<1> DEFINE new == [s.sess[sid] EXCEPT !.answered = TRUE, !.wire = {}, !.pos = 0]
           t == [s EXCEPT !.sess[sid] = new]
<1>1. Touches(s, s, sid)
  BY DEF Touches
<1>2. Touches(s, t, sid)
  <2>1. s.sess \in [Sid -> SessionT] /\ s.sess[sid] \in SessionT
    BY ServerFields
  <2>2. new.asked = s.sess[sid].asked
    BY <2>1 DEF SessionT
  <2> HIDE DEF new
  <2>3. /\ t.sess = [s.sess EXCEPT ![sid] = new]
        /\ t.refused = s.refused /\ t.conn = s.conn
    BY DEF ServerT
  <2> QED
    BY <2>1, <2>2, <2>3 DEF Touches
<1>3. StopResponse(s, sid) \in {s, t}
  BY DEF StopResponse
<1> QED
  BY <1>1, <1>2, <1>3

-----------------------------------------------------------------------------
(* What a step has to show                                                  *)

\* The session of an entry whose commits are where they were.
LEMMA SoundAlike ==
  ASSUME NEW e, NEW sess, Sound(e, sess), NEW f,
         f.ackPending = e.ackPending, f.requested = e.requested, f.committed = e.committed,
         e.claimed \subseteq f.claimed,
         f.state = "stopping-graceful" => e.state = "stopping-graceful" \/ sess.asked # "no"
  PROVE  Sound(f, sess)
BY DEF Sound, Floor

\* A committed offset arrives.
LEMMA SoundAdvanced ==
  ASSUME NEW e \in EntryT, NEW sess \in SessionT, Sound(e, sess), NEW offset \in Nat
  PROVE  Sound(Advanced(e, offset), sess)
<1> DEFINE c == Highest(e.committed, offset)
           a == Advanced(e, offset)
<1>1. c \in Nat /\ e.committed \in Nat /\ c >= e.committed
  BY EntryFields DEF Highest
<1>2. /\ a.committed = c /\ a.claimed = From(e.claimed, c) /\ a.state = e.state
      /\ a.ackPending = e.ackPending
      /\ a.requested = IF e.requested <= c THEN 0 ELSE e.requested
  BY DEF EntryT, Advanced
<1> HIDE DEF c, a
<1>3. e.requested \in Nat /\ sess.wire \subseteq Nat /\ e.claimed \subseteq Nat
  BY EntryFields DEF SessionT
<1>4. ASSUME e.ackPending PROVE Sound(a, sess)
  <2>1. Below(e.committed) \subseteq Below(c)
    BY <1>1 DEF Below
  <2>2. a.requested = 0
    BY <1>1, <1>2, <1>4 DEF Sound
  <2> QED
    BY <1>2, <1>4, <2>1, <2>2 DEF Sound
<1>5. ASSUME ~e.ackPending PROVE Sound(a, sess)
  <2>1. Floor(a) \in Nat /\ Floor(a) >= c /\ Floor(a) >= Floor(e)
    BY <1>1, <1>2, <1>3 DEF Floor
  <2>2. ASSUME NEW o \in sess.wire PROVE o \in Below(Floor(a)) \cup a.claimed
    <3>1. o \in Nat
      BY <1>3
    <3>2. CASE o \in Below(Floor(e))
      BY <1>1, <1>3, <2>1, <3>1, <3>2 DEF Below, Floor
    <3>3. CASE o \in e.claimed
      BY <1>1, <1>2, <2>1, <3>1, <3>3 DEF Below, From
    <3> QED
      BY <1>5, <3>2, <3>3 DEF Sound
  <2> QED
    BY <1>2, <1>5, <2>2 DEF Sound
<1>6. e.ackPending \in BOOLEAN
  BY DEF EntryT
<1>7. Sound(a, sess)
  BY <1>4, <1>5, <1>6
<1> QED
  BY <1>7 DEF a

\* Frames that stay under way.
LEMMA FramesDue ==
  ASSUME ReaderInv, NEW t, NEW sid \in Sid, index[sid] # None, Touches(srv, t, sid),
         NEW jx, Narrower(index, jx), NEW frames, frames \subseteq Range(inbox),
         \A f \in Range(inbox) : Due(f, srv, index)
  PROVE  \A f \in frames : Due(f, t, jx)
<1> SUFFICES ASSUME NEW f \in frames PROVE Due(f, t, jx)
  OBVIOUS
<1>1. f \in FrameT /\ Due(f, srv, index)
  BY InvFields
<1>2. CASE f.type = "start"
  <2>1. f.sid \in Sid /\ f.sid # sid
    BY <1>1, <1>2, FrameFields DEF Due
  <2> QED
    BY <1>1, <1>2, <2>1 DEF Due, Touches, Narrower
<1>3. CASE f.type = "stop"
  <2>1. f.sid \in Sid
    BY <1>1, <1>3, FrameFields DEF Tells
  <2> QED
    BY <1>1, <1>3, <2>1 DEF Due, Touches
<1> QED
  BY <1>2, <1>3 DEF Due

\* A step that leaves the entries alone and the sessions too, if the stream lives on.
LEMMA ExpectedStill ==
  ASSUME ReaderInv, ExpectedNow,
         NEW t, t.refused = srv.refused,
         t.conn = "up" => srv.conn = "up" /\ t.sess = srv.sess,
         NEW jx, Narrower(index, jx), NEW rest, Range(rest) \subseteq Range(inbox),
         Once(inbox) => Once(rest), NEW hs, hs \subseteq hooks
  PROVE  Expected(entries, t, jx, rest, hs, grantSeq)
<1>1. t.refused = {} /\ \A h \in hs : Fits(h, entries[h.partition], grantSeq)
  BY DEF ExpectedNow, Expected
<1>2. ASSUME t.conn = "up"
      PROVE  Tracked(entries, t, jx) /\ (\A f \in Range(rest) : Due(f, t, jx)) /\ Once(rest)
  <2>1. /\ Tracked(entries, srv, index) /\ \A f \in Range(inbox) : Due(f, srv, index)
        /\ Once(inbox) /\ t.sess = srv.sess
    BY <1>2 DEF ExpectedNow, Expected
  <2>2. Tracked(entries, t, jx)
    BY <2>1 DEF Tracked, Narrower
  <2>3. ASSUME NEW f \in Range(rest) PROVE Due(f, t, jx)
    <3>1. f \in FrameT /\ Due(f, srv, index)
      BY <2>1, InvFields
    <3>2. f.type = "start" => f.sid \in Sid
      BY <3>1, FrameFields
    <3> QED
      BY <2>1, <3>1, <3>2 DEF Due, Narrower
  <2> QED
    BY <2>1, <2>2, <2>3
<1> QED
  BY <1>1, <1>2 DEF Expected

\* A step that changes one entry, and at most the session it holds.
LEMMA ExpectedEntry ==
  ASSUME ReaderInv, ExpectedNow, NEW p \in Partition, NEW e,
         e.state # "absent" => /\ entries[p].state # "absent" /\ e.sid = entries[p].sid
                               /\ e.grant = entries[p].grant,
         NEW es, es = [entries EXCEPT ![p] = e],
         NEW t, t = srv \/ (Routed(p) /\ Touches(srv, t, entries[p].sid)),
         NEW jx, Narrower(index, jx),
         srv.conn = "up" /\ Routed(p) /\ jx[entries[p].sid] # None =>
           Sound(e, t.sess[entries[p].sid]),
         NEW rest, Range(rest) \subseteq Range(inbox), Once(inbox) => Once(rest),
         NEW hs, \A h \in hs : h \in hooks \/ h.type # "start"
  PROVE  Expected(es, t, jx, rest, hs, grantSeq)
<1> DEFINE sid == entries[p].sid
<1>1. entries \in EntriesT /\ HooksOk(hooks) /\ Registered(entries, index) /\ index \in IndexT
  BY InvFields
<1>2. es[p] = e /\ \A q \in Partition : q # p => es[q] = entries[q]
  BY <1>1 DEF EntriesT
<1>3. t.refused = {} /\ t.conn = srv.conn
  BY DEF ExpectedNow, Expected, Touches
<1>4. ASSUME NEW h \in hs PROVE Fits(h, es[h.partition], grantSeq)
  <2>1. CASE h \in hooks
    <3>1. Fits(h, entries[h.partition], grantSeq) /\ h.partition \in Partition
      BY <1>1, <2>1 DEF ExpectedNow, Expected, HooksOk
    <3> QED
      BY <1>2, <3>1 DEF Fits
  <2>2. CASE h.type # "start"
    BY <2>2 DEF Fits
  <2> QED
    BY <2>1, <2>2
<1>5. Routed(p) => sid \in Sid /\ index[sid] # None
  BY InvFields, ReaderAssumption DEF Routed, Book
<1>6. ASSUME NEW i \in Sid, index[i] = p PROVE Routed(p) /\ i = sid
  BY <1>1, <1>6, ReaderAssumption DEF Registered, Routed, Held
<1>7. ASSUME srv.conn = "up"
      PROVE  Tracked(es, t, jx) /\ (\A f \in Range(rest) : Due(f, t, jx)) /\ Once(rest)
  <2>1. /\ Tracked(entries, srv, index) /\ \A f \in Range(inbox) : Due(f, srv, index)
        /\ Once(inbox)
    BY <1>7 DEF ExpectedNow, Expected
  <2>2. ASSUME NEW i \in Sid, jx[i] # None PROVE Sound(es[jx[i]], t.sess[i])
    <3>1. jx[i] = index[i] /\ index[i] \in Partition /\ Sound(entries[index[i]], srv.sess[i])
      BY <1>1, <2>1, <2>2 DEF Narrower, Tracked, IndexT
    <3>2. CASE index[i] = p
      BY <1>2, <1>6, <1>7, <2>2, <3>1, <3>2
    <3>3. CASE index[i] # p
      <4>1. Routed(p) => i # sid
        BY <3>3 DEF Routed
      <4>2. t.sess[i] = srv.sess[i]
        BY <4>1 DEF Touches
      <4> QED
        BY <1>2, <3>1, <3>3, <4>2
    <3> QED
      BY <3>2, <3>3
  <2>3. ASSUME NEW f \in Range(rest) PROVE Due(f, t, jx)
    <3>1. CASE t = srv
      <4>1. f \in FrameT /\ Due(f, srv, index)
        BY <2>1, InvFields
      <4>2. f.type = "start" => f.sid \in Sid
        BY <4>1, FrameFields
      <4> QED
        BY <3>1, <4>1, <4>2 DEF Due, Narrower
    <3>2. CASE Routed(p) /\ Touches(srv, t, sid)
      BY <1>5, <2>1, <3>2, FramesDue
    <3> QED
      BY <3>1, <3>2
  <2> QED
    BY <2>1, <2>2, <2>3 DEF Tracked
<1> QED
  BY <1>3, <1>4, <1>7 DEF Expected

\* The same without a request.
LEMMA ExpectedReader ==
  ASSUME ReaderInv, ExpectedNow, NEW p \in Partition, NEW e,
         e.state # "absent" => /\ entries[p].state # "absent" /\ e.sid = entries[p].sid
                               /\ e.grant = entries[p].grant,
         NEW jx, Narrower(index, jx),
         srv.conn = "up" /\ Routed(p) /\ jx[entries[p].sid] # None =>
           Sound(e, srv.sess[entries[p].sid]),
         NEW rest, Range(rest) \subseteq Range(inbox), Once(inbox) => Once(rest),
         NEW hs, \A h \in hs : h \in hooks \/ h.type # "start"
  PROVE  Expected([entries EXCEPT ![p] = e], srv, jx, rest, hs, grantSeq)
<1> DEFINE t == srv
           es == [entries EXCEPT ![p] = e]
<1>1. t = srv /\ es = [entries EXCEPT ![p] = e]
  OBVIOUS
<1> HIDE DEF t, es
<1>2. srv.conn = "up" /\ Routed(p) /\ jx[entries[p].sid] # None =>
        Sound(e, t.sess[entries[p].sid])
  BY <1>1
<1>3. t = srv \/ (Routed(p) /\ Touches(srv, t, entries[p].sid))
  BY <1>1
<1>4. es = [entries EXCEPT ![p] = e]
  BY <1>1
<1>5. Expected(es, t, jx, rest, hs, grantSeq)
  BY <1>2, <1>3, <1>4, ExpectedEntry, ZenonT(60)
<1> QED
  BY <1>5 DEF t, es

\* The stream is gone.
LEMMA ExpectedBroken ==
  ASSUME NEW s \in ServerT, s.refused = {}
  PROVE  /\ \A es, ix, box, grant : Expected(es, Broken(s), ix, box, {}, grant)
         /\ Broken(s).refused = {} /\ Broken(s).conn = "none"
         /\ Opened(s).refused = {} /\ Opened(s).conn = "opened"
<1>1. /\ Broken(s).refused = {} /\ Broken(s).conn = "none"
      /\ Opened(s).refused = {} /\ Opened(s).conn = "opened"
  BY DEF Broken, Opened, ServerT
<1> QED
  BY <1>1 DEF Expected

LEMMA TerminateExpected ==
  ASSUME ReaderInv, ExpectedNow, NEW terminal, NEW resolved, Terminate(terminal, resolved),
         NEW grant
  PROVE  Expected(entries', srv', index', inbox', hooks', grant)
<1>1. srv \in ServerT /\ srv.refused = {}
  BY InvFields DEF ExpectedNow, Expected
<1> QED
  BY <1>1, ExpectedBroken DEF Terminate

\* A handler ends.
LEMMA FinishExpected ==
  ASSUME ReaderInv, ExpectedNow, NEW to, NEW rest, NEW grant,
         Expected(to.entries, to.srv, to.index, rest, to.hooks, grant),
         NEW resolved, NEW rejected, Finish(to, resolved, rejected, rest)
  PROVE  Expected(entries', srv', index', inbox', hooks', grant)
<1>1. CASE state = "closing" /\ ~HasPendingWork(to.entries)
  <2>1. Terminate("closed", resolved)
    BY <1>1 DEF Finish
  <2> QED
    BY <2>1, TerminateExpected
<1>2. CASE ~(state = "closing" /\ ~HasPendingWork(to.entries))
  BY <1>2 DEF Finish
<1> QED
  BY <1>1, <1>2

\* The head of the inbox is gone.
LEMMA TailExpected ==
  ASSUME ReaderInv, inbox # << >>
  PROVE  Range(Tail(inbox)) \subseteq Range(inbox) /\ (Once(inbox) => Once(Tail(inbox)))
BY InvFields, InboxTail, OnceTail

-----------------------------------------------------------------------------
(* The handlers                                                             *)

LEMMA InitExpected ==
  ASSUME AnswersInv, HandleInit
  PROVE  Expected(entries', srv', index', inbox', hooks', grantSeq')
<1>1. /\ inbox # << >> /\ index' = NoIndex /\ srv' = ReadRequest(srv, MaxBuffer)
      /\ inbox' = Tail(inbox) /\ UNCHANGED <<entries, grantSeq, hooks>>
  BY DEF HandleInit, Handles
<1>2. /\ srv'.refused = srv.refused /\ srv'.conn = srv.conn /\ srv'.sess = srv.sess
  BY <1>1, InvFields DEF AnswersInv, ReadRequest, ServerT
<1> QED
  BY <1>1, <1>2, NoIndexOk, TailExpected, ExpectedStill DEF AnswersInv

LEMMA ReconnectingExpected ==
  ASSUME AnswersInv, ToReconnecting, inbox' = inbox \/ (inbox # << >> /\ inbox' = Tail(inbox)),
         grantSeq' = grantSeq
  PROVE  Expected(entries', srv', index', inbox', hooks', grantSeq')
<1>1. index' = NoIndex /\ UNCHANGED <<entries, hooks, srv>>
  BY DEF ToReconnecting
<1>2. Range(inbox') \subseteq Range(inbox) /\ (Once(inbox) => Once(inbox'))
  BY TailExpected DEF AnswersInv
<1> QED
  BY <1>1, <1>2, NoIndexOk, ExpectedStill DEF AnswersInv

LEMMA DisconnectedExpected ==
  ASSUME AnswersInv, HandleDisconnected
  PROVE  Expected(entries', srv', index', inbox', hooks', grantSeq')
<1>1. \/ \E terminal : Terminate(terminal, {})
      \/ ToReconnecting /\ inbox # << >> /\ inbox' = Tail(inbox)
  BY DEF HandleDisconnected, Handles
<1>2. grantSeq' = grantSeq
  BY DEF HandleDisconnected
<1> QED
  BY <1>1, <1>2, TerminateExpected, ReconnectingExpected DEF AnswersInv

LEMMA DropExpected ==
  ASSUME AnswersInv, Drop, inbox # << >>
  PROVE  Expected(entries', srv', index', inbox', hooks', grantSeq')
<1>1. inbox' = Tail(inbox) /\ UNCHANGED <<entries, srv, index, hooks, grantSeq>>
  BY DEF Drop, machineVars
<1> QED
  BY <1>1, InvFields, NarrowerSelf, TailExpected, ExpectedStill DEF AnswersInv

LEMMA StartExpected ==
  ASSUME AnswersInv, HandleStart
  PROVE  Expected(entries', srv', index', inbox', hooks', grantSeq')
<1> DEFINE e == Event
           p == e.partition
           old == entries[p]
           c == Highest(old.committed, e.committed)
           kept == Narrowed(old.pending, c)
           entry == [sid |-> e.sid, grant |-> grantSeq + 1, ackPending |-> TRUE,
                     committed |-> c, requested |-> 0, watermark |-> c,
                     claimed |-> AllWire(kept), state |-> "active", stopReady |-> FALSE,
                     pending |-> kept]
           unrouted == IF old.state = "absent" THEN index ELSE Unrouted(old.sid)
           ix == [unrouted EXCEPT ![e.sid] = p]
           hook == [type |-> "start", partition |-> p, sid |-> e.sid, grant |-> grantSeq + 1]
           to == [Here EXCEPT !.entries[p] = entry, !.index = ix,
                              !.timers = @ \ TimersOf({"partition_commit_status",
                                                       "partition_graceful_timeout"}, p),
                              !.hooks = @ \cup {hook}]
           es == [entries EXCEPT ![p] = entry]
           resolved == Waiters(Covered(old.pending, c))
<1>0. ReaderInv /\ ExpectedNow
  BY DEF AnswersInv
<1>1. /\ Handles(Streaming, "start") /\ grantSeq' = grantSeq + 1
      /\ Finish(to, resolved, {}, Tail(inbox))
  BY DEF HandleStart, Narrowed
<1>2. /\ to.entries = es /\ to.index = ix
      /\ to.hooks = hooks \cup {hook} /\ to.srv = srv
  BY DEF Here
<1> HIDE DEF to, resolved
<1>3. /\ e \in FrameT /\ e \in Range(inbox) /\ e.type = "start" /\ inbox # << >>
      /\ e = Head(inbox)
  BY <1>0, <1>1, EventFields DEF Handles, Event
<1>4. /\ e.sid \in Sid /\ p \in Partition /\ e.committed \in Nat /\ grantSeq \in Nat
      /\ index \in IndexT /\ entries \in EntriesT /\ inbox \in Seq(FrameT)
      /\ Registered(entries, index) /\ old.committed \in Nat
  BY <1>0, <1>3, FrameFields, InvFields, EntryFields
<1>5. c \in Nat /\ Below(e.committed) \subseteq Below(c)
  BY <1>4 DEF Highest, Below
<1>6. /\ entry.sid = e.sid /\ entry.grant = grantSeq + 1 /\ entry.ackPending
      /\ entry.committed = c /\ entry.requested = 0 /\ entry.state = "active"
  OBVIOUS
<1>7. hook.type = "start" /\ hook.partition = p /\ hook.sid = e.sid /\ hook.grant = grantSeq + 1
  OBVIOUS
<1> HIDE DEF entry, e, c, hook
<1>8. /\ es[p] = entry /\ \A q \in Partition : q # p => es[q] = entries[q]
  BY <1>4 DEF EntriesT
<1>9. /\ \A sid \in Sid : \/ sid = e.sid /\ ix[sid] = p
                          \/ sid # e.sid /\ ix[sid] \in {None, index[sid]}
      /\ \A sid \in Sid : old.state # "absent" /\ sid = old.sid /\ sid # e.sid => ix[sid] = None
  BY <1>4 DEF IndexT, Unrouted
<1> HIDE DEF ix, es
<1>10. ASSUME NEW h \in hooks \cup {hook} PROVE Fits(h, es[h.partition], grantSeq + 1)
  <2>1. CASE h = hook
    BY <1>4, <1>6, <1>7, <1>8, <2>1 DEF Fits
  <2>2. CASE h \in hooks
    <3>1. Fits(h, entries[h.partition], grantSeq) /\ h.partition \in Partition
      BY <1>0, <2>2, InvFields DEF ExpectedNow, Expected, HooksOk
    <3>2. h.type = "start" => h.grant \in 1 .. grantSeq + 1 /\ h.grant # grantSeq + 1
      BY <1>4, <3>1 DEF Fits
    <3> QED
      BY <1>6, <1>8, <3>1, <3>2 DEF Fits
  <2> QED
    BY <2>1, <2>2
<1>11. ASSUME srv.conn = "up"
       PROVE  /\ Tracked(es, srv, ix) /\ \A f \in Range(Tail(inbox)) : Due(f, srv, ix)
              /\ Once(Tail(inbox))
  <2>1. /\ Tracked(entries, srv, index) /\ \A f \in Range(inbox) : Due(f, srv, index)
        /\ Once(inbox)
    BY <1>0, <1>11 DEF ExpectedNow, Expected
  <2>2. ASSUME NEW sid \in Sid, ix[sid] # None PROVE Sound(es[ix[sid]], srv.sess[sid])
    <3>1. CASE sid = e.sid
      <4>1. /\ ~srv.sess[sid].started /\ ~srv.sess[sid].answered
            /\ srv.sess[sid].wire \subseteq Below(e.committed)
        BY <1>3, <2>1, <3>1 DEF Due
      <4>2. Sound(entry, srv.sess[sid])
        BY <1>5, <1>6, <4>1 DEF Sound
      <4> QED
        BY <1>8, <1>9, <3>1, <4>2
    <3>2. CASE sid # e.sid
      <4>1. ix[sid] = index[sid] /\ index[sid] \in Partition
        BY <1>4, <1>9, <2>2, <3>2 DEF IndexT
      <4>2. entries[index[sid]].sid = sid /\ entries[index[sid]].state \in Held
        BY <1>4, <2>2, <4>1 DEF Registered
      <4>3. index[sid] # p
        BY <1>9, <2>2, <3>2, <4>1, <4>2 DEF Held
      <4>4. Sound(entries[index[sid]], srv.sess[sid])
        BY <2>1, <2>2, <4>1 DEF Tracked
      <4> QED
        BY <1>8, <4>1, <4>3, <4>4
    <3> QED
      BY <3>1, <3>2
  <2>3. /\ Once(Tail(inbox)) /\ Range(Tail(inbox)) \subseteq Range(inbox)
        /\ \A f \in Range(Tail(inbox)) : f.type = "start" => f.sid # e.sid
    BY <1>3, <1>4, <2>1, OnceTail, InboxTail
  <2>4. ASSUME NEW f \in Range(Tail(inbox)) PROVE Due(f, srv, ix)
    <3>1. f \in FrameT /\ Due(f, srv, index)
      BY <1>0, <2>1, <2>3, InvFields
    <3>2. f.type = "start" => f.sid \in Sid /\ f.sid # e.sid /\ index[f.sid] = None
      BY <2>3, <3>1, FrameFields DEF Due
    <3>3. f.type = "start" => ix[f.sid] = None
      BY <1>9, <3>2
    <3> QED
      BY <3>1, <3>3 DEF Due
  <2> QED
    BY <2>2, <2>3, <2>4 DEF Tracked
<1>12. Expected(es, srv, ix, Tail(inbox), hooks \cup {hook}, grantSeq + 1)
  BY <1>0, <1>10, <1>11 DEF ExpectedNow, Expected
<1> QED
  BY <1>0, <1>1, <1>2, <1>12, FinishExpected

\* What a frame that tells of an offset leaves of the entry its session leads to.
LEMMA EventRouted ==
  ASSUME AnswersInv, NEW type \in {"stop", "commit_response", "status"},
         Handles(Streaming, type), PartitionOf(Event.sid) # None
  PROVE  LET p == PartitionOf(Event.sid)
             advanced == Advanced(entries[p], Event.committed)
         IN /\ p \in Partition /\ Event.sid \in Sid /\ Routed(p) /\ entries[p].sid = Event.sid
            /\ entries[p] \in EntryT /\ advanced \in EntryT
            /\ advanced.sid = entries[p].sid /\ advanced.grant = entries[p].grant
            /\ advanced.state = entries[p].state
            /\ srv.conn = "up" =>
                 /\ Sound(entries[p], srv.sess[Event.sid]) /\ Sound(advanced, srv.sess[Event.sid])
                 /\ type = "stop" => srv.sess[Event.sid].asked # "no"
            /\ Range(Tail(inbox)) \subseteq Range(inbox) /\ (Once(inbox) => Once(Tail(inbox)))
<1> DEFINE p == PartitionOf(Event.sid)
           advanced == Advanced(entries[p], Event.committed)
<1>0. ReaderInv /\ ExpectedNow
  BY DEF AnswersInv
<1>1. /\ Event \in Range(inbox) /\ state \in Streaming /\ Tells(Event) /\ Event.type = type
      /\ inbox # << >>
  BY <1>0, EventFields DEF Tells, Handles
<1>2. p \in Partition /\ Event.committed \in Nat /\ Event.committed <= srv.committed[p]
      /\ Event.sid \in Sid
  BY <1>0, <1>1, EventTells
<1>3. /\ entries[p] \in EntryT /\ Book(entries[p], p, srv.committed, promise)
      /\ srv.committed \in [Partition -> Nat] /\ srv \in ServerT
  BY <1>0, <1>2, InvFields
<1>4. entries[p].sid = Event.sid /\ entries[p].state \in Held
  BY <1>0, <1>2, InvFields DEF Registered, PartitionOf
<1>5. Routed(p)
  BY <1>4 DEF Routed, Held, PartitionOf
<1>6. /\ advanced \in EntryT /\ advanced.sid = entries[p].sid
      /\ advanced.state = entries[p].state
  BY <1>2, <1>3, AdvancedBook
<1>7. advanced.grant = entries[p].grant
  BY <1>3 DEF Advanced, EntryT
<1>8. ASSUME srv.conn = "up"
      PROVE  /\ Sound(entries[p], srv.sess[Event.sid]) /\ Sound(advanced, srv.sess[Event.sid])
             /\ type = "stop" => srv.sess[Event.sid].asked # "no"
  <2>1. Tracked(entries, srv, index) /\ \A f \in Range(inbox) : Due(f, srv, index)
    BY <1>0, <1>8 DEF ExpectedNow, Expected
  <2>2. Sound(entries[p], srv.sess[Event.sid])
    BY <1>2, <2>1 DEF Tracked, PartitionOf
  <2>3. srv.sess[Event.sid] \in SessionT
    BY <1>2, <1>3, ServerFields
  <2>4. Sound(advanced, srv.sess[Event.sid])
    BY <1>2, <1>3, <2>2, <2>3, SoundAdvanced
  <2>5. type = "stop" => srv.sess[Event.sid].asked # "no"
    BY <1>1, <2>1 DEF Due
  <2> QED
    BY <2>2, <2>4, <2>5
<1> HIDE DEF advanced
<1>9. Range(Tail(inbox)) \subseteq Range(inbox) /\ (Once(inbox) => Once(Tail(inbox)))
  BY <1>0, <1>1, TailExpected
<1> QED
  BY <1>2, <1>3, <1>4, <1>5, <1>6, <1>7, <1>8, <1>9 DEF advanced

LEMMA ForcedStopExpected ==
  ASSUME AnswersInv, HandleForcedStop
  PROVE  Expected(entries', srv', index', inbox', hooks', grantSeq')
<1> DEFINE p == PartitionOf(Event.sid)
           entry == MarkedStopped(Advanced(entries[p], Event.committed))
           es == [entries EXCEPT ![p] = entry]
           jx == Unrouted(entries[p].sid)
<1>0. ReaderInv /\ ExpectedNow
  BY DEF AnswersInv
<1>1. Handles(Streaming, "stop") /\ p # None /\ grantSeq' = grantSeq
  BY DEF HandleForcedStop, StopsKnown
<1>2. PICK to, resolved : /\ to.entries = es /\ to.index = jx /\ to.hooks = hooks /\ to.srv = srv
                          /\ Finish(to, resolved, {}, Tail(inbox))
  BY DEF HandleForcedStop, Here
<1>3. /\ p \in Partition /\ entries[p].sid \in Sid /\ Routed(p)
      /\ Advanced(entries[p], Event.committed) \in EntryT
      /\ Advanced(entries[p], Event.committed).sid = entries[p].sid
      /\ Advanced(entries[p], Event.committed).grant = entries[p].grant
      /\ Range(Tail(inbox)) \subseteq Range(inbox) /\ (Once(inbox) => Once(Tail(inbox)))
  BY <1>1, EventRouted
<1>4. entry.sid = entries[p].sid /\ entry.grant = entries[p].grant
  BY <1>3 DEF MarkedStopped, EntryT
<1>5. Narrower(index, jx) /\ jx[entries[p].sid] = None
  BY <1>0, <1>3, InvFields, UnroutedNarrow DEF Unrouted, IndexT
<1>6. entries[p].state # "absent"
  BY <1>3 DEF Routed
<1> HIDE DEF entry, jx
<1>7. Expected(es, srv, jx, Tail(inbox), hooks, grantSeq)
  BY <1>0, <1>3, <1>4, <1>5, <1>6, ExpectedReader
<1> QED
  BY <1>0, <1>1, <1>2, <1>7, FinishExpected

LEMMA GracefulStopExpected ==
  ASSUME AnswersInv, HandleGracefulStop
  PROVE  Expected(entries', srv', index', inbox', hooks', grantSeq')
<1> DEFINE p == PartitionOf(Event.sid)
           advanced == Advanced(entries[p], Event.committed)
           entry == Stopping(advanced)
           es == [entries EXCEPT ![p] = entry]
           hook == [type |-> "stop", partition |-> p, sid |-> entries[p].sid,
                    grant |-> entries[p].grant]
           hs == hooks \cup {hook}
<1>0. ReaderInv /\ ExpectedNow
  BY DEF AnswersInv
<1>1. Handles(Streaming, "stop") /\ p # None /\ grantSeq' = grantSeq
  BY DEF HandleGracefulStop, StopsKnown
<1>2. PICK to, resolved : /\ to.entries = es /\ to.index = index /\ to.hooks = hs /\ to.srv = srv
                          /\ Finish(to, resolved, {}, Tail(inbox))
  BY DEF HandleGracefulStop, Here, Stopping
<1>3. /\ p \in Partition /\ Routed(p) /\ entries[p].sid = Event.sid
      /\ advanced \in EntryT
      /\ advanced.sid = entries[p].sid /\ advanced.grant = entries[p].grant
      /\ srv.conn = "up" => /\ Sound(advanced, srv.sess[Event.sid])
                            /\ srv.sess[Event.sid].asked # "no"
      /\ Range(Tail(inbox)) \subseteq Range(inbox) /\ (Once(inbox) => Once(Tail(inbox)))
  BY <1>1, EventRouted
<1> HIDE DEF advanced
<1>4. /\ entry.sid = entries[p].sid /\ entry.grant = entries[p].grant
      /\ entry.ackPending = advanced.ackPending /\ entry.requested = advanced.requested
      /\ entry.committed = advanced.committed /\ entry.claimed = advanced.claimed
  BY <1>3 DEF Stopping, EntryT
<1> HIDE DEF entry
<1>5. srv.conn = "up" => Sound(entry, srv.sess[entries[p].sid])
  BY <1>3, <1>4, SoundAlike
<1>6. \A h \in hs : h \in hooks \/ h.type # "start"
  OBVIOUS
<1>7. Narrower(index, index) /\ entries[p].state # "absent"
  BY <1>0, <1>3, InvFields, NarrowerSelf DEF Routed
<1> HIDE DEF hs
<1>8. Expected(es, srv, index, Tail(inbox), hs, grantSeq)
  BY <1>0, <1>3, <1>4, <1>5, <1>6, <1>7, ExpectedReader
<1> QED
  BY <1>0, <1>1, <1>2, <1>8, FinishExpected

LEMMA CommitResponseExpected ==
  ASSUME AnswersInv, HandleCommitResponse
  PROVE  Expected(entries', srv', index', inbox', hooks', grantSeq')
<1> DEFINE p == PartitionOf(Event.sid)
           advanced == Advanced(entries[p], Event.committed)
           entry == MarkedStopped(advanced)
           drained == /\ advanced.state = "stopping-graceful" /\ advanced.stopReady
                      /\ advanced.requested = 0 /\ advanced.pending = {}
           jx == Unrouted(entries[p].sid)
           t == StopResponse(srv, Event.sid)
<1>0. ReaderInv /\ ExpectedNow
  BY DEF AnswersInv
<1>1. /\ Handles(Streaming, "commit_response") \/ Handles(Streaming, "status")
      /\ p # None /\ grantSeq' = grantSeq
  BY DEF HandleCommitResponse
<1>2. /\ p \in Partition /\ Event.sid \in Sid /\ Routed(p) /\ entries[p].sid = Event.sid
      /\ advanced \in EntryT
      /\ advanced.sid = entries[p].sid /\ advanced.grant = entries[p].grant
      /\ advanced.state = entries[p].state
      /\ srv.conn = "up" => /\ Sound(entries[p], srv.sess[Event.sid])
                            /\ Sound(advanced, srv.sess[Event.sid])
      /\ Range(Tail(inbox)) \subseteq Range(inbox) /\ (Once(inbox) => Once(Tail(inbox)))
  BY <1>1, EventRouted
<1>3. /\ entries[p].state # "absent" /\ srv \in ServerT /\ entries \in EntriesT
      /\ Narrower(index, index) /\ Narrower(index, jx) /\ jx[entries[p].sid] = None
  BY <1>0, <1>2, InvFields, NarrowerSelf, UnroutedNarrow DEF Routed, Unrouted, IndexT
<1>4. entry.sid = entries[p].sid /\ entry.grant = entries[p].grant
  BY <1>2 DEF MarkedStopped, EntryT
<1>5. CASE drained
  <2>1. PICK to, resolved :
          /\ to.entries = [[entries EXCEPT ![p] = advanced] EXCEPT ![p] = entry]
          /\ to.index = jx /\ to.hooks = hooks /\ to.srv = t
          /\ Finish(to, resolved, {}, Tail(inbox))
    BY <1>5 DEF HandleCommitResponse, Here
  <2>2. [[entries EXCEPT ![p] = advanced] EXCEPT ![p] = entry] = [entries EXCEPT ![p] = entry]
    BY <1>2, <1>3 DEF EntriesT
  <2>3. srv.conn = "up" => srv.sess[Event.sid].asked # "no" /\ ~srv.sess[Event.sid].answered
    BY <1>2, <1>5 DEF Sound
  <2>4. Touches(srv, t, entries[p].sid)
    BY <1>2, <1>3, <2>3, StopResponseTouches
  <2> HIDE DEF advanced, entry, jx, t
  <2>5. Expected([entries EXCEPT ![p] = entry], t, jx, Tail(inbox), hooks, grantSeq)
    BY <1>0, <1>2, <1>3, <1>4, <2>4, ExpectedEntry
  <2> QED
    BY <1>0, <1>1, <2>1, <2>2, <2>5, FinishExpected
<1>6. CASE ~drained
  <2>1. PICK to, resolved :
          /\ to.entries = [entries EXCEPT ![p] = advanced]
          /\ to.index = index /\ to.hooks = hooks /\ to.srv = srv
          /\ Finish(to, resolved, {}, Tail(inbox))
    BY <1>6 DEF HandleCommitResponse, Here
  <2> HIDE DEF advanced
  <2>2. Expected([entries EXCEPT ![p] = advanced], srv, index, Tail(inbox), hooks, grantSeq)
    BY <1>0, <1>2, <1>3, ExpectedReader
  <2> QED
    BY <1>0, <1>1, <2>1, <2>2, FinishExpected
<1> QED
  BY <1>5, <1>6

\* An entry's state or watermark changes, or nothing does.
LEMMA AlikeExpected ==
  ASSUME AnswersInv, NEW p \in Partition, NEW e,
         e.sid = entries[p].sid, e.grant = entries[p].grant, e.ackPending = entries[p].ackPending,
         e.committed = entries[p].committed, e.requested = entries[p].requested,
         entries[p].claimed \subseteq e.claimed,
         e.state # "absent" => entries[p].state # "absent",
         e.state = "stopping-graceful" => entries[p].state = "stopping-graceful",
         NEW rest, Range(rest) \subseteq Range(inbox), Once(inbox) => Once(rest),
         NEW hs, hs \subseteq hooks
  PROVE  Expected([entries EXCEPT ![p] = e], srv, index, rest, hs, grantSeq)
<1>0. ReaderInv /\ ExpectedNow
  BY DEF AnswersInv
<1>1. Narrower(index, index)
  BY <1>0, InvFields, NarrowerSelf
<1>2. srv.conn = "up" /\ Routed(p) => Sound(e, srv.sess[entries[p].sid])
  <2>1. Routed(p) => entries[p].sid \in Sid /\ index[entries[p].sid] = p /\ p # None
    BY <1>0, InvFields, ReaderAssumption DEF Routed, Book
  <2>2. srv.conn = "up" /\ Routed(p) => Sound(entries[p], srv.sess[entries[p].sid])
    BY <1>0, <2>1 DEF ExpectedNow, Expected, Tracked
  <2> QED
    BY <2>2, SoundAlike
<1>3. \A h \in hs : h \in hooks
  OBVIOUS
<1> QED
  BY <1>0, <1>1, <1>2, <1>3, ExpectedReader

LEMMA ReadExpected ==
  ASSUME AnswersInv, HandleRead
  PROVE  Expected(entries', srv', index', inbox', hooks', grantSeq')
<1> DEFINE p == PartitionOf(Event.sid)
           w == Highest(entries[p].watermark, Event.offset + 1)
           entry == [entries[p] EXCEPT !.watermark = w]
           wanted == /\ p # None
                     /\ entries[p].sid = Event.sid
                     /\ entries[p].state \notin {"stopped", "ended"}
<1>0. ReaderInv /\ ExpectedNow
  BY DEF AnswersInv
<1>1. /\ Handles(Streaming, "read") /\ inbox # << >> /\ inbox' = Tail(inbox)
      /\ UNCHANGED <<srv, index, hooks, grantSeq>>
      /\ entries' = IF wanted
                    THEN [entries EXCEPT ![p].watermark = Highest(@, Event.offset + 1)]
                    ELSE entries
  BY DEF HandleRead, Handles
<1>2. Range(inbox') \subseteq Range(inbox) /\ (Once(inbox) => Once(inbox'))
  BY <1>0, <1>1, TailExpected
<1>3. CASE ~wanted
  <2>1. entries' = entries
    BY <1>1, <1>3
  <2> QED
    BY <1>0, <1>1, <1>2, <2>1, InvFields, NarrowerSelf, ExpectedStill
<1>4. CASE wanted
  <2>1. Event.sid \in Sid
    BY <1>0, <1>1, EventFields, FrameKinds
  <2>2. p \in Partition /\ entries[p] \in EntryT
    BY <1>0, <1>4, <2>1, InvFields DEF PartitionOf, IndexT
  <2>3. entries' = [entries EXCEPT ![p] = entry]
    BY <1>1, <1>4
  <2> HIDE DEF w
  <2>4. /\ entry.sid = entries[p].sid /\ entry.grant = entries[p].grant
        /\ entry.ackPending = entries[p].ackPending /\ entry.committed = entries[p].committed
        /\ entry.requested = entries[p].requested /\ entry.claimed = entries[p].claimed
        /\ entry.state = entries[p].state
    BY <2>2 DEF EntryT
  <2> HIDE DEF entry
  <2>5. Expected([entries EXCEPT ![p] = entry], srv, index, inbox', hooks, grantSeq)
    BY <1>2, <2>2, <2>4, AlikeExpected
  <2> QED
    BY <1>1, <2>3, <2>5
<1> QED
  BY <1>3, <1>4

LEMMA EndExpected ==
  ASSUME AnswersInv, HandleEnd
  PROVE  Expected(entries', srv', index', inbox', hooks', grantSeq')
<1> DEFINE p == PartitionOf(Event.sid)
           entry == [entries[p] EXCEPT !.state = "ended"]
<1>0. ReaderInv /\ ExpectedNow
  BY DEF AnswersInv
<1>1. /\ Handles(Streaming, "end") /\ p # None /\ inbox # << >> /\ grantSeq' = grantSeq
  BY DEF HandleEnd, Handles
<1>2. PICK to : /\ to.entries = [entries EXCEPT ![p] = entry] /\ to.index = index
                /\ to.hooks = hooks /\ to.srv = srv /\ Finish(to, {}, {}, Tail(inbox))
  BY DEF HandleEnd, Here
<1>3. Event.sid \in Sid
  BY <1>0, <1>1, EventFields, FrameKinds
<1>4. p \in Partition /\ entries[p] \in EntryT /\ entries[p].state # "absent"
  BY <1>0, <1>1, <1>3, InvFields DEF PartitionOf, IndexT, Registered, Held
<1>5. Range(Tail(inbox)) \subseteq Range(inbox) /\ (Once(inbox) => Once(Tail(inbox)))
  BY <1>0, <1>1, TailExpected
<1>6. /\ entry.sid = entries[p].sid /\ entry.grant = entries[p].grant
      /\ entry.ackPending = entries[p].ackPending /\ entry.committed = entries[p].committed
      /\ entry.requested = entries[p].requested /\ entry.claimed = entries[p].claimed
      /\ entry.state = "ended"
  BY <1>4 DEF EntryT
<1> HIDE DEF entry
<1>7. Expected([entries EXCEPT ![p] = entry], srv, index, Tail(inbox), hooks, grantSeq)
  BY <1>4, <1>5, <1>6, AlikeExpected
<1> QED
  BY <1>0, <1>1, <1>2, <1>7, FinishExpected

LEMMA CommitExpected ==
  ASSUME AnswersInv, HandleCommit
  PROVE  Expected(entries', srv', index', inbox', hooks', grantSeq')
<1> DEFINE e == Event
           p == e.partition
           old == entries[p]
           target == EndOf(e.ranges)
           wire == Unclaimed(old, e.ranges)
           owed == From(wire, Floor(old))
           q == [waiter |-> e.waiter, target |-> target, wire |-> wire]
           entry == Recorded(old, q)
<1>0. ReaderInv /\ ExpectedNow
  BY DEF AnswersInv
<1>1. /\ Handles({"connecting", "reconnecting", "ready"}, "commit") /\ inbox # << >>
      /\ inbox' = Tail(inbox) /\ UNCHANGED <<index, hooks, grantSeq>>
      /\ \/ UNCHANGED <<entries, srv>>
         \/ /\ entries' = [entries EXCEPT ![p].pending = @ \cup {q}, ![p].claimed = @ \cup wire]
            /\ srv' = IF Sendable(p) /\ owed # {} THEN Commits(srv, old.sid, owed) ELSE srv
  BY DEF HandleCommit, Handles
<1>2. e \in FrameT /\ e.type = "commit"
  BY <1>0, <1>1, EventFields
<1>3. p \in Partition /\ e.ranges \in SUBSET Offset
  BY <1>2, FrameFields
<1>4. /\ old \in EntryT /\ entries \in EntriesT /\ srv \in ServerT
      /\ Range(inbox') \subseteq Range(inbox) /\ (Once(inbox) => Once(inbox'))
      /\ Narrower(index, index)
  BY <1>0, <1>1, <1>3, InvFields, NarrowerSelf, TailExpected
<1>5. wire \in SUBSET Nat /\ owed \in SUBSET Nat
  BY <1>3, ReaderAssumption DEF Unclaimed, From, Offset
<1>6. owed \subseteq wire /\ owed \cap (Below(Floor(old)) \cup old.claimed) = {}
  BY <1>4, EntryFields, <1>5 DEF From, Below, Unclaimed, Floor
<1> HIDE DEF wire, owed
<1>7. q.wire = wire
  OBVIOUS
<1>8. CASE UNCHANGED <<entries, srv>>
  BY <1>0, <1>1, <1>4, <1>8, ExpectedStill
<1>9. CASE /\ entries' = [entries EXCEPT ![p].pending = @ \cup {q}, ![p].claimed = @ \cup wire]
           /\ srv' = IF Sendable(p) /\ owed # {} THEN Commits(srv, old.sid, owed) ELSE srv
  <2>1. entries' = [entries EXCEPT ![p] = entry]
    BY <1>3, <1>4, <1>7, <1>9 DEF EntriesT, Recorded
  <2> HIDE DEF q
  <2>2. /\ entry.sid = old.sid /\ entry.grant = old.grant /\ entry.ackPending = old.ackPending
        /\ entry.committed = old.committed /\ entry.requested = old.requested
        /\ entry.claimed = old.claimed \cup wire /\ entry.state = old.state
    BY <1>4, <1>7 DEF EntryT, Recorded
  <2> HIDE DEF entry
  <2>3. CASE srv' = srv
    <3>1. Expected([entries EXCEPT ![p] = entry], srv, index, inbox', hooks, grantSeq)
      BY <1>3, <1>4, <2>2, AlikeExpected
    <3> QED
      BY <1>1, <2>1, <2>3, <3>1
  <2>4. CASE Sendable(p) /\ srv' = Commits(srv, old.sid, owed)
    <3> DEFINE sess == srv.sess[old.sid]
    <3>1. Routed(p) /\ ~old.ackPending /\ old.sid \in Sid /\ index[old.sid] = p /\ p # None
      BY <1>0, <1>3, <2>4, InvFields, ReaderAssumption DEF Sendable, Served, Routed, Book
    <3>2. srv.conn = "up" => Sound(old, sess) /\ sess.partition # None
      BY <1>0, <3>1, InvFields DEF ExpectedNow, Expected, Tracked, Ties, Links
    <3>3. srv.conn = "up" /\ Live(sess) => sess.started /\ sess.wire \cap owed = {}
      BY <1>6, <3>1, <3>2 DEF Sound
    <3>4. Adds(srv, srv', old.sid, owed)
      BY <1>4, <1>5, <2>4, <3>1, <3>2, <3>3, CommitsAdds
    <3>5. Touches(srv, srv', old.sid)
      BY <3>4, AddsTouches
    <3>6. srv.conn = "up" => Sound(entry, srv'.sess[old.sid])
      <4> DEFINE new == srv'.sess[old.sid]
      <4>1. /\ new.partition = sess.partition /\ new.asked = sess.asked
            /\ new.answered = sess.answered /\ (sess.started => new.started)
            /\ new.wire \subseteq sess.wire \cup owed
        BY <3>4 DEF Adds
      <4> HIDE DEF new, sess
      <4>2. Live(new) <=> Live(sess)
        BY <4>1 DEF Live
      <4>3. Floor(entry) = Floor(old)
        BY <2>2 DEF Floor
      <4>4. ASSUME srv.conn = "up" PROVE Sound(entry, new)
        BY <1>6, <2>2, <3>1, <3>2, <4>1, <4>2, <4>3, <4>4 DEF Sound
      <4> QED
        BY <4>4 DEF new
    <3>7. \A h \in hooks : h \in hooks \/ h.type # "start"
      OBVIOUS
    <3>8. old.state # "absent"
      BY <3>1 DEF Routed
    <3> DEFINE t == srv'
    <3> HIDE DEF t, sess
    <3>9. Expected([entries EXCEPT ![p] = entry], t, index, inbox', hooks, grantSeq)
      <4>1. /\ Touches(srv, t, entries[p].sid)
            /\ srv.conn = "up" => Sound(entry, t.sess[entries[p].sid])
        BY <3>5, <3>6 DEF t
      <4> QED
        BY <1>0, <1>3, <1>4, <2>2, <3>1, <3>7, <3>8, <4>1, ExpectedEntry
    <3> QED
      BY <1>1, <2>1, <3>9 DEF t
  <2> QED
    BY <1>9, <2>3, <2>4
<1> QED
  BY <1>1, <1>8, <1>9

-----------------------------------------------------------------------------
(* The hooks and the timers of a partition                                  *)

\* Nothing but the hooks that run and the server's queries changes.
LEMMA StayExpected ==
  ASSUME AnswersInv, NEW t, t.refused = srv.refused, t.conn = srv.conn, t.sess = srv.sess,
         NEW hs, hs \subseteq hooks
  PROVE  Expected(entries, t, index, inbox, hs, grantSeq)
<1>1. ReaderInv /\ ExpectedNow /\ Narrower(index, index)
  BY NarrowerSelf DEF AnswersInv
<1> QED
  BY <1>1, ExpectedStill

LEMMA StatusAlike ==
  ASSUME NEW s \in ServerT, NEW sid
  PROVE  LET t == StatusRequest(s, sid)
         IN t.refused = s.refused /\ t.conn = s.conn /\ t.sess = s.sess
BY DEF StatusRequest, ServerT

\* The session of an entry that is routed.
LEMMA RoutedSession ==
  ASSUME AnswersInv, NEW p \in Partition, Routed(p)
  PROVE  /\ entries[p].sid \in Sid /\ index[entries[p].sid] = p /\ p # None
         /\ srv.conn = "up" => /\ Sound(entries[p], srv.sess[entries[p].sid])
                               /\ srv.sess[entries[p].sid].partition # None
<1>1. ReaderInv /\ ExpectedNow
  BY DEF AnswersInv
<1>2. entries[p].sid \in Sid /\ index[entries[p].sid] = p /\ p # None
  BY <1>1, InvFields, ReaderAssumption DEF Routed, Book
<1> QED
  BY <1>1, <1>2, InvFields DEF ExpectedNow, Expected, Tracked, Ties, Links

\* The grant is answered and what is owed goes out behind the answer.
LEMMA AnswerAdds ==
  ASSUME AnswersInv, NEW p \in Partition, NEW commitOffset \in Nat,
         Routed(p), entries[p].ackPending, entries[p].state = "active"
  PROVE  LET old == entries[p]
             entry == Answered(old, commitOffset)
             sent == CommitsAll(StartResponse(srv, old.sid, commitOffset), old.sid,
                                old.pending, Floor(entry))
         IN /\ Touches(srv, sent, old.sid)
            /\ srv.conn = "up" => Sound(entry, sent.sess[old.sid])
<1> DEFINE old == entries[p]
           entry == Answered(old, commitOffset)
           started == StartResponse(srv, old.sid, commitOffset)
           floor == Floor(entry)
           sent == CommitsAll(started, old.sid, old.pending, floor)
           owed == Owed(old.pending, floor)
           sid == old.sid
<1>1. /\ old \in EntryT /\ srv \in ServerT /\ ClaimOk(old) /\ sid \in Sid
      /\ srv.conn = "up" => Sound(old, srv.sess[sid]) /\ srv.sess[sid].partition # None
      /\ old.pending \in SUBSET PendingT
  BY InvFields, EntryFields, RoutedSession DEF AnswersInv, Claims
<1>2. /\ entry.ackPending = FALSE /\ entry.committed = old.committed
      /\ entry.claimed = old.claimed /\ entry.state = old.state
      /\ entry.requested = IF commitOffset > old.committed THEN commitOffset ELSE old.requested
  BY <1>1 DEF EntryT, Answered
<1>3. old.committed \in Nat /\ old.requested \in Nat /\ old.claimed \subseteq Nat
  BY <1>1, EntryFields
<1> HIDE DEF entry, sid, old
<1>4. ASSUME srv.conn = "up"
      PROVE  /\ floor \in Nat /\ floor >= old.committed
             /\ Below(old.committed) \cup Below(commitOffset) \subseteq Below(floor)
  <2>1. old.requested = 0
    BY <1>1, <1>4 DEF Sound, old
  <2>2. floor = IF commitOffset > old.committed THEN commitOffset ELSE old.committed
    BY <1>2, <1>3, <2>1 DEF Floor
  <2> HIDE DEF floor
  <2> QED
    BY <1>3, <2>2 DEF Below
<1> HIDE DEF floor
<1>5. srv.conn = "up" => srv.sess[sid].partition # None /\ ~srv.sess[sid].started
  BY <1>1 DEF Sound, old
<1>6. /\ Adds(srv, started, sid, Below(commitOffset))
      /\ srv.conn = "up" /\ Live(srv.sess[sid]) => started.sess[sid].started
      /\ started \in ServerT
  BY <1>1, <1>5, StartResponseAdds, StartResponseSame DEF Same, sid
<1> HIDE DEF started
<1>7. srv.conn = "up" => srv.sess[sid].wire \subseteq Below(old.committed)
  BY <1>1 DEF Sound, old
<1>8. started.conn = srv.conn /\ (Live(started.sess[sid]) <=> Live(srv.sess[sid]))
  BY <1>6 DEF Adds, Live
<1>9. ASSUME srv.conn = "up"
      PROVE  /\ started.sess[sid].wire \subseteq Below(floor)
             /\ started.sess[sid].wire \cap owed = {}
  <2>1. started.sess[sid].wire \subseteq Below(floor)
    BY <1>4, <1>6, <1>7, <1>9 DEF Adds
  <2>2. Below(floor) \cap owed = {}
    BY <1>4, <1>9 DEF Below, Owed, From
  <2> QED
    BY <2>1, <2>2
<1>10. Adds(started, sent, sid, owed)
  <2>1. started.conn = "up" => /\ started.sess[sid].partition # None
                               /\ Live(started.sess[sid]) =>
                                    /\ started.sess[sid].started
                                    /\ started.sess[sid].wire \cap owed = {}
    BY <1>5, <1>6, <1>8, <1>9 DEF Adds
  <2>2. Parted(old.pending)
    BY <1>1 DEF ClaimOk, old
  <2> QED
    BY <1>1, <1>6, <2>1, <2>2, CommitsAllAdds DEF sid, old
<1> HIDE DEF sent
<1>11. Adds(srv, sent, sid, Below(commitOffset) \cup owed)
  BY <1>6, <1>10, AddsTrans
<1>12. ASSUME srv.conn = "up" PROVE Sound(entry, sent.sess[sid])
  <2>1. owed \subseteq entry.claimed
    <3>1. old.claimed = From(AllWire(old.pending), old.committed)
      BY <1>1 DEF ClaimOk, old
    <3>2. AllWire(old.pending) \subseteq Nat
      BY <1>1 DEF AllWire, PendingT, old
    <3> QED
      BY <1>2, <1>3, <1>4, <1>12, <3>1, <3>2 DEF Owed, From
  <2>2. sent.sess[sid].wire \subseteq Below(floor) \cup entry.claimed
    BY <1>9, <1>10, <1>12, <2>1 DEF Adds
  <2>3. ~sent.sess[sid].answered
    BY <1>1, <1>11, <1>12 DEF Adds, Sound, old
  <2>4. Live(sent.sess[sid]) => sent.sess[sid].started
    <3>1. Live(sent.sess[sid]) <=> Live(started.sess[sid])
      BY <1>10 DEF Adds, Live
    <3> QED
      BY <1>6, <1>8, <1>10, <1>12, <3>1 DEF Adds
  <2> QED
    BY <1>2, <2>2, <2>3, <2>4 DEF Sound, floor, old
<1> QED
  BY <1>11, <1>12, AddsTouches DEF sent, started, floor, entry, sid, old

LEMMA StartHookExpected ==
  ASSUME AnswersInv, StartHookReturns
  PROVE  Expected(entries', srv', index', inbox', hooks', grantSeq')
<1>1. PICK h \in hooks, commitOffset \in Override :
        LET p == h.partition
            old == entries[p]
            fresh == /\ state \in Streaming
                     /\ old.state = "active" /\ old.grant = h.grant /\ old.ackPending
                     /\ Routed(p)
            entry == Answered(old, commitOffset)
            sent == CommitsAll(StartResponse(srv, h.sid, commitOffset), old.sid, old.pending,
                               Floor(entry))
        IN
        /\ h.type = "start"
        /\ hooks' = hooks \ {h}
        /\ IF fresh
           THEN /\ entries' = [entries EXCEPT ![p] = entry]
                /\ srv' = IF entry.requested # 0 THEN StatusRequest(sent, old.sid) ELSE sent
           ELSE UNCHANGED <<entries, srv>>
        /\ UNCHANGED <<index, inbox, grantSeq>>
  BY ZenonT(40) DEF StartHookReturns, Answered
<1> DEFINE p == h.partition
           old == entries[p]
           fresh == /\ state \in Streaming
                    /\ old.state = "active" /\ old.grant = h.grant /\ old.ackPending
                    /\ Routed(p)
           entry == Answered(old, commitOffset)
           sent == CommitsAll(StartResponse(srv, old.sid, commitOffset), old.sid, old.pending,
                              Floor(entry))
<1>2. /\ h.type = "start" /\ hooks' = hooks \ {h} /\ UNCHANGED <<index, inbox, grantSeq>>
  BY <1>1
<1>3. /\ p \in Partition /\ commitOffset \in Nat /\ ReaderInv /\ ExpectedNow
      /\ hooks \ {h} \subseteq hooks
  BY InvFields, ReaderAssumption DEF HooksOk, AnswersInv
<1>4. CASE ~fresh
  <2>1. UNCHANGED <<entries, srv>>
    BY <1>1, <1>4
  <2> QED
    BY <1>2, <1>3, <2>1, StayExpected
<1>5. CASE fresh
  <2>1. h.sid = old.sid
    <3>1. Fits(h, old, grantSeq)
      BY <1>3 DEF ExpectedNow, Expected
    <3> QED
      BY <1>2, <1>5, <3>1 DEF Fits
  <2>2. /\ entries' = [entries EXCEPT ![p] = entry]
        /\ srv' = IF entry.requested # 0 THEN StatusRequest(sent, old.sid) ELSE sent
    BY <1>1, <1>5, <2>1
  <2>3. /\ Touches(srv, sent, old.sid)
        /\ srv.conn = "up" => Sound(entry, sent.sess[old.sid])
    BY <1>3, <1>5, AnswerAdds
  <2>4. sent \in ServerT
    <3> DEFINE started == StartResponse(srv, old.sid, commitOffset)
               floor == Floor(entry)
    <3>1. /\ old.sid \in Sid /\ srv \in ServerT /\ old.pending \in SUBSET PendingT
      BY <1>3, <1>5, RoutedSession, InvFields, EntryFields
    <3>2. started \in ServerT
      BY <1>3, <3>1, StartResponseSame DEF Same
    <3> HIDE DEF started, floor
    <3>3. CommitsAll(started, old.sid, old.pending, floor) \in ServerT
      BY <3>1, <3>2, CommitsAllSame DEF Same
    <3> QED
      BY <3>3 DEF started, floor
  <2>5. /\ entry.sid = old.sid /\ entry.grant = old.grant
    BY <1>3, InvFields DEF Answered, EntryT
  <2> HIDE DEF entry, sent
  <2>6. /\ srv'.refused = sent.refused /\ srv'.conn = sent.conn /\ srv'.sess = sent.sess
    BY <2>2, <2>4, StatusAlike
  <2> DEFINE t == srv'
  <2>7. Touches(srv, t, old.sid) /\ (srv.conn = "up" => Sound(entry, t.sess[old.sid]))
    BY <2>3, <2>6 DEF Touches
  <2>8. /\ Narrower(index, index) /\ \A g \in hooks \ {h} : g \in hooks \/ g.type # "start"
        /\ old.state # "absent"
    BY <1>5, NarrowerSelf
  <2> HIDE DEF t, fresh
  <2>9. t = srv \/ (Routed(p) /\ Touches(srv, t, entries[p].sid))
    BY <1>5, <2>7 DEF fresh
  <2> HIDE DEF old
  <2>10. Expected([entries EXCEPT ![p] = entry], t, index, inbox, hooks \ {h}, grantSeq)
    BY <1>3, <2>5, <2>7, <2>8, <2>9, ExpectedEntry DEF old
  <2> QED
    BY <1>2, <2>2, <2>10 DEF t
<1> QED
  BY <1>4, <1>5

\* A stop is through: its entry is stopped and its session answered.
LEMMA StoppedExpected ==
  ASSUME AnswersInv, NEW p \in Partition, entries[p].state = "stopping-graceful",
         NEW e, e.sid = entries[p].sid, e.grant = entries[p].grant,
         NEW jx, \/ jx = Unrouted(entries[p].sid)
                 \/ jx = index /\ ~Routed(p),
         NEW hs, hs \subseteq hooks
  PROVE  Expected([entries EXCEPT ![p] = e], Answer(srv, p), jx, inbox, hs, grantSeq)
<1> DEFINE t == Answer(srv, p)
<1>1. ReaderInv /\ ExpectedNow /\ index \in IndexT /\ srv \in ServerT
  BY InvFields DEF AnswersInv
<1>2. Narrower(index, jx)
  BY <1>1, UnroutedNarrow, NarrowerSelf
<1>3. t = srv \/ (Routed(p) /\ Touches(srv, t, entries[p].sid))
  <2>1. CASE Routed(p)
    <3>1. /\ entries[p].sid \in Sid
          /\ srv.conn = "up" => /\ srv.sess[entries[p].sid].asked # "no"
                                /\ ~srv.sess[entries[p].sid].answered
      BY <2>1, RoutedSession DEF Sound
    <3>2. Touches(srv, StopResponse(srv, entries[p].sid), entries[p].sid)
      BY <1>1, <3>1, StopResponseTouches
    <3> QED
      BY <2>1, <3>2 DEF Answer
  <2>2. CASE ~Routed(p)
    BY <2>2 DEF Answer
  <2> QED
    BY <2>1, <2>2
<1>4. Routed(p) => jx[entries[p].sid] = None
  <2>1. Routed(p) => entries[p].sid \in Sid
    BY RoutedSession
  <2> QED
    BY <1>1, <2>1 DEF Unrouted, IndexT
<1>5. \A h \in hs : h \in hooks \/ h.type # "start"
  OBVIOUS
<1>6. entries[p].state # "absent"
  OBVIOUS
<1> HIDE DEF t
<1>7. Expected([entries EXCEPT ![p] = e], t, jx, inbox, hs, grantSeq)
  BY <1>1, <1>2, <1>3, <1>4, <1>5, <1>6, ExpectedEntry
<1> QED
  BY <1>7 DEF t

LEMMA StopHookExpected ==
  ASSUME AnswersInv, StopHookReturns
  PROVE  Expected(entries', srv', index', inbox', hooks', grantSeq')
<1>1. PICK h \in hooks :
        LET p == h.partition
            old == entries[p]
            pinned == state \in Streaming /\ old.grant = h.grant /\ old.state = "stopping-graceful"
            drained == pinned /\ old.pending = {} /\ old.requested = 0
            done == [Here EXCEPT !.hooks = @ \ {h}]
            ready == [done EXCEPT !.entries[p].stopReady = TRUE]
        IN Finish(CASE ~pinned -> done
                    [] pinned /\ ~drained -> ready
                    [] OTHER ->
                         [ready EXCEPT !.entries[p] = MarkedStopped(@),
                                       !.index = Unrouted(old.sid),
                                       !.timers = @ \ TimersOf({"partition_commit_status",
                                                                "partition_graceful_timeout"}, p),
                                       !.srv = Answer(@, p)],
                  {}, {}, inbox)
  BY DEF StopHookReturns
<1> DEFINE p == h.partition
           old == entries[p]
           pinned == state \in Streaming /\ old.grant = h.grant /\ old.state = "stopping-graceful"
           drained == pinned /\ old.pending = {} /\ old.requested = 0
           done == [Here EXCEPT !.hooks = @ \ {h}]
           ready == [done EXCEPT !.entries[p].stopReady = TRUE]
           stopped == [ready EXCEPT !.entries[p] = MarkedStopped(@),
                                    !.index = Unrouted(old.sid),
                                    !.timers = @ \ TimersOf({"partition_commit_status",
                                                             "partition_graceful_timeout"}, p),
                                    !.srv = Answer(@, p)]
           entry == [old EXCEPT !.stopReady = TRUE]
           last == MarkedStopped(entry)
           hs == hooks \ {h}
<1>2. /\ p \in Partition /\ ReaderInv /\ ExpectedNow /\ hs \subseteq hooks
      /\ grantSeq' = grantSeq
  BY InvFields DEF HooksOk, AnswersInv, StopHookReturns
<1>3. old \in EntryT /\ entries \in EntriesT
  BY <1>2, InvFields
<1>4. /\ done.entries = entries /\ done.index = index /\ done.hooks = hs
      /\ done.srv = srv
  BY DEF Here
<1>5. /\ ready.entries = [entries EXCEPT ![p] = entry] /\ ready.index = index
      /\ ready.hooks = hs /\ ready.srv = srv
  BY <1>4 DEF Here
<1>6. /\ stopped.entries = [entries EXCEPT ![p] = last]
      /\ stopped.index = Unrouted(old.sid)
      /\ stopped.hooks = hs /\ stopped.srv = Answer(srv, p)
  <2>1. /\ stopped.entries = [ready.entries EXCEPT ![p] = MarkedStopped(@)]
        /\ stopped.index = Unrouted(old.sid)
        /\ stopped.hooks = hs /\ stopped.srv = Answer(srv, p)
    BY <1>5 DEF Here
  <2> HIDE DEF stopped, ready, entry
  <2> QED
    BY <1>2, <1>3, <1>5, <2>1 DEF EntriesT
<1> HIDE DEF done, ready, stopped, hs
<1>7. /\ entry \in EntryT /\ entry.sid = old.sid /\ entry.state = old.state
      /\ entry.grant = old.grant /\ entry.committed = old.committed
      /\ entry.ackPending = old.ackPending /\ entry.requested = old.requested
      /\ entry.claimed = old.claimed
  BY <1>3 DEF EntryT
<1> HIDE DEF entry
<1>8. last.sid = old.sid /\ last.grant = old.grant
  BY <1>7 DEF MarkedStopped, EntryT
<1> HIDE DEF last
<1>9. CASE ~pinned
  <2>1. Finish(done, {}, {}, inbox)
    BY <1>1, <1>9 DEF done
  <2>2. Expected(done.entries, done.srv, done.index, inbox, done.hooks, grantSeq)
    BY <1>2, <1>4, StayExpected
  <2> QED
    BY <1>2, <2>1, <2>2, FinishExpected
<1>10. CASE pinned /\ ~drained
  <2>1. Finish(ready, {}, {}, inbox)
    BY <1>1, <1>10 DEF ready, done
  <2>2. Expected([entries EXCEPT ![p] = entry], srv, index, inbox, hs, grantSeq)
    BY <1>2, <1>7, AlikeExpected
  <2>3. Expected(ready.entries, ready.srv, ready.index, inbox, ready.hooks, grantSeq)
    BY <1>5, <2>2
  <2> QED
    BY <1>2, <2>1, <2>3, FinishExpected
<1>11. CASE pinned /\ drained
  <2>1. Finish(stopped, {}, {}, inbox)
    BY <1>1, <1>11 DEF stopped, ready, done
  <2>2. Expected([entries EXCEPT ![p] = last], Answer(srv, p), Unrouted(old.sid), inbox, hs,
                 grantSeq)
    BY <1>2, <1>8, <1>11, StoppedExpected
  <2>3. Expected(stopped.entries, stopped.srv, stopped.index, inbox, stopped.hooks, grantSeq)
    BY <1>6, <2>2
  <2> QED
    BY <1>2, <2>1, <2>3, FinishExpected
<1> QED
  BY <1>9, <1>10, <1>11

LEMMA PartitionGracefulTimeoutExpected ==
  ASSUME AnswersInv, NEW p \in Partition, PartitionGracefulTimeout(p)
  PROVE  Expected(entries', srv', index', inbox', hooks', grantSeq')
<1> DEFINE old == entries[p]
           stopping == old.state = "stopping-graceful"
           fired == [Here EXCEPT !.timers = @ \ TimersOf({"partition_graceful_timeout"}, p)]
           armed == IF old.pending = {} THEN {} ELSE TimersOf({"partition_reassign_gc"}, p)
           forced == [fired EXCEPT
                        !.entries[p] = MarkedStopped(@),
                        !.timers = (@ \ TimersOf({"partition_commit_status"}, p)) \cup armed,
                        !.index = IF Routed(p) THEN Unrouted(old.sid) ELSE @,
                        !.srv = Answer(@, p)]
           jx == IF Routed(p) THEN Unrouted(old.sid) ELSE index
           last == MarkedStopped(old)
<1>1. Finish(IF stopping THEN forced ELSE fired, {}, {}, inbox) /\ grantSeq' = grantSeq
  BY DEF PartitionGracefulTimeout
<1>2. /\ fired.entries = entries /\ fired.index = index /\ fired.hooks = hooks
      /\ fired.srv = srv
  BY DEF Here
<1>3. /\ forced.entries = [entries EXCEPT ![p] = last]
      /\ forced.index = jx /\ forced.hooks = hooks /\ forced.srv = Answer(srv, p)
  BY <1>2 DEF Here
<1> HIDE DEF fired, forced
<1>4. ReaderInv /\ ExpectedNow /\ hooks \subseteq hooks /\ old \in EntryT
  BY InvFields DEF AnswersInv
<1>5. last.sid = old.sid /\ last.grant = old.grant
  BY <1>4 DEF MarkedStopped, EntryT
<1>6. CASE ~stopping
  <2>1. Finish(fired, {}, {}, inbox)
    BY <1>1, <1>6
  <2>2. Expected(fired.entries, fired.srv, fired.index, inbox, fired.hooks, grantSeq)
    BY <1>2, <1>4, StayExpected
  <2> QED
    BY <1>1, <1>4, <2>1, <2>2, FinishExpected
<1>7. CASE stopping
  <2>1. Finish(forced, {}, {}, inbox)
    BY <1>1, <1>7
  <2>2. jx = Unrouted(old.sid) \/ (jx = index /\ ~Routed(p))
    OBVIOUS
  <2> HIDE DEF jx, last
  <2>3. Expected([entries EXCEPT ![p] = last], Answer(srv, p), jx, inbox, hooks, grantSeq)
    BY <1>4, <1>5, <1>7, <2>2, StoppedExpected
  <2>4. Expected(forced.entries, forced.srv, forced.index, inbox, forced.hooks, grantSeq)
    BY <1>3, <2>3
  <2> QED
    BY <1>1, <1>4, <2>1, <2>4, FinishExpected
<1> QED
  BY <1>6, <1>7

LEMMA PartitionReassignGcExpected ==
  ASSUME AnswersInv, NEW p \in Partition, PartitionReassignGc(p)
  PROVE  Expected(entries', srv', index', inbox', hooks', grantSeq')
<1> DEFINE old == entries[p]
           fired == [Here EXCEPT !.timers = @ \ TimersOf({"partition_reassign_gc"}, p)]
           served == Routed(p) /\ ~old.ackPending
           emptied == [old EXCEPT !.pending = {}, !.claimed = {}]
           reaped == IF Routed(p) THEN emptied ELSE Absent
           gone == [fired EXCEPT !.entries[p] = reaped]
<1>1. /\ IF old.state = "absent" \/ served
         THEN Finish(fired, {}, {}, inbox)
         ELSE Finish(gone, {}, Waiters(old.pending), inbox)
      /\ grantSeq' = grantSeq
  BY DEF PartitionReassignGc
<1>2. /\ fired.entries = entries /\ fired.index = index /\ fired.hooks = hooks
      /\ fired.srv = srv
  BY DEF Here
<1>3. /\ gone.entries = [entries EXCEPT ![p] = reaped] /\ gone.index = index
      /\ gone.hooks = hooks /\ gone.srv = srv
  BY <1>2 DEF Here
<1> HIDE DEF fired, gone
<1>4. /\ ReaderInv /\ ExpectedNow /\ hooks \subseteq hooks /\ old \in EntryT
      /\ Narrower(index, index) /\ \A h \in hooks : h \in hooks \/ h.type # "start"
  BY InvFields, NarrowerSelf DEF AnswersInv
<1>5. CASE old.state = "absent" \/ served
  <2>1. Finish(fired, {}, {}, inbox)
    BY <1>1, <1>5
  <2>2. Expected(fired.entries, fired.srv, fired.index, inbox, fired.hooks, grantSeq)
    BY <1>2, <1>4, StayExpected
  <2> QED
    BY <1>1, <1>4, <2>1, <2>2, FinishExpected
<1>6. CASE ~(old.state = "absent" \/ served)
  <2>1. Finish(gone, {}, Waiters(old.pending), inbox)
    BY <1>1, <1>6
  <2>2. Absent.state = "absent"
    BY DEF Absent
  <2>3. /\ emptied.sid = old.sid /\ emptied.grant = old.grant /\ emptied.state = old.state
        /\ emptied.ackPending = old.ackPending /\ emptied.requested = old.requested
        /\ emptied.committed = old.committed
    BY <1>4 DEF EntryT
  <2> HIDE DEF emptied, Absent
  <2>4. reaped.state # "absent" => /\ old.state # "absent" /\ reaped.sid = old.sid
                                   /\ reaped.grant = old.grant
    BY <1>6, <2>2, <2>3
  <2>5. srv.conn = "up" /\ Routed(p) => Sound(reaped, srv.sess[old.sid])
    <3>1. ASSUME srv.conn = "up", Routed(p) PROVE Sound(emptied, srv.sess[old.sid])
      <4>1. Sound(old, srv.sess[old.sid])
        BY <3>1, RoutedSession
      <4>2. emptied.ackPending
        BY <1>6, <2>3, <3>1
      <4> QED
        BY <2>3, <4>1, <4>2 DEF Sound
    <3> QED
      BY <3>1
  <2> HIDE DEF reaped
  <2>6. Expected([entries EXCEPT ![p] = reaped], srv, index, inbox, hooks, grantSeq)
    BY <1>4, <2>4, <2>5, ExpectedReader
  <2>7. Expected(gone.entries, gone.srv, gone.index, inbox, gone.hooks, grantSeq)
    BY <1>3, <2>6
  <2> QED
    BY <1>1, <1>4, <2>1, <2>7, FinishExpected
<1> QED
  BY <1>5, <1>6

LEMMA PartitionCommitStatusExpected ==
  ASSUME AnswersInv, NEW p \in Partition, PartitionCommitStatus(p)
  PROVE  Expected(entries', srv', index', inbox', hooks', grantSeq')
<1>1. /\ srv' = srv \/ srv' = StatusRequest(srv, entries[p].sid)
      /\ UNCHANGED <<entries, index, inbox, hooks, grantSeq>>
  BY DEF PartitionCommitStatus
<1>2. srv'.refused = srv.refused /\ srv'.conn = srv.conn /\ srv'.sess = srv.sess
  BY <1>1, InvFields, StatusAlike DEF AnswersInv
<1> QED
  BY <1>1, <1>2, StayExpected

-----------------------------------------------------------------------------
(* The server, the application and the reader's own timers                  *)

\* The sessions are what they were but for how far they have been read.
SessionsAlike(s, t) ==
  /\ t.refused = s.refused /\ t.conn = s.conn
  /\ \A sid \in Sid :
       /\ t.sess[sid].partition = s.sess[sid].partition
       /\ t.sess[sid].asked = s.sess[sid].asked /\ t.sess[sid].answered = s.sess[sid].answered
       /\ t.sess[sid].started = s.sess[sid].started /\ t.sess[sid].wire = s.sess[sid].wire

\* The server sends a frame: what it has of the sessions that are routed, and what the frames
\* under way announce, is still as expected.
LEMMA FrameExpected ==
  ASSUME AnswersInv, NEW t, t.refused = srv.refused, t.conn = srv.conn,
         srv.conn = "up" => Tracked(entries, t, index),
         NEW f \in FrameT, srv.conn = "up" => \A g \in Range(inbox) \cup {f} : Due(g, t, index),
         srv.conn = "up" /\ f.type = "start" =>
           \A g \in Range(inbox) : g.type = "start" => g.sid # f.sid
  PROVE  Expected(entries, t, index, Append(inbox, f), hooks, grantSeq)
<1>1. /\ inbox \in Seq(FrameT) /\ ExpectedNow
      /\ Range(Append(inbox, f)) \subseteq Range(inbox) \cup {f}
  BY InvFields, InboxAppend DEF AnswersInv
<1>2. t.refused = {} /\ \A h \in hooks : Fits(h, entries[h.partition], grantSeq)
  BY <1>1 DEF ExpectedNow, Expected
<1>3. ASSUME srv.conn = "up" PROVE Once(Append(inbox, f))
  <2>1. Once(inbox)
    BY <1>1, <1>3 DEF ExpectedNow, Expected
  <2> QED
    BY <1>1, <1>3, <2>1, OnceAppend
<1> DEFINE box == Append(inbox, f)
<1> HIDE DEF box
<1>4. /\ Range(box) \subseteq Range(inbox) \cup {f} /\ (srv.conn = "up" => Once(box))
  BY <1>1, <1>3 DEF box
<1>5. Expected(entries, t, index, box, hooks, grantSeq)
  BY <1>2, <1>4 DEF Expected
<1> QED
  BY <1>5 DEF box

\* The same for a frame that announces nothing.
LEMMA AlikeFrame ==
  ASSUME AnswersInv, NEW t, SessionsAlike(srv, t), NEW f \in FrameT,
         f.type \notin {"start", "stop"}
  PROVE  /\ Expected(entries, t, index, inbox, hooks, grantSeq)
         /\ Expected(entries, t, index, Append(inbox, f), hooks, grantSeq)
<1>1. /\ ReaderInv /\ ExpectedNow /\ t.refused = srv.refused /\ t.conn = srv.conn
      /\ Range(inbox) \in SUBSET FrameT
  BY InvFields DEF AnswersInv, SessionsAlike
<1>2. ASSUME srv.conn = "up"
      PROVE  /\ Tracked(entries, t, index) /\ Once(inbox)
             /\ \A g \in Range(inbox) \cup {f} : Due(g, t, index)
  <2>1. /\ Tracked(entries, srv, index) /\ \A g \in Range(inbox) : Due(g, srv, index)
        /\ Once(inbox)
    BY <1>1, <1>2 DEF ExpectedNow, Expected
  <2>2. \A sid \in Sid : Live(t.sess[sid]) <=> Live(srv.sess[sid])
    BY DEF SessionsAlike, Live
  <2>3. Tracked(entries, t, index)
    BY <2>1, <2>2 DEF Tracked, Sound, SessionsAlike
  <2>4. ASSUME NEW g \in Range(inbox) PROVE Due(g, t, index)
    <3>1. g \in FrameT /\ Due(g, srv, index)
      BY <1>1, <2>1
    <3>2. g.type = "start" \/ g.type = "stop" => g.sid \in Sid
      BY <3>1, FrameFields DEF Tells
    <3> QED
      BY <3>1, <3>2 DEF Due, SessionsAlike
  <2>5. Due(f, t, index)
    BY DEF Due
  <2> QED
    BY <2>1, <2>3, <2>4, <2>5
<1>3. Expected(entries, t, index, inbox, hooks, grantSeq)
  BY <1>1, <1>2 DEF ExpectedNow, Expected
<1>4. Expected(entries, t, index, Append(inbox, f), hooks, grantSeq)
  BY <1>1, <1>2, FrameExpected
<1> QED
  BY <1>3, <1>4

LEMMA ServerInitExpected ==
  ASSUME AnswersInv, ServerInit
  PROVE  Expected(entries', srv', index', inbox', hooks', grantSeq')
<1> DEFINE f == [type |-> "init"]
<1>1. /\ srv.conn = "opened" /\ srv' = [srv EXCEPT !.conn = "up"] /\ inbox' = Append(inbox, f)
      /\ UNCHANGED <<entries, index, hooks, grantSeq>>
  BY DEF ServerInit, Reply, machineVars
<1>2. f \in FrameT /\ f.type = "init"
  BY DEF FrameT
<1> HIDE DEF f
<1>3. /\ ReaderInv /\ ExpectedNow /\ srv \in ServerT /\ inbox \in Seq(FrameT)
      /\ Granted(srv) /\ Links(srv, index, Range(inbox)) /\ index \in IndexT
      /\ Range(inbox) \in SUBSET FrameT
  BY InvFields DEF AnswersInv, Ties
<1>4. srv'.refused = srv.refused /\ srv'.sess = srv.sess
  BY <1>1, <1>3 DEF ServerT
<1>5. \A sid \in Sid : srv.sess[sid].partition = None
  BY <1>1, <1>3 DEF Granted
<1>6. Tracked(entries, srv', index)
  BY <1>1, <1>3, <1>5 DEF Tracked, Links
<1>7. \A g \in Range(inbox) : g.type # "start" /\ g.type # "stop"
  <2> SUFFICES ASSUME NEW g \in Range(inbox), g.type \in {"start", "stop"} PROVE FALSE
    OBVIOUS
  <2>1. g.sid \in Sid /\ (g.type = "start" => g.partition \in Partition)
    BY <1>3, FrameFields DEF Tells
  <2>2. srv.sess[g.sid].partition = None
    BY <1>5, <2>1
  <2> QED
    BY <1>1, <1>3, <2>1, <2>2, ReaderAssumption DEF Links, Tells
<1>8. /\ Range(inbox') \subseteq Range(inbox) \cup {f} /\ inbox' \in Seq(FrameT)
  BY <1>1, <1>2, <1>3, InboxAppend
<1>9. \A g \in Range(inbox') : g.type # "start" /\ g.type # "stop"
  BY <1>2, <1>7, <1>8
<1>10. Once(inbox')
  BY <1>9 DEF Once, Range
<1>11. \A g \in Range(inbox') : Due(g, srv', index)
  BY <1>9 DEF Due
<1> QED
  BY <1>1, <1>3, <1>4, <1>6, <1>10, <1>11 DEF Expected, ExpectedNow

LEMMA ServerReadsExpected ==
  ASSUME AnswersInv, NEW sid \in Sid, ServerData(sid) \/ ServerEnd(sid) \/ ServerStatus(sid)
  PROVE  Expected(entries', srv', index', inbox', hooks', grantSeq')
<1>1. UNCHANGED <<entries, index, hooks, grantSeq>> /\ ReaderInv /\ srv \in ServerT
  BY InvFields DEF AnswersInv, ServerData, ServerEnd, ServerStatus, machineVars
<1>2. PICK f : /\ inbox' = Append(inbox, f)
               /\ \/ /\ ServerData(sid)
                     /\ f = [type |-> "read", sid |-> sid,
                             offset |-> Min({o \in Offset \ Hole : o >= srv.sess[sid].pos})]
                  \/ /\ ServerEnd(sid)
                     /\ f = [type |-> "end", sid |-> sid]
                  \/ /\ ServerStatus(sid)
                     /\ f = [type |-> "status", sid |-> sid,
                             committed |-> srv.committed[srv.sess[sid].partition]]
  BY DEF ServerData, ServerEnd, ServerStatus, Reply
<1>3. f.type \notin {"start", "stop"}
  BY <1>2
<1>4. f \in FrameT
  <2>1. inbox' \in Seq(FrameT)
    <3>1. Keeps
      BY <1>1, ServerDataKeeps, ServerEndKeeps, ServerStatusKeeps
    <3> QED
      BY <3>1 DEF Keeps
  <2>2. inbox \in Seq(FrameT)
    BY <1>1, InvFields
  <2>3. Len(Append(inbox, f)) = Len(inbox) + 1 /\ Append(inbox, f)[Len(inbox) + 1] = f
        /\ Len(inbox) + 1 \in 1 .. Len(Append(inbox, f))
    <3> DEFINE n == Len(inbox)
    <3>1. n \in Nat /\ Len(Append(inbox, f)) = n + 1 /\ Append(inbox, f)[n + 1] = f
      BY <2>2, LenProperties
    <3> QED
      BY <3>1
  <2> QED
    BY <1>2, <2>1, <2>3, ElementOfSeq
<1>5. SessionsAlike(srv, srv')
  <2>1. srv.sess[sid] \in SessionT /\ srv.sess \in [Sid -> SessionT]
    BY <1>1, ServerFields
  <2>2. CASE ServerStatus(sid)
    BY <1>1, <2>2 DEF ServerStatus, ServerT, SessionsAlike
  <2>3. CASE ServerData(sid) \/ ServerEnd(sid)
    <3>1. PICK left, pos : srv' = [srv EXCEPT !.credit = left, !.sess[sid].pos = pos]
      <4>1. CASE ServerData(sid)
        BY <4>1 DEF ServerData
      <4>2. CASE ServerEnd(sid)
        <5>1. srv' = [srv EXCEPT !.sess[sid].pos = MaxOffset + 1]
          BY <4>2 DEF ServerEnd
        <5>2. srv' = [srv EXCEPT !.credit = srv.credit, !.sess[sid].pos = MaxOffset + 1]
          BY <1>1, <5>1 DEF ServerT
        <5> QED
          BY <5>2
      <4> QED
        BY <2>3, <4>1, <4>2
    <3>2. /\ srv'.refused = srv.refused /\ srv'.conn = srv.conn
          /\ srv'.sess = [srv.sess EXCEPT ![sid].pos = pos]
      BY <1>1, <3>1 DEF ServerT
    <3> QED
      BY <2>1, <3>2 DEF SessionsAlike, SessionT
  <2> QED
    BY <2>2, <2>3
<1> QED
  BY <1>1, <1>2, <1>3, <1>4, <1>5, AlikeFrame

LEMMA ServerCommitExpected ==
  ASSUME AnswersInv, NEW p \in Partition, ServerCommit(p)
  PROVE  Expected(entries', srv', index', inbox', hooks', grantSeq')
<1>1. /\ UNCHANGED <<entries, index, hooks, grantSeq>> /\ srv \in ServerT
      /\ \E reached : srv' = [srv EXCEPT !.committed[p] = reached]
  BY InvFields DEF AnswersInv, ServerCommit, machineVars
<1>2. SessionsAlike(srv, srv') /\ srv'.refused = srv.refused /\ srv'.conn = srv.conn
      /\ srv'.sess = srv.sess
  BY <1>1 DEF SessionsAlike, ServerT
<1>3. CASE inbox' = inbox
  BY <1>1, <1>2, <1>3, StayExpected
<1>4. CASE inbox' # inbox
  <2>1. PICK sid, reached :
          inbox' = Append(inbox, [type |-> "commit_response", sid |-> sid,
                                  committed |-> reached])
    BY <1>4 DEF ServerCommit, Reply
  <2> DEFINE f == [type |-> "commit_response", sid |-> sid, committed |-> reached]
  <2>2. f.type \notin {"start", "stop"}
    OBVIOUS
  <2>3. inbox' = Append(inbox, f)
    BY <2>1
  <2> HIDE DEF f
  <2>4. f \in FrameT
    <3>1. inbox' \in Seq(FrameT) /\ inbox \in Seq(FrameT)
      BY ServerCommitKeeps, InvFields DEF AnswersInv, Keeps
    <3>2. Append(inbox, f) \in Seq(FrameT)
      BY <2>3, <3>1
    <3> DEFINE n == Len(inbox)
    <3>3. n \in Nat /\ Len(Append(inbox, f)) = n + 1 /\ Append(inbox, f)[n + 1] = f
      BY <3>1, LenProperties
    <3>4. n + 1 \in 1 .. Len(Append(inbox, f))
      BY <3>3
    <3> QED
      BY <3>2, <3>3, <3>4, ElementOfSeq
  <2> QED
    BY <1>1, <1>2, <2>2, <2>3, <2>4, AlikeFrame
<1> QED
  BY <1>3, <1>4

\* A stop announces itself.
LEMMA ServerStopExpected ==
  ASSUME AnswersInv, NEW sid \in Sid, NEW graceful \in BOOLEAN, ServerStop(sid, graceful)
  PROVE  Expected(entries', srv', index', inbox', hooks', grantSeq')
<1> DEFINE sess == srv.sess[sid]
           f == [type |-> "stop", sid |-> sid, graceful |-> graceful,
                 committed |-> srv.committed[sess.partition]]
           new == IF graceful
                  THEN [sess EXCEPT !.asked = "graceful"]
                  ELSE [sess EXCEPT !.asked = "forced", !.wire = {}, !.pos = 0]
<1>1. /\ Live(sess) /\ srv' = [srv EXCEPT !.sess[sid] = new] /\ inbox' = Append(inbox, f)
      /\ UNCHANGED <<entries, index, hooks, grantSeq>>
  BY DEF ServerStop, Reply, machineVars
<1>2. /\ sess \in SessionT /\ srv \in ServerT /\ sess.partition \in Partition
      /\ srv.sess \in [Sid -> SessionT] /\ ReaderInv /\ ExpectedNow
      /\ Range(inbox) \in SUBSET FrameT
  BY <1>1, InvFields, ServerFields DEF AnswersInv, Live
<1>3. srv.committed[sess.partition] \in Nat
  BY <1>2, ServerFields
<1>4. f \in FrameT /\ f.type = "stop" /\ f.sid = sid
  BY <1>3 DEF FrameT, TellT
<1>5. /\ new.partition = sess.partition /\ new.asked # "no" /\ new.started = sess.started
      /\ new.answered = sess.answered /\ new.wire \subseteq sess.wire
  BY <1>2 DEF SessionT
<1> HIDE DEF f, new
<1>6. /\ srv'.refused = srv.refused /\ srv'.conn = srv.conn
      /\ srv'.sess = [srv.sess EXCEPT ![sid] = new]
  BY <1>1, <1>2 DEF ServerT
<1>7. /\ srv'.sess[sid] = new /\ \A i \in Sid : i # sid => srv'.sess[i] = srv.sess[i]
  BY <1>2, <1>6
<1> DEFINE t == srv'
<1> HIDE DEF t
<1>8. ASSUME srv.conn = "up"
      PROVE  Tracked(entries, t, index) /\ \A g \in Range(inbox) \cup {f} : Due(g, t, index)
  <2>1. Tracked(entries, srv, index) /\ \A g \in Range(inbox) : Due(g, srv, index)
    BY <1>2, <1>8 DEF ExpectedNow, Expected
  <2>2. ASSUME NEW i \in Sid, index[i] # None PROVE Sound(entries[index[i]], t.sess[i])
    <3>1. Sound(entries[index[i]], srv.sess[i])
      BY <2>1, <2>2 DEF Tracked
    <3>2. CASE i = sid
      BY <1>1, <1>5, <1>7, <3>1, <3>2 DEF Sound, t
    <3>3. CASE i # sid
      BY <1>7, <3>1, <3>3 DEF t
    <3> QED
      BY <3>2, <3>3
  <2>3. ASSUME NEW g \in Range(inbox) PROVE Due(g, t, index)
    <3>1. g \in FrameT /\ Due(g, srv, index)
      BY <1>2, <2>1
    <3>2. g.type = "start" \/ g.type = "stop" => g.sid \in Sid
      BY <3>1, FrameFields DEF Tells
    <3>3. CASE g.type \in {"start", "stop"} /\ g.sid = sid
      BY <1>5, <1>7, <3>1, <3>3 DEF Due, t
    <3>4. CASE ~(g.type \in {"start", "stop"} /\ g.sid = sid)
      BY <1>7, <3>1, <3>2, <3>4 DEF Due, t
    <3> QED
      BY <3>3, <3>4
  <2>4. Due(f, t, index)
    BY <1>4, <1>5, <1>7 DEF Due, t
  <2> QED
    BY <2>2, <2>3, <2>4 DEF Tracked
<1>9. t.refused = srv.refused /\ t.conn = srv.conn
  BY <1>6 DEF t
<1>10. f.type # "start"
  BY <1>4
<1>11. Expected(entries, t, index, Append(inbox, f), hooks, grantSeq)
  BY <1>4, <1>8, <1>9, <1>10, FrameExpected
<1> QED
  BY <1>1, <1>11 DEF t

\* A grant is of a session that nothing knows of.
LEMMA ServerGrantExpected ==
  ASSUME AnswersInv, NEW p \in Partition, ServerGrant(p)
  PROVE  Expected(entries', srv', index', inbox', hooks', grantSeq')
<1> DEFINE new == [NoSession EXCEPT !.partition = p, !.wire = Below(srv.committed[p]),
                                    !.pos = srv.committed[p]]
           sid == srv.next
           f == [type |-> "start", sid |-> sid, partition |-> p,
                 committed |-> srv.committed[p]]
<1>1. /\ srv.conn = "up" /\ srv.grants < MaxGrants
      /\ srv' = [srv EXCEPT !.grants = @ + 1, !.next = @ + 1, !.accepted[p] = {},
                            !.sess[srv.next] = new]
      /\ inbox' = Append(inbox, f) /\ UNCHANGED <<entries, index, hooks, grantSeq>>
  BY DEF ServerGrant, Reply, machineVars
<1>2. /\ srv \in ServerT /\ srv.committed[p] \in Nat /\ Granted(srv)
      /\ Links(srv, index, Range(inbox)) /\ srv.next \in Nat /\ srv.grants \in Nat
      /\ srv.sess \in [Sid -> SessionT] /\ index \in IndexT
      /\ ReaderInv /\ ExpectedNow /\ Range(inbox) \in SUBSET FrameT
  BY InvFields, ServerFields DEF AnswersInv, Ties
<1>3. sid \in Sid /\ srv.sess[sid].partition = None
  BY <1>1, <1>2, ReaderAssumption DEF Granted, Sid
<1>4. ~new.started /\ ~new.answered /\ new.wire = Below(srv.committed[p])
  BY DEF NoSession
<1>5. f \in FrameT /\ f.type = "start" /\ f.sid = sid /\ f.committed = srv.committed[p]
  BY <1>2, <1>3 DEF FrameT, StartT
<1> HIDE DEF new, f
<1>6. /\ srv'.refused = srv.refused /\ srv'.conn = srv.conn
      /\ srv'.sess = [srv.sess EXCEPT ![sid] = new]
  BY <1>1, <1>2 DEF ServerT
<1> HIDE DEF sid
<1>7. /\ srv'.sess[sid] = new /\ \A i \in Sid : i # sid => srv'.sess[i] = srv.sess[i]
  BY <1>2, <1>3, <1>6
<1>8. index[sid] = None
  BY <1>1, <1>2, <1>3 DEF Links
<1>9. \A g \in Range(inbox) : g.type = "start" \/ g.type = "stop" => g.sid # sid /\ g.sid \in Sid
  <2> SUFFICES ASSUME NEW g \in Range(inbox), g.type \in {"start", "stop"}
               PROVE  g.sid # sid /\ g.sid \in Sid
    OBVIOUS
  <2>1. g.sid \in Sid /\ (g.type = "start" => g.partition \in Partition)
    BY <1>2, FrameFields DEF Tells
  <2> QED
    BY <1>1, <1>2, <1>3, <2>1, ReaderAssumption DEF Links, Tells
<1> DEFINE t == srv'
<1> HIDE DEF t
<1>10. /\ Tracked(entries, t, index) /\ \A g \in Range(inbox) \cup {f} : Due(g, t, index)
  <2>1. Tracked(entries, srv, index) /\ \A g \in Range(inbox) : Due(g, srv, index)
    BY <1>1, <1>2 DEF ExpectedNow, Expected
  <2>2. Tracked(entries, t, index)
    BY <1>7, <1>8, <2>1 DEF Tracked, t
  <2>3. ASSUME NEW g \in Range(inbox) PROVE Due(g, t, index)
    BY <1>7, <1>9, <2>1 DEF Due, t
  <2>4. Due(f, t, index)
    BY <1>4, <1>5, <1>7, <1>8 DEF Due, t
  <2> QED
    BY <2>2, <2>3, <2>4
<1>11. t.refused = srv.refused /\ t.conn = srv.conn
  BY <1>6 DEF t
<1>12. \A g \in Range(inbox) : g.type = "start" => g.sid # f.sid
  BY <1>5, <1>9
<1>13. Expected(entries, t, index, Append(inbox, f), hooks, grantSeq)
  BY <1>5, <1>10, <1>11, <1>12, FrameExpected
<1> QED
  BY <1>1, <1>13 DEF t

\* The stream is gone, or is opened afresh.
LEMMA OffExpected ==
  ASSUME AnswersInv, StreamBreaks \/ RetryBackoff
  PROVE  Expected(entries', srv', index', inbox', hooks', grantSeq')
<1>1. /\ srv' \in {Broken(srv), Opened(srv)} /\ UNCHANGED <<entries, hooks, grantSeq>>
  BY DEF StreamBreaks, RetryBackoff, machineVars
<1>2. srv \in ServerT /\ srv.refused = {}
  BY InvFields DEF AnswersInv, ExpectedNow, Expected
<1>3. srv'.refused = {} /\ srv'.conn # "up"
  BY <1>1, <1>2, ExpectedBroken
<1> QED
  BY <1>1, <1>3 DEF AnswersInv, ExpectedNow, Expected

LEMMA TimersExpected ==
  ASSUME AnswersInv, StartTimeout \/ RecoveryWindow \/ GracefulTimeout
  PROVE  Expected(entries', srv', index', inbox', hooks', grantSeq')
<1>1. CASE StartTimeout
  BY <1>1, ReconnectingExpected DEF StartTimeout
<1>2. CASE RecoveryWindow \/ GracefulTimeout
  BY <1>2, TerminateExpected DEF AnswersInv, RecoveryWindow, GracefulTimeout
<1> QED
  BY <1>1, <1>2

LEMMA FacadeExpected ==
  ASSUME AnswersInv, Read \/ Close \/ Destroy \/ MarkClosed
  PROVE  Expected(entries', srv', index', inbox', hooks', grantSeq')
<1>1. CASE \E terminal : Terminate(terminal, {})
  BY <1>1, TerminateExpected DEF AnswersInv
<1>2. CASE /\ UNCHANGED <<entries, index, hooks, inbox, grantSeq>>
           /\ srv' = srv \/ srv' = ReadRequest(srv, 1)
  <2>1. srv'.refused = srv.refused /\ srv'.conn = srv.conn /\ srv'.sess = srv.sess
    BY <1>2, InvFields DEF AnswersInv, ReadRequest, ServerT
  <2> QED
    BY <1>2, <2>1, StayExpected
<1> QED
  BY <1>1, <1>2 DEF Read, Close, Destroy, MarkClosed, machineVars

\* A commit joins the inbox, or a reader that is through ignores it.
LEMMA PostPlaces ==
  ASSUME ReaderInv, NEW w \in Waiter, Commit(w)
  PROVE  \/ inbox' = inbox
         \/ \E f \in FrameT, i \in 0 .. Len(inbox) :
              f.type = "commit" /\ inbox' = InsertAt(inbox, i + 1, f)
<1>1. PICK p \in Partition : \E batch \in SUBSET {m \in delivered : m.partition = p} :
        Post([type |-> "commit", partition |-> p,
              ranges |-> UNION {m.from .. m.offset : m \in batch}, waiter |-> w])
  BY DEF Commit
<1>2. PICK batch \in SUBSET {m \in delivered : m.partition = p} :
        Post([type |-> "commit", partition |-> p,
              ranges |-> UNION {m.from .. m.offset : m \in batch}, waiter |-> w])
  BY <1>1
<1> DEFINE ranges == UNION {m.from .. m.offset : m \in batch}
           f == [type |-> "commit", partition |-> p, ranges |-> ranges, waiter |-> w]
<1>3. ranges \in SUBSET Offset
  <2>1. \A m \in batch : m.from \in Nat /\ m.offset \in Offset
    BY InvFields DEF MessageT
  <2>2. \A m \in batch : m.from .. m.offset \subseteq Offset
    BY <2>1, ReaderAssumption DEF Offset
  <2> QED
    BY <2>2
<1>4. f \in FrameT /\ f.type = "commit"
  BY <1>3 DEF FrameT, CommitT
<1>5. Post(f)
  BY <1>2
<1> HIDE DEF f
<1>6. CASE \E i \in LastCommit .. Len(inbox) : inbox' = InsertAt(inbox, i + 1, f)
  <2>1. PICK i \in LastCommit .. Len(inbox) : inbox' = InsertAt(inbox, i + 1, f)
    BY <1>6
  <2>2. i \in 0 .. Len(inbox)
    <3>1. LastCommit \in 0 .. Len(inbox) /\ Len(inbox) \in Nat
      BY InvFields, LastCommitIn, LenProperties
    <3> QED
      BY <3>1
  <2> QED
    BY <1>4, <2>1, <2>2
<1> QED
  BY <1>5, <1>6 DEF Post

LEMMA PostExpected ==
  ASSUME AnswersInv, NEW w \in Waiter, Commit(w)
  PROVE  Expected(entries', srv', index', inbox', hooks', grantSeq')
<1>1. UNCHANGED <<entries, index, hooks, grantSeq, srv>>
  BY DEF Commit, machineVars
<1>2. ReaderInv /\ ExpectedNow /\ inbox \in Seq(FrameT)
  BY InvFields DEF AnswersInv
<1>3. CASE inbox' = inbox
  BY <1>1, <1>3, StayExpected
<1>4. CASE \E f \in FrameT, i \in 0 .. Len(inbox) :
             f.type = "commit" /\ inbox' = InsertAt(inbox, i + 1, f)
  <2>1. PICK f \in FrameT, i \in 0 .. Len(inbox) :
          f.type = "commit" /\ inbox' = InsertAt(inbox, i + 1, f)
    BY <1>4
  <2>2. Range(inbox') \subseteq Range(inbox) \cup {f} /\ (Once(inbox) => Once(inbox'))
    BY <1>2, <2>1, InboxInsert, OnceInsert
  <2>3. Due(f, srv, index)
    BY <2>1 DEF Due
  <2> QED
    BY <1>1, <1>2, <2>2, <2>3 DEF ExpectedNow, Expected
<1> QED
  BY <1>2, <1>3, <1>4, PostPlaces

-----------------------------------------------------------------------------
(* Nothing is refused                                                       *)

LEMMA ExpectedStep ==
  ASSUME AnswersInv, [Next]_vars
  PROVE  Expected(entries', srv', index', inbox', hooks', grantSeq')
<1>1. CASE HandleInit \/ HandleDisconnected \/ HandleStart
  BY <1>1, InitExpected, DisconnectedExpected, StartExpected
<1>2. CASE HandleForcedStop \/ HandleGracefulStop \/ HandleCommitResponse
  BY <1>2, ForcedStopExpected, GracefulStopExpected, CommitResponseExpected
<1>3. CASE HandleRead \/ HandleEnd \/ HandleCommit
  BY <1>3, ReadExpected, EndExpected, CommitExpected
<1>4. CASE DropFrame \/ Ignored
  <2>1. Drop /\ inbox # << >>
    BY <1>4 DEF DropFrame, Ignored, Handles
  <2> QED
    BY <2>1, DropExpected
<1>5. CASE ServerInit \/ StreamBreaks \/ RetryBackoff
  BY <1>5, ServerInitExpected, OffExpected
<1>6. CASE \E p \in Partition : ServerGrant(p) \/ ServerCommit(p)
  BY <1>6, ServerGrantExpected, ServerCommitExpected
<1>7. CASE \E sid \in Sid : ServerData(sid) \/ ServerEnd(sid) \/ ServerStatus(sid)
  BY <1>7, ServerReadsExpected
<1>8. CASE \E sid \in Sid, graceful \in BOOLEAN : ServerStop(sid, graceful)
  BY <1>8, ServerStopExpected
<1>9. CASE StartTimeout \/ RecoveryWindow \/ GracefulTimeout
  BY <1>9, TimersExpected
<1>10. CASE \E p \in Partition : PartitionTimers(p)
  BY <1>10, PartitionGracefulTimeoutExpected, PartitionReassignGcExpected,
     PartitionCommitStatusExpected
  DEF PartitionTimers
<1>11. CASE StartHookReturns \/ StopHookReturns
  BY <1>11, StartHookExpected, StopHookExpected
<1>12. CASE Read \/ Close \/ Destroy \/ MarkClosed \/ \E w \in Waiter : Commit(w)
  BY <1>12, FacadeExpected, PostExpected
<1>13. CASE UNCHANGED vars
  <2>1. UNCHANGED <<entries, srv, index, inbox, hooks, grantSeq>>
    BY <1>13 DEF vars, machineVars
  <2> QED
    BY <2>1, StayExpected
<1> QED
  BY <1>1, <1>2, <1>3, <1>4, <1>5, <1>6, <1>7, <1>8, <1>9, <1>10, <1>11, <1>12, <1>13
  DEF Next, Handle, Server

LEMMA ExpectedInit == Init => ExpectedNow
<1> SUFFICES ASSUME Init PROVE ExpectedNow
  OBVIOUS
<1>1. srv.refused = {} /\ srv.conn = "opened" /\ hooks = {}
  BY DEF Init
<1> QED
  BY <1>1 DEF ExpectedNow, Expected

\* Whatever stops, reconnects, regrants, hooks, timeouts and commits do, and in whatever
\* order, the server has no reason to refuse what it is sent.
THEOREM AnswersConsistent == Spec => []AnswersInv
<1>1. Init => ExpectedNow
  BY ExpectedInit
<1>2. ReaderInv /\ Claims(entries) /\ ExpectedNow /\ [Next]_vars => ExpectedNow'
  <2> SUFFICES ASSUME ReaderInv, Claims(entries), ExpectedNow, [Next]_vars PROVE ExpectedNow'
    OBVIOUS
  <2>1. Expected(entries', srv', index', inbox', hooks', grantSeq')
    BY ExpectedStep DEF AnswersInv
  <2> QED
    BY <2>1 DEF ExpectedNow, Expected, Tracked, Due
<1>3. Spec => []Claims(entries)
  BY ClaimsHold
<1> QED
  BY <1>1, <1>2, <1>3, ReaderConsistent, PTL DEF Spec, AnswersInv

\* No commit goes out before its grant is answered, and only what this stream has asked is
\* answered, and once, although session ids are reused and hooks outlive their sessions.
THEOREM AnswersDueHolds == Spec => []AnswersDue
<1>1. AnswersInv => AnswersDue
  BY DEF AnswersInv, ExpectedNow, Expected, AnswersDue
<1> QED
  BY <1>1, AnswersConsistent, PTL

\* No offset is committed twice on one session: not by overlapping commits, not by one that
\* was narrowed when its partition came back, nor behind the override of a start hook.
THEOREM NoRepeatedCommitHolds == Spec => []NoRepeatedCommit
<1>1. AnswersInv => NoRepeatedCommit
  BY DEF AnswersInv, ExpectedNow, Expected, NoRepeatedCommit
<1> QED
  BY <1>1, AnswersConsistent, PTL

-----------------------------------------------------------------------------
(* Credit                                                                   *)

\* The reads under way.
Reads(box) == {i \in 1 .. Len(box) : box[i].type = "read"}
Supply(s, box, parts) == s.credit + Cardinality(Reads(box)) + Len(parts)

\* A stream that is not up yet has not announced itself.
Unannounced ==
  srv.conn = "opened" => state # "ready" /\ \A f \in Range(inbox) : f.type # "init"
CreditInv == CreditKept /\ Unannounced

LEMMA ReadsFinite ==
  ASSUME NEW box \in Seq(FrameT)
  PROVE  IsFiniteSet(Reads(box)) /\ Cardinality(Reads(box)) \in Nat
<1>1. Len(box) \in Nat /\ IsFiniteSet(1 .. Len(box))
  BY LenProperties, FS_Interval
<1>2. IsFiniteSet(Reads(box))
  BY <1>1, FS_Subset DEF Reads
<1> QED
  BY <1>2, FS_CardinalityType

\* Reads that only move are not lost.
LEMMA ReadsMoved ==
  ASSUME NEW S, NEW T, IsFiniteSet(T), NEW m \in [S -> T],
         \A i, j \in S : m[i] = m[j] => i = j
  PROVE  IsFiniteSet(S) /\ Cardinality(S) <= Cardinality(T)
<1>1. m \in Injection(S, T)
  BY DEF Injection, IsInjective
<1> QED
  BY <1>1, FS_Injection

LEMMA ReadsTail ==
  ASSUME NEW box \in Seq(FrameT), box # << >>
  PROVE  /\ Head(box).type # "read" => Cardinality(Reads(Tail(box))) >= Cardinality(Reads(box))
         /\ Cardinality(Reads(Tail(box))) >= Cardinality(Reads(box)) - 1
<1> DEFINE n == Len(box)
           rest == Tail(box)
           S == Reads(box) \ {1}
           m == [i \in S |-> i - 1]
<1>1. /\ n \in Nat \ {0} /\ Len(rest) = n - 1 /\ rest \in Seq(FrameT)
      /\ \A i \in 1 .. Len(rest) : rest[i] = box[i + 1]
      /\ Head(box) = box[1]
  BY HeadTailProperties, EmptySeq, LenProperties
<1> HIDE DEF rest
<1>2. S \subseteq 2 .. n /\ Reads(box) \subseteq 1 .. n /\ \A i \in S : box[i].type = "read"
  BY <1>1 DEF Reads
<1>3. \A i \in S : i - 1 \in Reads(rest)
  <2> SUFFICES ASSUME NEW i \in S PROVE i - 1 \in Reads(rest)
    OBVIOUS
  <2>1. i \in 2 .. n /\ box[i].type = "read"
    BY <1>2
  <2> HIDE DEF n, S
  <2>2. i - 1 \in 1 .. Len(rest) /\ (i - 1) + 1 = i
    BY <1>1, <2>1
  <2> QED
    BY <1>1, <2>1, <2>2 DEF Reads
<1>4. m \in [S -> Reads(rest)] /\ \A i, j \in S : m[i] = m[j] => i = j
  BY <1>2, <1>3
<1> HIDE DEF m, S
<1>5. Cardinality(S) <= Cardinality(Reads(rest))
  BY <1>1, <1>4, ReadsFinite, ReadsMoved
<1>6. /\ Cardinality(Reads(box)) \in Nat /\ Cardinality(Reads(rest)) \in Nat
      /\ Cardinality(S) = IF 1 \in Reads(box) THEN Cardinality(Reads(box)) - 1
                                              ELSE Cardinality(Reads(box))
  BY <1>1, ReadsFinite, FS_RemoveElement DEF S
<1>7. Head(box).type # "read" => 1 \notin Reads(box)
  BY <1>1 DEF Reads
<1> QED
  BY <1>5, <1>6, <1>7 DEF rest

LEMMA ReadsAppend ==
  ASSUME NEW box \in Seq(FrameT), NEW f \in FrameT
  PROVE  /\ Cardinality(Reads(Append(box, f))) >= Cardinality(Reads(box))
         /\ f.type = "read" =>
              Cardinality(Reads(Append(box, f))) >= Cardinality(Reads(box)) + 1
<1> DEFINE n == Len(box)
           new == Append(box, f)
<1>1. /\ new \in Seq(FrameT) /\ n \in Nat /\ Len(new) = n + 1
      /\ \A i \in 1 .. n : new[i] = box[i]
      /\ new[n + 1] = f
  BY LenProperties
<1> HIDE DEF new, n
<1>2. Reads(box) \subseteq Reads(new) /\ n + 1 \notin Reads(box)
      /\ (f.type = "read" => n + 1 \in Reads(new))
  BY <1>1 DEF Reads, n
<1>3. /\ IsFiniteSet(Reads(new)) /\ IsFiniteSet(Reads(box)) /\ Cardinality(Reads(new)) \in Nat
      /\ Cardinality(Reads(box)) \in Nat
  BY <1>1, ReadsFinite
<1>4. Cardinality(Reads(box)) <= Cardinality(Reads(new))
  BY <1>2, <1>3, FS_Subset
<1>5. ASSUME f.type = "read" PROVE Cardinality(Reads(box)) + 1 <= Cardinality(Reads(new))
  <2>1. Reads(box) \cup {n + 1} \in SUBSET Reads(new)
    BY <1>2, <1>5
  <2>2. Cardinality(Reads(box) \cup {n + 1}) = Cardinality(Reads(box)) + 1
    BY <1>2, <1>3, FS_AddElement
  <2>3. Cardinality(Reads(box) \cup {n + 1}) <= Cardinality(Reads(new))
    BY <1>3, <2>1, FS_Subset
  <2> QED
    BY <2>2, <2>3
<1> QED
  BY <1>3, <1>4, <1>5 DEF new

LEMMA ReadsInsert ==
  ASSUME NEW box \in Seq(FrameT), NEW f \in FrameT, NEW n \in 0 .. Len(box)
  PROVE  Cardinality(Reads(InsertAt(box, n + 1, f))) >= Cardinality(Reads(box))
<1> DEFINE k == Len(box)
           new == InsertAt(box, n + 1, f)
           m == [i \in Reads(box) |-> IF i <= n THEN i ELSE i + 1]
<1>0. /\ new \in Seq(FrameT) /\ k \in Nat /\ Len(new) = k + 1 /\ n \in Nat /\ n <= k
      /\ \A i \in 1 .. k + 1 : \/ i <= n /\ new[i] = box[i]
                               \/ i = n + 1
                               \/ i > n + 1 /\ new[i] = box[i - 1]
  <2>1. k \in Nat
    BY LenProperties
  <2>2. n \in Nat /\ n <= k
    BY <2>1
  <2>3. /\ new \in Seq(FrameT) /\ Len(new) = k + 1
        /\ \A i \in 1 .. k + 1 : \/ i <= n /\ new[i] = box[i]
                                 \/ i = n + 1
                                 \/ i > n + 1 /\ new[i] = box[i - 1]
    <3>1. /\ InsertAt(box, n + 1, f) \in Seq(FrameT) /\ Len(InsertAt(box, n + 1, f)) = Len(box) + 1
          /\ \A i \in 1 .. Len(box) + 1 :
               \/ i <= n /\ i \in DOMAIN box /\ InsertAt(box, n + 1, f)[i] = box[i]
               \/ i = n + 1 /\ InsertAt(box, n + 1, f)[i] = f
               \/ i > n + 1 /\ i - 1 \in DOMAIN box /\ InsertAt(box, n + 1, f)[i] = box[i - 1]
      BY InsertPlaces
    <3> QED
      BY <3>1
  <2> QED
    BY <2>1, <2>2, <2>3
<1> HIDE DEF new, k
<1>1. \A i \in 1 .. k : new[IF i <= n THEN i ELSE i + 1] = box[i]
  <2> SUFFICES ASSUME NEW i \in 1 .. k PROVE new[IF i <= n THEN i ELSE i + 1] = box[i]
    OBVIOUS
  <2>1. CASE i <= n
    <3>1. i \in 1 .. k + 1 /\ ~(i = n + 1) /\ ~(i > n + 1)
      BY <1>0, <2>1
    <3> QED
      BY <1>0, <2>1, <3>1
  <2>2. CASE i > n
    <3>1. i + 1 \in 1 .. k + 1 /\ ~(i + 1 <= n) /\ ~(i + 1 = n + 1) /\ (i + 1) - 1 = i
      BY <1>0, <2>2
    <3> QED
      BY <1>0, <2>2, <3>1
  <2> QED
    BY <1>0, <2>1, <2>2
<1>2. \A i \in Reads(box) : i \in 1 .. k /\ box[i].type = "read"
  BY DEF Reads, k
<1>3. \A i \in Reads(box) : (IF i <= n THEN i ELSE i + 1) \in Reads(new)
  <2> SUFFICES ASSUME NEW i \in Reads(box)
               PROVE  (IF i <= n THEN i ELSE i + 1) \in Reads(new)
    OBVIOUS
  <2> DEFINE j == IF i <= n THEN i ELSE i + 1
  <2>1. j \in 1 .. Len(new) /\ new[j] = box[i]
    BY <1>0, <1>1, <1>2
  <2> HIDE DEF j
  <2>2. j \in Reads(new)
    BY <1>2, <2>1 DEF Reads
  <2> QED
    BY <2>2 DEF j
<1>4. m \in [Reads(box) -> Reads(new)]
  BY <1>3
<1>5. \A i, j \in Reads(box) : m[i] = m[j] => i = j
  <2> SUFFICES ASSUME NEW i \in Reads(box), NEW j \in Reads(box), m[i] = m[j] PROVE i = j
    OBVIOUS
  <2>1. i \in Nat /\ j \in Nat
    BY <1>0, <1>2
  <2>2. (IF i <= n THEN i ELSE i + 1) = (IF j <= n THEN j ELSE j + 1)
    OBVIOUS
  <2> HIDE DEF m
  <2> QED
    BY <1>0, <2>1, <2>2
<1> HIDE DEF m
<1>6. /\ Cardinality(Reads(box)) <= Cardinality(Reads(new))
      /\ Cardinality(Reads(box)) \in Nat /\ Cardinality(Reads(new)) \in Nat
  BY <1>0, <1>4, <1>5, ReadsFinite, ReadsMoved
<1> QED
  BY <1>6 DEF new

\* A request but for bytes changes neither the credit nor the stream.
SameCredit(s, t) == t.credit = s.credit /\ t.conn = s.conn

LEMMA RequestCredit ==
  ASSUME NEW s \in ServerT, NEW sid, NEW offsets, NEW pendings, NEW floor
  PROVE  /\ SameCredit(s, Commits(s, sid, offsets))
         /\ SameCredit(s, CommitsAll(s, sid, pendings, floor))
         /\ SameCredit(s, StartResponse(s, sid, floor))
         /\ SameCredit(s, StopResponse(s, sid))
         /\ SameCredit(s, StatusRequest(s, sid))
<1>1. \A why : SameCredit(s, Refuse(s, why))
  BY DEF SameCredit, Refuse, ServerT
<1>2. \A o : SameCredit(s, Commits(s, sid, o))
  <2> SUFFICES ASSUME NEW o PROVE SameCredit(s, Commits(s, sid, o))
    OBVIOUS
  <2>1. /\ SameCredit(s, s)
        /\ SameCredit(s, [s EXCEPT !.sess[sid].wire = @ \cup o,
                                   !.accepted[s.sess[sid].partition] = @ \cup o])
    BY DEF SameCredit, ServerT
  <2> QED
    BY <1>1, <2>1 DEF Commits
<1>3. SameCredit(s, s)
  BY DEF SameCredit
<1>4. SameCredit(s, CommitsAll(s, sid, pendings, floor))
  BY <1>1, <1>2, <1>3 DEF CommitsAll
<1>5. SameCredit(s, StartResponse(s, sid, floor))
  <2>1. \A new, accepted : SameCredit(s, [s EXCEPT !.sess[sid] = new,
                                               !.accepted[s.sess[sid].partition] = @ \cup accepted])
    BY DEF SameCredit, ServerT
  <2> QED
    BY <1>1, <1>3, <2>1 DEF StartResponse
<1>6. SameCredit(s, StopResponse(s, sid))
  <2>1. \A new : SameCredit(s, [s EXCEPT !.sess[sid] = new])
    BY DEF SameCredit, ServerT
  <2> QED
    BY <1>1, <1>3, <2>1 DEF StopResponse
<1>7. SameCredit(s, StatusRequest(s, sid))
  BY DEF SameCredit, StatusRequest, ServerT
<1> QED
  BY <1>2, <1>4, <1>5, <1>6, <1>7

\* A step that keeps the state and the stream and takes nothing away.
LEMMA CreditMoves ==
  ASSUME ReaderInv, CreditInv, state' = state, srv'.conn = srv.conn,
         \A f \in Range(inbox') : f.type = "init" => f \in Range(inbox),
         state = "ready" /\ srv.conn = "up" =>
           Supply(srv', inbox', chunks') >= Supply(srv, inbox, chunks),
         Supply(srv', inbox', chunks') \in Nat
  PROVE  CreditKept' /\ Unannounced'
<1>1. Unannounced'
  BY DEF CreditInv, Unannounced
<1>2. CreditKept'
  <2> SUFFICES ASSUME state = "ready", srv.conn = "up"
               PROVE  Supply(srv', inbox', chunks') >= MaxBuffer
    BY DEF CreditKept, Supply, Reads
  <2>1. Supply(srv, inbox, chunks) >= MaxBuffer
    BY DEF CreditInv, CreditKept, Supply, Reads
  <2>2. Supply(srv, inbox, chunks) \in Nat
    BY InvFields, ReadsFinite, ServerFields, LenProperties DEF Supply
  <2> QED
    BY <2>1, <2>2, ReaderAssumption
<1> QED
  BY <1>1, <1>2

\* The parts of the supply.
LEMMA SupplyParts ==
  ASSUME NEW s \in ServerT, NEW box \in Seq(FrameT), NEW parts \in Seq(SUBSET MessageT)
  PROVE  /\ s.credit \in Nat /\ Cardinality(Reads(box)) \in Nat /\ Len(parts) \in Nat
         /\ Supply(s, box, parts) \in Nat
         /\ Supply(s, box, parts) = s.credit + Cardinality(Reads(box)) + Len(parts)
BY ReadsFinite, ServerFields, LenProperties DEF Supply

\* The stream or the state is left.
LEMMA CreditLeft ==
  ASSUME CreditInv,
         \/ srv'.conn = "none"
         \/ /\ state' # "ready" /\ srv'.conn = srv.conn
            /\ \A f \in Range(inbox') : f \in Range(inbox)
  PROVE  CreditKept' /\ Unannounced'
<1>1. Unannounced'
  BY DEF CreditInv, Unannounced
<1>2. CreditKept'
  BY DEF CreditKept
<1> QED
  BY <1>1, <1>2

LEMMA TerminateCredit ==
  ASSUME ReaderInv, CreditInv, NEW terminal, NEW resolved, Terminate(terminal, resolved)
  PROVE  CreditKept' /\ Unannounced'
<1>1. srv'.conn = "none"
  BY InvFields DEF Terminate, Broken, ServerT
<1> QED
  BY <1>1, CreditLeft

\* What an event that is no read leaves behind.
LEMMA RestReads ==
  ASSUME ReaderInv, NEW rest,
         rest = inbox \/ (inbox # << >> /\ Head(inbox).type # "read" /\ rest = Tail(inbox))
  PROVE  /\ rest \in Seq(FrameT) /\ \A f \in Range(rest) : f \in Range(inbox)
         /\ Cardinality(Reads(rest)) >= Cardinality(Reads(inbox))
<1>1. inbox \in Seq(FrameT) /\ Cardinality(Reads(inbox)) \in Nat
  BY InvFields, ReadsFinite
<1>2. CASE rest = inbox
  BY <1>1, <1>2
<1>3. CASE inbox # << >> /\ Head(inbox).type # "read" /\ rest = Tail(inbox)
  BY <1>1, <1>3, ReadsTail, InboxTail
<1> QED
  BY <1>2, <1>3

\* A handler ends.
LEMMA FinishCredit ==
  ASSUME ReaderInv, CreditInv, NEW to, NEW rest,
         rest = inbox \/ (inbox # << >> /\ Head(inbox).type # "read" /\ rest = Tail(inbox)),
         to.srv \in ServerT, SameCredit(srv, to.srv),
         chunks' \in Seq(SUBSET MessageT), Len(chunks') = Len(chunks),
         NEW resolved, NEW rejected, Finish(to, resolved, rejected, rest)
  PROVE  CreditKept' /\ Unannounced'
<1>1. CASE state = "closing" /\ ~HasPendingWork(to.entries)
  <2>1. Terminate("closed", resolved)
    BY <1>1 DEF Finish
  <2> QED
    BY <2>1, TerminateCredit
<1>2. CASE ~(state = "closing" /\ ~HasPendingWork(to.entries))
  <2>1. state' = state /\ srv' = to.srv /\ inbox' = rest
    BY <1>2 DEF Finish
  <2>2. /\ rest \in Seq(FrameT) /\ \A f \in Range(rest) : f \in Range(inbox)
        /\ Cardinality(Reads(rest)) >= Cardinality(Reads(inbox))
    BY RestReads
  <2>3. srv \in ServerT /\ inbox \in Seq(FrameT) /\ chunks \in Seq(SUBSET MessageT)
    BY InvFields
  <2>4. Supply(to.srv, rest, chunks') >= Supply(srv, inbox, chunks)
    <3> DEFINE t == to.srv
               parts == chunks'
    <3>1. t \in ServerT /\ parts \in Seq(SUBSET MessageT) /\ t.credit = srv.credit
          /\ Len(parts) = Len(chunks)
      BY DEF SameCredit
    <3> HIDE DEF t, parts
    <3>2. /\ Supply(t, rest, parts) = t.credit + Cardinality(Reads(rest)) + Len(parts)
          /\ Cardinality(Reads(rest)) \in Nat
      BY <2>2, <3>1, SupplyParts
    <3>3. /\ Supply(srv, inbox, chunks) = srv.credit + Cardinality(Reads(inbox)) + Len(chunks)
          /\ srv.credit \in Nat /\ Cardinality(Reads(inbox)) \in Nat /\ Len(chunks) \in Nat
      BY <2>3, SupplyParts
    <3>4. Supply(t, rest, parts) >= Supply(srv, inbox, chunks)
      BY <2>2, <3>1, <3>2, <3>3
    <3> QED
      BY <3>4 DEF t, parts
  <2>5. Supply(to.srv, rest, chunks') \in Nat
    BY <2>2, SupplyParts
  <2> QED
    BY <2>1, <2>2, <2>4, <2>5, CreditMoves DEF SameCredit
<1> QED
  BY <1>1, <1>2

LEMMA SameSize ==
  ASSUME chunks \in Seq(SUBSET MessageT), NEW g, StopSession(g) \/ UNCHANGED <<chunks, delivered>>
  PROVE  chunks' \in Seq(SUBSET MessageT) /\ Len(chunks') = Len(chunks)
<1>1. CASE UNCHANGED <<chunks, delivered>>
  BY <1>1
<1>2. CASE StopSession(g)
  <2>1. Len(chunks) \in Nat /\ chunks' = [i \in 1 .. Len(chunks) |-> {m \in chunks[i] : m.grant # g}]
        /\ delivered \subseteq delivered
    BY <1>2, LenProperties DEF StopSession
  <2>2. \A i \in 1 .. Len(chunks) : {m \in chunks[i] : m.grant # g} \in SUBSET MessageT
    BY <2>1, ElementOfSeq
  <2>3. chunks' \in [1 .. Len(chunks) -> SUBSET MessageT]
    BY <2>1, <2>2
  <2> HIDE <2>1
  <2>4. chunks' \in Seq(SUBSET MessageT) /\ DOMAIN chunks' = 1 .. Len(chunks) /\ Len(chunks) \in Nat
    BY <2>1, <2>3, SeqDef
  <2> QED
    BY <2>4, LenProperties
<1> QED
  BY <1>1, <1>2

\* What stays when neither credit nor responses move.
LEMMA CreditRests ==
  ASSUME ReaderInv, CreditInv, state' = state, srv' \in ServerT, SameCredit(srv, srv'),
         inbox' = inbox \/ (inbox # << >> /\ Head(inbox).type # "read" /\ inbox' = Tail(inbox)),
         chunks' = chunks
  PROVE  CreditKept' /\ Unannounced'
<1>1. /\ inbox' \in Seq(FrameT) /\ \A f \in Range(inbox') : f \in Range(inbox)
      /\ Cardinality(Reads(inbox')) >= Cardinality(Reads(inbox))
  BY RestReads
<1>2. srv \in ServerT /\ inbox \in Seq(FrameT) /\ chunks \in Seq(SUBSET MessageT)
  BY InvFields
<1>3. /\ Supply(srv', inbox', chunks') \in Nat
      /\ Supply(srv', inbox', chunks') =
           srv'.credit + Cardinality(Reads(inbox')) + Len(chunks')
      /\ Cardinality(Reads(inbox')) \in Nat
  BY <1>1, <1>2, SupplyParts
<1>4. /\ Supply(srv, inbox, chunks) = srv.credit + Cardinality(Reads(inbox)) + Len(chunks)
      /\ srv.credit \in Nat /\ Cardinality(Reads(inbox)) \in Nat /\ Len(chunks) \in Nat
  BY <1>2, SupplyParts
<1>5. Supply(srv', inbox', chunks') >= Supply(srv, inbox, chunks)
  BY <1>1, <1>3, <1>4 DEF SameCredit
<1> QED
  BY <1>1, <1>3, <1>5, CreditMoves DEF SameCredit

LEMMA InitCredit ==
  ASSUME ReaderInv, CreditInv, HandleInit PROVE CreditKept' /\ Unannounced'
<1>1. /\ inbox # << >> /\ Head(inbox).type = "init" /\ inbox' = Tail(inbox)
      /\ srv' = ReadRequest(srv, MaxBuffer) /\ UNCHANGED chunks
  BY DEF HandleInit, Handles, Event, facadeVars
<1>2. srv \in ServerT /\ inbox \in Seq(FrameT) /\ chunks \in Seq(SUBSET MessageT)
      /\ Head(inbox) \in Range(inbox)
  BY <1>1, InvFields, InboxTail
<1>3. srv.conn # "opened"
  BY <1>1, <1>2 DEF CreditInv, Unannounced
<1>4. srv'.conn = srv.conn /\ (srv.conn = "up" => srv'.credit = srv.credit + MaxBuffer)
  BY <1>1, <1>2 DEF ReadRequest, ServerT
<1>5. Unannounced'
  BY <1>3, <1>4 DEF Unannounced
<1>6. CreditKept'
  <2> SUFFICES ASSUME srv.conn = "up" PROVE Supply(srv', inbox', chunks') >= MaxBuffer
    BY <1>4 DEF CreditKept, Supply, Reads
  <2>1. inbox' \in Seq(FrameT)
    BY <1>1, <1>2, InboxTail
  <2>2. /\ srv'.credit = srv.credit + MaxBuffer /\ srv.credit \in Nat /\ MaxBuffer \in Nat
        /\ Cardinality(Reads(inbox')) \in Nat /\ Len(chunks') \in Nat
    BY <1>1, <1>2, <1>4, <2>1, ReadsFinite, ServerFields, LenProperties, ReaderAssumption
  <2> QED
    BY <2>2 DEF Supply
<1> QED
  BY <1>5, <1>6

LEMMA ReconnectingCredit ==
  ASSUME ReaderInv, CreditInv, ToReconnecting,
         inbox' = inbox \/ (inbox # << >> /\ Head(inbox).type # "read" /\ inbox' = Tail(inbox))
  PROVE  CreditKept' /\ Unannounced'
<1>1. state' # "ready" /\ srv' = srv
  BY DEF ToReconnecting
<1>2. \A f \in Range(inbox') : f \in Range(inbox)
  BY RestReads
<1> QED
  BY <1>1, <1>2, CreditLeft

LEMMA DisconnectedCredit ==
  ASSUME ReaderInv, CreditInv, HandleDisconnected PROVE CreditKept' /\ Unannounced'
<1>1. \/ \E terminal : Terminate(terminal, {})
      \/ ToReconnecting /\ inbox # << >> /\ Head(inbox).type # "read" /\ inbox' = Tail(inbox)
  BY DEF HandleDisconnected, Handles, Event
<1> QED
  BY <1>1, TerminateCredit, ReconnectingCredit

\* A response is taken in.
LEMMA ReadCredit ==
  ASSUME ReaderInv, CreditInv, HandleRead PROVE CreditKept' /\ Unannounced'
<1>1. /\ inbox # << >> /\ inbox' = Tail(inbox) /\ UNCHANGED <<state, srv>>
      /\ \E c : chunks' = Append(chunks, c)
  BY DEF HandleRead, Handles
<1>2. srv \in ServerT /\ inbox \in Seq(FrameT) /\ chunks \in Seq(SUBSET MessageT)
      /\ chunks' \in Seq(SUBSET MessageT)
  BY InvFields, MessagesStep DEF Next, Handle
<1>3. inbox' \in Seq(FrameT) /\ (\A f \in Range(inbox') : f \in Range(inbox))
      /\ Cardinality(Reads(inbox')) >= Cardinality(Reads(inbox)) - 1
  BY <1>1, <1>2, ReadsTail, InboxTail
<1>4. Len(chunks') = Len(chunks) + 1
  <2>1. PICK c : chunks' = Append(chunks, c)
    BY <1>1
  <2>2. c \in SUBSET MessageT
    <3>1. Len(chunks) \in Nat /\ Len(chunks') = Len(chunks) + 1
          /\ chunks'[Len(chunks) + 1] = c
      BY <1>2, <2>1, LenProperties
    <3> QED
      BY <1>2, <3>1, ElementOfSeq
  <2> QED
    BY <1>2, <2>1, <2>2, AppendProperties
<1>5. /\ Supply(srv', inbox', chunks') \in Nat
      /\ Supply(srv', inbox', chunks') =
           srv.credit + Cardinality(Reads(inbox')) + Len(chunks')
      /\ Cardinality(Reads(inbox')) \in Nat
  BY <1>1, <1>2, <1>3, SupplyParts
<1>6. /\ Supply(srv, inbox, chunks) = srv.credit + Cardinality(Reads(inbox)) + Len(chunks)
      /\ srv.credit \in Nat /\ Cardinality(Reads(inbox)) \in Nat /\ Len(chunks) \in Nat
  BY <1>2, SupplyParts
<1>7. Supply(srv', inbox', chunks') >= Supply(srv, inbox, chunks)
  BY <1>3, <1>4, <1>5, <1>6
<1> QED
  BY <1>1, <1>3, <1>5, <1>7, CreditMoves

\* The other handlers.
LEMMA FrameCredit ==
  ASSUME ReaderInv, CreditInv,
         \/ HandleStart \/ HandleForcedStop \/ HandleGracefulStop \/ HandleCommitResponse
         \/ HandleEnd \/ HandleCommit \/ DropFrame \/ Ignored
  PROVE  CreditKept' /\ Unannounced'
<1>1. /\ srv \in ServerT /\ chunks \in Seq(SUBSET MessageT)
      /\ SameCredit(srv, srv)
  BY InvFields DEF SameCredit
<1>2. ASSUME NEW to, NEW resolved, NEW rejected, Finish(to, resolved, rejected, Tail(inbox)),
             inbox # << >>, Head(inbox).type # "read", to.srv \in ServerT, SameCredit(srv, to.srv),
             NEW g, StopSession(g) \/ UNCHANGED <<chunks, delivered>>
      PROVE  CreditKept' /\ Unannounced'
  BY <1>1, <1>2, SameSize, FinishCredit
<1>3. CASE HandleStart
  <2>1. /\ inbox # << >> /\ Head(inbox).type # "read"
        /\ UNCHANGED <<chunks, delivered>>
        /\ \E to, resolved : to.srv = srv /\ Finish(to, resolved, {}, Tail(inbox))
    BY <1>3, Zenon DEF HandleStart, Handles, Event, Here
  <2> QED
    BY <1>1, <1>2, <2>1
<1>4. CASE HandleForcedStop
  <2>1. /\ inbox # << >> /\ Head(inbox).type # "read"
        /\ \E g : StopSession(g)
        /\ \E to, resolved : to.srv = srv /\ Finish(to, resolved, {}, Tail(inbox))
    BY <1>4 DEF HandleForcedStop, StopsKnown, Handles, Event, Here
  <2> QED
    BY <1>1, <1>2, <2>1
<1>5. CASE HandleGracefulStop
  <2>1. /\ inbox # << >> /\ Head(inbox).type # "read"
        /\ UNCHANGED <<chunks, delivered>>
        /\ \E to, resolved : to.srv = srv /\ Finish(to, resolved, {}, Tail(inbox))
    BY <1>5 DEF HandleGracefulStop, StopsKnown, Handles, Event, Here
  <2> QED
    BY <1>1, <1>2, <2>1
<1>6. CASE HandleCommitResponse
  <2>1. /\ inbox # << >> /\ Head(inbox).type # "read"
        /\ \E g : StopSession(g) \/ UNCHANGED <<chunks, delivered>>
        /\ \E to, resolved : /\ to.srv \in {srv, StopResponse(srv, Event.sid)}
                             /\ Finish(to, resolved, {}, Tail(inbox))
    <3> DEFINE p == PartitionOf(Event.sid)
               entry == Advanced(entries[p], Event.committed)
               drained == /\ entry.state = "stopping-graceful" /\ entry.stopReady
                          /\ entry.requested = 0 /\ entry.pending = {}
               confirmed == entries[p].requested # 0 /\ entry.requested = 0
               cleared == (IF confirmed THEN {"partition_commit_status"} ELSE {})
                          \cup (IF drained THEN {"partition_graceful_timeout"} ELSE {})
               armed == IF Event.type = "status" /\ entry.requested # 0
                        THEN {"partition_commit_status"} ELSE {}
               advanced == [Here EXCEPT !.entries[p] = entry,
                                        !.timers = (@ \ TimersOf(cleared, p))
                                                      \cup TimersOf(armed, p)]
               done == [advanced EXCEPT !.entries[p] = MarkedStopped(entry),
                                        !.index = Unrouted(entries[p].sid),
                                        !.srv = StopResponse(@, Event.sid)]
               to == IF drained THEN done ELSE advanced
               resolved == Waiters(entries[p].pending \ entry.pending)
    <3>1. /\ inbox # << >> /\ Head(inbox).type # "read"
          /\ \E g : StopSession(g) \/ UNCHANGED <<chunks, delivered>>
          /\ Finish(to, resolved, {}, Tail(inbox))
      BY <1>6 DEF HandleCommitResponse, Handles, Event
    <3> HIDE DEF entry, drained, cleared, armed, resolved
    <3>2. advanced.srv = srv /\ done.srv = StopResponse(srv, Event.sid)
      BY DEF Here
    <3> HIDE DEF advanced, done
    <3>3. to.srv \in {srv, StopResponse(srv, Event.sid)}
      BY <3>2
    <3> QED
      BY <3>1, <3>3
  <2>2. SameCredit(srv, StopResponse(srv, Event.sid)) /\ StopResponse(srv, Event.sid) \in ServerT
    <3>1. Event.sid \in Sid
      BY <1>6, EventFields, FrameFields DEF HandleCommitResponse, Tells
    <3> QED
      BY <1>1, <3>1, RequestCredit, StopResponseSame DEF Same
  <2> QED
    BY <1>1, <1>2, <2>1, <2>2
<1>7. CASE HandleEnd
  <2>1. /\ inbox # << >> /\ Head(inbox).type # "read"
        /\ UNCHANGED <<chunks, delivered>>
        /\ \E to : to.srv = srv /\ Finish(to, {}, {}, Tail(inbox))
    BY <1>7 DEF HandleEnd, Handles, Event, Here
  <2> QED
    BY <1>1, <1>2, <2>1
<1>8. CASE HandleCommit
  <2>1. /\ inbox # << >> /\ Head(inbox).type # "read" /\ inbox' = Tail(inbox)
        /\ UNCHANGED <<state, chunks>>
    BY <1>8 DEF HandleCommit, Handles, Event
  <2>2. SameCredit(srv, srv')
    BY <1>1, <1>8, RequestCredit DEF HandleCommit
  <2>3. srv' \in ServerT
    BY <1>8, CommitKeeps DEF Keeps, Shape
  <2> QED
    BY <2>1, <2>2, <2>3, CreditRests
<1>9. CASE DropFrame \/ Ignored
  <2>1. /\ inbox # << >> /\ inbox' = Tail(inbox)
        /\ UNCHANGED <<state, chunks, srv>>
    BY <1>9 DEF DropFrame, Ignored, Handles, Drop, machineVars, facadeVars
  <2>2. CASE Head(inbox).type # "read"
    BY <1>1, <2>1, <2>2, CreditRests
  <2>3. CASE Head(inbox).type = "read"
    <3>1. state \in {"connecting", "reconnecting"}
      BY <1>9, <2>3 DEF DropFrame, Ignored, Handles, Event
    <3>2. \A f \in Range(inbox') : f \in Range(inbox)
      BY <2>1, InvFields, InboxTail
    <3> QED
      BY <2>1, <3>1, <3>2, CreditLeft
  <2> QED
    BY <2>2, <2>3
<1> QED
  BY <1>3, <1>4, <1>5, <1>6, <1>7, <1>8, <1>9

-----------------------------------------------------------------------------
(* Hooks, timers and the public object                                      *)

LEMMA StartHookCredit ==
  ASSUME ReaderInv, CreditInv, StartHookReturns PROVE CreditKept' /\ Unannounced'
<1>1. /\ UNCHANGED <<state, inbox, chunks>> /\ srv \in ServerT /\ srv' \in ServerT
  BY InvFields, StartHookKeeps DEF Keeps, StartHookReturns, facadeVars
<1>2. PICK h \in hooks, commitOffset \in Override :
        LET old == entries[h.partition]
            sent == CommitsAll(StartResponse(srv, h.sid, commitOffset), old.sid, old.pending,
                               Floor(Answered(old, commitOffset)))
        IN /\ h.type = "start"
           /\ srv' # srv => Routed(h.partition)
           /\ srv' \in {srv, sent, StatusRequest(sent, old.sid)}
  BY ZenonT(40) DEF StartHookReturns, Answered
<1> DEFINE old == entries[h.partition]
           floor == Floor(Answered(old, commitOffset))
           started == StartResponse(srv, h.sid, commitOffset)
           sent == CommitsAll(started, old.sid, old.pending, floor)
<1>3. SameCredit(srv, srv')
  <2>1. CASE srv' = srv
    BY <2>1 DEF SameCredit
  <2>2. CASE srv' # srv
    <3>1. h.sid \in Sid /\ h.partition \in Partition /\ commitOffset \in Nat
      BY <1>2, InvFields, ReaderAssumption DEF HooksOk
    <3>2. old.sid \in Sid /\ old.pending \in SUBSET PendingT
      BY <1>2, <2>2, <3>1, InvFields, EntryFields DEF Routed, Book
    <3>3. started \in ServerT /\ SameCredit(srv, started)
      BY <1>1, <3>1, StartResponseSame, RequestCredit DEF Same
    <3>4. srv' \in {srv, sent, StatusRequest(sent, old.sid)}
      BY <1>2
    <3> HIDE DEF started, floor, old
    <3>5. sent \in ServerT /\ SameCredit(started, sent)
      BY <3>2, <3>3, CommitsAllSame, RequestCredit DEF Same
    <3> HIDE DEF sent
    <3>6. SameCredit(sent, StatusRequest(sent, old.sid))
      BY <3>5, RequestCredit
    <3> QED
      BY <2>2, <3>3, <3>4, <3>5, <3>6 DEF SameCredit
  <2> QED
    BY <2>1, <2>2
<1> QED
  BY <1>1, <1>3, CreditRests

LEMMA AnswerCredit ==
  ASSUME ReaderInv, NEW p \in Partition
  PROVE  Answer(srv, p) \in ServerT /\ SameCredit(srv, Answer(srv, p))
BY AnswerSame, InvFields, RequestCredit DEF Answer, Same, SameCredit

LEMMA StopHookCredit ==
  ASSUME ReaderInv, CreditInv, StopHookReturns PROVE CreditKept' /\ Unannounced'
<1>1. PICK h \in hooks :
        LET p == h.partition
            old == entries[p]
            pinned == state \in Streaming /\ old.grant = h.grant /\ old.state = "stopping-graceful"
            drained == pinned /\ old.pending = {} /\ old.requested = 0
            done == [Here EXCEPT !.hooks = @ \ {h}]
            ready == [done EXCEPT !.entries[p].stopReady = TRUE]
        IN /\ Finish(CASE ~pinned -> done
                       [] pinned /\ ~drained -> ready
                       [] OTHER ->
                            [ready EXCEPT !.entries[p] = MarkedStopped(@),
                                          !.index = Unrouted(old.sid),
                                          !.timers = @ \ TimersOf({"partition_commit_status",
                                                                   "partition_graceful_timeout"}, p),
                                          !.srv = Answer(@, p)],
                     {}, {}, inbox)
           /\ StopSession(old.grant) \/ UNCHANGED <<chunks, delivered>>
  BY DEF StopHookReturns
<1> DEFINE p == h.partition
           old == entries[p]
           pinned == state \in Streaming /\ old.grant = h.grant /\ old.state = "stopping-graceful"
           drained == pinned /\ old.pending = {} /\ old.requested = 0
           done == [Here EXCEPT !.hooks = @ \ {h}]
           ready == [done EXCEPT !.entries[p].stopReady = TRUE]
           stopped == [ready EXCEPT !.entries[p] = MarkedStopped(@),
                                    !.index = Unrouted(old.sid),
                                    !.timers = @ \ TimersOf({"partition_commit_status",
                                                             "partition_graceful_timeout"}, p),
                                    !.srv = Answer(@, p)]
<1>2. /\ p \in Partition /\ srv \in ServerT /\ chunks \in Seq(SUBSET MessageT)
      /\ SameCredit(srv, srv)
  BY InvFields DEF HooksOk, SameCredit
<1>3. /\ chunks' \in Seq(SUBSET MessageT) /\ Len(chunks') = Len(chunks)
  BY <1>1, <1>2, SameSize
<1>4. done.srv = srv /\ ready.srv = srv /\ stopped.srv = Answer(srv, p)
  BY DEF Here
<1>5. \/ Finish(done, {}, {}, inbox) \/ Finish(ready, {}, {}, inbox)
      \/ Finish(stopped, {}, {}, inbox)
  BY <1>1
<1> HIDE DEF done, ready, stopped
<1> QED
  BY <1>2, <1>3, <1>4, <1>5, AnswerCredit, FinishCredit

LEMMA TimersCredit ==
  ASSUME ReaderInv, CreditInv,
         \/ StartTimeout \/ RetryBackoff \/ RecoveryWindow \/ GracefulTimeout
         \/ \E p \in Partition : PartitionTimers(p)
  PROVE  CreditKept' /\ Unannounced'
<1>1. CASE StartTimeout
  BY <1>1, ReconnectingCredit DEF StartTimeout
<1>2. CASE RetryBackoff
  <2>1. state' = "connecting" /\ inbox' = << >>
    BY <1>2 DEF RetryBackoff
  <2> QED
    BY <2>1, InboxEmpty DEF CreditKept, Unannounced
<1>3. CASE RecoveryWindow \/ GracefulTimeout
  BY <1>3, TerminateCredit DEF RecoveryWindow, GracefulTimeout
<1>4. srv \in ServerT /\ chunks \in Seq(SUBSET MessageT) /\ SameCredit(srv, srv)
  BY InvFields DEF SameCredit
<1>5. ASSUME NEW p \in Partition, PartitionGracefulTimeout(p)
      PROVE  CreditKept' /\ Unannounced'
  <2> DEFINE old == entries[p]
             fired == [Here EXCEPT !.timers = @ \ TimersOf({"partition_graceful_timeout"}, p)]
             armed == IF old.pending = {} THEN {} ELSE TimersOf({"partition_reassign_gc"}, p)
             forced == [fired EXCEPT
                          !.entries[p] = MarkedStopped(@),
                          !.timers = (@ \ TimersOf({"partition_commit_status"}, p)) \cup armed,
                          !.index = IF Routed(p) THEN Unrouted(old.sid) ELSE @,
                          !.srv = Answer(@, p)]
  <2>1. /\ Finish(fired, {}, {}, inbox) \/ Finish(forced, {}, {}, inbox)
        /\ StopSession(old.grant) \/ UNCHANGED <<chunks, delivered>>
    BY <1>5 DEF PartitionGracefulTimeout
  <2>2. fired.srv = srv /\ forced.srv = Answer(srv, p)
    BY DEF Here
  <2>3. chunks' \in Seq(SUBSET MessageT) /\ Len(chunks') = Len(chunks)
    BY <1>4, <2>1, SameSize
  <2> HIDE DEF fired, forced
  <2> QED
    BY <1>4, <2>1, <2>2, <2>3, AnswerCredit, FinishCredit
<1>6. ASSUME NEW p \in Partition, PartitionReassignGc(p)
      PROVE  CreditKept' /\ Unannounced'
  <2> DEFINE old == entries[p]
             fired == [Here EXCEPT !.timers = @ \ TimersOf({"partition_reassign_gc"}, p)]
             reaped == IF Routed(p) THEN [old EXCEPT !.pending = {}, !.claimed = {}] ELSE Absent
             gone == [fired EXCEPT !.entries[p] = reaped]
  <2>1. /\ Finish(fired, {}, {}, inbox) \/ Finish(gone, {}, Waiters(old.pending), inbox)
        /\ UNCHANGED <<chunks, delivered>>
    BY <1>6 DEF PartitionReassignGc
  <2>2. fired.srv = srv /\ gone.srv = srv
    BY DEF Here
  <2> HIDE DEF fired, gone
  <2> QED
    BY <1>4, <2>1, <2>2, FinishCredit
<1>7. ASSUME NEW p \in Partition, PartitionCommitStatus(p)
      PROVE  CreditKept' /\ Unannounced'
  <2>1. /\ UNCHANGED <<state, inbox, chunks>>
        /\ srv' \in {srv, StatusRequest(srv, entries[p].sid)}
    BY <1>7 DEF PartitionCommitStatus, facadeVars
  <2>2. srv' \in ServerT
    BY <1>7, PartitionCommitStatusKeeps DEF Keeps
  <2> QED
    BY <1>4, <2>1, <2>2, RequestCredit, CreditRests
<1> QED
  BY <1>1, <1>2, <1>3, <1>5, <1>6, <1>7 DEF PartitionTimers

\* read() returns the credit of what it takes; commit() takes nothing.
LEMMA FacadeCredit ==
  ASSUME ReaderInv, CreditInv,
         Read \/ Close \/ Destroy \/ MarkClosed \/ \E w \in Waiter : Commit(w)
  PROVE  CreditKept' /\ Unannounced'
<1>1. /\ srv \in ServerT /\ inbox \in Seq(FrameT) /\ chunks \in Seq(SUBSET MessageT)
      /\ SameCredit(srv, srv)
  BY InvFields DEF SameCredit
<1>2. CASE Read
  <2>1. /\ chunks # << >> /\ chunks' = Tail(chunks) /\ UNCHANGED <<state, inbox>>
        /\ srv' = IF state = "ready" THEN ReadRequest(srv, 1) ELSE srv
    BY <1>2 DEF Read, machineVars
  <2>2. /\ Len(chunks) \in Nat /\ Len(chunks') = Len(chunks) - 1
        /\ chunks' \in Seq(SUBSET MessageT) /\ Len(chunks') \in Nat
    BY <1>1, <2>1, HeadTailProperties, EmptySeq, LenProperties
  <2>3. /\ srv'.conn = srv.conn /\ srv' \in ServerT
        /\ state = "ready" /\ srv.conn = "up" => srv'.credit = srv.credit + 1
    BY <1>1, <2>1, ReadRequestSame DEF ReadRequest, ServerT, Same
  <2>4. /\ Supply(srv', inbox', chunks') \in Nat
        /\ Supply(srv', inbox', chunks') =
             srv'.credit + Cardinality(Reads(inbox)) + Len(chunks')
    BY <1>1, <2>1, <2>2, <2>3, SupplyParts
  <2>5. /\ Supply(srv, inbox, chunks) = srv.credit + Cardinality(Reads(inbox)) + Len(chunks)
        /\ srv.credit \in Nat /\ Cardinality(Reads(inbox)) \in Nat
    BY <1>1, SupplyParts
  <2>6. state = "ready" /\ srv.conn = "up" =>
          Supply(srv', inbox', chunks') >= Supply(srv, inbox, chunks)
    BY <2>2, <2>3, <2>4, <2>5
  <2> QED
    BY <2>1, <2>3, <2>4, <2>6, CreditMoves
<1>3. CASE \E terminal : Terminate(terminal, {})
  BY <1>3, TerminateCredit
<1>4. CASE UNCHANGED <<state, inbox, srv, chunks>>
  BY <1>1, <1>4, CreditRests
<1>5. CASE state' = "closing" /\ UNCHANGED <<inbox, srv>>
  BY <1>5, CreditLeft
<1>6. CASE \E w \in Waiter : Commit(w)
  <2>1. PICK w \in Waiter : Commit(w)
    BY <1>6
  <2>2. UNCHANGED <<state, srv, chunks>>
    BY <2>1 DEF Commit, machineVars
  <2>3. CASE inbox' = inbox
    BY <1>1, <2>2, <2>3, CreditRests
  <2>4. CASE \E f \in FrameT, i \in 0 .. Len(inbox) :
               f.type = "commit" /\ inbox' = InsertAt(inbox, i + 1, f)
    <3>1. PICK f \in FrameT, i \in 0 .. Len(inbox) :
            f.type = "commit" /\ inbox' = InsertAt(inbox, i + 1, f)
      BY <2>4
    <3>2. /\ inbox' \in Seq(FrameT) /\ Range(inbox') \subseteq Range(inbox) \cup {f}
          /\ Cardinality(Reads(inbox')) >= Cardinality(Reads(inbox))
      BY <1>1, <3>1, InboxInsert, ReadsInsert
    <3>3. /\ Supply(srv, inbox', chunks) \in Nat
          /\ Supply(srv, inbox', chunks) =
               srv.credit + Cardinality(Reads(inbox')) + Len(chunks)
          /\ Cardinality(Reads(inbox')) \in Nat
      BY <1>1, <3>2, SupplyParts
    <3>4. /\ Supply(srv, inbox, chunks) = srv.credit + Cardinality(Reads(inbox)) + Len(chunks)
          /\ srv.credit \in Nat /\ Cardinality(Reads(inbox)) \in Nat /\ Len(chunks) \in Nat
      BY <1>1, SupplyParts
    <3>5. Supply(srv, inbox', chunks) >= Supply(srv, inbox, chunks)
      BY <3>2, <3>3, <3>4
    <3> QED
      BY <2>2, <3>1, <3>2, <3>3, <3>5, CreditMoves
  <2> QED
    BY <2>1, <2>3, <2>4, PostPlaces
<1> QED
  BY <1>2, <1>3, <1>4, <1>5, <1>6 DEF Close, Destroy, MarkClosed, machineVars

-----------------------------------------------------------------------------
(* The server                                                               *)

\* A frame joins, and a read takes its credit along.
LEMMA JoinCredit ==
  ASSUME ReaderInv, CreditInv, Keeps, UNCHANGED <<state, chunks>>,
         srv'.conn = srv.conn, NEW f, f.type # "init",
         inbox' = Append(inbox, f) \/ inbox' = inbox,
         \/ srv'.credit = srv.credit
         \/ f.type = "read" /\ inbox' = Append(inbox, f) /\ srv'.credit = srv.credit - 1
  PROVE  CreditKept' /\ Unannounced'
<1>1. /\ srv \in ServerT /\ inbox \in Seq(FrameT) /\ chunks \in Seq(SUBSET MessageT)
  BY InvFields
<1>2. /\ inbox' \in Seq(FrameT) /\ Range(inbox') \subseteq Range(inbox) \cup {f}
      /\ Cardinality(Reads(inbox')) >= Cardinality(Reads(inbox))
      /\ f.type = "read" /\ inbox' = Append(inbox, f) =>
           Cardinality(Reads(inbox')) >= Cardinality(Reads(inbox)) + 1
  <2>1. CASE inbox' = inbox /\ inbox' # Append(inbox, f)
    BY <1>1, <2>1, ReadsFinite
  <2>2. CASE inbox' = Append(inbox, f)
    <3>1. f \in FrameT
      <4>1. /\ Len(inbox) \in Nat /\ Len(inbox') = Len(inbox) + 1
            /\ inbox'[Len(inbox) + 1] = f /\ inbox' \in Seq(FrameT)
        BY <1>1, <2>2, LenProperties DEF Keeps
      <4> QED
        BY <4>1, ElementOfSeq
    <3> QED
      BY <1>1, <2>2, <3>1, InboxAppend, ReadsAppend
  <2> QED
    BY <2>1, <2>2
<1>3. /\ Supply(srv', inbox', chunks') \in Nat
      /\ Supply(srv', inbox', chunks') =
           srv'.credit + Cardinality(Reads(inbox')) + Len(chunks)
      /\ Cardinality(Reads(inbox')) \in Nat /\ srv'.credit \in Nat
  BY <1>1, <1>2, SupplyParts DEF Keeps
<1>4. /\ Supply(srv, inbox, chunks) = srv.credit + Cardinality(Reads(inbox)) + Len(chunks)
      /\ srv.credit \in Nat /\ Cardinality(Reads(inbox)) \in Nat /\ Len(chunks) \in Nat
  BY <1>1, SupplyParts
<1>5. Supply(srv', inbox', chunks') >= Supply(srv, inbox, chunks)
  BY <1>2, <1>3, <1>4
<1> QED
  BY <1>2, <1>3, <1>5, CreditMoves

LEMMA ServerCredit ==
  ASSUME ReaderInv, CreditInv, Server PROVE CreditKept' /\ Unannounced'
<1>1. /\ srv \in ServerT /\ srv' \in ServerT /\ Keeps
  <2>1. Keeps
    BY NextKeeps DEF Next
  <2> QED
    BY <2>1, InvFields DEF Keeps
<1>2. UNCHANGED <<state, chunks>>
  BY DEF Server, ServerInit, StreamBreaks, ServerGrant, ServerCommit, ServerData, ServerEnd,
     ServerStatus, ServerStop, machineVars, facadeVars
<1>3. CASE ServerInit
  <2>1. srv.conn = "opened" /\ srv'.conn = "up"
    BY <1>1, <1>3 DEF ServerInit, ServerT
  <2> QED
    BY <1>2, <2>1 DEF CreditInv, Unannounced, CreditKept
<1>4. CASE StreamBreaks
  <2>1. srv'.conn = "none"
    BY <1>1, <1>4 DEF StreamBreaks, Broken, ServerT
  <2> QED
    BY <2>1, CreditLeft
<1>5. ASSUME NEW p \in Partition, ServerGrant(p) PROVE CreditKept' /\ Unannounced'
  <2>1. PICK f : inbox' = Append(inbox, f) /\ f.type = "start"
    BY <1>5 DEF ServerGrant, Reply
  <2>2. SameCredit(srv, srv')
    BY <1>1, <1>5 DEF ServerGrant, SameCredit, ServerT
  <2> QED
    BY <1>1, <1>2, <2>1, <2>2, JoinCredit DEF SameCredit
<1>6. ASSUME NEW p \in Partition, ServerCommit(p) PROVE CreditKept' /\ Unannounced'
  <2>1. \E f : f.type = "commit_response" /\ (inbox' = inbox \/ inbox' = Append(inbox, f))
    <3>1. \E f : f.type = "commit_response"
      <4> DEFINE f == [type |-> "commit_response"]
      <4>1. f.type = "commit_response"
        OBVIOUS
      <4> QED
        BY <4>1
    <3> QED
      BY <1>6, <3>1 DEF ServerCommit, Reply
  <2>2. SameCredit(srv, srv')
    BY <1>1, <1>6 DEF ServerCommit, SameCredit, ServerT
  <2> QED
    BY <1>1, <1>2, <2>1, <2>2, JoinCredit DEF SameCredit
<1>7. ASSUME NEW sid \in Sid, ServerData(sid) PROVE CreditKept' /\ Unannounced'
  <2> DEFINE least == Min({o \in Offset \ Hole : o >= srv.sess[sid].pos})
             f == [type |-> "read", sid |-> sid, offset |-> least]
  <2>1. inbox' = Append(inbox, f) /\ f.type = "read"
    BY <1>7 DEF ServerData, Reply
  <2>2. srv'.conn = srv.conn /\ srv'.credit = srv.credit - 1
    BY <1>1, <1>7 DEF ServerData, ServerT
  <2> HIDE DEF f
  <2> QED
    BY <1>1, <1>2, <2>1, <2>2, JoinCredit
<1>8. ASSUME NEW sid \in Sid, ServerEnd(sid) PROVE CreditKept' /\ Unannounced'
  <2>1. PICK f : inbox' = Append(inbox, f) /\ f.type = "end"
    BY <1>8 DEF ServerEnd, Reply
  <2>2. SameCredit(srv, srv')
    BY <1>1, <1>8 DEF ServerEnd, SameCredit, ServerT
  <2> QED
    BY <1>1, <1>2, <2>1, <2>2, JoinCredit DEF SameCredit
<1>9. ASSUME NEW sid \in Sid, ServerStatus(sid) PROVE CreditKept' /\ Unannounced'
  <2>1. PICK f : inbox' = Append(inbox, f) /\ f.type = "status"
    BY <1>9 DEF ServerStatus, Reply
  <2>2. SameCredit(srv, srv')
    BY <1>1, <1>9 DEF ServerStatus, SameCredit, ServerT
  <2> QED
    BY <1>1, <1>2, <2>1, <2>2, JoinCredit DEF SameCredit
<1>10. ASSUME NEW sid \in Sid, NEW graceful \in BOOLEAN, ServerStop(sid, graceful)
       PROVE  CreditKept' /\ Unannounced'
  <2>1. PICK f : inbox' = Append(inbox, f) /\ f.type = "stop"
    BY <1>10 DEF ServerStop, Reply
  <2>2. SameCredit(srv, srv')
    BY <1>1, <1>10 DEF ServerStop, SameCredit, ServerT
  <2> QED
    BY <1>1, <1>2, <2>1, <2>2, JoinCredit DEF SameCredit
<1> QED
  BY <1>3, <1>4, <1>5, <1>6, <1>7, <1>8, <1>9, <1>10 DEF Server

LEMMA CreditStep ==
  ASSUME ReaderInv, CreditInv, [Next]_vars PROVE CreditKept' /\ Unannounced'
<1>1. CASE Handle
  BY <1>1, InitCredit, DisconnectedCredit, ReadCredit, FrameCredit DEF Handle
<1>2. CASE StartHookReturns \/ StopHookReturns
  BY <1>2, StartHookCredit, StopHookCredit
<1>3. CASE UNCHANGED vars
  <2>1. UNCHANGED <<state, srv, inbox, chunks>>
    BY <1>3 DEF vars, machineVars, facadeVars
  <2> QED
    BY <2>1, InvFields, CreditRests DEF SameCredit
<1> QED
  BY <1>1, <1>2, <1>3, ServerCredit, TimersCredit, FacadeCredit DEF Next

\* The credit of every response comes back: what the server may still send, what it has sent
\* and what waits for read() make up maxBufferBytes, however often the stream breaks and
\* whatever becomes of the sessions.
THEOREM CreditKeptHolds == Spec => []CreditKept
<1>1. Init => CreditInv
  <2> SUFFICES ASSUME Init PROVE CreditInv
    OBVIOUS
  <2>1. state = "connecting" /\ inbox = << >>
    BY DEF Init
  <2> QED
    BY <2>1, InboxEmpty DEF CreditInv, CreditKept, Unannounced
<1>2. ReaderInv /\ CreditInv /\ [Next]_vars => CreditInv'
  <2> SUFFICES ASSUME ReaderInv, CreditInv, [Next]_vars PROVE CreditKept' /\ Unannounced'
    BY DEF CreditInv
  <2> QED
    BY CreditStep
<1>3. CreditInv => CreditKept
  BY DEF CreditInv
<1> QED
  BY <1>1, <1>2, <1>3, ReaderConsistent, PTL DEF Spec
=============================================================================
