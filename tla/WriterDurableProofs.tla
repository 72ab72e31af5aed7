------------------------ MODULE WriterDurableProofs ------------------------
(* Proofs about TopicWriter, for every number of messages, faults, flushers *)
(* and every limit: no message is lost, repeated or overtaken between       *)
(* write() and onAck, a writer that is closed in an orderly way implements  *)
(* DurableLog, and flush() is a barrier, however many call and abort it.    *)
EXTENDS TopicWriterProofs

-----------------------------------------------------------------------------
(* Where a message is until it is reported                                  *)

Output == [type : {"acks"}, batch : Seq(Message)] \cup [type : {"flushed", "error", "closed"}]

RepIds(out) == UNION {Ids(out[i].batch) : i \in {j \in 1 .. Len(out) : out[j].type = "acks"}}
WinIds(w)   == {w.messages[p].id : p \in w.inflightStart + 1 .. Len(w.messages)}
QueIds(box) == {box[i].id : i \in {j \in 1 .. Len(box) : box[j].type = "write"}}

\* The identities from position a to b grow by one.
Run(messages, a, b) ==
  \A i, j \in a .. b : messages[i].id + j = messages[j].id + i

OutputsOk(out) ==
  /\ out \in Seq(Output)
  /\ \A i \in 1 .. Len(out) :
       out[i].type = "acks" => Run(out[i].batch, 1, Len(out[i].batch))
  /\ \A i, j \in 1 .. Len(out) :
       i < j /\ out[i].type = "acks" /\ out[j].type = "acks" =>
         Before(Ids(out[i].batch), Ids(out[j].batch))

WindowRun(w) == Run(w.messages, w.inflightStart + 1, Len(w.messages))

\* What is reported, in the window and queued comes in this order, without a gap above what
\* was acknowledged to the user.
Tiled(R, W, Q, a, n) ==
  /\ a \in Nat /\ n \in Nat /\ a <= n
  /\ R \cup W \cup Q \subseteq a + 1 .. n
  /\ Before(R, W) /\ Before(R \cup W, Q)
  /\ \A m \in R \cup W \cup Q : a + 1 .. m \subseteq R \cup W \cup Q

\* Until the writer fails nothing is missing above it either.
Alive(st, failed) == st \notin Terminal \/ (st = "closed" /\ ~failed)

Ordered(out, w, box, a, n) ==
  OutputsOk(out) /\ WindowRun(w) /\ Tiled(RepIds(out), WinIds(w), QueIds(box), a, n)

Whole(out, w, box, a, n) == a + 1 .. n \subseteq RepIds(out) \cup WinIds(w) \cup QueIds(box)

Places ==
  /\ Ordered(outputs, window, mailbox, acked, written)
  /\ Alive(state, lastError) => Whole(outputs, window, mailbox, acked, written)
  /\ ~closed => budget = written - acked

-----------------------------------------------------------------------------
(* The public object and the machine                                        *)

Has(queue, type) == \E i \in 1 .. Len(queue) : queue[i].type = type

\* What calls of the user leave in the mailbox: nothing is written after close().
Calls(box, isClosing, failed) ==
  /\ \A i \in 1 .. Len(box) : box[i].type = "close" =>
       isClosing /\ \A j \in i .. Len(box) : box[j].type # "write"
  /\ Has(box, "destroy") => isClosing /\ failed

CallsInv ==
  /\ closing \in BOOLEAN /\ closed \in BOOLEAN /\ lastError \in BOOLEAN
  /\ Calls(mailbox, closing, lastError)
  /\ state \in {"closing", "closed"} => closing
  /\ state = "closing" => QueIds(mailbox) = {}

-----------------------------------------------------------------------------
(* Sets of messages                                                         *)

\* A message is reported: the next part of the window becomes the last of the reports.
LEMMA TiledReported ==
  ASSUME NEW R, NEW B, NEW V, NEW W, NEW Q, NEW a, NEW n, Tiled(R, W, Q, a, n),
         W = B \cup V, Before(B, V)
  PROVE  Tiled(R \cup B, V, Q, a, n)
BY DEF Tiled, Before

\* A write is handled: the first of the queue becomes the last of the window.
LEMMA TiledQueued ==
  ASSUME NEW R, NEW W, NEW P, NEW Q, NEW a, NEW n, NEW m, Tiled(R, W, Q, a, n),
         Q = {m} \cup P, Before({m}, P)
  PROVE  /\ Tiled(R, W \cup {m}, P, a, n)
         /\ m \in Nat
         /\ \A k \in W : m - 1 \in W /\ k <= m - 1
<1>1. /\ m \in Nat /\ a \in Nat /\ R \subseteq Nat /\ W \subseteq Nat /\ Q \subseteq Nat
      /\ \A r \in R, k \in W : r < k
      /\ \A k \in R \cup W, q \in Q : k < q
      /\ a + 1 .. m \subseteq R \cup W \cup Q
      /\ \A k \in R \cup W \cup Q : a < k
  BY DEF Tiled, Before
<1>2. ASSUME NEW k \in W PROVE m - 1 \in W /\ k <= m - 1
  <2>1. k < m /\ k \in Nat /\ a < k
    BY <1>1
  <2>2. k <= m - 1 /\ m - 1 \in a + 1 .. m
    BY <1>1, <2>1
  <2>3. m - 1 \in R \cup W \cup Q
    BY <1>1, <2>2
  <2>4. m - 1 \notin R
    BY <1>1, <2>1, <2>2
  <2>5. m - 1 \notin Q
    <3>1. m - 1 # m
      BY <1>1
    <3>2. m - 1 \notin P
      BY <1>1 DEF Before
    <3> QED
      BY <3>1, <3>2
  <2> QED
    BY <2>2, <2>3, <2>4, <2>5
<1>3. Tiled(R, W \cup {m}, P, a, n)
  <2>1. Before(R, W \cup {m})
    BY <1>1 DEF Before
  <2>2. Before(R \cup W \cup {m}, P)
    BY <1>1 DEF Before
  <2>3. R \cup (W \cup {m}) \cup P = R \cup W \cup Q
    OBVIOUS
  <2> QED
    BY <2>1, <2>2, <2>3 DEF Tiled
<1> QED
  BY <1>1, <1>2, <1>3

\* onAck is called: the first report, of k messages in a row, becomes part of what is
\* acknowledged.
LEMMA TiledConsumed ==
  ASSUME NEW R, NEW W, NEW Q, NEW a, NEW n, NEW b, NEW B, NEW S, Tiled(R, W, Q, a, n),
         R = B \cup S, Before(B, S), b \in Nat, \A m \in Nat : m \in B <=> a < m /\ m <= b,
         a <= b
  PROVE  Tiled(S, W, Q, b, n) \/ B = {}
<1> SUFFICES ASSUME B # {} PROVE Tiled(S, W, Q, b, n)
  OBVIOUS
<1>1. /\ a \in Nat /\ n \in Nat
      /\ R \cup W \cup Q \subseteq a + 1 .. n
      /\ Before(R, W) /\ Before(R \cup W, Q)
      /\ \A m \in R \cup W \cup Q : a + 1 .. m \subseteq R \cup W \cup Q
  BY DEF Tiled
<1>2. b \in B /\ b <= n /\ b > a
  <2>1. PICK m \in B : m \in Nat
    BY <1>1
  <2>2. a < m /\ m <= b
    BY <2>1
  <2>3. b \in B
    BY <1>1, <2>2
  <2> QED
    BY <1>1, <2>3
<1>3. ASSUME NEW m \in S \cup W \cup Q PROVE m \in Nat /\ m > b /\ m <= n
  <2>1. m \in Nat /\ m <= n
    BY <1>1
  <2> QED
    BY <1>1, <1>2, <2>1 DEF Before
<1>4. S \cup W \cup Q \subseteq b + 1 .. n
  BY <1>1, <1>3
<1>5. Before(S, W) /\ Before(S \cup W, Q)
  BY <1>1 DEF Before
<1>6. ASSUME NEW m \in S \cup W \cup Q, NEW k \in b + 1 .. m PROVE k \in S \cup W \cup Q
  <2>1. k \in a + 1 .. m /\ k > b /\ k \in Nat
    BY <1>1, <1>2, <1>3
  <2>2. k \notin B
    BY <2>1
  <2> QED
    BY <1>1, <2>1, <2>2
<1> QED
  BY <1>1, <1>2, <1>4, <1>5, <1>6 DEF Tiled

\* A message is accepted.
LEMMA TiledWritten ==
  ASSUME NEW R, NEW W, NEW Q, NEW a, NEW n, Tiled(R, W, Q, a, n)
  PROVE  /\ Tiled(R, W, Q, a, n + 1)
         /\ a + 1 .. n \subseteq R \cup W \cup Q => Tiled(R, W, Q \cup {n + 1}, a, n + 1)
<1>1. /\ a \in Nat /\ n \in Nat /\ a <= n
      /\ R \cup W \cup Q \subseteq a + 1 .. n
      /\ Before(R, W) /\ Before(R \cup W, Q)
      /\ \A m \in R \cup W \cup Q : a + 1 .. m \subseteq R \cup W \cup Q
  BY DEF Tiled
<1>2. \A m \in a + 1 .. n : m \in a + 1 .. n + 1 /\ m < n + 1
  BY <1>1
<1>3. R \cup W \cup Q \subseteq a + 1 .. n + 1
  BY <1>1, <1>2
<1>4. Tiled(R, W, Q, a, n + 1)
  BY <1>1, <1>3 DEF Tiled
<1>5. ASSUME a + 1 .. n \subseteq R \cup W \cup Q PROVE Tiled(R, W, Q \cup {n + 1}, a, n + 1)
  <2>1. n + 1 \in a + 1 .. n + 1 /\ a <= n + 1 /\ n + 1 \in Nat
    BY <1>1
  <2>2. Before(R \cup W, Q \cup {n + 1})
    BY <1>1, <1>2 DEF Before
  <2>3. \A k \in a + 1 .. n + 1 : k \in a + 1 .. n \/ k = n + 1
    BY <1>1
  <2>4. a + 1 .. n + 1 \subseteq R \cup W \cup (Q \cup {n + 1})
    BY <1>5, <2>3
  <2>5. R \cup W \cup (Q \cup {n + 1}) \subseteq a + 1 .. n + 1
    BY <1>3, <2>1
  <2>6. \A m \in a + 1 .. n + 1 : a + 1 .. m \subseteq a + 1 .. n + 1
    BY <1>1
  <2> QED
    BY <1>1, <2>1, <2>2, <2>4, <2>5, <2>6 DEF Tiled
<1> QED
  BY <1>4, <1>5

\* Nothing is left to be handled.
LEMMA TiledStopped ==
  ASSUME NEW R, NEW W, NEW Q, NEW a, NEW n, Tiled(R, W, Q, a, n)
  PROVE  Tiled(R, {}, {}, a, n)
<1>1. /\ a \in Nat /\ n \in Nat /\ a <= n
      /\ R \cup W \cup Q \subseteq a + 1 .. n
      /\ Before(R, W) /\ Before(R \cup W, Q)
      /\ \A m \in R \cup W \cup Q : a + 1 .. m \subseteq R \cup W \cup Q
  BY DEF Tiled
<1>2. ASSUME NEW m \in R, NEW k \in a + 1 .. m PROVE k \in R
  <2>1. m \in Nat /\ k \in Nat /\ k <= m /\ k \in R \cup W \cup Q
    BY <1>1
  <2>2. ASSUME k \in W \cup Q PROVE m < k
    BY <1>1, <2>2 DEF Before
  <2> QED
    BY <2>1, <2>2
<1> QED
  BY <1>1, <1>2 DEF Tiled, Before

-----------------------------------------------------------------------------
(* Queues and the window as sets of messages                                *)

\* Reported means: in the batch of some output.
LEMMA Reported ==
  ASSUME NEW out, NEW n
  PROVE  n \in RepIds(out) <=>
           \E i \in 1 .. Len(out) :
             out[i].type = "acks" /\ \E k \in 1 .. Len(out[i].batch) : n = out[i].batch[k].id
<1>1. \A i : n \in Ids(out[i].batch) <=> \E k \in 1 .. Len(out[i].batch) : n = out[i].batch[k].id
  BY DEF Ids
<1> QED
  BY <1>1 DEF RepIds

\* The kinds of outputs.
LEMMA OutputKinds ==
  /\ \A b \in Seq(Message) : [type |-> "acks", batch |-> b] \in Output
  /\ \A type \in {"flushed", "error", "closed"} : [type |-> type] \in Output
  /\ \A o \in Output : o.type = "acks" => o.batch \in Seq(Message)
BY DEF Output

\* An output that reports nothing.
LEMMA OutputAdded ==
  ASSUME NEW out, OutputsOk(out), NEW e \in Output, e.type # "acks"
  PROVE  OutputsOk(out \o <<e>>) /\ RepIds(out \o <<e>>) = RepIds(out)
<1> DEFINE more == out \o <<e>>
<1>1. /\ out \in Seq(Output) /\ Len(out) \in Nat
      /\ more \in Seq(Output) /\ Len(more) = Len(out) + 1
      /\ \A i \in 1 .. Len(out) : more[i] = out[i]
      /\ more[Len(out) + 1] = e
  BY Added DEF OutputsOk
<1> HIDE DEF more
<1>2. \A i \in 1 .. Len(more) : more[i].type = "acks" => i \in 1 .. Len(out) /\ more[i] = out[i]
  <2> SUFFICES ASSUME NEW i \in 1 .. Len(more), more[i].type = "acks"
               PROVE  i \in 1 .. Len(out) /\ more[i] = out[i]
    OBVIOUS
  <2>1. i # Len(out) + 1
    BY <1>1
  <2> QED
    BY <1>1, <2>1
<1>3. \A i \in 1 .. Len(out) : i \in 1 .. Len(more)
  BY <1>1
<1>4. OutputsOk(more)
  BY <1>1, <1>2 DEF OutputsOk
<1>5. ASSUME NEW n PROVE n \in RepIds(more) <=> n \in RepIds(out)
  BY <1>1, <1>2, <1>3, Reported
<1> QED
  BY <1>4, <1>5 DEF more

\* An output that reports a run of messages after those reported before.
LEMMA ReportAdded ==
  ASSUME NEW out, OutputsOk(out), NEW b \in Seq(Message), Run(b, 1, Len(b)),
         Before(RepIds(out), Ids(b))
  PROVE  LET more == out \o <<[type |-> "acks", batch |-> b]>>
         IN OutputsOk(more) /\ RepIds(more) = RepIds(out) \cup Ids(b)
<1> DEFINE e == [type |-> "acks", batch |-> b]
           more == out \o <<e>>
<1>1. e \in Output /\ e.type = "acks" /\ e.batch = b
  BY OutputKinds
<1> HIDE DEF e
<1>2. /\ out \in Seq(Output) /\ Len(out) \in Nat
      /\ more \in Seq(Output) /\ Len(more) = Len(out) + 1
      /\ \A i \in 1 .. Len(out) : more[i] = out[i]
      /\ more[Len(out) + 1] = e
  BY <1>1, Added DEF OutputsOk
<1> HIDE DEF more
<1>3. \A i \in 1 .. Len(more) : i \in 1 .. Len(out) \/ i = Len(out) + 1
  BY <1>2
<1>4. \A i \in 1 .. Len(out) : i \in 1 .. Len(more)
  BY <1>2
<1>5. Len(out) + 1 \in 1 .. Len(more)
  BY <1>2
<1>6. \A i \in 1 .. Len(more) : more[i].type = "acks" => Run(more[i].batch, 1, Len(more[i].batch))
  BY <1>1, <1>2, <1>3 DEF OutputsOk
<1>7. ASSUME NEW i \in 1 .. Len(more), NEW j \in 1 .. Len(more), i < j,
             more[i].type = "acks", more[j].type = "acks"
      PROVE  Before(Ids(more[i].batch), Ids(more[j].batch))
  <2>1. i \in 1 .. Len(out)
    BY <1>2, <1>7
  <2>2. CASE j \in 1 .. Len(out)
    BY <1>2, <1>7, <2>1, <2>2 DEF OutputsOk
  <2>3. CASE j = Len(out) + 1
    <3>1. Ids(out[i].batch) \subseteq RepIds(out)
      BY <1>2, <1>7, <2>1 DEF RepIds
    <3> QED
      BY <1>1, <1>2, <2>1, <2>3, <3>1 DEF Before
  <2> QED
    BY <1>3, <2>2, <2>3
<1>8. OutputsOk(more)
  BY <1>2, <1>6, <1>7 DEF OutputsOk
<1>9. RepIds(more) = RepIds(out) \cup Ids(b)
  <2>1. ASSUME NEW n PROVE n \in RepIds(more) => n \in RepIds(out) \/ n \in Ids(b)
    <3> SUFFICES ASSUME n \in RepIds(more) PROVE n \in RepIds(out) \/ n \in Ids(b)
      OBVIOUS
    <3>1. PICK i \in 1 .. Len(more) :
            more[i].type = "acks" /\ \E k \in 1 .. Len(more[i].batch) : n = more[i].batch[k].id
      BY Reported
    <3>2. CASE i \in 1 .. Len(out)
      BY <1>2, <3>1, <3>2, Reported
    <3>3. CASE i = Len(out) + 1
      BY <1>1, <1>2, <3>1, <3>3 DEF Ids
    <3> QED
      BY <1>3, <3>2, <3>3
  <2>2. ASSUME NEW n \in RepIds(out) PROVE n \in RepIds(more)
    BY <1>2, <1>4, Reported
  <2>3. Ids(b) \subseteq RepIds(more)
    BY <1>1, <1>2, <1>5 DEF RepIds
  <2> QED
    BY <2>1, <2>2, <2>3
<1> QED
  BY <1>8, <1>9 DEF more, e

\* #consume takes the first output: what it reports comes before what the others report.
LEMMA OutputTaken ==
  ASSUME NEW out, OutputsOk(out), out # << >>
  PROVE  /\ OutputsOk(Tail(out)) /\ Head(out) \in Output
         /\ IF Head(out).type = "acks"
            THEN /\ RepIds(out) = Ids(Head(out).batch) \cup RepIds(Tail(out))
                 /\ Before(Ids(Head(out).batch), RepIds(Tail(out)))
                 /\ Run(Head(out).batch, 1, Len(Head(out).batch))
            ELSE RepIds(out) = RepIds(Tail(out))
<1> DEFINE rest == Tail(out)
<1>1. /\ out \in Seq(Output) /\ Len(out) \in Nat /\ Len(out) >= 1
      /\ Head(out) = out[1] /\ Head(out) \in Output
      /\ rest \in Seq(Output) /\ Len(rest) = Len(out) - 1
      /\ \A i \in 1 .. Len(rest) : rest[i] = out[i + 1] /\ i + 1 \in 1 .. Len(out)
  BY Taken DEF OutputsOk
<1> HIDE DEF rest
<1>2. \A i, j \in 1 .. Len(rest) : i < j => i + 1 < j + 1
  BY <1>1
<1>3. \A i \in 1 .. Len(rest) : 1 < i + 1
  BY <1>1
<1>4. \A i \in 1 .. Len(out) : i = 1 \/ (i - 1 \in 1 .. Len(rest) /\ out[i] = rest[i - 1])
  <2> SUFFICES ASSUME NEW i \in 1 .. Len(out), i # 1
               PROVE  i - 1 \in 1 .. Len(rest) /\ out[i] = rest[i - 1]
    OBVIOUS
  <2>1. i - 1 \in 1 .. Len(rest) /\ (i - 1) + 1 = i
    BY <1>1
  <2> QED
    BY <1>1, <2>1
<1>5. 1 \in 1 .. Len(out)
  BY <1>1
<1>6. OutputsOk(rest)
  BY <1>1, <1>2 DEF OutputsOk
<1>7. ASSUME NEW n \in RepIds(rest) PROVE n \in RepIds(out)
  <2>1. PICK i \in 1 .. Len(rest) :
          rest[i].type = "acks" /\ \E k \in 1 .. Len(rest[i].batch) : n = rest[i].batch[k].id
    BY Reported
  <2>2. i + 1 \in 1 .. Len(out) /\ out[i + 1] = rest[i]
    BY <1>1
  <2> QED
    BY <2>1, <2>2, Reported
<1>8. ASSUME NEW n \in RepIds(out)
      PROVE  n \in RepIds(rest) \/ (out[1].type = "acks" /\ n \in Ids(out[1].batch))
  <2>1. PICK i \in 1 .. Len(out) :
          out[i].type = "acks" /\ \E k \in 1 .. Len(out[i].batch) : n = out[i].batch[k].id
    BY Reported
  <2>2. CASE i = 1
    BY <2>1, <2>2 DEF Ids
  <2>3. CASE i - 1 \in 1 .. Len(rest) /\ out[i] = rest[i - 1]
    BY <2>1, <2>3, Reported
  <2> QED
    BY <1>4, <2>2, <2>3
<1>9. ASSUME out[1].type = "acks"
      PROVE  /\ Ids(out[1].batch) \subseteq RepIds(out)
             /\ Before(Ids(out[1].batch), RepIds(rest))
             /\ Run(out[1].batch, 1, Len(out[1].batch))
  <2>1. Ids(out[1].batch) \subseteq RepIds(out)
    BY <1>5, <1>9 DEF RepIds
  <2>2. ASSUME NEW n \in RepIds(rest), NEW m \in Ids(out[1].batch) PROVE m < n
    <3>1. PICK i \in 1 .. Len(rest) : rest[i].type = "acks" /\ n \in Ids(rest[i].batch)
      BY Reported DEF Ids
    <3>2. Before(Ids(out[1].batch), Ids(out[i + 1].batch))
      BY <1>1, <1>3, <1>5, <1>9, <3>1 DEF OutputsOk
    <3> QED
      BY <1>1, <3>1, <3>2 DEF Before
  <2> QED
    BY <1>5, <1>9, <2>1, <2>2 DEF Before, OutputsOk
<1>10. CASE out[1].type = "acks"
  <2>1. RepIds(out) = Ids(out[1].batch) \cup RepIds(rest)
    BY <1>7, <1>8, <1>9, <1>10
  <2> QED
    BY <1>1, <1>6, <1>9, <1>10, <2>1 DEF rest
<1>11. CASE out[1].type # "acks"
  <2>1. RepIds(out) = RepIds(rest)
    BY <1>7, <1>8, <1>11
  <2> QED
    BY <1>1, <1>6, <1>11, <2>1 DEF rest
<1> QED
  BY <1>10, <1>11

\* The machine takes the first event: a write comes before the other writes.
LEMMA QueueTaken ==
  ASSUME NEW manual, NEW box, NEW messages, NEW n, Mail(manual, box, messages, n), box # << >>
  PROVE  IF Head(box).type = "write"
         THEN QueIds(box) = {Head(box).id} \cup QueIds(Tail(box)) /\ Before({Head(box).id}, QueIds(Tail(box)))
         ELSE QueIds(box) = QueIds(Tail(box))
<1> DEFINE rest == Tail(box)
<1>1. /\ box \in Seq(MailEvent) /\ Len(box) \in Nat /\ Len(box) >= 1 /\ Head(box) = box[1]
      /\ Len(rest) = Len(box) - 1
      /\ \A i \in 1 .. Len(rest) : rest[i] = box[i + 1] /\ i + 1 \in 1 .. Len(box)
  BY Taken DEF Mail
<1> HIDE DEF rest
<1>2. \A i \in 1 .. Len(rest) : 1 < i + 1
  BY <1>1
<1>3. \A i \in 1 .. Len(box) : i = 1 \/ (i - 1 \in 1 .. Len(rest) /\ box[i] = rest[i - 1])
  <2> SUFFICES ASSUME NEW i \in 1 .. Len(box), i # 1
               PROVE  i - 1 \in 1 .. Len(rest) /\ box[i] = rest[i - 1]
    OBVIOUS
  <2>1. i - 1 \in 1 .. Len(rest) /\ (i - 1) + 1 = i
    BY <1>1
  <2> QED
    BY <1>1, <2>1
<1>4. 1 \in 1 .. Len(box)
  BY <1>1
<1>5. QueIds(rest) \subseteq QueIds(box)
  BY <1>1 DEF QueIds
<1>6. \A m \in QueIds(box) : m \in QueIds(rest) \/ (box[1].type = "write" /\ m = box[1].id)
  BY <1>3 DEF QueIds
<1>7. box[1].type = "write" => box[1].id \in QueIds(box)
  BY <1>4 DEF QueIds
<1>8. ASSUME box[1].type = "write", NEW m \in QueIds(rest) PROVE box[1].id < m
  <2>1. PICK i \in 1 .. Len(rest) : rest[i].type = "write" /\ m = rest[i].id
    BY DEF QueIds
  <2> QED
    BY <1>1, <1>2, <1>4, <1>8, <2>1 DEF Mail
<1>9. CASE box[1].type = "write"
  <2>1. QueIds(box) = {box[1].id} \cup QueIds(rest)
    BY <1>5, <1>6, <1>7, <1>9
  <2>2. Before({box[1].id}, QueIds(rest))
    BY <1>8, <1>9 DEF Before
  <2> QED
    BY <1>1, <1>9, <2>1, <2>2 DEF rest
<1>10. CASE box[1].type # "write"
  <2>1. QueIds(box) = QueIds(rest)
    BY <1>5, <1>6, <1>10
  <2> QED
    BY <1>1, <1>10, <2>1 DEF rest
<1> QED
  BY <1>9, <1>10

\* An event is posted.
LEMMA QueuePosted ==
  ASSUME NEW box \in Seq(MailEvent), NEW e \in MailEvent
  PROVE  /\ e.type = "write" => QueIds(Append(box, e)) = QueIds(box) \cup {e.id}
         /\ e.type # "write" => QueIds(Append(box, e)) = QueIds(box)
<1> DEFINE more == Append(box, e)
<1>1. /\ Len(box) \in Nat /\ Len(more) = Len(box) + 1
      /\ \A i \in 1 .. Len(box) : more[i] = box[i]
      /\ more[Len(box) + 1] = e
  BY Added
<1> HIDE DEF more
<1>2. \A i \in 1 .. Len(more) : i \in 1 .. Len(box) \/ i = Len(box) + 1
  BY <1>1
<1>3. /\ \A i \in 1 .. Len(box) : i \in 1 .. Len(more)
      /\ Len(box) + 1 \in 1 .. Len(more)
  BY <1>1
<1>4. QueIds(box) \subseteq QueIds(more)
  BY <1>1, <1>3 DEF QueIds
<1>5. \A m \in QueIds(more) : m \in QueIds(box) \/ (e.type = "write" /\ m = e.id)
  BY <1>1, <1>2 DEF QueIds
<1>6. e.type = "write" => e.id \in QueIds(more)
  BY <1>1, <1>3 DEF QueIds
<1> QED
  BY <1>4, <1>5, <1>6 DEF more

\* In a run positions and identities go together.
LEMMA RunOrder ==
  ASSUME NEW M \in Seq(Message), NEW s \in Nat, Run(M, s + 1, Len(M))
  PROVE  \A p, q \in s + 1 .. Len(M) :
           /\ p \in 1 .. Len(M) /\ M[p] \in Message /\ M[p].id \in Nat /\ M[q].id \in Nat
           /\ M[q].id + p = M[p].id + q
           /\ p < q <=> M[p].id < M[q].id
<1> SUFFICES ASSUME NEW p \in s + 1 .. Len(M), NEW q \in s + 1 .. Len(M)
             PROVE  /\ p \in 1 .. Len(M) /\ M[p] \in Message /\ M[p].id \in Nat /\ M[q].id \in Nat
                    /\ M[q].id + p = M[p].id + q
                    /\ p < q <=> M[p].id < M[q].id
  OBVIOUS
<1>1. p \in 1 .. Len(M) /\ q \in 1 .. Len(M)
  OBVIOUS
<1>2. M[p] \in Message /\ M[q] \in Message
  BY <1>1
<1>3. M[p].id \in Nat /\ M[q].id \in Nat
  BY <1>2 DEF Message
<1>4. M[q].id + p = M[p].id + q
  BY <1>1, <1>3 DEF Run
<1> QED
  BY <1>1, <1>2, <1>3, <1>4

\* The messages behind the first n in flight.
Behind(w, n) == {w.messages[p].id : p \in w.inflightStart + n + 1 .. Len(w.messages)}

\* The first n in flight are a run, and come before the rest of the window.
LEMMA InflightRun ==
  ASSUME NEW w, NEW last, Sound(w, last), WindowRun(w), NEW n \in 0 .. w.inflightLength
  PROVE  /\ Inflight(w, n) \in Seq(Message) /\ Len(Inflight(w, n)) = n
         /\ \A k \in 1 .. n : Inflight(w, n)[k] = w.messages[w.inflightStart + k]
         /\ Run(Inflight(w, n), 1, Len(Inflight(w, n)))
         /\ Ids(Inflight(w, n)) =
              {w.messages[p].id : p \in w.inflightStart + 1 .. w.inflightStart + n}
         /\ Before(Ids(Inflight(w, n)), Behind(w, n))
         /\ WinIds(w) = Ids(Inflight(w, n)) \cup Behind(w, n)
<1> DEFINE s == w.inflightStart
           M == w.messages
           b == Inflight(w, n)
           Rest == Behind(w, n)
<1>1. /\ M \in Seq(Message) /\ Len(M) \in Nat /\ s \in Nat
      /\ w.inflightLength \in Nat /\ s + w.inflightLength <= Len(M)
      /\ \A p \in 1 .. Len(M) : M[p] \in Message
  BY WindowFields DEF Sound
<1>2. n \in Nat /\ s + n <= Len(M)
  BY <1>1
<1>3. Run(M, s + 1, Len(M))
  BY DEF WindowRun
<1>4. b = SubSeq(M, s + 1, s + n)
  BY DEF Inflight
<1>w. /\ WinIds(w) = {M[p].id : p \in s + 1 .. Len(M)}
      /\ Rest = {M[p].id : p \in s + n + 1 .. Len(M)}
  BY DEF WinIds, Behind
<1> HIDE DEF s, M, b, Rest
<1> DEFINE f == s + 1
           t == s + n
<1>5. f \in Int /\ t \in Int /\ \A i \in f .. t : M[i] \in Message
  BY <1>1, <1>2
<1>c. t - f + 1 = n /\ (f <= t => t - f + 1 = n) /\ (~(f <= t) => n = 0)
  BY <1>1, <1>2
<1> HIDE DEF f, t
<1>6. /\ SubSeq(M, f, t) \in Seq(Message)
      /\ Len(SubSeq(M, f, t)) = IF f <= t THEN t - f + 1 ELSE 0
      /\ \A i \in 1 .. t - f + 1 : SubSeq(M, f, t)[i] = M[f + i - 1]
  BY <1>5, SubSeqProperties
<1>d. b = SubSeq(M, f, t)
  BY <1>4 DEF f, t
<1>7. b \in Seq(Message) /\ Len(b) = n
  BY <1>c, <1>d, <1>6
<1>8. ASSUME NEW k \in 1 .. n PROVE b[k] = M[s + k] /\ s + k \in s + 1 .. Len(M)
  <2>1. f + k - 1 = s + k
    BY <1>1, <1>2 DEF f
  <2>2. s + k \in s + 1 .. Len(M)
    BY <1>1, <1>2
  <2>3. SubSeq(M, f, t)[k] = M[f + k - 1]
    BY <1>c, <1>6
  <2> QED
    BY <1>d, <2>1, <2>2, <2>3
<1>9. ASSUME NEW i \in 1 .. n, NEW j \in 1 .. n PROVE b[i].id + j = b[j].id + i
  <2>1. /\ M[s + i].id \in Nat /\ M[s + j].id \in Nat
        /\ M[s + i].id + (s + j) = M[s + j].id + (s + i)
    BY <1>1, <1>3, <1>8, RunOrder
  <2> DEFINE x == M[s + i].id
             y == M[s + j].id
  <2>2. x \in Nat /\ y \in Nat /\ x + (s + j) = y + (s + i)
    BY <2>1
  <2>3. i \in Nat /\ j \in Nat /\ s \in Nat
    BY <1>1, <1>2
  <2> HIDE DEF x, y
  <2>4. x + j = y + i
    BY <2>2, <2>3
  <2> QED
    BY <1>8, <2>4 DEF x, y
<1>10. Ids(b) = {M[p].id : p \in s + 1 .. s + n}
  <2>1. \A p \in s + 1 .. s + n : p - s \in 1 .. n /\ s + (p - s) = p
    BY <1>1, <1>2
  <2>2. \A k \in 1 .. n : s + k \in s + 1 .. s + n
    BY <1>1, <1>2
  <2>3. \A p \in s + 1 .. s + n : M[p].id \in Ids(b)
    BY <1>7, <1>8, <2>1 DEF Ids
  <2>4. \A m \in Ids(b) : \E p \in s + 1 .. s + n : m = M[p].id
    BY <1>7, <1>8, <2>2 DEF Ids
  <2> QED
    BY <2>3, <2>4
<1>11. ASSUME NEW p \in s + 1 .. s + n, NEW q \in s + n + 1 .. Len(M)
       PROVE  M[p].id < M[q].id
  <2>1. p \in s + 1 .. Len(M) /\ q \in s + 1 .. Len(M) /\ p < q
    BY <1>1, <1>2
  <2> QED
    BY <1>1, <1>3, <2>1, RunOrder
<1>12. Before(Ids(b), Rest)
  BY <1>w, <1>10, <1>11 DEF Before
<1>13. WinIds(w) = Ids(b) \cup Rest
  <2>1. \A p : p \in s + 1 .. Len(M) <=> p \in s + 1 .. s + n \/ p \in s + n + 1 .. Len(M)
    BY <1>1, <1>2
  <2> QED
    BY <1>w, <1>10, <2>1
<1> QED
  BY <1>7, <1>8, <1>9, <1>10, <1>12, <1>13 DEF Run, s, M, b, Rest

\* What stays in the window when acknowledgments take the first n in flight.
LEMMA AcknowledgedStays ==
  ASSUME NEW w, NEW last, Sound(w, last), WindowRun(w), NEW n \in 0 .. w.inflightLength
  PROVE  LET a == Acknowledged(w, n)
             k == w.inflightStart + n
         IN /\ a.inflightStart = 0 /\ a.bufferStart = w.bufferStart - k
            /\ Len(a.messages) = Len(w.messages) - k
            /\ \A p \in 1 .. Len(a.messages) :
                 a.messages[p] = w.messages[k + p] /\ k + p \in k + 1 .. Len(w.messages)
            /\ WinIds(a) = Behind(w, n)
            /\ WindowRun(a)
<1> DEFINE k == w.inflightStart + n
           M == w.messages
           a == Acknowledged(w, n)
           rest == SubSeq(M, k + 1, Len(M))
<1>1. /\ w \in Window /\ M \in Seq(Message) /\ Len(M) \in Nat /\ w.inflightStart \in Nat
      /\ w.inflightLength \in Nat /\ w.inflightStart + w.inflightLength <= Len(M)
  BY WindowFields DEF Sound
<1>2. k \in Nat /\ k <= Len(M) /\ w.inflightStart <= k
  BY <1>1
<1>3. Run(M, w.inflightStart + 1, Len(M))
  BY DEF WindowRun
<1>4. a.messages = rest /\ a.inflightStart = 0 /\ a.bufferStart = w.bufferStart - k
  BY <1>1 DEF Acknowledged, Compacted, Window
<1>w. WinIds(a) = {a.messages[p].id : p \in a.inflightStart + 1 .. Len(a.messages)}
  BY DEF WinIds
<1> HIDE DEF k, M, a
<1>5. /\ rest \in Seq(Message) /\ Len(rest) = Len(M) - k
      /\ \A i \in 1 .. Len(M) - k : rest[i] = M[k + i]
  BY <1>1, <1>2, Remaining
<1> HIDE DEF rest
<1>6. ASSUME NEW p \in 1 .. Len(rest) PROVE rest[p] = M[k + p] /\ k + p \in k + 1 .. Len(M)
  BY <1>1, <1>2, <1>5
<1>7. \A p \in k + 1 .. Len(M) : p - k \in 1 .. Len(rest) /\ k + (p - k) = p
  BY <1>1, <1>2, <1>5
<1>8. WinIds(a) = {M[p].id : p \in k + 1 .. Len(M)}
  <2>1. \A p \in 1 .. Len(rest) : rest[p].id = M[k + p].id /\ k + p \in k + 1 .. Len(M)
    BY <1>6
  <2>2. \A p \in k + 1 .. Len(M) : M[p].id = rest[p - k].id /\ p - k \in 1 .. Len(rest)
    BY <1>6, <1>7
  <2>3. WinIds(a) = {rest[p].id : p \in 1 .. Len(rest)}
    <3>1. a.inflightStart + 1 = 1
      BY <1>4
    <3> QED
      BY <1>w, <1>4, <3>1
  <2>4. \A p \in 1 .. Len(rest) : rest[p].id \in {M[q].id : q \in k + 1 .. Len(M)}
    BY <2>1
  <2>5. \A p \in k + 1 .. Len(M) : M[p].id \in {rest[q].id : q \in 1 .. Len(rest)}
    BY <2>2
  <2> QED
    BY <2>3, <2>4, <2>5
<1>9. ASSUME NEW i \in 1 .. Len(rest), NEW j \in 1 .. Len(rest)
      PROVE  rest[i].id + j = rest[j].id + i
  <2>1. k + i \in w.inflightStart + 1 .. Len(M) /\ k + j \in w.inflightStart + 1 .. Len(M)
    BY <1>1, <1>2, <1>6
  <2>2. /\ M[k + i].id \in Nat /\ M[k + j].id \in Nat
        /\ M[k + i].id + (k + j) = M[k + j].id + (k + i)
    BY <1>1, <1>3, <2>1, RunOrder
  <2> DEFINE x == M[k + i].id
             y == M[k + j].id
  <2>3. x \in Nat /\ y \in Nat /\ x + (k + j) = y + (k + i)
    BY <2>2
  <2>4. i \in Nat /\ j \in Nat
    BY <1>1, <1>2, <1>5
  <2> HIDE DEF x, y
  <2>5. x + j = y + i
    BY <1>2, <2>3, <2>4
  <2> QED
    BY <1>6, <2>5 DEF x, y
<1>10. WindowRun(a)
  BY <1>4, <1>9 DEF WindowRun, Run
<1>11. WinIds(a) = Behind(w, n)
  BY <1>8 DEF Behind, k, M
<1> QED
  BY <1>4, <1>5, <1>6, <1>10, <1>11 DEF k, M, a

\* What stays in the window when the first n in flight are found persisted.
LEMMA RewoundStays ==
  ASSUME NEW w, NEW last, Sound(w, last), WindowRun(w), NEW n \in 0 .. w.inflightLength
  PROVE  LET r == Rewound(w, n)
             k == w.inflightStart + n
         IN /\ r.messages = w.messages /\ r.inflightStart = k /\ r.bufferStart = k
            /\ WinIds(r) = Behind(w, n)
            /\ WindowRun(r)
<1> DEFINE k == w.inflightStart + n
           M == w.messages
           r == Rewound(w, n)
<1>1. w \in Window /\ Len(M) \in Nat /\ w.inflightStart \in Nat /\ w.inflightLength \in Nat
  BY WindowFields DEF Sound
<1>2. r.messages = M /\ r.inflightStart = k /\ r.bufferStart = k
  BY <1>1 DEF Rewound, Window
<1>3. \A p \in k + 1 .. Len(M) : p \in w.inflightStart + 1 .. Len(M)
  BY <1>1
<1> HIDE DEF r
<1>4. WindowRun(r)
  BY <1>2, <1>3 DEF WindowRun, Run
<1>5. WinIds(r) = Behind(w, n)
  BY <1>2 DEF WinIds, Behind
<1> QED
  BY <1>2, <1>4, <1>5 DEF r

\* A batch gives numbers and takes nothing away.
LEMMA SentStays ==
  ASSUME NEW w, NEW last, Sound(w, last)
  PROVE  LET s == Sent(w, last)
         IN /\ Len(s.messages) = Len(w.messages)
            /\ s.inflightStart = w.inflightStart
            /\ s.bufferStart = w.bufferStart + BatchSize(w)
            /\ s.messages = Numbered(w, last)
            /\ \A p \in 1 .. Len(w.messages) : s.messages[p].id = w.messages[p].id
            /\ WinIds(s) = WinIds(w)
            /\ WindowRun(w) => WindowRun(s)
<1> DEFINE s == Sent(w, last)
           M == w.messages
<1>1. w \in Window /\ M \in Seq(Message) /\ Len(M) \in Nat /\ w.inflightStart \in Nat
      /\ \A p \in 1 .. Len(M) : M[p] \in Message
  BY WindowFields DEF Sound
<1>2. /\ s.messages = Numbered(w, last) /\ s.inflightStart = w.inflightStart
      /\ s.bufferStart = w.bufferStart + BatchSize(w)
  BY <1>1 DEF Sent, Window
<1>3. Len(Numbered(w, last)) = Len(M)
  BY NumberedProps
<1>4. ASSUME NEW p \in 1 .. Len(M) PROVE Numbered(w, last)[p].id = M[p].id
  <2>1. \/ Numbered(w, last)[p] = [M[p] EXCEPT !.seqNo = last + Unnumbered(w, p - w.bufferStart)]
        \/ Numbered(w, last)[p] = M[p]
    BY DEF Numbered
  <2>2. M[p] \in Message
    BY <1>1
  <2> QED
    BY <2>1, <2>2 DEF Message
<1> HIDE DEF s
<1>5. \A p \in w.inflightStart + 1 .. Len(M) : p \in 1 .. Len(M)
  BY <1>1
<1>6. WinIds(s) = WinIds(w)
  <2>1. \A p \in w.inflightStart + 1 .. Len(M) : s.messages[p].id = M[p].id
    BY <1>2, <1>4, <1>5
  <2> QED
    BY <1>2, <1>3, <2>1 DEF WinIds
<1>7. WindowRun(w) => WindowRun(s)
  BY <1>2, <1>3, <1>4, <1>5 DEF WindowRun, Run
<1> QED
  BY <1>2, <1>3, <1>4, <1>6, <1>7 DEF s

\* A message enters the window behind the one before it.
LEMMA EnqueuedStays ==
  ASSUME NEW w, NEW last, Sound(w, last), WindowRun(w), NEW message \in Message,
         \A k \in WinIds(w) : message.id - 1 \in WinIds(w) /\ k <= message.id - 1
  PROVE  LET e == Enqueued(w, message)
         IN /\ e.inflightStart = w.inflightStart /\ e.bufferStart = w.bufferStart
            /\ e.messages = Append(w.messages, message)
            /\ WinIds(e) = WinIds(w) \cup {message.id}
            /\ WindowRun(e)
<1> DEFINE e == Enqueued(w, message)
           M == w.messages
           l == Len(M)
           s == w.inflightStart
<1>1. w \in Window /\ M \in Seq(Message) /\ l \in Nat /\ s \in Nat /\ s <= l
  BY WindowFields DEF Sound
<1>2. /\ e.messages = Append(M, message) /\ e.inflightStart = s
      /\ e.bufferStart = w.bufferStart
  BY <1>1 DEF Enqueued, Window
<1>3. /\ Len(e.messages) = l + 1
      /\ \A p \in 1 .. l : e.messages[p] = M[p]
      /\ e.messages[l + 1] = message
  BY <1>1, <1>2, Added
<1>4. Run(M, s + 1, l) /\ WinIds(w) = {M[p].id : p \in s + 1 .. l}
  BY DEF WindowRun, WinIds
<1>m. message.id \in Nat
  BY DEF Message
<1>w. WinIds(e) = {e.messages[p].id : p \in s + 1 .. l + 1}
  BY <1>2, <1>3 DEF WinIds
<1> HIDE DEF e, M, l, s
<1>5. \A p \in s + 1 .. l + 1 : p \in s + 1 .. l \/ p = l + 1
  BY <1>1
<1>6. \A p \in s + 1 .. l : p \in 1 .. l /\ e.messages[p] = M[p]
  BY <1>1, <1>3
<1>7. l + 1 \in s + 1 .. l + 1 /\ \A p \in s + 1 .. l : p \in s + 1 .. l + 1
  BY <1>1
<1>8. WinIds(e) = WinIds(w) \cup {message.id}
  BY <1>3, <1>4, <1>5, <1>6, <1>7, <1>w
<1>9. ASSUME NEW p \in s + 1 .. l PROVE M[p].id + (l + 1) = message.id + p /\ M[p].id \in Nat
  <2>1. l \in s + 1 .. l
    BY <1>1
  <2>2. /\ M[p].id \in Nat /\ M[l].id \in Nat /\ M[l].id + p = M[p].id + l
        /\ \A q \in s + 1 .. l : M[q].id \in Nat /\ M[l].id + q = M[q].id + l
    BY <1>1, <1>4, <2>1, RunOrder DEF l
  <2>3. M[l].id \in WinIds(w) /\ M[l].id <= message.id - 1 /\ message.id - 1 \in WinIds(w)
    BY <1>4, <2>1
  <2>a. message.id - 1 \in {M[q].id : q \in s + 1 .. l}
    BY <1>4, <2>3
  <2>4. PICK q \in s + 1 .. l : M[q].id = message.id - 1
    BY <2>a
  <2>5. M[q].id <= M[l].id
    <3> DEFINE x == M[q].id
               y == M[l].id
    <3>1. x \in Nat /\ y \in Nat /\ y + q = x + l
      BY <2>2
    <3>2. q \in Nat /\ l \in Nat /\ q <= l
      BY <1>1
    <3> HIDE DEF x, y
    <3>3. x <= y
      BY <3>1, <3>2
    <3> QED
      BY <3>3 DEF x, y
  <2>6. M[l].id = message.id - 1
    BY <1>m, <2>2, <2>3, <2>4, <2>5
  <2>7. M[l].id + p = M[p].id + l /\ M[p].id \in Nat
    BY <2>2
  <2>8. p \in Nat /\ l \in Nat
    BY <1>1
  <2> QED
    BY <1>m, <2>6, <2>7, <2>8
<1>10. ASSUME NEW i \in s + 1 .. l + 1, NEW j \in s + 1 .. l + 1
       PROVE  e.messages[i].id + j = e.messages[j].id + i
  <2>1. CASE i \in s + 1 .. l /\ j \in s + 1 .. l
    BY <1>4, <1>6, <2>1 DEF Run
  <2>2. CASE i \in s + 1 .. l /\ j = l + 1
    BY <1>3, <1>6, <1>9, <2>2
  <2>3. CASE i = l + 1 /\ j \in s + 1 .. l
    BY <1>3, <1>6, <1>9, <2>3
  <2>4. CASE i = l + 1 /\ j = l + 1
    BY <2>4
  <2> QED
    BY <1>5, <2>1, <2>2, <2>3, <2>4
<1>11. WindowRun(e)
  BY <1>2, <1>3, <1>10 DEF WindowRun, Run
<1> QED
  BY <1>2, <1>8, <1>11 DEF e, M, s

-----------------------------------------------------------------------------
(* Places: the steps of the machine                                         *)

\* Associativity, where it is needed.
LEMMA OneByOne ==
  ASSUME NEW S, NEW s \in Seq(S), NEW e \in S, NEW f \in S
  PROVE  /\ s \o (<<e>> \o <<f>>) = (s \o <<e>>) \o <<f>>
         /\ s \o (<<e>> \o << >>) = s \o <<e>>
         /\ s \o (<< >> \o <<f>>) = s \o <<f>>
         /\ s \o (<< >> \o << >>) = s
         /\ s \o << >> = s
OBVIOUS

\* What acknowledgments or an init take out of the window is reported, in order.
LEMMA Moved ==
  ASSUME WriterInv, Ordered(outputs, window, mailbox, acked, written),
         NEW n \in 0 .. window.inflightLength,
         NEW v \in {Acknowledged(window, n), Rewound(window, n)},
         NEW fl \in {<< >>, <<[type |-> "flushed"]>>}
  PROVE  LET out == outputs \o (AckOutput(n) \o fl)
         IN /\ Ordered(out, v, mailbox, acked, written)
            /\ RepIds(out) \cup WinIds(v) = RepIds(outputs) \cup WinIds(window)
<1> DEFINE b == Inflight(window, n)
           e == [type |-> "acks", batch |-> b]
           f == [type |-> "flushed"]
<1>1. /\ Sound(window, lastSeqNo) /\ WindowRun(window) /\ OutputsOk(outputs)
      /\ outputs \in Seq(Output)
      /\ Tiled(RepIds(outputs), WinIds(window), QueIds(mailbox), acked, written)
  BY DEF WriterInv, Ordered, OutputsOk
<1>2. /\ b \in Seq(Message) /\ Len(b) = n /\ Run(b, 1, Len(b))
      /\ Before(Ids(b), Behind(window, n))
      /\ WinIds(window) = Ids(b) \cup Behind(window, n)
  BY <1>1, InflightRun
<1>3. WinIds(v) = Behind(window, n) /\ WindowRun(v)
  <2>1. CASE v = Acknowledged(window, n)
    BY <1>1, <2>1, AcknowledgedStays
  <2>2. CASE v = Rewound(window, n)
    BY <1>1, <2>2, RewoundStays
  <2> QED
    BY <2>1, <2>2
<1>4. WinIds(window) = Ids(b) \cup WinIds(v) /\ Before(Ids(b), WinIds(v))
  BY <1>2, <1>3
<1>5. Tiled(RepIds(outputs) \cup Ids(b), WinIds(v), QueIds(mailbox), acked, written)
  BY <1>1, <1>4, TiledReported
<1>6. Before(RepIds(outputs), Ids(b))
  BY <1>1, <1>4 DEF Tiled, Before
<1> HIDE DEF b
<1>7. e \in Output /\ f \in Output /\ f.type # "acks"
  BY <1>2, OutputKinds
<1> DEFINE first == outputs \o AckOutput(n)
<1>8. OutputsOk(first) /\ RepIds(first) = RepIds(outputs) \cup Ids(b)
  <2>1. CASE n = 0
    <3>1. AckOutput(n) = << >> /\ Ids(b) = {}
      BY <1>2, <2>1 DEF AckOutput, Ids
    <3> QED
      BY <1>1, <3>1, <1>7, OneByOne
  <2>2. CASE n # 0
    <3>1. AckOutput(n) = <<e>>
      BY <2>2 DEF AckOutput, b
    <3> QED
      BY <1>1, <1>2, <1>6, <3>1, ReportAdded
  <2> QED
    BY <2>1, <2>2
<1>9. outputs \o (AckOutput(n) \o fl) = first \o fl
  <2>1. AckOutput(n) \in {<< >>, <<e>>}
    BY DEF AckOutput, b
  <2> HIDE DEF e
  <2>2. CASE AckOutput(n) = << >>
    BY <1>1, <1>7, <2>2, OneByOne
  <2>3. CASE AckOutput(n) = <<e>>
    <3>1. outputs \o <<e>> \in Seq(Output)
      BY <1>1, <1>7
    <3> QED
      BY <1>1, <1>7, <2>3, <3>1, OneByOne
  <2> QED
    BY <2>1, <2>2, <2>3
<1>10. OutputsOk(first \o fl) /\ RepIds(first \o fl) = RepIds(first)
  <2>1. CASE fl = << >>
    <3>1. first \o << >> = first
      BY <1>7, <1>8, OneByOne DEF OutputsOk
    <3> QED
      BY <1>8, <2>1, <3>1
  <2>2. CASE fl = <<f>>
    BY <1>7, <1>8, <2>2, OutputAdded
  <2> QED
    BY <2>1, <2>2
<1> HIDE DEF first
<1> QED
  BY <1>3, <1>4, <1>5, <1>8, <1>9, <1>10 DEF Ordered

\* The mailbox loses an event that is not a write, and may get a pump.
LEMMA OthersStay ==
  ASSUME NEW box, NEW messages, NEW n, Mail(Manual, box, messages, n), box # << >>,
         Head(box).type # "write", NEW posted \in {<< >>, <<PumpEvent>>}
  PROVE  QueIds(Tail(box) \o posted) = QueIds(box)
<1>1. QueIds(Tail(box)) = QueIds(box) /\ Tail(box) \in Seq(MailEvent)
  BY QueueTaken, Taken DEF Mail
<1>2. PumpEvent \in MailEvent /\ PumpEvent.type # "write"
  BY EventKinds
<1>3. QueIds(Append(Tail(box), PumpEvent)) = QueIds(Tail(box))
  BY <1>1, <1>2, QueuePosted
<1>4. Tail(box) \o <<PumpEvent>> = Append(Tail(box), PumpEvent) /\ Tail(box) \o << >> = Tail(box)
  BY <1>1, <1>2, Added
<1> QED
  BY <1>1, <1>3, <1>4

\* Nothing is left in an empty window.
LEMMA EmptyIds == WinIds(EmptyWindow) = {} /\ WindowRun(EmptyWindow) /\ QueIds(<< >>) = {}
<1>1. EmptyWindow.inflightStart + 1 = 1 /\ Len(EmptyWindow.messages) = 0
  BY DEF EmptyWindow
<1>2. \A p \in 1 .. 0 : FALSE
  OBVIOUS
<1>3. WinIds(EmptyWindow) = {} /\ WindowRun(EmptyWindow)
  BY <1>1, <1>2 DEF WinIds, WindowRun, Run
<1>4. Len(<< >>) = 0
  OBVIOUS
<1> QED
  BY <1>2, <1>3, <1>4 DEF QueIds

\* Nothing is left in a drained window.
LEMMA DrainedIds ==
  ASSUME NEW w \in Window, WindowShape(w), AllDrained(w) PROVE WinIds(w) = {}
<1>1. w.inflightStart \in Nat /\ Len(w.messages) = w.inflightStart
  BY WindowFields DEF AllDrained
<1>2. \A p \in w.inflightStart + 1 .. Len(w.messages) : FALSE
  BY <1>1
<1> QED
  BY <1>2 DEF WinIds

\* The machine stops: what it has reported is delivered, the rest is gone, and if it has
\* succeeded there is no rest.
LEMMA StoppedPlaces ==
  ASSUME NEW terminal \in Terminal, NEW emitted, Terminate(terminal, emitted),
         Tiled(RepIds(outputs \o emitted), {}, {}, acked, written),
         OutputsOk(outputs \o emitted),
         terminal = "closed" /\ ~lastError => acked + 1 .. written \subseteq RepIds(outputs \o emitted),
         ~closed => budget = written - acked,
         UNCHANGED <<acked, written, closed, budget, lastError>>
  PROVE  Places' /\ RepIds(outputs') = RepIds(outputs \o emitted)
<1> DEFINE out == outputs \o emitted
           error == [type |-> "error"]
           last == [type |-> "closed"]
           more == out \o (IF terminal = "errored" THEN <<error>> ELSE << >>)
<1>1. error \in Output /\ error.type # "acks" /\ last \in Output /\ last.type # "acks"
  BY OutputKinds
<1>2. OutputsOk(more) /\ RepIds(more) = RepIds(out)
  <2>1. CASE terminal = "errored"
    BY <1>1, <2>1, OutputAdded
  <2>2. CASE terminal # "errored"
    <3>1. out \o << >> = out
      BY <1>1, OneByOne DEF OutputsOk
    <3> QED
      BY <2>2, <3>1
  <2> QED
    BY <2>1, <2>2
<1>3. /\ outputs' = more \o <<last>>
      /\ window' = EmptyWindow /\ mailbox' = << >> /\ state' = terminal
  BY DEF Terminate
<1> HIDE DEF more, out, last
<1>4. OutputsOk(more \o <<last>>) /\ RepIds(more \o <<last>>) = RepIds(out)
  BY <1>1, <1>2, OutputAdded
<1>5. Ordered(outputs', window', mailbox', acked', written')
  BY <1>3, <1>4, EmptyIds DEF Ordered, out
<1>6. Alive(state', lastError') => Whole(outputs', window', mailbox', acked', written')
  BY <1>3, <1>4 DEF Alive, Whole, Terminal, out
<1>7. ~closed' => budget' = written' - acked'
  OBVIOUS
<1>8. Places'
  BY <1>5, <1>6, <1>7 DEF Places
<1> QED
  BY <1>3, <1>4, <1>8 DEF out

\* The rest of the mailbox, and behind a close() there is no write.
LEMMA CallsTaken ==
  ASSUME NEW box \in Seq(MailEvent), NEW c, NEW e, Calls(box, c, e), box # << >>
  PROVE  /\ Calls(Tail(box), c, e)
         /\ Head(box).type = "close" => c /\ QueIds(box) = {}
         /\ Head(box).type = "destroy" => c /\ e
<1> DEFINE rest == Tail(box)
<1>1. /\ Len(box) \in Nat /\ Len(box) >= 1 /\ Head(box) = box[1]
      /\ Len(rest) = Len(box) - 1
      /\ \A i \in 1 .. Len(rest) : rest[i] = box[i + 1] /\ i + 1 \in 1 .. Len(box)
  BY Taken
<1> HIDE DEF rest
<1>2. \A i \in 1 .. Len(rest) : \A j \in i .. Len(rest) :
        j \in 1 .. Len(rest) /\ j + 1 \in i + 1 .. Len(box)
  BY <1>1
<1>3. 1 \in 1 .. Len(box)
  BY <1>1
<1>4. \A i \in 1 .. Len(rest) : rest[i].type = "close" =>
        c /\ \A j \in i .. Len(rest) : rest[j].type # "write"
  BY <1>1, <1>2 DEF Calls
<1>5. Has(rest, "destroy") => c /\ e
  BY <1>1 DEF Calls, Has
<1>6. Head(box).type = "close" => c /\ QueIds(box) = {}
  BY <1>1, <1>3 DEF Calls, QueIds
<1>7. Head(box).type = "destroy" => c /\ e
  BY <1>1, <1>3 DEF Calls, Has
<1> QED
  BY <1>4, <1>5, <1>6, <1>7 DEF Calls, rest

\* An event is posted: a write only while the writer is not closing.
LEMMA CallsPosted ==
  ASSUME NEW box \in Seq(MailEvent), NEW c \in BOOLEAN, NEW e \in BOOLEAN, Calls(box, c, e),
         NEW event \in MailEvent, NEW d \in BOOLEAN, NEW f \in BOOLEAN, c => d, e => f,
         event.type = "close" => d, event.type = "destroy" => d /\ f,
         event.type = "write" => ~c
  PROVE  Calls(Append(box, event), d, f)
<1> DEFINE more == Append(box, event)
           l == Len(box)
<1>1. /\ l \in Nat /\ Len(more) = l + 1
      /\ \A i \in 1 .. l : more[i] = box[i]
      /\ more[l + 1] = event
  BY Added
<1> HIDE DEF more, l
<1>2. \A i \in 1 .. Len(more) : i \in 1 .. l \/ i = l + 1
  BY <1>1
<1>3. ASSUME NEW i \in 1 .. Len(more), more[i].type = "close"
      PROVE  d /\ \A j \in i .. Len(more) : more[j].type # "write"
  <2>1. CASE i = l + 1
    <3>1. \A j \in i .. Len(more) : j = l + 1
      BY <1>1, <2>1
    <3> QED
      BY <1>1, <1>3, <2>1, <3>1
  <2>2. CASE i \in 1 .. l
    <3>1. c /\ \A j \in i .. l : box[j].type # "write"
      BY <1>1, <1>3, <2>2 DEF Calls, l
    <3>2. \A j \in i .. Len(more) : (j \in i .. l /\ j \in 1 .. l) \/ j = l + 1
      BY <1>1, <2>2
    <3> QED
      BY <1>1, <3>1, <3>2
  <2> QED
    BY <1>2, <2>1, <2>2
<1>4. ASSUME Has(more, "destroy") PROVE d /\ f
  <2>1. PICK i \in 1 .. Len(more) : more[i].type = "destroy"
    BY <1>4 DEF Has
  <2>2. CASE i \in 1 .. l
    BY <1>1, <2>1, <2>2 DEF Calls, Has, l
  <2>3. CASE i = l + 1
    BY <1>1, <2>1, <2>3
  <2> QED
    BY <1>2, <2>2, <2>3
<1> QED
  BY <1>3, <1>4 DEF Calls, more

\* An empty mailbox.
LEMMA CallsEmpty == ASSUME NEW c, NEW e PROVE Calls(<< >>, c, e)
<1>1. Len(<< >>) = 0 /\ \A i \in 1 .. 0 : FALSE
  OBVIOUS
<1> QED
  BY <1>1 DEF Calls, Has

-----------------------------------------------------------------------------
(* Places: every step                                                       *)

PlaceInv == WriterInv /\ Places /\ CallsInv

\* The mailbox as a sequence of events.
LEMMA Mailbox ==
  ASSUME WriterInv
  PROVE  /\ mailbox \in Seq(MailEvent) /\ Mail(Manual, mailbox, window.messages, written)
         /\ Sound(window, lastSeqNo) /\ window \in Window /\ WindowShape(window)
BY DEF WriterInv, Mail, Sound

\* A step that leaves the places alone.
LEMMA QuietPlaces ==
  ASSUME Places, CallsInv,
         UNCHANGED <<outputs, window, mailbox, acked, written, closing, closed, budget>>,
         lastError => lastError', lastError' \in BOOLEAN,
         state' \in {"closing", "closed"} => closing,
         state' = "closing" => QueIds(mailbox) = {},
         Alive(state', lastError') => Alive(state, lastError)
  PROVE  Places' /\ CallsInv'
<1>1. Places'
  BY DEF Places
<1>2. Calls(mailbox', closing', lastError')
  BY DEF CallsInv, Calls
<1>3. CallsInv'
  BY <1>2 DEF CallsInv
<1> QED
  BY <1>1, <1>3

\* An event that is not a write is handled: what leaves the window is reported.
LEMMA TakenPlaces ==
  ASSUME PlaceInv, mailbox # << >>, Event.type # "write",
         NEW posted \in {<< >>, <<PumpEvent>>}, mailbox' = Tail(mailbox) \o posted,
         Ordered(outputs', window', mailbox, acked, written),
         RepIds(outputs') \cup WinIds(window') = RepIds(outputs) \cup WinIds(window),
         UNCHANGED <<acked, written, closing, closed, budget, lastError>>,
         state' \in {"closing", "closed"} => closing,
         state' = "closing" => QueIds(mailbox) = {},
         Alive(state', lastError) => Alive(state, lastError)
  PROVE  Places' /\ CallsInv'
<1>1. mailbox \in Seq(MailEvent) /\ Mail(Manual, mailbox, window.messages, written)
  BY Mailbox DEF PlaceInv
<1>2. QueIds(mailbox') = QueIds(mailbox)
  BY <1>1, OthersStay DEF Event
<1>3. Places'
  <2>1. Ordered(outputs', window', mailbox', acked', written')
    BY <1>2 DEF Ordered
  <2>2. Alive(state', lastError') => Whole(outputs', window', mailbox', acked', written')
    BY <1>2 DEF PlaceInv, Places, Whole
  <2> QED
    BY <2>1, <2>2 DEF PlaceInv, Places
<1>4. Calls(mailbox', closing', lastError')
  <2>1. Calls(Tail(mailbox), closing, lastError) /\ Tail(mailbox) \in Seq(MailEvent)
    BY <1>1, CallsTaken, Taken DEF PlaceInv, CallsInv
  <2>2. PumpEvent \in MailEvent /\ PumpEvent.type \notin {"close", "destroy", "write"}
    BY EventKinds
  <2> DEFINE box == Tail(mailbox)
  <2> HIDE DEF box
  <2>3. Calls(Append(box, PumpEvent), closing, lastError)
    <3>1. box \in Seq(MailEvent) /\ closing \in BOOLEAN /\ lastError \in BOOLEAN
      BY <2>1 DEF PlaceInv, CallsInv, box
    <3> QED
      BY <2>1, <2>2, <3>1, CallsPosted DEF box
  <2>4. /\ Tail(mailbox) \o << >> = Tail(mailbox)
        /\ Tail(mailbox) \o <<PumpEvent>> = Append(Tail(mailbox), PumpEvent)
    BY <2>1, <2>2, Added
  <2> QED
    BY <2>1, <2>3, <2>4 DEF box
<1>5. CallsInv'
  BY <1>2, <1>4 DEF PlaceInv, CallsInv
<1> QED
  BY <1>3, <1>5

\* The machine stops.
LEMMA StopPlaces ==
  ASSUME CallsInv, NEW terminal \in Terminal, NEW emitted, Terminate(terminal, emitted),
         NEW W, NEW Q, Tiled(RepIds(outputs \o emitted), W, Q, acked, written),
         OutputsOk(outputs \o emitted),
         terminal = "closed" => closing,
         terminal = "closed" /\ ~lastError => acked + 1 .. written \subseteq RepIds(outputs \o emitted),
         ~closed => budget = written - acked,
         UNCHANGED <<acked, written, closing, closed, budget, lastError>>
  PROVE  Places' /\ CallsInv'
<1>1. Tiled(RepIds(outputs \o emitted), {}, {}, acked, written)
  BY TiledStopped
<1>2. Places'
  BY <1>1, StoppedPlaces
<1>3. state' = terminal /\ mailbox' = << >>
  BY DEF Terminate
<1>4. CallsInv'
  BY <1>3, CallsEmpty, EmptyIds DEF CallsInv, Terminal
<1> QED
  BY <1>2, <1>4

\* The machine stops and reports nothing more.
LEMMA StopQuietly ==
  ASSUME PlaceInv, NEW terminal \in Terminal, Terminate(terminal, << >>),
         terminal = "closed" => closing,
         terminal = "closed" /\ ~lastError =>
           Alive(state, lastError) /\ WinIds(window) = {} /\ QueIds(mailbox) = {},
         UNCHANGED <<acked, written, closing, closed, budget, lastError>>
  PROVE  Places' /\ CallsInv'
<1>1. OutputsOk(outputs) /\ Tiled(RepIds(outputs), WinIds(window), QueIds(mailbox), acked, written)
  BY DEF PlaceInv, Places, Ordered
<1>2. outputs \o << >> = outputs
  BY <1>1, OneByOne, OutputKinds DEF OutputsOk
<1>3. terminal = "closed" /\ ~lastError => acked + 1 .. written \subseteq RepIds(outputs \o << >>)
  BY <1>2 DEF PlaceInv, Places, Whole
<1> QED
  BY <1>1, <1>2, <1>3, StopPlaces DEF PlaceInv, Places

\* A message goes from the mailbox into the window.
LEMMA HandleWritePlaces == PlaceInv /\ HandleWrite => Places' /\ CallsInv'
<1> SUFFICES ASSUME PlaceInv, HandleWrite PROVE Places' /\ CallsInv'
  OBVIOUS
<1> DEFINE message == [id |-> Event.id, seqNo |-> IF numbering = "manual" THEN Event.id ELSE 0]
           posted == IF state = "ready" THEN <<PumpEvent>> ELSE << >>
           rest == Tail(mailbox)
<1>1. /\ mailbox # << >> /\ Head(mailbox).type = "write" /\ Event = Head(mailbox)
      /\ state \in {"connecting", "ready", "reconnecting"}
      /\ window' = Enqueued(window, message)
      /\ mailbox' = Tail(mailbox) \o posted
      /\ UNCHANGED <<state, outputs, acked, written, closing, closed, budget, lastError>>
  BY DEF HandleWrite, Handles, Event, Then, userVars
<1>2. /\ mailbox \in Seq(MailEvent) /\ Mail(Manual, mailbox, window.messages, written)
      /\ Sound(window, lastSeqNo) /\ WriterInv
  BY Mailbox DEF PlaceInv
<1>3. /\ Event \in MailEvent /\ Event.id \in Nat
      /\ rest \in Seq(MailEvent)
  BY <1>1, <1>2, Taken, EventKinds
<1>4. message \in Message /\ message.id = Event.id
  BY <1>3 DEF Message
<1> HIDE DEF message, rest
<1>5. QueIds(mailbox) = {Event.id} \cup QueIds(rest) /\ Before({Event.id}, QueIds(rest))
  BY <1>1, <1>2, QueueTaken DEF rest
<1>6. QueIds(mailbox') = QueIds(rest)
  <2>1. PumpEvent \in MailEvent /\ PumpEvent.type # "write"
    BY EventKinds
  <2>2. QueIds(Append(rest, PumpEvent)) = QueIds(rest)
    BY <1>3, <2>1, QueuePosted
  <2>3. rest \o <<PumpEvent>> = Append(rest, PumpEvent) /\ rest \o << >> = rest
    BY <1>3, <2>1, Added
  <2> QED
    BY <1>1, <2>2, <2>3 DEF rest
<1>7. /\ OutputsOk(outputs) /\ WindowRun(window)
      /\ Tiled(RepIds(outputs), WinIds(window), QueIds(mailbox), acked, written)
  BY DEF PlaceInv, Places, Ordered
<1>8. /\ Tiled(RepIds(outputs), WinIds(window) \cup {Event.id}, QueIds(rest), acked, written)
      /\ \A k \in WinIds(window) : Event.id - 1 \in WinIds(window) /\ k <= Event.id - 1
  BY <1>5, <1>7, TiledQueued
<1>9. WinIds(window') = WinIds(window) \cup {Event.id} /\ WindowRun(window')
  BY <1>1, <1>2, <1>4, <1>7, <1>8, EnqueuedStays
<1>10. Ordered(outputs', window', mailbox', acked', written')
  BY <1>1, <1>6, <1>7, <1>8, <1>9 DEF Ordered
<1>11. Alive(state', lastError') => Whole(outputs', window', mailbox', acked', written')
  <2>1. Alive(state, lastError)
    BY <1>1 DEF Alive, Terminal
  <2>2. Whole(outputs, window, mailbox, acked, written)
    BY <2>1 DEF PlaceInv, Places
  <2> QED
    BY <1>1, <1>5, <1>6, <1>9, <2>2 DEF Whole
<1>12. Places'
  BY <1>1, <1>10, <1>11 DEF PlaceInv, Places
<1>13. Calls(mailbox', closing', lastError')
  <2>1. /\ Calls(rest, closing, lastError)
        /\ closing \in BOOLEAN /\ lastError \in BOOLEAN
    BY <1>1, <1>2, CallsTaken DEF PlaceInv, CallsInv, rest
  <2>2. PumpEvent \in MailEvent /\ PumpEvent.type \notin {"close", "destroy", "write"}
    BY EventKinds
  <2>3. Calls(Append(rest, PumpEvent), closing, lastError)
    BY <1>3, <2>1, <2>2, CallsPosted
  <2>4. rest \o << >> = rest /\ rest \o <<PumpEvent>> = Append(rest, PumpEvent)
    BY <1>3, <2>2, Added
  <2> QED
    BY <1>1, <2>1, <2>3, <2>4 DEF rest
<1>14. CallsInv'
  BY <1>1, <1>13 DEF PlaceInv, CallsInv
<1> QED
  BY <1>12, <1>14

\* Requests of the user: flush() may be answered at once, close() stops a drained machine,
\* behind it there are no writes, destroy() stops it and is a failure.
LEMMA UserEventsPlaces ==
  PlaceInv /\ (HandleFlush \/ HandleClose \/ HandleDestroy) => Places' /\ CallsInv'
<1> SUFFICES ASSUME PlaceInv, HandleFlush \/ HandleClose \/ HandleDestroy
             PROVE  Places' /\ CallsInv'
  OBVIOUS
<1> USE DEF streamVars, serverVars, userVars
<1>0. /\ UNCHANGED <<acked, written, closing, closed, budget, lastError>>
      /\ mailbox # << >> /\ Event = Head(mailbox)
      /\ state \notin Terminal
  BY DEF HandleFlush, HandleClose, HandleDestroy, Handles, Event, Terminal
<1>1. Alive(state, lastError) /\ Ordered(outputs, window, mailbox, acked, written)
  BY <1>0 DEF Alive, PlaceInv, Places
<1>2. CASE HandleFlush
  <2>1. /\ Event.type # "write" /\ state' = state /\ window' = window
        /\ \E posted \in {<< >>, <<PumpEvent>>} : mailbox' = Tail(mailbox) \o posted
        /\ outputs' \in {outputs, Append(outputs, [type |-> "flushed"])}
    BY <1>2 DEF HandleFlush, Handles, Then
  <2>2. /\ OutputsOk(outputs \o <<[type |-> "flushed"]>>)
        /\ RepIds(outputs \o <<[type |-> "flushed"]>>) = RepIds(outputs)
    BY <1>1, OutputKinds, OutputAdded DEF Ordered
  <2>3. outputs \o <<[type |-> "flushed"]>> = Append(outputs, [type |-> "flushed"])
    BY <1>1, OutputKinds, Added DEF Ordered, OutputsOk
  <2>4. OutputsOk(outputs') /\ RepIds(outputs') = RepIds(outputs)
    BY <1>1, <2>1, <2>2, <2>3 DEF Ordered
  <2>5. Ordered(outputs', window', mailbox, acked, written)
    BY <1>1, <2>1, <2>4 DEF Ordered
  <2>6. PICK posted \in {<< >>, <<PumpEvent>>} : mailbox' = Tail(mailbox) \o posted
    BY <2>1
  <2>7. (state' \in {"closing", "closed"} => closing) /\ (state' = "closing" => QueIds(mailbox) = {})
    BY <2>1 DEF PlaceInv, CallsInv
  <2> QED
    BY <1>0, <1>1, <2>1, <2>4, <2>5, <2>6, <2>7, TakenPlaces
<1>3. CASE HandleClose
  <2>1. /\ Event.type = "close"
        /\ \/ AllDrained(window) /\ Terminate("closed", << >>)
           \/ /\ state' = "closing" /\ mailbox' = Tail(mailbox) \o <<PumpEvent>>
              /\ UNCHANGED <<window, outputs>>
    BY <1>3 DEF HandleClose, Handles, Then, DrainedClose
  <2>2. closing /\ QueIds(mailbox) = {}
    BY <1>0, <2>1, Mailbox, CallsTaken DEF PlaceInv, CallsInv
  <2>3. CASE AllDrained(window) /\ Terminate("closed", << >>)
    <3>1. WinIds(window) = {}
      BY <2>3, Mailbox, DrainedIds DEF PlaceInv
    <3> QED
      BY <1>0, <1>1, <2>2, <2>3, <3>1, StopQuietly DEF Terminal
  <2>4. CASE /\ state' = "closing" /\ mailbox' = Tail(mailbox) \o <<PumpEvent>>
             /\ UNCHANGED <<window, outputs>>
    <3>1. /\ Ordered(outputs', window', mailbox, acked, written)
          /\ RepIds(outputs') \cup WinIds(window') = RepIds(outputs) \cup WinIds(window)
      BY <1>1, <2>4
    <3> QED
      BY <1>0, <1>1, <2>1, <2>2, <2>4, <3>1, TakenPlaces
  <2> QED
    BY <2>1, <2>3, <2>4
<1>4. CASE HandleDestroy
  <2>1. Event.type = "destroy" /\ Terminate("closed", << >>)
    BY <1>4 DEF HandleDestroy, Handles
  <2>2. closing /\ lastError
    BY <1>0, <2>1, Mailbox, CallsTaken DEF PlaceInv, CallsInv
  <2> QED
    BY <1>0, <2>1, <2>2, StopQuietly DEF Terminal
<1> QED
  BY <1>2, <1>3, <1>4

\* A batch leaves its messages where they are.
LEMMA PumpPlaces ==
  ASSUME PlaceInv, CanSend(window), window' = Sent(window, lastSeqNo)
  PROVE  /\ Ordered(outputs, window', mailbox, acked, written)
         /\ WinIds(window') = WinIds(window)
<1>1. Sound(window, lastSeqNo) /\ Ordered(outputs, window, mailbox, acked, written)
  BY Mailbox DEF PlaceInv, Places
<1>2. WinIds(window') = WinIds(window) /\ (WindowRun(window) => WindowRun(window'))
  BY <1>1, SentStays
<1> QED
  BY <1>1, <1>2 DEF Ordered

\* A pump in the mailbox.
LEMMA HandlePumpPlaces == PlaceInv /\ HandlePump => Places' /\ CallsInv'
<1> SUFFICES ASSUME PlaceInv, HandlePump PROVE Places' /\ CallsInv'
  OBVIOUS
<1>1. /\ mailbox # << >> /\ Event.type # "write" /\ state \notin Terminal
      /\ CanSend(window) /\ window' = Sent(window, lastSeqNo)
      /\ \E posted \in {<< >>, <<PumpEvent>>} : mailbox' = Tail(mailbox) \o posted
      /\ UNCHANGED <<state, outputs, acked, written, closing, closed, budget, lastError>>
  BY DEF HandlePump, Handles, Pump, Terminal, userVars
<1>2. PICK posted \in {<< >>, <<PumpEvent>>} : mailbox' = Tail(mailbox) \o posted
  BY <1>1
<1>3. /\ Ordered(outputs', window', mailbox, acked, written)
      /\ RepIds(outputs') \cup WinIds(window') = RepIds(outputs) \cup WinIds(window)
  BY <1>1, PumpPlaces
<1>4. /\ state' \in {"closing", "closed"} => closing
      /\ state' = "closing" => QueIds(mailbox) = {}
      /\ Alive(state', lastError) => Alive(state, lastError)
  BY <1>1 DEF PlaceInv, CallsInv
<1> QED
  BY <1>1, <1>2, <1>3, <1>4, TakenPlaces

\* An init or acknowledgments: a prefix of the in-flight range is reported; in "closing" the
\* machine stops when nothing is left.
LEMMA ReportedPlaces ==
  ASSUME PlaceInv, mailbox # << >>, Event.type # "write", state \notin Terminal,
         NEW n \in 0 .. window.inflightLength,
         NEW v \in {Acknowledged(window, n), Rewound(window, n)},
         NEW fl \in {<< >>, <<[type |-> "flushed"]>>},
         UNCHANGED <<acked, written, closing, closed, budget, lastError>>,
         \/ /\ window' = v /\ outputs' = outputs \o (AckOutput(n) \o fl)
            /\ mailbox' = Tail(mailbox) \o <<PumpEvent>>
            /\ state' = state \/ state' = "ready"
         \/ /\ state = "closing" /\ AllDrained(v)
            /\ Terminate("closed", AckOutput(n) \o fl)
  PROVE  Places' /\ CallsInv'
<1> DEFINE out == outputs \o (AckOutput(n) \o fl)
<1>1. WriterInv /\ Ordered(outputs, window, mailbox, acked, written) /\ Alive(state, lastError)
  BY DEF PlaceInv, Places, Alive
<1>2. /\ Ordered(out, v, mailbox, acked, written)
      /\ RepIds(out) \cup WinIds(v) = RepIds(outputs) \cup WinIds(window)
  BY <1>1, Moved
<1>3. CASE /\ window' = v /\ outputs' = out
           /\ mailbox' = Tail(mailbox) \o <<PumpEvent>>
           /\ state' = state \/ state' = "ready"
  <2>1. /\ state' \in {"closing", "closed"} => closing
        /\ state' = "closing" => QueIds(mailbox) = {}
    BY <1>3 DEF PlaceInv, CallsInv
  <2> QED
    BY <1>1, <1>2, <1>3, <2>1, TakenPlaces
<1>4. CASE /\ state = "closing" /\ AllDrained(v)
           /\ Terminate("closed", AckOutput(n) \o fl)
  <2>1. Sound(v, lastSeqNo)
    BY <1>1, AcknowledgedSound, RewoundSound DEF WriterInv
  <2>2. WinIds(v) = {}
    BY <1>4, <2>1, DrainedIds DEF Sound
  <2>3. closing /\ QueIds(mailbox) = {}
    BY <1>4 DEF PlaceInv, CallsInv
  <2>4. acked + 1 .. written \subseteq RepIds(out)
    BY <1>1, <1>2, <2>2, <2>3 DEF PlaceInv, Places, Whole
  <2>5. OutputsOk(out) /\ Tiled(RepIds(out), WinIds(v), QueIds(mailbox), acked, written)
    BY <1>2 DEF Ordered
  <2>6. CallsInv /\ (~closed => budget = written - acked) /\ "closed" \in Terminal
    BY DEF PlaceInv, Places, Terminal
  <2> QED
    BY <1>4, <2>3, <2>4, <2>5, <2>6, StopPlaces
<1> QED
  BY <1>3, <1>4

\* Events of the stream.
LEMMA StreamEventsPlaces ==
  PlaceInv /\ (ToReady \/ InitWhileClosing \/ HandleAcks) => Places' /\ CallsInv'
<1> SUFFICES ASSUME PlaceInv, ToReady \/ InitWhileClosing \/ HandleAcks
             PROVE  Places' /\ CallsInv'
  OBVIOUS
<1> USE DEF userVars
<1>0. /\ UNCHANGED <<acked, written, closing, closed, budget, lastError>>
      /\ mailbox # << >> /\ Event.type # "write" /\ state \notin Terminal
  BY DEF ToReady, InitWhileClosing, HandleAcks, Handles, Terminal
<1>1. /\ window \in Window /\ WindowShape(window)
      /\ \A w : FlushOutput(w) \in {<< >>, <<[type |-> "flushed"]>>}
  BY Mailbox DEF PlaceInv, FlushOutput
<1>2. CASE ToReady \/ InitWhileClosing
  <2> DEFINE n == Persisted(Event.lastSeqNo)
             v == Rewound(window, n)
             fl == FlushOutput(v)
  <2>1. n \in 0 .. window.inflightLength
    BY <1>1, LeadingWithin DEF Persisted
  <2>2. InitOutputs(Event.lastSeqNo) = AckOutput(n) \o fl
    BY DEF InitOutputs
  <2>3. \/ /\ window' = v /\ outputs' = outputs \o (AckOutput(n) \o fl)
           /\ mailbox' = Tail(mailbox) \o <<PumpEvent>>
           /\ state' = state \/ state' = "ready"
        \/ /\ state = "closing" /\ AllDrained(v)
           /\ Terminate("closed", AckOutput(n) \o fl)
    BY <1>2, <2>2 DEF ToReady, InitWhileClosing, Handles, Then, DrainedClose
  <2>4. fl \in {<< >>, <<[type |-> "flushed"]>>} /\ v \in {Acknowledged(window, n), Rewound(window, n)}
    BY <1>1
  <2> HIDE DEF n, v, fl
  <2> QED
    BY <1>0, <2>1, <2>3, <2>4, ReportedPlaces
<1>3. CASE HandleAcks
  <2> DEFINE n == AckedCount
             v == Acknowledged(window, n)
             fl == FlushOutput(v)
  <2>1. n \in 0 .. window.inflightLength
    BY <1>1, LeadingWithin DEF AckedCount
  <2>2. AckedWindow = v /\ AckedOutputs = AckOutput(n) \o fl
    BY DEF AckedOutputs, AckedWindow
  <2>3. \/ /\ window' = v /\ outputs' = outputs \o (AckOutput(n) \o fl)
           /\ mailbox' = Tail(mailbox) \o <<PumpEvent>>
           /\ state' = state \/ state' = "ready"
        \/ /\ state = "closing" /\ AllDrained(v)
           /\ Terminate("closed", AckOutput(n) \o fl)
    BY <1>3, <2>2 DEF HandleAcks, Handles, Then, DrainedClose
  <2>4. fl \in {<< >>, <<[type |-> "flushed"]>>} /\ v \in {Acknowledged(window, n), Rewound(window, n)}
    BY <1>1
  <2> HIDE DEF n, v, fl
  <2> QED
    BY <1>0, <2>1, <2>3, <2>4, ReportedPlaces
<1> QED
  BY <1>2, <1>3

\* The end of a stream, and what the transition ignores: a write only behind a close().
LEMMA OtherEventsPlaces ==
  PlaceInv /\ (Disconnected \/ DisconnectedFatal \/ Ignore) => Places' /\ CallsInv'
<1> SUFFICES ASSUME PlaceInv, Disconnected \/ DisconnectedFatal \/ Ignore
             PROVE  Places' /\ CallsInv'
  OBVIOUS
<1> USE DEF userVars, ctxVars
<1>0. /\ UNCHANGED <<acked, written, closing, closed, budget, lastError>>
      /\ mailbox # << >> /\ state \notin Terminal
  BY DEF Disconnected, DisconnectedFatal, Ignore, Ignores, Handles, Terminal
<1>1. Alive(state, lastError) /\ Ordered(outputs, window, mailbox, acked, written)
  BY <1>0 DEF Alive, PlaceInv, Places
<1>2. CASE Disconnected \/ Ignore
  <2>1. /\ mailbox' = Tail(mailbox) \o << >> /\ UNCHANGED <<outputs, window>>
        /\ state' = state \/ state' = "reconnecting"
    BY <1>2 DEF Disconnected, Ignore, Then, ToReconnecting
  <2>2. Event.type # "write"
    <3>1. ASSUME Handles({"closing"}, "write") PROVE FALSE
      <4>1. QueIds(mailbox) = {} /\ Head(mailbox).type = "write"
        BY <3>1 DEF Handles, Event, PlaceInv, CallsInv
      <4>2. QueIds(mailbox) # {}
        BY <1>0, <4>1, Mailbox, QueueTaken DEF PlaceInv
      <4> QED
        BY <4>1, <4>2
    <3> QED
      BY <1>2, <3>1 DEF Disconnected, Ignore, Ignores, Handles
  <2>3. /\ state' \in {"closing", "closed"} => closing
        /\ state' = "closing" => QueIds(mailbox) = {}
    BY <2>1 DEF PlaceInv, CallsInv
  <2> QED
    BY <1>0, <1>1, <2>1, <2>2, <2>3, TakenPlaces
<1>3. CASE DisconnectedFatal
  BY <1>0, <1>3, StopQuietly DEF DisconnectedFatal, Terminal
<1> QED
  BY <1>2, <1>3

\* Timers.  What the graceful timeout ends is closed only if it is drained.
LEMMA TimersPlaces == PlaceInv /\ TimerFires => Places' /\ CallsInv'
<1> SUFFICES ASSUME PlaceInv, TimerFires PROVE Places' /\ CallsInv'
  OBVIOUS
<1> USE DEF userVars, ctxVars
<1>0. UNCHANGED <<acked, written, closing, closed, budget, lastError>>
  BY DEF TimerFires, StartTimeout, RetryBackoff, RecoveryWindow, GracefulTimeout, FlushTick
<1>1. Alive(state, lastError) /\ state \notin Terminal
  BY DEF TimerFires, StartTimeout, RetryBackoff, RecoveryWindow, GracefulTimeout, FlushTick, Due,
         Alive, Terminal
<1>2. CASE StartTimeout \/ RetryBackoff
  <2>1. /\ UNCHANGED <<outputs, window, mailbox>>
        /\ state' = state \/ state' \in {"reconnecting", "connecting"}
    BY <1>2 DEF StartTimeout, RetryBackoff, ToReconnecting
  <2> QED
    BY <1>0, <1>1, <2>1, QuietPlaces DEF PlaceInv, CallsInv
<1>3. CASE RecoveryWindow
  BY <1>0, <1>3, StopQuietly DEF RecoveryWindow, Terminal
<1>4. CASE GracefulTimeout
  <2> DEFINE terminal == IF AllDrained(window) THEN "closed" ELSE "errored"
  <2>1. state = "closing" /\ Terminate(terminal, << >>)
    BY <1>4 DEF GracefulTimeout, Due
  <2>2. closing /\ QueIds(mailbox) = {}
    BY <2>1 DEF PlaceInv, CallsInv
  <2>3. AllDrained(window) => WinIds(window) = {}
    BY Mailbox, DrainedIds DEF PlaceInv
  <2>4. terminal \in Terminal /\ (terminal = "closed" => WinIds(window) = {})
    BY <2>3 DEF Terminal
  <2> HIDE DEF terminal
  <2> QED
    BY <1>0, <1>1, <2>1, <2>2, <2>4, StopQuietly
<1>5. CASE FlushTick
  <2>1. mailbox = << >> /\ UNCHANGED <<state, outputs>>
    BY <1>5 DEF FlushTick, Due
  <2>2. CASE CanSend(window)
    <3>1. window' = Sent(window, lastSeqNo)
      BY <1>5, <2>2 DEF FlushTick, Pump
    <3>2. /\ Ordered(outputs, window', mailbox, acked, written)
          /\ WinIds(window') = WinIds(window)
      BY <2>2, <3>1, PumpPlaces
    <3>3. mailbox' \in {<< >>, <<PumpEvent>>}
      <4>1. mailbox' = << >> \o (IF CanSend(window') THEN <<PumpEvent>> ELSE << >>)
        BY <1>5, <2>1, <2>2 DEF FlushTick, Pump
      <4>2. << >> \o << >> = << >> /\ << >> \o <<PumpEvent>> = <<PumpEvent>>
        OBVIOUS
      <4> QED
        BY <4>1, <4>2
    <3>4. << >> \in Seq(MailEvent) /\ PumpEvent \in MailEvent
          /\ PumpEvent.type \notin {"close", "destroy", "write"}
          /\ <<PumpEvent>> = Append(<< >>, PumpEvent)
      BY EventKinds
    <3>5. QueIds(mailbox') = QueIds(mailbox)
      <4>1. QueIds(Append(mailbox, PumpEvent)) = QueIds(mailbox)
        BY <2>1, <3>4, QueuePosted
      <4> QED
        BY <2>1, <3>3, <3>4, <4>1
    <3>6. closing \in BOOLEAN /\ lastError \in BOOLEAN
      BY DEF PlaceInv, CallsInv
    <3>7. Calls(<< >>, closing, lastError)
      BY CallsEmpty
    <3>8. Calls(Append(<< >>, PumpEvent), closing, lastError)
      BY <3>4, <3>6, <3>7, CallsPosted
    <3>9. Calls(mailbox', closing', lastError')
      BY <1>0, <3>3, <3>4, <3>7, <3>8
    <3>10. CallsInv'
      BY <1>0, <2>1, <3>5, <3>9 DEF PlaceInv, CallsInv
    <3>11. Ordered(outputs', window', mailbox', acked', written')
      BY <1>0, <2>1, <3>2, <3>5 DEF Ordered
    <3>12. Alive(state', lastError') => Whole(outputs', window', mailbox', acked', written')
      BY <1>0, <1>1, <2>1, <3>2, <3>5 DEF PlaceInv, Places, Whole
    <3>13. Places'
      BY <1>0, <3>11, <3>12 DEF PlaceInv, Places
    <3> QED
      BY <3>10, <3>13
  <2>3. CASE ~CanSend(window)
    <3>1. UNCHANGED <<window, mailbox>>
      BY <1>5, <2>3 DEF FlushTick
    <3> QED
      BY <1>0, <2>1, <3>1, QuietPlaces DEF PlaceInv, CallsInv
  <2> QED
    BY <2>2, <2>3
<1> QED
  BY <1>2, <1>3, <1>4, <1>5 DEF TimerFires

\* The server answers a request.
LEMMA ServePlaces == PlaceInv /\ Serve => Places' /\ CallsInv'
<1> SUFFICES ASSUME PlaceInv, Serve PROVE Places' /\ CallsInv'
  OBVIOUS
<1>1. UNCHANGED <<state, outputs, window, mailbox, acked, written, closing, closed, budget,
                  lastError>>
  BY DEF Serve, ServeInit, ServeWrite, ctxVars, userVars
<1> QED
  BY <1>1, QuietPlaces DEF PlaceInv, CallsInv

\* An event that is not a write comes to the mailbox.
LEMMA PostedPlaces ==
  ASSUME PlaceInv, NEW event \in MailEvent, event.type # "write",
         mailbox' = Append(mailbox, event),
         UNCHANGED <<state, outputs, window, acked, written, closed, budget>>,
         closing' \in BOOLEAN, lastError' \in BOOLEAN,
         closing => closing', lastError => lastError',
         event.type = "close" => closing', event.type = "destroy" => closing' /\ lastError'
  PROVE  Places' /\ CallsInv'
<1>1. /\ mailbox \in Seq(MailEvent) /\ closing \in BOOLEAN /\ lastError \in BOOLEAN
      /\ Calls(mailbox, closing, lastError)
  BY Mailbox DEF PlaceInv, CallsInv
<1>2. QueIds(mailbox') = QueIds(mailbox)
  BY <1>1, QueuePosted
<1>3. Calls(mailbox', closing', lastError')
  BY <1>1, CallsPosted
<1>4. CallsInv'
  BY <1>2, <1>3 DEF PlaceInv, CallsInv
<1>5. Ordered(outputs', window', mailbox', acked', written')
  BY <1>2 DEF PlaceInv, Places, Ordered
<1>6. Alive(state', lastError') => Whole(outputs', window', mailbox', acked', written')
  BY <1>1, <1>2 DEF PlaceInv, Places, Whole, Alive
<1>7. Places'
  BY <1>5, <1>6 DEF PlaceInv, Places
<1> QED
  BY <1>4, <1>7

\* What the stream brings.
LEMMA StreamPlaces == PlaceInv /\ (Deliver \/ Break) => Places' /\ CallsInv'
<1> SUFFICES ASSUME PlaceInv, Deliver \/ Break PROVE Places' /\ CallsInv'
  OBVIOUS
<1>1. /\ UNCHANGED <<state, outputs, window, acked, written, closing, closed, budget, lastError>>
      /\ closing \in BOOLEAN /\ lastError \in BOOLEAN
  BY DEF Deliver, Break, ctxVars, userVars, PlaceInv, CallsInv
<1>2. CASE Deliver
  <2>1. down # << >> /\ mailbox' = Append(mailbox, Head(down))
    BY <1>2 DEF Deliver
  <2>2. Head(down) \in Response
    BY <2>1, Taken DEF PlaceInv, WriterInv, Types
  <2>3. Head(down) \in MailEvent /\ Head(down).type \notin {"write", "close", "destroy"}
    BY <2>2, EventKinds
  <2> QED
    BY <1>1, <2>1, <2>3, PostedPlaces
<1>3. CASE Break
  <2>1. \E fatal \in BOOLEAN : mailbox' = Append(mailbox, [type |-> "disconnected", fatal |-> fatal])
    BY <1>3 DEF Break
  <2>2. PICK fatal \in BOOLEAN :
          mailbox' = Append(mailbox, [type |-> "disconnected", fatal |-> fatal])
    BY <2>1
  <2>3. [type |-> "disconnected", fatal |-> fatal] \in MailEvent
    BY EventKinds
  <2> QED
    BY <1>1, <2>2, <2>3, PostedPlaces
<1> QED
  BY <1>2, <1>3

\* The user: a message is accepted behind all others, unless the machine has stopped.
LEMMA UserPlaces == PlaceInv /\ User => Places' /\ CallsInv'
<1> SUFFICES ASSUME PlaceInv, User PROVE Places' /\ CallsInv'
  OBVIOUS
<1> USE DEF machineOnly, ctxVars
<1>0. /\ closing \in BOOLEAN /\ lastError \in BOOLEAN /\ closed \in BOOLEAN
      /\ mailbox \in Seq(MailEvent) /\ Calls(mailbox, closing, lastError)
      /\ written \in Nat
  BY Mailbox DEF PlaceInv, CallsInv, WriterInv, Types
<1>1. CASE Write
  <2> DEFINE event == [type |-> "write", id |-> written + 1]
  <2>1. /\ ~closing /\ ~lastError /\ ~closed
        /\ written' = written + 1 /\ budget' = budget + 1
        /\ mailbox' = IF state \in Terminal THEN mailbox ELSE Append(mailbox, event)
        /\ UNCHANGED <<state, outputs, window, acked, closing, closed, lastError>>
    BY <1>1 DEF Write, Dispatch
  <2>2. event \in MailEvent /\ event.type = "write" /\ event.id = written + 1
    BY <1>0, EventKinds
  <2> HIDE DEF event
  <2>3. /\ OutputsOk(outputs) /\ WindowRun(window)
        /\ Tiled(RepIds(outputs), WinIds(window), QueIds(mailbox), acked, written)
    BY DEF PlaceInv, Places, Ordered
  <2>4. acked \in Nat /\ budget = written - acked
    BY <2>1, <2>3 DEF Tiled, PlaceInv, Places
  <2>5. budget' = written' - acked'
    BY <1>0, <2>1, <2>4
  <2>6. state \notin {"closing", "closed"}
    BY <2>1 DEF PlaceInv, CallsInv
  <2>7. CASE state \in Terminal
    <3>1. Tiled(RepIds(outputs), WinIds(window), QueIds(mailbox), acked, written + 1)
      BY <2>3, TiledWritten
    <3>2. Ordered(outputs', window', mailbox', acked', written')
      BY <2>1, <2>3, <2>7, <3>1 DEF Ordered
    <3>3. ~Alive(state', lastError')
      BY <2>1, <2>6, <2>7 DEF Alive, Terminal
    <3>4. CallsInv'
      BY <2>1, <2>7 DEF PlaceInv, CallsInv
    <3> QED
      BY <2>5, <3>2, <3>3, <3>4 DEF Places
  <2>8. CASE state \notin Terminal
    <3>1. QueIds(mailbox') = QueIds(mailbox) \cup {written + 1}
      BY <1>0, <2>1, <2>2, <2>8, QueuePosted
    <3>2. acked + 1 .. written \subseteq RepIds(outputs) \cup WinIds(window) \cup QueIds(mailbox)
      BY <2>8 DEF PlaceInv, Places, Whole, Alive
    <3>3. Tiled(RepIds(outputs), WinIds(window), QueIds(mailbox'), acked, written + 1)
      BY <2>3, <3>1, <3>2, TiledWritten
    <3>4. Ordered(outputs', window', mailbox', acked', written')
      BY <2>1, <2>3, <3>3 DEF Ordered
    <3>5. acked + 1 .. written + 1 \subseteq
            RepIds(outputs) \cup WinIds(window) \cup (QueIds(mailbox) \cup {written + 1})
      BY <1>0, <2>4, <3>2
    <3>6. Whole(outputs', window', mailbox', acked', written')
      BY <2>1, <3>1, <3>5 DEF Whole
    <3>7. Calls(mailbox', closing', lastError')
      BY <1>0, <2>1, <2>2, <2>8, CallsPosted
    <3>8. CallsInv'
      BY <2>1, <2>6, <3>7 DEF PlaceInv, CallsInv
    <3> QED
      BY <2>5, <3>4, <3>6, <3>8 DEF Places
  <2> QED
    BY <2>7, <2>8
<1>2. ASSUME NEW type \in {"flush", "close", "destroy"}, Dispatch([type |-> type]),
             UNCHANGED <<machineOnly, written, acked, budget, closed>>,
             closing' \in BOOLEAN, lastError' \in BOOLEAN,
             closing => closing', lastError => lastError',
             type = "close" => closing', type = "destroy" => closing' /\ lastError'
      PROVE  Places' /\ CallsInv'
  <2>1. [type |-> type] \in MailEvent /\ [type |-> type].type = type
    BY EventKinds
  <2>2. CASE state \in Terminal
    <3>1. /\ UNCHANGED <<state, outputs, window, mailbox, acked, written, closed, budget>>
      BY <1>2, <2>2 DEF Dispatch
    <3>2. Places'
      BY <1>0, <1>2, <3>1 DEF PlaceInv, Places, Alive
    <3>3. Calls(mailbox', closing', lastError')
      BY <1>0, <1>2, <3>1 DEF Calls
    <3>4. CallsInv'
      BY <1>2, <3>1, <3>3 DEF PlaceInv, CallsInv
    <3> QED
      BY <3>2, <3>4
  <2>3. CASE state \notin Terminal
    <3>1. mailbox' = Append(mailbox, [type |-> type])
      BY <1>2, <2>3 DEF Dispatch
    <3> QED
      BY <1>2, <2>1, <3>1, PostedPlaces
  <2> QED
    BY <2>2, <2>3
<1>3. CASE Close \/ Destroy
  BY <1>0, <1>2, <1>3 DEF Close, Destroy
<1>4. ASSUME NEW f \in Flusher, Flush(f) PROVE Places' /\ CallsInv'
  BY <1>0, <1>2, <1>4 DEF Flush
<1>5. ASSUME NEW f \in Flusher, FlushAborts(f) PROVE Places' /\ CallsInv'
  BY <1>5, QuietPlaces DEF FlushAborts, PlaceInv, CallsInv
<1> QED
  BY <1>1, <1>3, <1>4, <1>5 DEF User

\* A run that begins with a + 1.
LEMMA RunFrom ==
  ASSUME NEW b \in Seq(Message), Run(b, 1, Len(b)), NEW a \in Nat,
         a + 1 \in Ids(b), \A m \in Ids(b) : a < m
  PROVE  /\ Len(b) \in Nat \ {0}
         /\ \A k \in 1 .. Len(b) : b[k].id = a + k
         /\ \A m \in Nat : m \in Ids(b) <=> a < m /\ m <= a + Len(b)
<1>1. Len(b) \in Nat /\ \A k \in 1 .. Len(b) : b[k] \in Message /\ b[k].id \in Ids(b)
  BY DEF Ids
<1>2. PICK i \in 1 .. Len(b) : b[i].id = a + 1
  BY DEF Ids
<1>3. \A k \in 1 .. Len(b) : b[k].id \in Nat
  BY <1>1 DEF Message
<1>4. 1 \in 1 .. Len(b)
  BY <1>1, <1>2
<1>5. b[1].id + i = b[i].id + 1 /\ b[1].id >= a + 1
  BY <1>1, <1>3, <1>4 DEF Run
<1>6. i = 1
  BY <1>2, <1>3, <1>4, <1>5
<1>7. ASSUME NEW k \in 1 .. Len(b) PROVE b[k].id = a + k
  <2> DEFINE x == b[k].id
  <2>1. a + 1 + k = x + 1
    BY <1>2, <1>4, <1>6 DEF Run
  <2>2. x \in Nat /\ k \in Nat
    BY <1>1, <1>3
  <2> HIDE DEF x
  <2>3. x = a + k
    BY <2>1, <2>2
  <2> QED
    BY <2>3 DEF x
<1>8. ASSUME NEW m \in Nat PROVE m \in Ids(b) <=> a < m /\ m <= a + Len(b)
  <2>1. ASSUME m \in Ids(b) PROVE a < m /\ m <= a + Len(b)
    <3>1. PICK k \in 1 .. Len(b) : m = b[k].id
      BY <2>1 DEF Ids
    <3> QED
      BY <1>1, <1>7, <3>1
  <2>2. ASSUME a < m, m <= a + Len(b) PROVE m \in Ids(b)
    <3>1. m - a \in 1 .. Len(b) /\ a + (m - a) = m
      BY <1>1, <2>2
    <3> QED
      BY <1>1, <1>7, <3>1
  <2> QED
    BY <2>1, <2>2
<1> QED
  BY <1>1, <1>4, <1>7, <1>8

\* What the first output reports is next to what was acknowledged.
LEMMA FirstReport ==
  ASSUME Ordered(outputs, window, mailbox, acked, written), outputs # << >>,
         Head(outputs).type = "acks"
  PROVE  LET b == Head(outputs).batch
         IN /\ b \in Seq(Message) /\ Len(b) \in Nat /\ acked \in Nat
            /\ \A k \in 1 .. Len(b) : b[k].id = acked + k
            /\ \A m \in Nat : m \in Ids(b) <=> acked < m /\ m <= acked + Len(b)
            /\ Ordered(Tail(outputs), window, mailbox, acked + Len(b), written)
            /\ RepIds(outputs) = Ids(b) \cup RepIds(Tail(outputs))
            /\ acked + Len(b) <= written
<1> DEFINE b == Head(outputs).batch
           R == RepIds(outputs)
           S == RepIds(Tail(outputs))
           W == WinIds(window)
           Q == QueIds(mailbox)
<1>1. OutputsOk(outputs) /\ WindowRun(window) /\ Tiled(R, W, Q, acked, written)
  BY DEF Ordered
<1>2. /\ OutputsOk(Tail(outputs)) /\ Head(outputs) \in Output
      /\ R = Ids(b) \cup S /\ Before(Ids(b), S) /\ Run(b, 1, Len(b))
  BY <1>1, OutputTaken
<1>3. b \in Seq(Message)
  BY <1>2, OutputKinds
<1>4. /\ acked \in Nat /\ written \in Nat /\ acked <= written
      /\ R \cup W \cup Q \subseteq acked + 1 .. written
      /\ Before(R, W) /\ Before(R \cup W, Q)
      /\ \A m \in R \cup W \cup Q : acked + 1 .. m \subseteq R \cup W \cup Q
  BY <1>1 DEF Tiled
<1>l. Len(b) \in Nat
  BY <1>3
<1> HIDE DEF b, R, S, W, Q
<1>5. CASE Ids(b) = {}
  <2>1. Len(b) = 0
    <3>1. \A k \in 1 .. Len(b) : FALSE
      BY <1>5 DEF Ids
    <3> QED
      BY <1>l, <3>1
  <2>2. \A k \in 1 .. Len(b) : FALSE
    BY <2>1
  <2>3. acked + Len(b) = acked
    BY <1>4, <2>1
  <2>4. \A m \in Nat : ~(acked < m /\ m <= acked)
    BY <1>4
  <2>5. R = S
    BY <1>2, <1>5
  <2> QED
    BY <1>1, <1>2, <1>3, <1>4, <1>5, <1>l, <2>2, <2>3, <2>4, <2>5 DEF Ordered, b, R, S, W, Q
<1>6. CASE Ids(b) # {}
  <2>1. PICK m \in Ids(b) : TRUE
    BY <1>6
  <2>2. \A k \in Ids(b) : k \in Nat /\ acked < k
    BY <1>2, <1>4
  <2>3. acked + 1 \in acked + 1 .. m /\ m \in R
    BY <1>2, <1>4, <2>1, <2>2
  <2>4. acked + 1 \in R \cup W \cup Q
    BY <1>4, <2>3
  <2>5. ASSUME acked + 1 \in S \cup W \cup Q PROVE m < acked + 1
    BY <1>2, <1>4, <2>1, <2>3, <2>5 DEF Before
  <2>6. acked + 1 \in Ids(b)
    BY <1>2, <1>4, <2>2, <2>4, <2>5
  <2>7. /\ Len(b) \in Nat \ {0}
        /\ \A k \in 1 .. Len(b) : b[k].id = acked + k
        /\ \A k \in Nat : k \in Ids(b) <=> acked < k /\ k <= acked + Len(b)
    BY <1>2, <1>3, <1>4, <2>2, <2>6, RunFrom
  <2>8. acked + Len(b) \in Nat /\ acked <= acked + Len(b)
    BY <1>4, <1>l
  <2>9. Tiled(S, W, Q, acked + Len(b), written)
    BY <1>1, <1>2, <1>6, <2>7, <2>8, TiledConsumed
  <2>10. acked + Len(b) <= written
    BY <2>9 DEF Tiled
  <2> QED
    BY <1>1, <1>2, <1>3, <1>4, <1>l, <2>7, <2>9, <2>10 DEF Ordered, b, R, S, W, Q
<1> QED
  BY <1>5, <1>6

\* #consume takes an output.
LEMMA ConsumePlaces == PlaceInv /\ ConsumeOutput => Places' /\ CallsInv'
<1> SUFFICES ASSUME PlaceInv, ConsumeOutput PROVE Places' /\ CallsInv'
  OBVIOUS
<1> USE DEF consumeUnchanged, ctxVars
<1>0. /\ outputs # << >> /\ outputs' = Tail(outputs)
      /\ UNCHANGED <<state, window, mailbox, written, closing>>
      /\ closing \in BOOLEAN /\ lastError \in BOOLEAN /\ closed \in BOOLEAN
      /\ Calls(mailbox, closing, lastError) /\ Ordered(outputs, window, mailbox, acked, written)
  BY DEF ConsumeOutput, ConsumeAcks, ConsumeFlushed, ConsumeError, ConsumeClosed, Consume,
         PlaceInv, Places, CallsInv
<1>1. CASE ConsumeAcks
  <2> DEFINE b == Head(outputs).batch
  <2>1. /\ Head(outputs).type = "acks" /\ acked' = acked + Len(b) /\ budget' = budget - Len(b)
        /\ UNCHANGED <<closed, lastError>>
    BY <1>1 DEF ConsumeAcks, Consume
  <2>2. /\ Len(b) \in Nat /\ acked \in Nat
        /\ \A m \in Nat : m \in Ids(b) <=> acked < m /\ m <= acked + Len(b)
        /\ Ordered(Tail(outputs), window, mailbox, acked + Len(b), written)
        /\ RepIds(outputs) = Ids(b) \cup RepIds(Tail(outputs))
        /\ acked + Len(b) <= written
    BY <1>0, <2>1, FirstReport
  <2>w. written \in Nat
    BY DEF PlaceInv, WriterInv, Types
  <2> HIDE DEF b
  <2>3. Ordered(outputs', window', mailbox', acked', written')
    BY <1>0, <2>1, <2>2
  <2>4. ASSUME Alive(state', lastError') PROVE Whole(outputs', window', mailbox', acked', written')
    <3>1. acked + 1 .. written \subseteq RepIds(outputs) \cup WinIds(window) \cup QueIds(mailbox)
      BY <1>0, <2>1, <2>4 DEF PlaceInv, Places, Whole
    <3>2. ASSUME NEW m \in acked + Len(b) + 1 .. written
          PROVE  m \in RepIds(Tail(outputs)) \cup WinIds(window) \cup QueIds(mailbox)
      <4>1. m \in acked + 1 .. written /\ m \in Nat /\ ~(m <= acked + Len(b))
        BY <2>2, <2>w
      <4>2. m \notin Ids(b)
        BY <2>2, <4>1
      <4> QED
        BY <2>2, <3>1, <4>1, <4>2
    <3> QED
      BY <1>0, <2>1, <3>2 DEF Whole
  <2>5. ASSUME ~closed' PROVE budget' = written' - acked'
    <3>1. budget = written - acked
      BY <2>1, <2>5 DEF PlaceInv, Places
    <3> QED
      BY <1>0, <2>1, <2>2, <2>w, <3>1
  <2>6. Places'
    BY <2>3, <2>4, <2>5 DEF Places
  <2>7. CallsInv'
    BY <1>0, <2>1 DEF PlaceInv, CallsInv
  <2> QED
    BY <2>6, <2>7
<1>2. ASSUME Head(outputs).type # "acks", acked' = acked, closed' \/ budget' = budget,
             closed => closed', closed' \in BOOLEAN, lastError' \in BOOLEAN, lastError => lastError'
      PROVE  Places' /\ CallsInv'
  <2>1. OutputsOk(Tail(outputs)) /\ RepIds(outputs) = RepIds(Tail(outputs))
    BY <1>0, <1>2, OutputTaken DEF Ordered
  <2>2. Ordered(outputs', window', mailbox', acked', written')
    BY <1>0, <1>2, <2>1 DEF Ordered
  <2>3. Alive(state', lastError') => Whole(outputs', window', mailbox', acked', written')
    BY <1>0, <1>2, <2>1 DEF PlaceInv, Places, Whole, Alive
  <2>4. Places'
    BY <1>0, <1>2, <2>2, <2>3 DEF PlaceInv, Places
  <2>5. Calls(mailbox', closing', lastError')
    BY <1>0, <1>2 DEF Calls
  <2>6. CallsInv'
    BY <1>0, <1>2, <2>5 DEF PlaceInv, CallsInv
  <2> QED
    BY <2>4, <2>6
<1>3. CASE ConsumeFlushed \/ ConsumeError \/ ConsumeClosed
  BY <1>0, <1>2, <1>3 DEF ConsumeFlushed, ConsumeError, ConsumeClosed, Consume
<1> QED
  BY <1>1, <1>3 DEF ConsumeOutput

-----------------------------------------------------------------------------
(* Theorem: every message is in one place                                   *)

\* The writer starts with nothing to report.
LEMMA PlacesInit == Init => PlaceInv
<1> SUFFICES ASSUME Init PROVE PlaceInv
  OBVIOUS
<1>1. /\ outputs = << >> /\ window = EmptyWindow /\ mailbox = << >>
      /\ acked = 0 /\ written = 0 /\ budget = 0 /\ state = "connecting"
      /\ closing = FALSE /\ closed = FALSE /\ lastError = FALSE
  BY DEF Init
<1>2. << >> \in Seq(Output) /\ Len(<< >>) = 0 /\ \A i \in 1 .. 0 : FALSE
  OBVIOUS
<1>3. OutputsOk(<< >>) /\ RepIds(<< >>) = {}
  BY <1>2 DEF OutputsOk, RepIds
<1>4. Tiled({}, {}, {}, 0, 0)
  BY DEF Tiled, Before
<1>5. Ordered(outputs, window, mailbox, acked, written)
  BY <1>1, <1>3, <1>4, EmptyIds DEF Ordered
<1>6. Whole(outputs, window, mailbox, acked, written)
  BY <1>1 DEF Whole
<1>7. Places
  BY <1>1, <1>5, <1>6 DEF Places
<1>8. CallsInv
  BY <1>1, CallsEmpty DEF CallsInv
<1> QED
  BY <1>7, <1>8, InvInit DEF PlaceInv

\* Every step keeps the places.
LEMMA PlacesStep == PlaceInv /\ [Next]_vars => PlaceInv'
<1> SUFFICES ASSUME PlaceInv, [Next]_vars PROVE PlaceInv'
  OBVIOUS
<1>1. WriterInv'
  BY InvStep DEF PlaceInv
<1>2. CASE HandleEvent
  BY <1>1, <1>2, HandleWritePlaces, UserEventsPlaces, HandlePumpPlaces, StreamEventsPlaces,
     OtherEventsPlaces DEF HandleEvent, PlaceInv
<1>3. CASE UNCHANGED vars
  <2>1. UNCHANGED <<state, outputs, window, mailbox, acked, written, closing, closed, budget,
                    lastError>>
    BY <1>3 DEF vars, ctxVars, userVars
  <2> QED
    BY <1>1, <2>1, QuietPlaces DEF PlaceInv, CallsInv
<1> QED
  BY <1>1, <1>2, <1>3, ConsumePlaces, TimersPlaces, ServePlaces, StreamPlaces, UserPlaces
     DEF Next, PlaceInv

\* The invariant holds always.
LEMMA PlacesAlways == Spec => []PlaceInv
BY PlacesInit, PlacesStep, PTL DEF Spec

\* A part of a run is consecutive.
LEMMA RunConsecutive ==
  ASSUME NEW b \in Seq(Message), Run(b, 1, Len(b)) PROVE Consecutive(b)
<1> SUFFICES ASSUME NEW i \in 1 .. Len(b) - 1 PROVE b[i + 1].id = b[i].id + 1
  BY DEF Consecutive
<1>1. i \in 1 .. Len(b) /\ i + 1 \in 1 .. Len(b)
  OBVIOUS
<1>2. b[i] \in Message /\ b[i + 1] \in Message
  BY <1>1
<1> DEFINE x == b[i].id
           y == b[i + 1].id
<1>3. y + i = x + (i + 1)
  BY <1>1 DEF Run
<1>4. x \in Nat /\ y \in Nat /\ i \in Nat
  BY <1>1, <1>2 DEF Message
<1> HIDE DEF x, y
<1>5. y = x + 1
  BY <1>3, <1>4
<1> QED
  BY <1>5 DEF x, y

\* The window without what is acknowledged.
LEMMA LiveWindowRun ==
  ASSUME PlaceInv PROVE Ids(LiveWindow) = WinIds(window) /\ Consecutive(LiveWindow)
<1> DEFINE M == window.messages
           s == window.inflightStart
           live == SubSeq(M, s + 1, Len(M))
<1>1. /\ M \in Seq(Message) /\ Len(M) \in Nat /\ s \in Nat /\ s <= Len(M)
      /\ Run(M, s + 1, Len(M)) /\ WinIds(window) = {M[p].id : p \in s + 1 .. Len(M)}
      /\ LiveWindow = live
  <2>1. window \in Window /\ WindowShape(window) /\ WindowRun(window)
    BY Mailbox DEF PlaceInv, Places, Ordered
  <2>2. M \in Seq(Message) /\ Len(M) \in Nat /\ s \in Nat /\ s <= Len(M)
    <3>1. /\ M \in Seq(Message) /\ Len(M) \in Nat /\ s \in Nat
          /\ window.inflightLength \in Nat /\ window.bufferLength \in Nat
          /\ window.bufferStart = s + window.inflightLength
          /\ Len(M) = window.bufferStart + window.bufferLength
      BY <2>1, WindowFields
    <3> QED
      BY <3>1
  <2> QED
    BY <2>1, <2>2 DEF WindowRun, WinIds, LiveWindow
<1> HIDE DEF M, s
<1>2. /\ live \in Seq(Message) /\ Len(live) = Len(M) - s
      /\ \A i \in 1 .. Len(M) - s : live[i] = M[s + i]
  BY <1>1, Remaining
<1> HIDE DEF live
<1>3. \A i \in 1 .. Len(live) : live[i] = M[s + i] /\ s + i \in s + 1 .. Len(M)
  BY <1>1, <1>2
<1>4. \A p \in s + 1 .. Len(M) : p - s \in 1 .. Len(live) /\ live[p - s] = M[p]
  <2>1. \A p \in s + 1 .. Len(M) : p - s \in 1 .. Len(M) - s /\ s + (p - s) = p
    BY <1>1
  <2> QED
    BY <1>2, <2>1
<1>5. Ids(live) = WinIds(window)
  <2>1. \A m \in Ids(live) : m \in WinIds(window)
    BY <1>1, <1>3 DEF Ids
  <2>2. \A m \in WinIds(window) : m \in Ids(live)
    BY <1>1, <1>4 DEF Ids
  <2> QED
    BY <2>1, <2>2
<1>6. ASSUME NEW i \in 1 .. Len(live) - 1 PROVE live[i + 1].id = live[i].id + 1
  <2>1. i \in 1 .. Len(live) /\ i + 1 \in 1 .. Len(live)
    BY <1>1, <1>2
  <2>2. s + i \in s + 1 .. Len(M) /\ s + (i + 1) \in s + 1 .. Len(M)
    BY <1>3, <2>1
  <2> DEFINE x == M[s + i].id
             y == M[s + (i + 1)].id
  <2>3. x \in Nat /\ y \in Nat /\ y + (s + i) = x + (s + (i + 1))
    BY <1>1, <2>2, RunOrder
  <2> HIDE DEF x, y
  <2>4. y = x + 1
    BY <1>1, <1>2, <2>3
  <2> QED
    BY <1>3, <2>1, <2>4 DEF x, y
<1> QED
  BY <1>1, <1>5, <1>6 DEF Consecutive

\* No sequence of writes, batches, acknowledgments, inits that rewind, flushes and broken
\* streams loses, repeats or overtakes a message before the machine stops: what write()
\* accepted and onAck has not reported is in exactly one of the outputs, the window and the
\* mailbox, in order, and #bufferedBytes is its size.
THEOREM ConservationHolds == Spec => []Conservation
<1>1. PlaceInv => Conservation
  <2> SUFFICES ASSUME PlaceInv PROVE Conservation
    OBVIOUS
  <2>1. /\ OutputsOk(outputs) /\ outputs \in Seq(Output)
        /\ Tiled(RepIds(outputs), WinIds(window), QueIds(mailbox), acked, written)
    BY DEF PlaceInv, Places, Ordered, OutputsOk
  <2>2. ReportedIds = RepIds(outputs) /\ QueuedIds = QueIds(mailbox)
    BY DEF ReportedIds, Reports, RepIds, QueuedIds, Writes, QueIds
  <2>3. Ids(LiveWindow) = WinIds(window) /\ Consecutive(LiveWindow)
    BY LiveWindowRun
  <2>4. ASSUME state \notin Terminal
        PROVE  ReportedIds \cup Ids(LiveWindow) \cup QueuedIds = acked + 1 .. written
    <3>1. acked + 1 .. written \subseteq RepIds(outputs) \cup WinIds(window) \cup QueIds(mailbox)
      BY <2>4 DEF PlaceInv, Places, Whole, Alive
    <3> QED
      BY <2>1, <2>2, <2>3, <3>1 DEF Tiled
  <2>5. ASSUME NEW i \in Reports PROVE Consecutive(outputs[i].batch)
    <3>1. i \in 1 .. Len(outputs) /\ outputs[i].type = "acks" /\ outputs[i] \in Output
      BY <2>1 DEF Reports
    <3>2. outputs[i].batch \in Seq(Message) /\ Run(outputs[i].batch, 1, Len(outputs[i].batch))
      BY <2>1, <3>1, OutputKinds DEF OutputsOk
    <3> QED
      BY <3>2, RunConsecutive
  <2>6. \A i, j \in Reports : i < j => Before(Ids(outputs[i].batch), Ids(outputs[j].batch))
    BY <2>1 DEF OutputsOk, Reports
  <2>7. \A i, j \in Writes : i < j => mailbox[i].id < mailbox[j].id
    BY Mailbox DEF PlaceInv, Mail, Writes
  <2>8. Before(ReportedIds, Ids(LiveWindow)) /\ Before(ReportedIds \cup Ids(LiveWindow), QueuedIds)
    BY <2>1, <2>2, <2>3 DEF Tiled
  <2>9. ~closed => budget = written - acked
    BY DEF PlaceInv, Places
  <2> QED
    BY <2>3, <2>4, <2>5, <2>6, <2>7, <2>8, <2>9 DEF Conservation
<1> QED
  BY <1>1, PlacesAlways, PTL

-----------------------------------------------------------------------------
(* How the machine tells the public object that it has stopped              *)

PlainOutput == [type : {"acks"}, batch : Seq(Message)] \cup [type : {"flushed"}]

\* A machine at work reports nothing but acknowledgments and flushes; a stopped one has
\* nothing left, "closed" is the last it says, and a failure is told before it.
EndInv ==
  /\ state \notin Terminal => outputs \in Seq(PlainOutput)
  /\ \A i \in 1 .. Len(outputs) : outputs[i].type = "closed" => i = Len(outputs)
  /\ state = "errored" /\ ~closed => lastError \/ Has(outputs, "error")
  /\ closed => state \in Terminal /\ outputs = << >>
  /\ state \in Terminal =>
       /\ mailbox = << >> /\ window = EmptyWindow
       /\ ~stream /\ up = << >> /\ down = << >>

\* The types in a queue when its head is taken.
LEMMA HasTaken ==
  ASSUME NEW S, NEW q \in Seq(S), q # << >>, NEW t
  PROVE  /\ Has(Tail(q), t) => Has(q, t)
         /\ Has(q, t) => Head(q).type = t \/ Has(Tail(q), t)
         /\ Has(q, Head(q).type)
<1>1. /\ Len(q) \in Nat /\ Len(q) >= 1 /\ Head(q) = q[1]
      /\ Len(Tail(q)) = Len(q) - 1
      /\ \A i \in 1 .. Len(Tail(q)) : Tail(q)[i] = q[i + 1] /\ i + 1 \in 1 .. Len(q)
  BY Taken
<1> DEFINE rest == Tail(q)
<1> HIDE DEF rest
<1>2. \A i \in 1 .. Len(q) : i = 1 \/ (i - 1 \in 1 .. Len(rest) /\ q[i] = rest[i - 1])
  <2> SUFFICES ASSUME NEW i \in 1 .. Len(q), i # 1
               PROVE  i - 1 \in 1 .. Len(rest) /\ q[i] = rest[i - 1]
    OBVIOUS
  <2>1. i - 1 \in 1 .. Len(rest) /\ (i - 1) + 1 = i
    BY <1>1 DEF rest
  <2> QED
    BY <1>1, <2>1 DEF rest
<1>3. 1 \in 1 .. Len(q)
  BY <1>1
<1>4. Has(rest, t) => Has(q, t)
  BY <1>1 DEF Has, rest
<1>5. Has(q, t) => Head(q).type = t \/ Has(rest, t)
  BY <1>1, <1>2 DEF Has
<1>6. Has(q, Head(q).type)
  BY <1>1, <1>3 DEF Has
<1> QED
  BY <1>4, <1>5, <1>6 DEF rest

\* The types in a queue when one is added.
LEMMA HasAdded ==
  ASSUME NEW S, NEW q \in Seq(S), NEW e \in S, NEW t
  PROVE  Has(Append(q, e), t) <=> Has(q, t) \/ e.type = t
<1> DEFINE more == Append(q, e)
<1>1. /\ Len(q) \in Nat /\ Len(more) = Len(q) + 1
      /\ \A i \in 1 .. Len(q) : more[i] = q[i]
      /\ more[Len(q) + 1] = e
  BY Added
<1> HIDE DEF more
<1>2. /\ \A i \in 1 .. Len(more) : i \in 1 .. Len(q) \/ i = Len(q) + 1
      /\ \A i \in 1 .. Len(q) : i \in 1 .. Len(more)
      /\ Len(q) + 1 \in 1 .. Len(more)
  BY <1>1
<1>3. Has(more, t) <=> Has(q, t) \/ e.type = t
  BY <1>1, <1>2 DEF Has
<1> QED
  BY <1>3 DEF more

\* Nothing is in an empty queue.
LEMMA HasNothing == \A t : ~Has(<< >>, t)
<1>1. Len(<< >>) = 0 /\ \A i \in 1 .. 0 : FALSE
  OBVIOUS
<1> QED
  BY <1>1 DEF Has

\* What is reported by the parts of a queue of outputs.
LEMMA ReportsJoined ==
  ASSUME NEW a \in Seq(Output), NEW b \in Seq(Output)
  PROVE  a \o b \in Seq(Output) /\ RepIds(a \o b) = RepIds(a) \cup RepIds(b)
<1> DEFINE all == a \o b
<1>1. /\ Len(a) \in Nat /\ Len(b) \in Nat /\ all \in Seq(Output)
      /\ Len(all) = Len(a) + Len(b)
      /\ \A i \in 1 .. Len(a) : all[i] = a[i]
      /\ \A i \in 1 .. Len(b) : all[Len(a) + i] = b[i]
  OBVIOUS
<1> HIDE DEF all
<1>2. /\ \A i \in 1 .. Len(a) : i \in 1 .. Len(all)
      /\ \A i \in 1 .. Len(b) : Len(a) + i \in 1 .. Len(all)
  BY <1>1
<1>3. \A i \in 1 .. Len(all) :
        i \in 1 .. Len(a) \/ (i - Len(a) \in 1 .. Len(b) /\ i = Len(a) + (i - Len(a)))
  BY <1>1
<1>4. RepIds(all) \subseteq RepIds(a) \cup RepIds(b)
  <2> SUFFICES ASSUME NEW m \in RepIds(all) PROVE m \in RepIds(a) \cup RepIds(b)
    OBVIOUS
  <2>1. PICK i \in 1 .. Len(all) :
          all[i].type = "acks" /\ \E k \in 1 .. Len(all[i].batch) : m = all[i].batch[k].id
    BY Reported
  <2>2. CASE i \in 1 .. Len(a)
    <3>1. all[i] = a[i]
      BY <1>1, <2>2
    <3>2. m \in RepIds(a)
      BY <2>1, <2>2, <3>1, Reported
    <3> QED
      BY <3>2
  <2>3. CASE i - Len(a) \in 1 .. Len(b) /\ i = Len(a) + (i - Len(a))
    <3> DEFINE j == i - Len(a)
    <3>1. j \in 1 .. Len(b) /\ i = Len(a) + j
      BY <2>3
    <3> HIDE DEF j
    <3>2. all[i] = b[j]
      BY <1>1, <3>1
    <3>3. m \in RepIds(b)
      BY <2>1, <3>1, <3>2, Reported
    <3> QED
      BY <3>3
  <2> QED
    BY <1>3, <2>2, <2>3
<1>5. RepIds(a) \subseteq RepIds(all)
  <2> SUFFICES ASSUME NEW m \in RepIds(a) PROVE m \in RepIds(all)
    OBVIOUS
  <2>1. PICK i \in 1 .. Len(a) :
          a[i].type = "acks" /\ \E k \in 1 .. Len(a[i].batch) : m = a[i].batch[k].id
    BY Reported
  <2>2. i \in 1 .. Len(all) /\ all[i] = a[i]
    BY <1>1, <1>2
  <2> QED
    BY <2>1, <2>2, Reported
<1>6. RepIds(b) \subseteq RepIds(all)
  <2> SUFFICES ASSUME NEW m \in RepIds(b) PROVE m \in RepIds(all)
    OBVIOUS
  <2>1. PICK i \in 1 .. Len(b) :
          b[i].type = "acks" /\ \E k \in 1 .. Len(b[i].batch) : m = b[i].batch[k].id
    BY Reported
  <2>2. Len(a) + i \in 1 .. Len(all) /\ all[Len(a) + i] = b[i]
    BY <1>1, <1>2
  <2> QED
    BY <2>1, <2>2, Reported
<1> QED
  BY <1>1, <1>4, <1>5, <1>6 DEF all

\* A single output.
LEMMA OneReport ==
  /\ << >> \in Seq(Output) /\ RepIds(<< >>) = {}
  /\ \A o \in Output : /\ <<o>> \in Seq(Output)
                       /\ o.type = "acks" => RepIds(<<o>>) = Ids(o.batch)
                       /\ o.type # "acks" => RepIds(<<o>>) = {}
<1>1. /\ << >> \in Seq(Output) /\ Len(<< >>) = 0 /\ \A i \in 1 .. 0 : FALSE
      /\ \A o \in Output : <<o>> \in Seq(Output) /\ Len(<<o>>) = 1 /\ <<o>>[1] = o
      /\ \A i \in 1 .. 1 : i = 1
      /\ 1 \in 1 .. 1
  OBVIOUS
<1>2. RepIds(<< >>) = {}
  BY <1>1 DEF RepIds
<1>3. ASSUME NEW o \in Output, o.type # "acks" PROVE RepIds(<<o>>) = {}
  <2> DEFINE q == <<o>>
  <2>1. Len(q) = 1 /\ q[1] = o
    BY <1>1
  <2> HIDE DEF q
  <2>2. RepIds(q) = {}
    BY <1>1, <1>3, <2>1 DEF RepIds
  <2> QED
    BY <2>2 DEF q
<1>4. ASSUME NEW o \in Output, o.type = "acks" PROVE RepIds(<<o>>) = Ids(o.batch)
  <2> DEFINE q == <<o>>
  <2>1. Len(q) = 1 /\ q[1] = o
    BY <1>1
  <2> HIDE DEF q
  <2>2. {j \in 1 .. Len(q) : q[j].type = "acks"} = {1}
    BY <1>1, <1>4, <2>1
  <2>3. RepIds(q) = Ids(q[1].batch)
    BY <2>2 DEF RepIds
  <2> QED
    BY <2>1, <2>3 DEF q
<1> QED
  BY <1>1, <1>2, <1>3, <1>4

\* What the handlers emit.
LEMMA PlainKinds ==
  /\ << >> \in Seq(PlainOutput) /\ <<[type |-> "flushed"]>> \in Seq(PlainOutput)
  /\ \A b \in Seq(Message) : <<[type |-> "acks", batch |-> b]>> \in Seq(PlainOutput)
  /\ \A o \in PlainOutput : o \in Output /\ o.type \notin {"error", "closed"}
<1>1. \A o \in PlainOutput : <<o>> \in Seq(PlainOutput)
  OBVIOUS
<1>2. /\ [type |-> "flushed"] \in PlainOutput
      /\ \A b \in Seq(Message) : [type |-> "acks", batch |-> b] \in PlainOutput
  BY DEF PlainOutput
<1>3. \A o \in PlainOutput : o \in Output /\ o.type \notin {"error", "closed"}
  BY DEF PlainOutput, Output
<1> QED
  BY <1>1, <1>2, <1>3

\* The messages in flight that an answer of the server covers.
Told(N) ==
  {window.messages[p].id :
     p \in window.inflightStart + 1 .. window.inflightStart + LeadingInflight(window, N)}

\* An init or acknowledgments emit a report and the answer to flush().
LEMMA PlainReport ==
  ASSUME PlaceInv, NEW N, NEW w
  PROVE  LET e == AckOutput(LeadingInflight(window, N)) \o FlushOutput(w)
         IN e \in Seq(PlainOutput) /\ RepIds(e) = Told(N)
<1> DEFINE n == LeadingInflight(window, N)
           a == AckOutput(n)
           f == FlushOutput(w)
           b == Inflight(window, n)
           o == [type |-> "acks", batch |-> b]
<1>1. Sound(window, lastSeqNo) /\ WindowRun(window) /\ window \in Window /\ WindowShape(window)
  BY Mailbox DEF PlaceInv, Places, Ordered
<1>2. n \in 0 .. window.inflightLength
  BY <1>1, LeadingWithin
<1>3. Told(N) = {window.messages[p].id : p \in window.inflightStart + 1 .. window.inflightStart + n}
  BY DEF Told
<1>4. a = IF n = 0 THEN << >> ELSE <<o>>
  BY DEF AckOutput
<1> HIDE DEF n
<1>5. /\ b \in Seq(Message)
      /\ Ids(b) = {window.messages[p].id :
                     p \in window.inflightStart + 1 .. window.inflightStart + n}
      /\ Len(b) = n
  BY <1>1, <1>2, InflightRun
<1> HIDE DEF a, b
<1>6. /\ <<o>> \in Seq(PlainOutput) /\ o \in PlainOutput /\ o \in Output
      /\ o.type = "acks" /\ o.batch = b
  BY <1>5, PlainKinds DEF PlainOutput
<1> HIDE DEF o
<1>7. a \in Seq(PlainOutput) /\ a \in Seq(Output) /\ RepIds(a) = Told(N)
  <2>1. CASE n = 0
    <3>1. \A i \in 1 .. 0 : FALSE
      OBVIOUS
    <3>2. Ids(b) = {}
      BY <1>5, <2>1, <3>1 DEF Ids
    <3> QED
      BY <1>3, <1>4, <1>5, <2>1, <3>2, OneReport, PlainKinds
  <2>2. CASE n # 0
    BY <1>3, <1>4, <1>5, <1>6, <2>2, OneReport
  <2> QED
    BY <2>1, <2>2
<1>8. f \in Seq(PlainOutput) /\ f \in Seq(Output) /\ RepIds(f) = {}
  <2> DEFINE g == [type |-> "flushed"]
  <2>1. g \in Output /\ g.type # "acks" /\ <<g>> \in Seq(PlainOutput)
    BY OutputKinds, PlainKinds
  <2>2. f = << >> \/ f = <<g>>
    BY DEF FlushOutput
  <2> HIDE DEF g, f
  <2> QED
    BY <2>1, <2>2, OneReport, PlainKinds
<1> HIDE DEF f
<1>9. a \o f \in Seq(PlainOutput)
  BY <1>7, <1>8
<1>10. RepIds(a \o f) = Told(N)
  <2>1. a \in Seq(Output) /\ f \in Seq(Output)
    BY <1>7, <1>8
  <2>2. RepIds(a \o f) = RepIds(a) \cup RepIds(f)
    BY <2>1, ReportsJoined
  <2> QED
    BY <1>7, <1>8, <2>2
<1> QED
  BY <1>9, <1>10 DEF a, f, n

\* The event that the machine takes is an answer of the server to the messages N.
AnswersTo(N) ==
  /\ mailbox # << >>
  /\ \/ Event.type = "init" /\ N = 1 .. Event.lastSeqNo
     \/ Event.type = "acks" /\ N = Event.seqNos

\* The machine runs on, or stops.
Emits(e) ==
  /\ \/ outputs' = outputs \o e /\ state' \notin Terminal
     \/ \E terminal \in Terminal : Terminate(terminal, e)
  /\ RepIds(e) = {} \/ \E N : AnswersTo(N) /\ RepIds(e) = Told(N)

\* What the machine does to the outputs.
LEMMA MachineEmits ==
  ASSUME PlaceInv, HandleEvent \/ TimerFires
  PROVE  /\ state \notin Terminal
         /\ UNCHANGED <<written, acked, closed, lastError, log, serverLast, numbering, closing>>
         /\ \E e \in Seq(PlainOutput) : Emits(e)
<1> USE DEF ctxVars, serverVars, userVars
<1>0. outputs \in Seq(Output) /\ outputs \o << >> = outputs
  <2>1. outputs \in Seq(Output)
    BY DEF PlaceInv, Places, Ordered, OutputsOk
  <2> QED
    BY <2>1, OneByOne, OutputKinds
<1>a. ASSUME outputs' = outputs, state' \notin Terminal PROVE \E e \in Seq(PlainOutput) : Emits(e)
  BY <1>0, <1>a, PlainKinds, OneReport DEF Emits
<1>b. ASSUME NEW terminal \in Terminal, Terminate(terminal, << >>)
      PROVE  \E e \in Seq(PlainOutput) : Emits(e)
  BY <1>b, PlainKinds, OneReport DEF Emits
<1>c. {"closed", "errored"} = Terminal
  BY DEF Terminal
<1>1. CASE HandleWrite
  BY <1>1, <1>a DEF HandleWrite, Handles, Terminal
<1>2. CASE HandleFlush
  <2>1. /\ state \notin Terminal /\ state' = state
        /\ UNCHANGED <<written, acked, closed, lastError, log, serverLast, numbering, closing>>
        /\ outputs' = outputs \/ outputs' = Append(outputs, [type |-> "flushed"])
    BY <1>2 DEF HandleFlush, Handles
  <2>2. Append(outputs, [type |-> "flushed"]) = outputs \o <<[type |-> "flushed"]>>
    <3>1. [type |-> "flushed"] \in Output
      BY OutputKinds
    <3> QED
      BY <1>0, <3>1, Added
  <2>3. RepIds(<<[type |-> "flushed"]>>) = {}
    BY OutputKinds, OneReport
  <2> QED
    BY <1>a, <2>1, <2>2, <2>3, PlainKinds DEF Emits
<1>3. CASE HandleClose
  <2>1. /\ state \notin Terminal
        /\ UNCHANGED <<written, acked, closed, lastError, log, serverLast, numbering, closing>>
        /\ Terminate("closed", << >>) \/ (outputs' = outputs /\ state' \notin Terminal)
    BY <1>3 DEF HandleClose, Handles, DrainedClose, Terminal
  <2> QED
    BY <1>a, <1>b, <1>c, <2>1
<1>4. CASE HandleDestroy \/ DisconnectedFatal \/ RecoveryWindow
  <2>1. /\ state \notin Terminal
        /\ UNCHANGED <<written, acked, closed, lastError, log, serverLast, numbering, closing>>
        /\ Terminate("closed", << >>) \/ Terminate("errored", << >>)
    BY <1>4 DEF HandleDestroy, DisconnectedFatal, RecoveryWindow, Handles, Due, Terminal
  <2> QED
    BY <1>b, <1>c, <2>1
<1>5. CASE HandlePump \/ FlushTick
  BY <1>5, <1>a DEF HandlePump, FlushTick, Handles, Due, Terminal
<1>6. CASE ToReady \/ InitWhileClosing
  <2> DEFINE e == InitOutputs(Event.lastSeqNo)
  <2>1. e \in Seq(PlainOutput) /\ RepIds(e) = Told(1 .. Event.lastSeqNo)
    BY PlainReport DEF Persisted, InitOutputs
  <2>2. mailbox # << >> /\ Event.type = "init"
    BY <1>6 DEF ToReady, InitWhileClosing, Handles
  <2>3. /\ state \notin Terminal
        /\ UNCHANGED <<written, acked, closed, lastError, log, serverLast, numbering, closing>>
        /\ Terminate("closed", e) \/ (outputs' = outputs \o e /\ state' \notin Terminal)
    BY <1>6 DEF ToReady, InitWhileClosing, Handles, DrainedClose, Terminal
  <2> HIDE DEF e
  <2>4. AnswersTo(1 .. Event.lastSeqNo)
    BY <2>2 DEF AnswersTo
  <2> QED
    BY <1>c, <2>1, <2>3, <2>4 DEF Emits
<1>7. CASE HandleAcks
  <2> DEFINE e == AckedOutputs
  <2>1. e \in Seq(PlainOutput) /\ RepIds(e) = Told(Event.seqNos)
    BY PlainReport DEF AckedCount, AckedOutputs
  <2>2. mailbox # << >> /\ Event.type = "acks"
    BY <1>7 DEF HandleAcks, Handles
  <2>3. /\ state \notin Terminal
        /\ UNCHANGED <<written, acked, closed, lastError, log, serverLast, numbering, closing>>
        /\ Terminate("closed", e) \/ (outputs' = outputs \o e /\ state' \notin Terminal)
    BY <1>7 DEF HandleAcks, Handles, DrainedClose, Terminal
  <2> HIDE DEF e
  <2>4. AnswersTo(Event.seqNos)
    BY <2>2 DEF AnswersTo
  <2> QED
    BY <1>c, <2>1, <2>3, <2>4 DEF Emits
<1>8. CASE Disconnected
  BY <1>8, <1>a DEF Disconnected, ToReconnecting, Handles, Terminal
<1>9. CASE Ignore
  BY <1>9, <1>a DEF Ignore, Ignores, Handles, Terminal
<1>10. CASE StartTimeout \/ RetryBackoff
  BY <1>10, <1>a DEF StartTimeout, RetryBackoff, ToReconnecting, Due, Terminal
<1>11. CASE GracefulTimeout
  <2>1. /\ state \notin Terminal
        /\ UNCHANGED <<written, acked, closed, lastError, log, serverLast, numbering, closing>>
        /\ Terminate("closed", << >>) \/ Terminate("errored", << >>)
    BY <1>11 DEF GracefulTimeout, Due, Terminal
  <2> QED
    BY <1>b, <1>c, <2>1
<1> QED
  BY <1>1, <1>2, <1>3, <1>4, <1>5, <1>6, <1>7, <1>8, <1>9, <1>10, <1>11
     DEF HandleEvent, TimerFires

\* The outputs of a machine that stops.
LEMMA StopOutputs ==
  ASSUME NEW out \in Seq(PlainOutput), NEW terminal \in Terminal, NEW all,
         all = out \o (IF terminal = "errored" THEN <<[type |-> "error"]>> ELSE << >>)
                 \o <<[type |-> "closed"]>>
  PROVE  /\ \A i \in 1 .. Len(all) : all[i].type = "closed" => i = Len(all)
         /\ terminal = "errored" => Has(all, "error")
<1> DEFINE error == [type |-> "error"]
           last == [type |-> "closed"]
           more == out \o (IF terminal = "errored" THEN <<error>> ELSE << >>)
<1>1. error \in Output /\ last \in Output /\ error.type = "error"
  BY OutputKinds
<1>2. out \in Seq(Output) /\ Len(out) \in Nat /\ \A i \in 1 .. Len(out) : out[i].type # "closed"
  <2>1. \A i \in 1 .. Len(out) : out[i] \in PlainOutput
    OBVIOUS
  <2>2. out \in Seq(Output)
    <3>1. \A i \in 1 .. Len(out) : out[i] \in Output
      BY <2>1, PlainKinds
    <3> QED
      BY <3>1
  <2> QED
    BY <2>1, <2>2, PlainKinds
<1> HIDE DEF error
<1>3. /\ more \in Seq(Output) /\ \A i \in 1 .. Len(more) : more[i].type # "closed"
      /\ terminal = "errored" => Has(more, "error")
  <2>1. CASE terminal = "errored"
    <3>1. more = Append(out, error)
      BY <1>1, <1>2, <2>1, Added
    <3>2. /\ Append(out, error) \in Seq(Output) /\ Len(Append(out, error)) = Len(out) + 1
          /\ \A i \in 1 .. Len(out) : Append(out, error)[i] = out[i]
          /\ Append(out, error)[Len(out) + 1] = error
      BY <1>1, <1>2, Added
    <3>3. \A i \in 1 .. Len(out) + 1 : i \in 1 .. Len(out) \/ i = Len(out) + 1
      BY <1>2
    <3>4. Has(Append(out, error), "error")
      BY <1>1, <1>2, HasAdded
    <3> QED
      BY <1>1, <1>2, <3>1, <3>2, <3>3, <3>4
  <2>2. CASE terminal # "errored"
    <3>1. more = out
      BY <1>1, <1>2, <2>2, OneByOne
    <3> QED
      BY <1>2, <2>2, <3>1
  <2> QED
    BY <2>1, <2>2
<1>4. all = more \o <<last>>
  BY DEF error
<1> HIDE DEF more, last
<1>5. /\ Len(more) \in Nat /\ all = Append(more, last) /\ Len(all) = Len(more) + 1
      /\ \A i \in 1 .. Len(more) : all[i] = more[i]
  <2>1. last \in Output /\ more \in Seq(Output)
    BY <1>1, <1>3 DEF last
  <2>2. /\ Len(more) \in Nat /\ Len(Append(more, last)) = Len(more) + 1
        /\ \A i \in 1 .. Len(more) : Append(more, last)[i] = more[i]
        /\ more \o <<last>> = Append(more, last)
    BY <2>1, Added
  <2> QED
    BY <1>4, <2>2
<1>6. \A i \in 1 .. Len(all) : i \in 1 .. Len(more) \/ i = Len(all)
  BY <1>5
<1>7. Has(more, "error") => Has(all, "error")
  <2>1. last \in Output /\ more \in Seq(Output)
    BY <1>1, <1>3 DEF last
  <2>2. Has(more, "error") => Has(Append(more, last), "error")
    BY <2>1, HasAdded
  <2> QED
    BY <1>5, <2>2
<1> QED
  BY <1>3, <1>5, <1>6, <1>7

\* What the machine reports is what an answer covers.
LEMMA MachineReports ==
  ASSUME PlaceInv, HandleEvent \/ TimerFires
  PROVE  \/ RepIds(outputs') = RepIds(outputs)
         \/ \E N : AnswersTo(N) /\ RepIds(outputs') = RepIds(outputs) \cup Told(N)
<1>1. PICK e \in Seq(PlainOutput) : Emits(e)
  BY MachineEmits
<1>2. outputs \in Seq(Output) /\ e \in Seq(Output)
  <2>1. \A i \in 1 .. Len(e) : e[i] \in Output
    BY PlainKinds
  <2>2. e \in Seq(Output)
    BY <2>1
  <2> QED
    BY <2>2 DEF PlaceInv, Places, Ordered, OutputsOk
<1>3. outputs \o e \in Seq(Output) /\ RepIds(outputs \o e) = RepIds(outputs) \cup RepIds(e)
  BY <1>2, ReportsJoined
<1>4. RepIds(outputs') = RepIds(outputs \o e)
  <2>1. CASE outputs' = outputs \o e
    BY <2>1
  <2>2. ASSUME NEW terminal \in Terminal, Terminate(terminal, e)
        PROVE  RepIds(outputs') = RepIds(outputs \o e)
    <3> DEFINE more == outputs \o e
               error == [type |-> "error"]
               last == [type |-> "closed"]
               middle == IF terminal = "errored" THEN <<error>> ELSE << >>
    <3>1. outputs' = more \o middle \o <<last>>
      BY <2>2 DEF Terminate
    <3>2. error \in Output /\ last \in Output /\ error.type # "acks" /\ last.type # "acks"
      BY OutputKinds
    <3> HIDE DEF more, error, last
    <3>3. middle \in Seq(Output) /\ RepIds(middle) = {}
      BY <3>2, OneReport
    <3>4. <<last>> \in Seq(Output) /\ RepIds(<<last>>) = {}
      BY <3>2, OneReport
    <3> HIDE DEF middle
    <3>n. more \in Seq(Output)
      BY <1>3 DEF more
    <3>5. /\ more \o middle \in Seq(Output)
          /\ RepIds(more \o middle) = RepIds(more) \cup RepIds(middle)
      BY <3>n, <3>3, ReportsJoined
    <3> DEFINE most == more \o middle
               end == <<last>>
    <3> HIDE DEF most, end
    <3>e. most \in Seq(Output) /\ end \in Seq(Output)
      BY <3>4, <3>5 DEF most, end
    <3>6. RepIds(most \o end) = RepIds(most) \cup RepIds(end)
      BY <3>e, ReportsJoined
    <3> QED
      BY <3>1, <3>3, <3>4, <3>5, <3>6 DEF more, most, end
  <2> QED
    BY <1>1, <2>1, <2>2 DEF Emits
<1> QED
  BY <1>1, <1>3, <1>4 DEF Emits

\* Every step keeps the end.
LEMMA EndStep == PlaceInv /\ EndInv /\ [Next]_vars => EndInv'
<1> SUFFICES ASSUME PlaceInv, EndInv, [Next]_vars PROVE EndInv'
  OBVIOUS
<1> USE DEF ctxVars, serverVars, userVars, streamVars
<1>0. outputs \in Seq(Output) /\ mailbox \in Seq(MailEvent)
  BY Mailbox DEF PlaceInv, Places, Ordered, OutputsOk
<1>1. CASE HandleEvent \/ TimerFires
  <2>1. /\ state \notin Terminal
        /\ UNCHANGED <<closed, lastError>>
        /\ \E e \in Seq(PlainOutput) : Emits(e)
    BY <1>1, MachineEmits
  <2>2. PICK e \in Seq(PlainOutput) : Emits(e)
    BY <2>1
  <2>3. outputs \in Seq(PlainOutput) /\ ~closed
    BY <2>1 DEF EndInv
  <2>4. outputs \o e \in Seq(PlainOutput)
    BY <2>2, <2>3
  <2>5. CASE outputs' = outputs \o e /\ state' \notin Terminal
    <3>1. outputs' \in Seq(PlainOutput)
      BY <2>4, <2>5
    <3>2. \A i \in 1 .. Len(outputs') : outputs'[i].type # "closed"
      BY <3>1, PlainKinds
    <3>3. state' # "errored" /\ ~closed'
      BY <2>1, <2>3, <2>5 DEF Terminal
    <3> QED
      BY <2>5, <3>1, <3>2, <3>3 DEF EndInv
  <2>6. CASE \E terminal \in Terminal : Terminate(terminal, e)
    <3>1. PICK terminal \in Terminal : Terminate(terminal, e)
      BY <2>6
    <3>2. /\ state' = terminal /\ window' = EmptyWindow /\ mailbox' = << >>
          /\ stream' = FALSE /\ up' = << >> /\ down' = << >>
          /\ outputs' = outputs \o e
                        \o (IF terminal = "errored" THEN <<[type |-> "error"]>> ELSE << >>)
                        \o <<[type |-> "closed"]>>
      BY <3>1 DEF Terminate
    <3>3. /\ \A i \in 1 .. Len(outputs') : outputs'[i].type = "closed" => i = Len(outputs')
          /\ terminal = "errored" => Has(outputs', "error")
      BY <2>4, <3>2, StopOutputs
    <3> QED
      BY <2>1, <2>3, <3>2, <3>3 DEF EndInv
  <2> QED
    BY <2>2, <2>5, <2>6 DEF Emits
<1>2. CASE ConsumeOutput
  <2>1. /\ outputs # << >> /\ outputs' = Tail(outputs) /\ ~closed
        /\ UNCHANGED <<state, mailbox, window, stream, up, down>>
        /\ Head(outputs).type = "error" => lastError'
        /\ lastError => lastError'
        /\ Head(outputs).type # "closed" => closed' = closed
    BY <1>2 DEF ConsumeOutput, ConsumeAcks, ConsumeFlushed, ConsumeError, ConsumeClosed, Consume,
                consumeUnchanged, EndInv
  <2>2. /\ Len(outputs) \in Nat /\ Len(outputs) >= 1 /\ Head(outputs) = outputs[1]
        /\ Len(Tail(outputs)) = Len(outputs) - 1
        /\ \A i \in 1 .. Len(Tail(outputs)) :
             Tail(outputs)[i] = outputs[i + 1] /\ i + 1 \in 1 .. Len(outputs)
    BY <1>0, <2>1, Taken
  <2> DEFINE rest == Tail(outputs)
             l == Len(outputs)
  <2>3. state' \notin Terminal => outputs' \in Seq(PlainOutput)
    BY <2>1, Taken DEF EndInv
  <2> HIDE DEF rest, l
  <2>4. \A i \in 1 .. Len(rest) : rest[i].type = "closed" => i = Len(rest)
    <3> SUFFICES ASSUME NEW i \in 1 .. Len(rest), rest[i].type = "closed" PROVE i = Len(rest)
      OBVIOUS
    <3>1. i + 1 = l
      BY <2>2 DEF EndInv, rest, l
    <3>2. Len(rest) = l - 1 /\ l \in Nat /\ i \in Nat
      BY <2>2 DEF rest, l
    <3> QED
      BY <3>1, <3>2
  <2>5. state' = "errored" /\ ~closed' => lastError' \/ Has(outputs', "error")
    <3>1. ASSUME state = "errored", ~lastError, Head(outputs).type # "error"
          PROVE  Has(Tail(outputs), "error")
      BY <1>0, <2>1, <3>1, HasTaken DEF EndInv
    <3> QED
      BY <2>1, <3>1
  <2>6. ASSUME closed' PROVE state' \in Terminal /\ outputs' = << >>
    <3>1. Head(outputs).type = "closed"
      BY <2>1, <2>6
    <3>2. 1 \in 1 .. l /\ outputs[1].type = "closed"
      BY <2>2, <3>1 DEF l
    <3>3. l = 1
      BY <3>2 DEF EndInv, l
    <3>4. rest = << >>
      <4>1. rest \in Seq(Output) /\ Len(rest) = 0
        BY <1>0, <2>1, <2>2, <3>3, Taken DEF rest, l
      <4> QED
        BY <4>1, EmptySeq
    <3>5. ASSUME state \notin Terminal PROVE FALSE
      <4>1. outputs[1] \in PlainOutput
        BY <3>2, <3>5 DEF EndInv, l
      <4> QED
        BY <3>2, <4>1, PlainKinds
    <3> QED
      BY <2>1, <3>4, <3>5 DEF rest
  <2> QED
    BY <2>1, <2>3, <2>4, <2>5, <2>6 DEF EndInv, rest
<1>3. CASE Serve \/ Deliver \/ Break
  <2>1. state \notin Terminal
    BY <1>3 DEF Serve, ServeInit, ServeWrite, Deliver, Break, EndInv
  <2>2. UNCHANGED <<state, outputs, closed, lastError>>
    BY <1>3 DEF Serve, ServeInit, ServeWrite, Deliver, Break
  <2> QED
    BY <2>1, <2>2 DEF EndInv
<1>4. CASE User
  <2>1. /\ UNCHANGED <<state, outputs, closed, window, stream, up, down>>
        /\ lastError => lastError'
        /\ state \in Terminal => mailbox' = mailbox
    BY <1>4 DEF User, Write, Close, Destroy, Flush, FlushAborts, Dispatch, machineOnly
  <2> QED
    BY <2>1 DEF EndInv
<1>5. CASE UNCHANGED vars
  BY <1>5 DEF vars, EndInv
<1> QED
  BY <1>1, <1>2, <1>3, <1>4, <1>5 DEF Next

-----------------------------------------------------------------------------
(* At most one of a type in a queue                                         *)

\* A queue holds one of a type at most.
Only(queue, type) ==
  \A i, j \in 1 .. Len(queue) : queue[i].type = type /\ queue[j].type = type => i = j

\* One of a type at most, when the head is taken or another one is added.
LEMMA OnlyTaken ==
  ASSUME NEW S, NEW q \in Seq(S), q # << >>, NEW t, Only(q, t)
  PROVE  Only(Tail(q), t) /\ (Head(q).type = t => ~Has(Tail(q), t))
<1>1. /\ Len(q) \in Nat /\ Len(q) >= 1 /\ Head(q) = q[1]
      /\ \A i \in 1 .. Len(Tail(q)) :
           Tail(q)[i] = q[i + 1] /\ i + 1 \in 1 .. Len(q) /\ i \in Nat
  BY Taken
<1> DEFINE rest == Tail(q)
<1> HIDE DEF rest
<1>2. \A i, j \in 1 .. Len(rest) : i + 1 = j + 1 => i = j
  BY <1>1 DEF rest
<1>3. Only(rest, t)
  BY <1>1, <1>2 DEF Only, rest
<1>4. ASSUME Head(q).type = t, NEW i \in 1 .. Len(rest), rest[i].type = t PROVE FALSE
  <2>1. 1 \in 1 .. Len(q) /\ q[1].type = t /\ i + 1 \in 1 .. Len(q) /\ q[i + 1].type = t
    BY <1>1, <1>4 DEF rest
  <2>2. 1 = i + 1 /\ i \in Nat /\ i >= 1
    BY <1>1, <2>1 DEF Only, rest
  <2> QED
    BY <2>2
<1> QED
  BY <1>3, <1>4 DEF Has, rest

LEMMA OnlyAdded ==
  ASSUME NEW S, NEW q \in Seq(S), NEW e \in S, NEW t, Only(q, t), e.type # t \/ ~Has(q, t)
  PROVE  Only(Append(q, e), t)
<1> DEFINE more == Append(q, e)
<1>1. /\ Len(q) \in Nat /\ Len(more) = Len(q) + 1
      /\ \A i \in 1 .. Len(q) : more[i] = q[i]
      /\ more[Len(q) + 1] = e
  BY Added
<1> HIDE DEF more
<1>2. \A i \in 1 .. Len(more) : i \in 1 .. Len(q) \/ i = Len(q) + 1
  BY <1>1
<1>3. CASE e.type # t
  BY <1>1, <1>2, <1>3 DEF Only, more
<1>4. CASE ~Has(q, t)
  BY <1>1, <1>2, <1>4 DEF Only, Has, more
<1> QED
  BY <1>3, <1>4

-----------------------------------------------------------------------------
(* The opening of a stream                                                  *)

\* An init is asked for, under way or not handled yet.
Opening == Has(up, "init") \/ Has(down, "init") \/ Has(mailbox, "init")

One(box) == Only(box, "init")

\* A stream begins with its init, and nothing else is under way until it is handled.
Lines(u, d, box, open) ==
  /\ ~open => u = << >> /\ d = << >>
  /\ Has(u, "init") => Len(u) = 1 /\ d = << >> /\ ~Has(box, "init")
  /\ Has(d, "init") => Len(d) = 1 /\ u = << >> /\ ~Has(box, "init")
  /\ Has(box, "init") => u = << >> /\ d = << >>
  /\ One(box)
  /\ open => ~Has(box, "disconnected")
  /\ Has(u, "init") \/ Has(d, "init") \/ Has(box, "init") => ~Has(box, "acks")

\* A reconnect finds no close() in the mailbox, and a writer that is closing sends nothing
\* while its stream opens.
Calm ==
  /\ state = "ready" => ~Opening
  /\ hasEverConnected /\ stream /\ state \in {"connecting", "reconnecting"} =>
       ~Has(mailbox, "close")
  /\ hasEverConnected /\ stream /\ state = "closing" /\ Opening =>
       ~Has(mailbox, "pump") /\ ~Has(mailbox, "flush")

Phase == Lines(up, down, mailbox, stream) /\ Calm

\* One init at most, when the head is taken or another event is posted.
LEMMA OneTaken ==
  ASSUME NEW S, NEW q \in Seq(S), q # << >>, One(q)
  PROVE  One(Tail(q)) /\ (Head(q).type = "init" => ~Has(Tail(q), "init"))
BY OnlyTaken DEF One

LEMMA OneAdded ==
  ASSUME NEW S, NEW q \in Seq(S), NEW e \in S, One(q), e.type # "init" \/ ~Has(q, "init")
  PROVE  One(Append(q, e))
BY OnlyAdded DEF One

\* Nothing is under way.
LEMMA LinesEmpty == ASSUME NEW open PROVE Lines(<< >>, << >>, << >>, open)
<1>1. Len(<< >>) = 0 /\ \A i \in 1 .. 0 : FALSE
  OBVIOUS
<1>2. One(<< >>)
  BY <1>1 DEF One, Only
<1> QED
  BY <1>2, HasNothing DEF Lines

\* A handler leaves the rest of the mailbox and may post a pump.
LEMMA BoxTaken ==
  ASSUME NEW box \in Seq(MailEvent), box # << >>, NEW posted \in {<< >>, <<PumpEvent>>}
  PROVE  /\ Tail(box) \o posted \in Seq(MailEvent)
         /\ \A t : Has(Tail(box) \o posted, t) =>
              Has(box, t) \/ (t = "pump" /\ posted = <<PumpEvent>>)
         /\ \A t : Has(box, t) => Head(box).type = t \/ Has(Tail(box) \o posted, t)
         /\ One(box) => One(Tail(box) \o posted)
         /\ One(box) /\ Head(box).type = "init" => ~Has(Tail(box) \o posted, "init")
         /\ Has(box, Head(box).type)
<1>1. /\ Tail(box) \in Seq(MailEvent) /\ Has(box, Head(box).type)
      /\ \A t : (Has(Tail(box), t) => Has(box, t))
                /\ (Has(box, t) => Head(box).type = t \/ Has(Tail(box), t))
  BY HasTaken, Taken
<1>2. One(box) => One(Tail(box)) /\ (Head(box).type = "init" => ~Has(Tail(box), "init"))
  BY OneTaken
<1>3. PumpEvent \in MailEvent /\ PumpEvent.type = "pump"
  BY EventKinds
<1> DEFINE rest == Tail(box)
<1> HIDE DEF rest
<1>4. /\ rest \o <<PumpEvent>> = Append(rest, PumpEvent) /\ rest \o << >> = rest
      /\ Append(rest, PumpEvent) \in Seq(MailEvent)
  BY <1>1, <1>3, Added DEF rest
<1>5. \A t : Has(Append(rest, PumpEvent), t) <=> Has(rest, t) \/ PumpEvent.type = t
  BY <1>1, <1>3, HasAdded DEF rest
<1>6. One(rest) => One(Append(rest, PumpEvent))
  BY <1>1, <1>3, OneAdded DEF rest
<1>7. CASE posted = << >>
  BY <1>1, <1>2, <1>4, <1>7 DEF rest
<1>8. CASE posted = <<PumpEvent>>
  BY <1>1, <1>2, <1>3, <1>4, <1>5, <1>6, <1>8 DEF rest
<1> QED
  BY <1>7, <1>8

\* An event is handled and the stream stays.
LEMMA TakenPhase ==
  ASSUME PlaceInv, Phase, mailbox # << >>, NEW posted \in {<< >>, <<PumpEvent>>},
         mailbox' = Tail(mailbox) \o posted,
         UNCHANGED <<stream, up, down, hasEverConnected>>,
         state' = "ready" => state = "ready",
         hasEverConnected /\ stream /\ state' \in {"connecting", "reconnecting"} =>
           state \in {"connecting", "reconnecting"},
         hasEverConnected /\ stream /\ Opening /\ state' = "closing" =>
           state = "closing" /\ posted = << >>
  PROVE  Phase'
<1>1. mailbox \in Seq(MailEvent)
  BY Mailbox DEF PlaceInv
<1>2. /\ \A t : Has(mailbox', t) => Has(mailbox, t) \/ (t = "pump" /\ posted = <<PumpEvent>>)
      /\ One(mailbox) => One(mailbox')
  BY <1>1, BoxTaken
<1>3. Lines(up', down', mailbox', stream')
  BY <1>2 DEF Phase, Lines
<1>4. Opening' => Opening
  BY <1>2 DEF Opening
<1>5. << >> # <<PumpEvent>>
  OBVIOUS
<1>6. Calm'
  BY <1>2, <1>4, <1>5 DEF Phase, Calm
<1> QED
  BY <1>3, <1>6 DEF Phase

\* The stream is gone or its init is handled.
LEMMA OpenedPhase ==
  ASSUME PlaceInv, Phase, mailbox # << >>, Event.type = "init",
         mailbox' = Tail(mailbox) \o <<PumpEvent>>, UNCHANGED <<stream, up, down>>,
         state' \in {"ready", "closing"}
  PROVE  Phase' /\ ~Opening'
<1>1. mailbox \in Seq(MailEvent) /\ Head(mailbox).type = "init"
  BY Mailbox DEF PlaceInv, Event
<1>2. /\ \A t : Has(mailbox', t) => Has(mailbox, t) \/ t = "pump"
      /\ One(mailbox) => One(mailbox') /\ ~Has(mailbox', "init")
      /\ Has(mailbox, "init")
  BY <1>1, BoxTaken
<1>3. up = << >> /\ down = << >> /\ One(mailbox)
  BY <1>2 DEF Phase, Lines
<1>4. ~Opening'
  BY <1>2, <1>3, HasNothing DEF Opening, Phase, Lines
<1>5. Lines(up', down', mailbox', stream')
  BY <1>2, <1>3, HasNothing DEF Phase, Lines
<1>6. Calm'
  BY <1>4 DEF Calm
<1> QED
  BY <1>4, <1>5, <1>6 DEF Phase

\* A batch goes out on a stream whose init was handled.
LEMMA SendingOpened ==
  ASSUME PlaceInv, Phase, HandlePump \/ FlushTick
  PROVE  stream => ~Opening
<1>1. CASE HandlePump
  <2>1. /\ mailbox # << >> /\ Head(mailbox).type = "pump"
        /\ state = "ready" \/ (state = "closing" /\ hasEverConnected)
    BY <1>1 DEF HandlePump, Handles, Event, MayPump
  <2>2. Has(mailbox, "pump")
    BY <2>1, HasTaken, Mailbox DEF PlaceInv
  <2> QED
    BY <2>1, <2>2 DEF Phase, Calm
<1>2. CASE FlushTick
  BY <1>2 DEF FlushTick, Due, Phase, Calm
<1> QED
  BY <1>1, <1>2

\* What a batch does to the queues.
LEMMA PumpQueues ==
  ASSUME PlaceInv, HandlePump \/ (FlushTick /\ CanSend(window))
  PROVE  /\ CanSend(window) /\ window' = Sent(window, lastSeqNo)
         /\ lastSeqNo' = HighWater(window, lastSeqNo)
         /\ up' = IF stream
                  THEN Append(up, [type |-> "write", batch |-> Batch(window, lastSeqNo)])
                  ELSE up
         /\ [type |-> "write", batch |-> Batch(window, lastSeqNo)] \in Request
         /\ mailbox' \in Seq(MailEvent)
         /\ \A t : Has(mailbox', t) => Has(mailbox, t) \/ t = "pump"
         /\ \A t : Has(mailbox, t) => t = "pump" \/ Has(mailbox', t)
         /\ One(mailbox) => One(mailbox')
         /\ UNCHANGED <<state, hasEverConnected, stream, down, outputs, acked, written, log,
                        serverLast, numbering, seqNoMode, closing, closed, lastError>>
<1> USE DEF serverVars, userVars
<1>1. mailbox \in Seq(MailEvent) /\ Sound(window, lastSeqNo)
  BY Mailbox DEF PlaceInv
<1>2. /\ CanSend(window) /\ window' = Sent(window, lastSeqNo)
      /\ lastSeqNo' = HighWater(window, lastSeqNo)
      /\ up' = IF stream
               THEN Append(up, [type |-> "write", batch |-> Batch(window, lastSeqNo)])
               ELSE up
      /\ UNCHANGED <<state, hasEverConnected, stream, down, outputs, acked, written, log,
                     serverLast, numbering, seqNoMode, closing, closed, lastError>>
  BY DEF HandlePump, FlushTick, Pump
<1>3. [type |-> "write", batch |-> Batch(window, lastSeqNo)] \in Request
  BY <1>1, <1>2, BatchNotEmpty, RequestKinds
<1>4. CASE HandlePump
  <2>1. /\ mailbox # << >> /\ Head(mailbox).type = "pump"
        /\ \E posted \in {<< >>, <<PumpEvent>>} : mailbox' = Tail(mailbox) \o posted
    BY <1>4 DEF HandlePump, Handles, Event, Pump
  <2>2. PICK posted \in {<< >>, <<PumpEvent>>} : mailbox' = Tail(mailbox) \o posted
    BY <2>1
  <2>3. /\ mailbox' \in Seq(MailEvent)
        /\ \A t : Has(mailbox', t) => Has(mailbox, t) \/ t = "pump"
        /\ \A t : Has(mailbox, t) => t = "pump" \/ Has(mailbox', t)
        /\ One(mailbox) => One(mailbox')
    <3> DEFINE box == mailbox
    <3>1. /\ Tail(box) \o posted \in Seq(MailEvent)
          /\ \A t : Has(Tail(box) \o posted, t) =>
               Has(box, t) \/ (t = "pump" /\ posted = <<PumpEvent>>)
          /\ \A t : Has(box, t) => Head(box).type = t \/ Has(Tail(box) \o posted, t)
          /\ One(box) => One(Tail(box) \o posted)
      BY <1>1, <2>1, BoxTaken
    <3> QED
      BY <2>1, <2>2, <3>1
  <2> QED
    BY <1>2, <1>3, <2>3
<1>5. CASE FlushTick /\ CanSend(window)
  <2>1. /\ mailbox = << >>
        /\ \E posted \in {<< >>, <<PumpEvent>>} : mailbox' = mailbox \o posted
    BY <1>5 DEF FlushTick, Due, Pump
  <2>2. PumpEvent \in MailEvent /\ PumpEvent.type = "pump"
    BY EventKinds
  <2>3. mailbox \o << >> = mailbox /\ mailbox \o <<PumpEvent>> = Append(mailbox, PumpEvent)
        /\ Append(mailbox, PumpEvent) \in Seq(MailEvent)
    BY <1>1, <2>2, Added
  <2>4. /\ \A t : Has(Append(mailbox, PumpEvent), t) <=> Has(mailbox, t) \/ PumpEvent.type = t
        /\ One(mailbox) => One(Append(mailbox, PumpEvent))
    BY <1>1, <2>2, HasAdded, OneAdded
  <2>5. mailbox' = mailbox \/ mailbox' = Append(mailbox, PumpEvent)
    BY <2>1, <2>3
  <2> QED
    BY <1>1, <1>2, <1>3, <2>2, <2>3, <2>4, <2>5
<1> QED
  BY <1>4, <1>5

\* A batch is sent.
LEMMA PumpPhase ==
  ASSUME PlaceInv, Phase, HandlePump \/ (FlushTick /\ CanSend(window))
  PROVE  Phase' /\ (stream => ~Opening')
<1>1. /\ up' = IF stream
               THEN Append(up, [type |-> "write", batch |-> Batch(window, lastSeqNo)])
               ELSE up
      /\ [type |-> "write", batch |-> Batch(window, lastSeqNo)] \in Request
      /\ \A t : Has(mailbox', t) => Has(mailbox, t) \/ t = "pump"
      /\ One(mailbox) => One(mailbox')
      /\ UNCHANGED <<state, hasEverConnected, stream, down>>
  BY PumpQueues
<1>2. stream => ~Opening
  BY SendingOpened
<1> DEFINE request == [type |-> "write", batch |-> Batch(window, lastSeqNo)]
<1>3. request.type = "write" /\ request \in Request /\ up \in Seq(Request)
  BY <1>1 DEF PlaceInv, WriterInv, Types
<1>4. up' = IF stream THEN Append(up, request) ELSE up
  BY <1>1
<1> HIDE DEF request
<1>5. \A t : Has(Append(up, request), t) <=> Has(up, t) \/ request.type = t
  BY <1>3, HasAdded
<1>6. Has(up', "init") => Has(up, "init")
  BY <1>3, <1>4, <1>5
<1>7. Opening' => Opening
  BY <1>1, <1>6 DEF Opening
<1>8. Lines(up', down', mailbox', stream')
  <2>1. CASE stream
    <3>1. ~Has(up', "init") /\ ~Has(down', "init") /\ ~Has(mailbox', "init")
      BY <1>2, <1>7, <2>1 DEF Opening
    <3> QED
      BY <1>1, <2>1, <3>1 DEF Phase, Lines
  <2>2. CASE ~stream
    BY <1>1, <1>4, <2>2 DEF Phase, Lines
  <2> QED
    BY <2>1, <2>2
<1>9. Calm'
  BY <1>1, <1>2, <1>7 DEF Phase, Calm
<1> QED
  BY <1>1, <1>2, <1>7, <1>8, <1>9 DEF Phase

\* A stopped machine has no stream.
LEMMA StoppedPhase ==
  ASSUME NEW terminal \in Terminal, NEW emitted, Terminate(terminal, emitted)
  PROVE  Phase' /\ ~stream' /\ ~Opening'
<1>1. /\ state' = terminal /\ mailbox' = << >> /\ stream' = FALSE /\ up' = << >> /\ down' = << >>
  BY DEF Terminate
<1>2. ~Opening'
  BY <1>1, HasNothing DEF Opening
<1>3. Lines(up', down', mailbox', stream')
  BY <1>1, LinesEmpty
<1> QED
  BY <1>1, <1>2, <1>3 DEF Phase, Calm

\* Events of the public object.
LEMMA UserEventsPhase ==
  PlaceInv /\ Phase /\ (HandleWrite \/ HandleFlush \/ HandleClose \/ HandleDestroy) => Phase'
<1> SUFFICES ASSUME PlaceInv, Phase, HandleWrite \/ HandleFlush \/ HandleClose \/ HandleDestroy
             PROVE  Phase'
  OBVIOUS
<1> USE DEF streamVars
<1>0. /\ mailbox # << >> /\ Event = Head(mailbox) /\ Has(mailbox, Event.type)
      /\ UNCHANGED hasEverConnected
  <2>1. mailbox # << >> /\ Event = Head(mailbox) /\ UNCHANGED hasEverConnected
    BY DEF HandleWrite, HandleFlush, HandleClose, HandleDestroy, Handles, Event
  <2> QED
    BY <2>1, Mailbox, HasTaken DEF PlaceInv
<1>1. CASE HandleWrite
  <2>1. /\ UNCHANGED <<state, stream, up, down>> /\ state # "closing"
        /\ \E posted \in {<< >>, <<PumpEvent>>} : mailbox' = Tail(mailbox) \o posted
    BY <1>1 DEF HandleWrite, Handles, Then
  <2> QED
    BY <1>0, <2>1, TakenPhase
<1>2. CASE HandleFlush
  <2>1. /\ UNCHANGED <<state, stream, up, down>> /\ Event.type = "flush"
        /\ \E posted \in {<< >>, <<PumpEvent>>} : mailbox' = Tail(mailbox) \o posted
    BY <1>2 DEF HandleFlush, Handles, Then
  <2>2. ~(hasEverConnected /\ stream /\ Opening /\ state = "closing")
    BY <1>0, <2>1 DEF Phase, Calm
  <2> QED
    BY <1>0, <2>1, <2>2, TakenPhase
<1>3. CASE HandleClose
  <2>1. /\ state \in {"connecting", "ready", "reconnecting"} /\ Event.type = "close"
        /\ \/ Terminate("closed", << >>)
           \/ /\ UNCHANGED <<stream, up, down>> /\ state' = "closing"
              /\ mailbox' = Tail(mailbox) \o <<PumpEvent>>
    BY <1>3 DEF HandleClose, Handles, DrainedClose, Then
  <2>2. ~(hasEverConnected /\ stream /\ Opening)
    BY <1>0, <2>1 DEF Phase, Calm
  <2>3. CASE Terminate("closed", << >>)
    BY <2>3, StoppedPhase DEF Terminal
  <2>4. CASE /\ UNCHANGED <<stream, up, down>> /\ state' = "closing"
             /\ mailbox' = Tail(mailbox) \o <<PumpEvent>>
    BY <1>0, <2>2, <2>4, TakenPhase
  <2> QED
    BY <2>1, <2>3, <2>4
<1>4. CASE HandleDestroy
  BY <1>4, StoppedPhase DEF HandleDestroy, Terminal
<1> QED
  BY <1>1, <1>2, <1>3, <1>4

\* Events of the stream.
LEMMA StreamEventsPhase ==
  PlaceInv /\ Phase
    /\ (ToReady \/ InitWhileClosing \/ HandleAcks \/ Disconnected \/ DisconnectedFatal \/ Ignore)
    => Phase'
<1> SUFFICES ASSUME PlaceInv, Phase,
                    ToReady \/ InitWhileClosing \/ HandleAcks \/ Disconnected
                      \/ DisconnectedFatal \/ Ignore
             PROVE  Phase'
  OBVIOUS
<1> USE DEF streamVars, ctxVars
<1>0. mailbox # << >> /\ Event = Head(mailbox) /\ Has(mailbox, Event.type)
  <2>1. mailbox # << >> /\ Event = Head(mailbox)
    BY DEF ToReady, InitWhileClosing, HandleAcks, Disconnected, DisconnectedFatal, Ignore,
           Ignores, Handles, Event
  <2> QED
    BY <2>1, Mailbox, HasTaken DEF PlaceInv
<1>1. CASE ToReady \/ InitWhileClosing
  <2>1. /\ Event.type = "init"
        /\ \/ Terminate("closed", InitOutputs(Event.lastSeqNo))
           \/ /\ mailbox' = Tail(mailbox) \o <<PumpEvent>> /\ UNCHANGED <<stream, up, down>>
              /\ state' \in {"ready", "closing"}
    BY <1>1 DEF ToReady, InitWhileClosing, Handles, DrainedClose, Then
  <2>2. CASE Terminate("closed", InitOutputs(Event.lastSeqNo))
    BY <2>2, StoppedPhase DEF Terminal
  <2>3. CASE /\ mailbox' = Tail(mailbox) \o <<PumpEvent>> /\ UNCHANGED <<stream, up, down>>
             /\ state' \in {"ready", "closing"}
    BY <1>0, <2>1, <2>3, OpenedPhase
  <2> QED
    BY <2>1, <2>2, <2>3
<1>2. CASE HandleAcks
  <2>1. /\ Event.type = "acks"
        /\ \/ Terminate("closed", AckedOutputs)
           \/ /\ mailbox' = Tail(mailbox) \o <<PumpEvent>>
              /\ UNCHANGED <<stream, up, down, state, hasEverConnected>>
    BY <1>2 DEF HandleAcks, Handles, DrainedClose, Then
  <2>2. ~Opening
    BY <1>0, <2>1 DEF Phase, Lines, Opening
  <2>3. CASE Terminate("closed", AckedOutputs)
    BY <2>3, StoppedPhase DEF Terminal
  <2>4. CASE /\ mailbox' = Tail(mailbox) \o <<PumpEvent>>
             /\ UNCHANGED <<stream, up, down, state, hasEverConnected>>
    BY <1>0, <2>2, <2>4, TakenPhase
  <2> QED
    BY <2>1, <2>3, <2>4
<1>3. CASE Disconnected
  <2>1. /\ Event.type = "disconnected" /\ state' \in {"reconnecting", "closing"}
        /\ mailbox' = Tail(mailbox) \o << >>
        /\ UNCHANGED <<stream, up, down, hasEverConnected>>
    BY <1>3 DEF Disconnected, Handles, ToReconnecting, Then
  <2>2. ~stream
    BY <1>0, <2>1 DEF Phase, Lines
  <2> QED
    BY <1>0, <2>1, <2>2, TakenPhase
<1>4. CASE DisconnectedFatal
  BY <1>4, StoppedPhase DEF DisconnectedFatal, Terminal
<1>5. CASE Ignore
  <2>1. /\ mailbox' = Tail(mailbox) \o << >>
        /\ UNCHANGED <<stream, up, down, hasEverConnected, state>>
    BY <1>5 DEF Ignore, Then
  <2> QED
    BY <1>0, <2>1, TakenPhase
<1> QED
  BY <1>1, <1>2, <1>3, <1>4, <1>5

\* Timers: a new stream opens when nothing is left in the mailbox.
LEMMA TimersPhase == PlaceInv /\ Phase /\ TimerFires => Phase'
<1> SUFFICES ASSUME PlaceInv, Phase, TimerFires PROVE Phase'
  OBVIOUS
<1> USE DEF streamVars, ctxVars
<1>0. mailbox = << >> /\ \A t : ~Has(mailbox, t)
  BY HasNothing DEF TimerFires, StartTimeout, RetryBackoff, RecoveryWindow, GracefulTimeout,
                    FlushTick, Due
<1>1. CASE StartTimeout
  <2>1. /\ UNCHANGED <<stream, up, down, mailbox, hasEverConnected>> /\ state' # "ready"
    BY <1>1 DEF StartTimeout, ToReconnecting
  <2> QED
    BY <1>0, <2>1 DEF Phase, Calm
<1>2. CASE RetryBackoff
  <2> DEFINE r == [type |-> "init", getLastSeqNo |-> ~hasEverConnected]
  <2>1. /\ stream' = TRUE /\ up' = <<r>> /\ down' = << >> /\ mailbox' = mailbox
        /\ state' # "ready"
    BY <1>2 DEF RetryBackoff, Connect, Due
  <2>2. Len(up') = 1
    BY <2>1
  <2>3. One(mailbox')
    BY <2>1 DEF Phase, Lines
  <2>4. Lines(up', down', mailbox', stream')
    BY <1>0, <2>1, <2>2, <2>3, HasNothing DEF Lines
  <2>5. Calm'
    BY <1>0, <2>1 DEF Calm
  <2> QED
    BY <2>4, <2>5 DEF Phase
<1>3. CASE RecoveryWindow
  BY <1>3, StoppedPhase DEF RecoveryWindow, Terminal
<1>4. CASE GracefulTimeout
  BY <1>4, StoppedPhase DEF GracefulTimeout, Terminal
<1>5. CASE FlushTick
  <2>1. CASE CanSend(window)
    BY <1>5, <2>1, PumpPhase
  <2>2. CASE ~CanSend(window)
    BY <1>5, <2>2 DEF FlushTick, Phase, Calm, Opening
  <2> QED
    BY <2>1, <2>2
<1> QED
  BY <1>1, <1>2, <1>3, <1>4, <1>5 DEF TimerFires

\* The server and the stream.
LEMMA ServePhase == PlaceInv /\ Phase /\ (Serve \/ Deliver \/ Break) => Phase'
<1> SUFFICES ASSUME PlaceInv, Phase, Serve \/ Deliver \/ Break PROVE Phase'
  OBVIOUS
<1> USE DEF ctxVars
<1>0. /\ up \in Seq(Request) /\ down \in Seq(Response) /\ mailbox \in Seq(MailEvent)
      /\ UNCHANGED <<state, hasEverConnected>>
  BY Mailbox DEF PlaceInv, WriterInv, Types, Serve, ServeInit, ServeWrite, Deliver, Break
<1>1. CASE Serve
  <2>1. /\ up # << >> /\ up' = Tail(up) /\ UNCHANGED <<mailbox, stream>>
        /\ \/ Head(up).type = "init" /\ \E last : down' = Append(down, [type |-> "init", lastSeqNo |-> last])
           \/ Head(up).type = "write" /\ \E s : down' = Append(down, [type |-> "acks", seqNos |-> s])
    BY <1>1 DEF Serve, ServeInit, ServeWrite
  <2>2. /\ Len(up) \in Nat /\ Head(up) = up[1] /\ Len(Tail(up)) = Len(up) - 1
        /\ Tail(up) \in Seq(Request) /\ Has(up, Head(up).type)
        /\ \A t : Has(Tail(up), t) => Has(up, t)
    BY <1>0, <2>1, Taken, HasTaken
  <2>3. stream /\ ~Has(mailbox, "init")
    <3>1. up # << >>
      BY <2>1
    <3> QED
      BY <3>1 DEF Phase, Lines
  <2>4. CASE Head(up).type = "init" /\ \E last : down' = Append(down, [type |-> "init", lastSeqNo |-> last])
    <3>1. Has(up, "init")
      BY <2>2, <2>4
    <3>2. Len(up) = 1 /\ down = << >> /\ Opening
      BY <3>1 DEF Phase, Lines, Opening
    <3>3. up' = << >>
      BY <2>1, <2>2, <3>2, EmptySeq
    <3>4. Len(down') = 1
      BY <2>4, <3>2
    <3>5. Lines(up', down', mailbox', stream')
      BY <2>1, <2>3, <3>1, <3>3, <3>4, HasNothing DEF Phase, Lines
    <3>6. Calm'
      BY <1>0, <2>1, <3>2 DEF Phase, Calm
    <3> QED
      BY <3>5, <3>6 DEF Phase
  <2>5. CASE Head(up).type = "write" /\ \E s : down' = Append(down, [type |-> "acks", seqNos |-> s])
    <3>1. ~Has(up, "init")
      <4>1. ASSUME Has(up, "init") PROVE FALSE
        <5>1. Len(up) = 1
          BY <4>1 DEF Phase, Lines
        <5>2. PICK i \in 1 .. Len(up) : up[i].type = "init"
          BY <4>1 DEF Has
        <5> QED
          BY <2>2, <2>5, <5>1, <5>2
      <4> QED
        BY <4>1
    <3>2. ~Has(down, "init")
      BY <2>1 DEF Phase, Lines
    <3>3. PICK s : down' = Append(down, [type |-> "acks", seqNos |-> s])
      BY <2>5
    <3>4. ~Has(down', "init")
      <4> DEFINE e == [type |-> "acks", seqNos |-> s]
      <4>1. e.type = "acks" /\ down \in Seq(Response \cup {e}) /\ e \in Response \cup {e}
        BY <1>0
      <4> HIDE DEF e
      <4>2. Has(Append(down, e), "init") <=> Has(down, "init") \/ e.type = "init"
        BY <4>1, HasAdded
      <4> QED
        BY <3>2, <3>3, <4>1, <4>2 DEF e
    <3>5. ~Has(up', "init") /\ ~Opening'
      BY <2>1, <2>2, <2>3, <3>1, <3>4 DEF Opening
    <3>6. Lines(up', down', mailbox', stream')
      BY <2>1, <2>3, <3>4, <3>5 DEF Phase, Lines
    <3>7. Calm'
      BY <1>0, <2>1, <3>5 DEF Phase, Calm
    <3> QED
      BY <3>6, <3>7 DEF Phase
  <2> QED
    BY <2>1, <2>4, <2>5
<1>2. CASE Deliver
  <2>1. /\ down # << >> /\ down' = Tail(down) /\ mailbox' = Append(mailbox, Head(down))
        /\ UNCHANGED <<stream, up>>
    BY <1>2 DEF Deliver
  <2>2. /\ Len(down) \in Nat /\ Head(down) = down[1] /\ Len(Tail(down)) = Len(down) - 1
        /\ Head(down) \in Response /\ Tail(down) \in Seq(Response)
        /\ Has(down, Head(down).type)
        /\ \A t : Has(Tail(down), t) => Has(down, t)
    BY <1>0, <2>1, Taken, HasTaken
  <2>3. Head(down) \in MailEvent /\ Head(down).type \in {"init", "acks"}
    BY <2>2, EventKinds
  <2>4. \A t : Has(mailbox', t) <=> Has(mailbox, t) \/ Head(down).type = t
    BY <1>0, <2>1, <2>3, HasAdded
  <2>5. stream /\ ~Has(mailbox, "init") /\ ~Has(up, "init")
    <3>1. down # << >>
      BY <2>1
    <3> QED
      BY <3>1 DEF Phase, Lines
  <2>6. One(mailbox')
    BY <1>0, <2>1, <2>3, <2>5, OneAdded DEF Phase, Lines
  <2>7. CASE Head(down).type = "init"
    <3>1. Has(down, "init")
      BY <2>2, <2>7
    <3>2. Len(down) = 1 /\ up = << >> /\ Opening
      BY <3>1 DEF Phase, Lines, Opening
    <3>3. down' = << >>
      BY <2>1, <2>2, <3>2, EmptySeq
    <3>4. Lines(up', down', mailbox', stream')
      BY <2>1, <2>4, <2>5, <2>6, <2>7, <3>1, <3>2, <3>3, HasNothing DEF Phase, Lines
    <3>5. Calm'
      BY <1>0, <2>1, <2>4, <2>7, <3>2 DEF Phase, Calm
    <3> QED
      BY <3>4, <3>5 DEF Phase
  <2>8. CASE Head(down).type = "acks"
    <3>1. ~Has(down, "init")
      <4>1. ASSUME Has(down, "init") PROVE FALSE
        <5>1. Len(down) = 1
          BY <4>1 DEF Phase, Lines
        <5>2. PICK i \in 1 .. Len(down) : down[i].type = "init"
          BY <4>1 DEF Has
        <5> QED
          BY <2>2, <2>8, <5>1, <5>2
      <4> QED
        BY <4>1
    <3>2. ~Has(down', "init") /\ ~Has(mailbox', "init") /\ ~Has(up', "init") /\ ~Opening'
      BY <2>1, <2>2, <2>4, <2>5, <2>8, <3>1 DEF Opening
    <3>3. Lines(up', down', mailbox', stream')
      BY <2>1, <2>4, <2>5, <2>6, <2>8, <3>2 DEF Phase, Lines
    <3>4. Calm'
      BY <1>0, <2>1, <2>4, <2>8, <3>2 DEF Phase, Calm
    <3> QED
      BY <3>3, <3>4 DEF Phase
  <2> QED
    BY <2>3, <2>7, <2>8
<1>3. CASE Break
  <2>1. /\ stream' = FALSE /\ up' = << >> /\ down' = << >>
        /\ \E fatal \in BOOLEAN : mailbox' = Append(mailbox, [type |-> "disconnected", fatal |-> fatal])
    BY <1>3 DEF Break
  <2>2. PICK fatal \in BOOLEAN : mailbox' = Append(mailbox, [type |-> "disconnected", fatal |-> fatal])
    BY <2>1
  <2> DEFINE e == [type |-> "disconnected", fatal |-> fatal]
  <2>3. e \in MailEvent /\ e.type = "disconnected" /\ mailbox' = Append(mailbox, e)
    BY <2>2, EventKinds
  <2> HIDE DEF e
  <2>4. \A t : Has(mailbox', t) <=> Has(mailbox, t) \/ e.type = t
    BY <1>0, <2>3, HasAdded
  <2>5. One(mailbox')
    BY <1>0, <2>3, OneAdded DEF Phase, Lines
  <2>6. Opening' => Opening
    BY <2>1, <2>3, <2>4, HasNothing DEF Opening
  <2>7. Lines(up', down', mailbox', stream')
    BY <2>1, <2>3, <2>4, <2>5, HasNothing DEF Phase, Lines
  <2>8. Calm'
    BY <1>0, <2>1, <2>6 DEF Phase, Calm
  <2> QED
    BY <2>7, <2>8 DEF Phase
<1> QED
  BY <1>1, <1>2, <1>3

\* The user: close() is not called during a reconnect, and flush() not after it.
LEMMA UserPhase == OrderlyClose /\ PlaceInv /\ Phase /\ User => Phase'
<1> SUFFICES ASSUME OrderlyClose, PlaceInv, Phase, User PROVE Phase'
  OBVIOUS
<1> USE DEF machineOnly, ctxVars, streamVars
<1>0. mailbox \in Seq(MailEvent) /\ UNCHANGED <<state, hasEverConnected, stream, up, down>>
  BY Mailbox DEF PlaceInv, User, Write, Close, Destroy, Flush, FlushAborts
<1>1. ASSUME NEW e \in MailEvent, mailbox' = mailbox \/ mailbox' = Append(mailbox, e),
             e.type \in {"write", "flush", "close", "destroy"},
             e.type = "close" => state = "ready" \/ ~hasEverConnected,
             e.type = "flush" => state # "closing"
      PROVE  Phase'
  <2>1. /\ \A t : Has(mailbox', t) => Has(mailbox, t) \/ e.type = t
        /\ One(mailbox')
    <3>1. \A t : Has(Append(mailbox, e), t) <=> Has(mailbox, t) \/ e.type = t
      BY <1>0, HasAdded
    <3>2. One(mailbox) /\ One(Append(mailbox, e))
      BY <1>0, <1>1, OneAdded DEF Phase, Lines
    <3> QED
      BY <1>1, <3>1, <3>2
  <2>2. Opening' => Opening
    BY <1>0, <1>1, <2>1 DEF Opening
  <2>3. Lines(up', down', mailbox', stream')
    BY <1>0, <1>1, <2>1 DEF Phase, Lines
  <2>4. Calm'
    BY <1>0, <1>1, <2>1, <2>2 DEF Phase, Calm
  <2> QED
    BY <2>3, <2>4 DEF Phase
<1>2. CASE Write
  <2>1. written \in Nat
    BY DEF PlaceInv, WriterInv, Types
  <2> DEFINE e == [type |-> "write", id |-> written + 1]
  <2>2. e \in MailEvent /\ e.type = "write"
    BY <2>1, EventKinds
  <2>3. mailbox' = mailbox \/ mailbox' = Append(mailbox, e)
    BY <1>2 DEF Write, Dispatch
  <2> HIDE DEF e
  <2> QED
    BY <1>1, <2>2, <2>3
<1>3. ASSUME NEW f \in Flusher, Flush(f) PROVE Phase'
  <2> DEFINE e == [type |-> "flush"]
  <2>1. e \in MailEvent /\ e.type = "flush"
    BY EventKinds
  <2>2. (mailbox' = mailbox \/ mailbox' = Append(mailbox, e)) /\ ~closing
    BY <1>3 DEF Flush, Dispatch
  <2>3. state # "closing"
    BY <2>2 DEF PlaceInv, CallsInv
  <2> HIDE DEF e
  <2> QED
    BY <1>1, <2>1, <2>2, <2>3
<1>4. CASE Close
  <2> DEFINE e == [type |-> "close"]
  <2>1. e \in MailEvent /\ e.type = "close"
    BY EventKinds
  <2>2. /\ mailbox' = mailbox \/ mailbox' = Append(mailbox, e)
        /\ state = "ready" \/ ~hasEverConnected
    BY <1>4 DEF Close, Dispatch
  <2> HIDE DEF e
  <2> QED
    BY <1>1, <2>1, <2>2
<1>5. CASE Destroy
  <2> DEFINE e == [type |-> "destroy"]
  <2>1. e \in MailEvent /\ e.type = "destroy"
    BY EventKinds
  <2>2. mailbox' = mailbox \/ mailbox' = Append(mailbox, e)
    BY <1>5 DEF Destroy, Dispatch
  <2> HIDE DEF e
  <2> QED
    BY <1>1, <2>1, <2>2
<1>6. ASSUME NEW f \in Flusher, FlushAborts(f) PROVE Phase'
  BY <1>0, <1>6 DEF FlushAborts, Phase, Calm, Opening
<1> QED
  BY <1>2, <1>3, <1>4, <1>5, <1>6 DEF User

\* Every step keeps the phase.
LEMMA PhaseStep == OrderlyClose /\ PlaceInv /\ Phase /\ [Next]_vars => Phase'
<1> SUFFICES ASSUME OrderlyClose, PlaceInv, Phase, [Next]_vars PROVE Phase'
  OBVIOUS
<1>1. CASE HandleEvent
  <2>1. CASE HandlePump
    BY <2>1, PumpPhase
  <2> QED
    BY <1>1, <2>1, UserEventsPhase, StreamEventsPhase DEF HandleEvent
<1>2. CASE ConsumeOutput \/ UNCHANGED vars
  <2>1. UNCHANGED <<state, hasEverConnected, stream, up, down, mailbox>>
    BY <1>2 DEF ConsumeOutput, ConsumeAcks, ConsumeFlushed, ConsumeError, ConsumeClosed,
                consumeUnchanged, vars, ctxVars, streamVars
  <2> QED
    BY <2>1 DEF Phase, Calm, Opening
<1> QED
  BY <1>1, <1>2, TimersPhase, ServePhase, UserPhase DEF Next

-----------------------------------------------------------------------------
(* Numbers                                                                  *)

\* The caller's number, or the one above what the server had at the start; an auto message
\* has it once it is sent, and the messages that are sent are those up to lastSeqNo.
Number(id, last) ==
  IF Manual THEN id ELSE IF Recovered + id <= last THEN Recovered + id ELSE 0

Named(w, last) ==
  \A p \in w.inflightStart + 1 .. Len(w.messages) :
    w.messages[p].seqNo = Number(w.messages[p].id, last)

\* What is reported was sent, what is queued was not.
Marks(out, box, a, n, last) ==
  /\ last <= Recovered + n
  /\ \A m \in RepIds(out) \cup {a} : m = 0 \/ Recovered + m <= last
  /\ \A m \in QueIds(box) : last < Recovered + m

Numbers ==
  /\ Named(window, lastSeqNo)
  /\ state = "ready" => hasEverConnected
  /\ ~Manual =>
       /\ Marks(outputs, mailbox, acked, written, lastSeqNo)
       /\ seqNoMode # "manual"
       /\ hasEverConnected => Recovered <= lastSeqNo

\* Before the first session nothing has a number, and every init tells what the server had.
Tells(queue) ==
  \A i \in 1 .. Len(queue) :
    queue[i].type = "init" => queue[i] = [type |-> "init", lastSeqNo |-> Recovered]

Asks(queue) ==
  \A i \in 1 .. Len(queue) : queue[i] = [type |-> "init", getLastSeqNo |-> TRUE]

Starting ==
  ~Manual /\ ~hasEverConnected =>
    /\ lastSeqNo = 0 /\ serverLast = Recovered
    /\ Asks(up) /\ Tells(down) /\ Tells(mailbox)

NumberInv == PlaceInv /\ EndInv /\ Numbers /\ Starting

\* Nothing is under way, one is taken, one is added.
LEMMA TellsKept ==
  ASSUME NEW S, NEW q \in Seq(S), Tells(q)
  PROVE  /\ Tells(<< >>)
         /\ q # << >> => Tells(Tail(q))
         /\ \A e \in S : (e.type = "init" => e = [type |-> "init", lastSeqNo |-> Recovered]) =>
              Tells(Append(q, e))
<1>1. Tells(<< >>)
  <2>1. Len(<< >>) = 0 /\ \A i \in 1 .. 0 : FALSE
    OBVIOUS
  <2> QED
    BY <2>1 DEF Tells
<1>2. q # << >> => Tells(Tail(q))
  BY Taken DEF Tells
<1>3. ASSUME NEW e \in S, e.type = "init" => e = [type |-> "init", lastSeqNo |-> Recovered]
      PROVE  Tells(Append(q, e))
  <2> DEFINE more == Append(q, e)
  <2>1. /\ Len(q) \in Nat /\ Len(more) = Len(q) + 1
        /\ \A i \in 1 .. Len(q) : more[i] = q[i]
        /\ more[Len(q) + 1] = e
    BY Added
  <2> HIDE DEF more
  <2>2. \A i \in 1 .. Len(more) : i \in 1 .. Len(q) \/ i = Len(q) + 1
    BY <2>1
  <2>3. Tells(more)
    BY <1>3, <2>1, <2>2 DEF Tells
  <2> QED
    BY <2>3 DEF more
<1> QED
  BY <1>1, <1>2, <1>3

LEMMA AsksKept ==
  ASSUME NEW S, NEW q \in Seq(S), Asks(q)
  PROVE  /\ Asks(<< >>) /\ Asks(<<[type |-> "init", getLastSeqNo |-> TRUE]>>)
         /\ q # << >> => Asks(Tail(q)) /\ Head(q) = [type |-> "init", getLastSeqNo |-> TRUE]
<1>1. Asks(<< >>)
  <2>1. Len(<< >>) = 0 /\ \A i \in 1 .. 0 : FALSE
    OBVIOUS
  <2> QED
    BY <2>1 DEF Asks
<1>2. Asks(<<[type |-> "init", getLastSeqNo |-> TRUE]>>)
  <2> DEFINE r == [type |-> "init", getLastSeqNo |-> TRUE]
  <2> HIDE DEF r
  <2>1. Len(<<r>>) = 1 /\ <<r>>[1] = r /\ \A i \in 1 .. 1 : i = 1
    OBVIOUS
  <2>2. \A i \in 1 .. Len(<<r>>) : <<r>>[i] = r
    BY <2>1
  <2> QED
    BY <2>2 DEF Asks, r
<1>3. ASSUME q # << >> PROVE Asks(Tail(q)) /\ Head(q) = [type |-> "init", getLastSeqNo |-> TRUE]
  <2>1. /\ 1 \in 1 .. Len(q) /\ Head(q) = q[1]
        /\ \A i \in 1 .. Len(Tail(q)) : Tail(q)[i] = q[i + 1] /\ i + 1 \in 1 .. Len(q)
    BY <1>3, Taken
  <2> QED
    BY <2>1 DEF Asks
<1> QED
  BY <1>1, <1>2, <1>3

\* What the numbers say about the window.
LEMMA Positions ==
  ASSUME PlaceInv, Numbers
  PROVE  /\ window.messages \in Seq(Message) /\ Len(window.messages) \in Nat
         /\ window.inflightStart \in Nat /\ window.bufferStart \in Nat
         /\ window.inflightStart <= window.bufferStart
         /\ window.bufferStart <= Len(window.messages)
         /\ acked \in Nat /\ written \in Nat /\ lastSeqNo \in Nat /\ Recovered \in Nat
         /\ \A p \in window.inflightStart + 1 .. Len(window.messages) :
              /\ p \in 1 .. Len(window.messages)
              /\ window.messages[p].id \in acked + 1 .. written
              /\ window.messages[p].id \in WinIds(window)
              /\ ~Manual =>
                   IF Recovered + window.messages[p].id <= lastSeqNo
                   THEN window.messages[p].seqNo = Recovered + window.messages[p].id
                   ELSE window.messages[p].seqNo = 0
              /\ Manual => window.messages[p].seqNo = window.messages[p].id
         /\ \A p \in window.inflightStart + 1 .. window.bufferStart :
              /\ p \in window.inflightStart + 1 .. Len(window.messages)
              /\ window.messages[p].seqNo # 0
              /\ ~Manual => Recovered + window.messages[p].id <= lastSeqNo
<1> DEFINE M == window.messages
           s == window.inflightStart
           b == window.bufferStart
<1>1. /\ Sound(window, lastSeqNo) /\ window \in Window /\ WindowShape(window)
      /\ WindowNumbers(window) /\ lastSeqNo \in Nat
      /\ Tiled(RepIds(outputs), WinIds(window), QueIds(mailbox), acked, written)
  BY DEF PlaceInv, WriterInv, Places, Ordered, Sound
<1>2. /\ M \in Seq(Message) /\ Len(M) \in Nat /\ s \in Nat /\ b \in Nat /\ s <= b /\ b <= Len(M)
      /\ acked \in Nat /\ written \in Nat /\ Recovered \in Nat
  <2>1. /\ M \in Seq(Message) /\ Len(M) \in Nat /\ s \in Nat /\ b \in Nat
        /\ window.inflightLength \in Nat /\ window.bufferLength \in Nat
        /\ b = s + window.inflightLength /\ Len(M) = b + window.bufferLength
    BY <1>1, WindowFields
  <2>2. acked \in Nat /\ written \in Nat /\ Recovered \in Nat
    BY <1>1, WriterAssumption DEF Tiled
  <2> HIDE DEF M, s, b
  <2> QED
    BY <2>1, <2>2
<1>3. ASSUME NEW p \in s + 1 .. Len(M)
      PROVE  p \in 1 .. Len(M) /\ M[p].id \in WinIds(window) /\ M[p].id \in acked + 1 .. written
  <2>1. p \in 1 .. Len(M)
    BY <1>2
  <2>2. M[p].id \in WinIds(window)
    BY DEF WinIds
  <2> QED
    BY <1>1, <2>1, <2>2 DEF Tiled
<1>4. ASSUME NEW p \in s + 1 .. Len(M) PROVE M[p].seqNo = Number(M[p].id, lastSeqNo)
  BY DEF Numbers, Named
<1>5. ASSUME NEW p \in s + 1 .. b PROVE p \in s + 1 .. Len(M) /\ M[p].seqNo # 0
  <2>1. p \in s + 1 .. Len(M) /\ p \in 1 .. b
    BY <1>2
  <2> QED
    BY <1>1, <2>1 DEF WindowNumbers
<1>6. ASSUME NEW p \in s + 1 .. b, ~Manual PROVE Recovered + M[p].id <= lastSeqNo
  BY <1>4, <1>5, <1>6 DEF Number
<1>7. ASSUME NEW p \in s + 1 .. Len(M)
      PROVE  /\ ~Manual => IF Recovered + M[p].id <= lastSeqNo
                           THEN M[p].seqNo = Recovered + M[p].id
                           ELSE M[p].seqNo = 0
             /\ Manual => M[p].seqNo = M[p].id
  BY <1>4 DEF Number
<1> QED
  BY <1>1, <1>2, <1>3, <1>5, <1>6, <1>7

\* The identities of what is in flight.
InflightIds(w) == {w.messages[p].id : p \in w.inflightStart + 1 .. w.bufferStart}

\* Numbers stay while the last one given does.
LEMMA NumbersKept ==
  ASSUME PlaceInv, Numbers, UNCHANGED numbering,
         ~Manual => lastSeqNo' = lastSeqNo /\ seqNoMode' # "manual",
         ~Manual /\ hasEverConnected' => Recovered <= lastSeqNo,
         state' = "ready" => hasEverConnected',
         \A p \in window'.inflightStart + 1 .. Len(window'.messages) :
           window'.messages[p].seqNo = Number(window'.messages[p].id, lastSeqNo),
         RepIds(outputs') \subseteq RepIds(outputs) \cup InflightIds(window),
         acked' \in RepIds(outputs) \cup {acked},
         written' \in {written, written + 1},
         QueIds(mailbox') \subseteq QueIds(mailbox) \cup {written + 1}
  PROVE  Numbers'
<1>1. /\ acked \in Nat /\ written \in Nat /\ lastSeqNo \in Nat /\ Recovered \in Nat
      /\ \A p \in window.inflightStart + 1 .. window.bufferStart :
           ~Manual => Recovered + window.messages[p].id <= lastSeqNo
  BY Positions
<1>2. \A m : Number(m, lastSeqNo)' = Number(m, lastSeqNo)
  BY DEF Number, Manual
<1>3. Named(window, lastSeqNo)'
  <2> SUFFICES ASSUME NEW p \in window'.inflightStart + 1 .. Len(window'.messages)
               PROVE  (window.messages[p].seqNo = Number(window.messages[p].id, lastSeqNo))'
    BY DEF Named
  <2>1. window'.messages[p].seqNo = Number(window'.messages[p].id, lastSeqNo)
    OBVIOUS
  <2> QED
    BY <2>1 DEF Number, Manual
<1>4. ASSUME ~Manual
      PROVE  Marks(outputs', mailbox', acked', written', lastSeqNo)
  <2>1. Marks(outputs, mailbox, acked, written, lastSeqNo)
    BY <1>4 DEF Numbers
  <2>2. lastSeqNo <= Recovered + written' /\ lastSeqNo < Recovered + (written + 1)
    <3>1. lastSeqNo <= Recovered + written
      BY <2>1 DEF Marks
    <3>2. written' = written \/ written' = written + 1
      OBVIOUS
    <3>3. lastSeqNo < Recovered + (written + 1)
      BY ONLY <1>1, <3>1
    <3> QED
      BY ONLY <1>1, <3>1, <3>2, <3>3
  <2>3. \A m \in InflightIds(window) : Recovered + m <= lastSeqNo
    BY <1>1, <1>4 DEF InflightIds
  <2>4. \A m \in RepIds(outputs') \cup {acked'} : m = 0 \/ Recovered + m <= lastSeqNo
    BY <2>1, <2>3 DEF Marks
  <2>5. \A m \in QueIds(mailbox') : lastSeqNo < Recovered + m
    BY <2>1, <2>2 DEF Marks
  <2> QED
    BY <2>2, <2>4, <2>5 DEF Marks
<1>5. Manual' <=> Manual
  BY DEF Manual
<1>6. ~Manual' => Marks(outputs', mailbox', acked', written', lastSeqNo')
  BY <1>4, <1>5
<1> QED
  BY <1>3, <1>5, <1>6 DEF Numbers

\* What has no number in the buffer, up to a message without one.
LEMMA CountedUp ==
  ASSUME PlaceInv, Numbers, ~Manual, Recovered <= lastSeqNo,
         NEW p \in window.bufferStart + 1 .. Len(window.messages),
         lastSeqNo < Recovered + window.messages[p].id
  PROVE  lastSeqNo + Unnumbered(window, p - window.bufferStart) = Recovered + window.messages[p].id
<1> DEFINE M == window.messages
           s == window.inflightStart
           b == window.bufferStart
           last == lastSeqNo
           W == WinIds(window)
           m == last + 1 - Recovered
<1>1. /\ M \in Seq(Message) /\ Len(M) \in Nat /\ s \in Nat /\ b \in Nat /\ s <= b /\ b <= Len(M)
      /\ acked \in Nat /\ written \in Nat /\ last \in Nat /\ Recovered \in Nat
      /\ \A x \in s + 1 .. Len(M) :
           /\ x \in 1 .. Len(M) /\ M[x].id \in acked + 1 .. written /\ M[x].id \in W
           /\ IF Recovered + M[x].id <= last
              THEN M[x].seqNo = Recovered + M[x].id
              ELSE M[x].seqNo = 0
      /\ \A x \in s + 1 .. b : x \in s + 1 .. Len(M) /\ Recovered + M[x].id <= last
  BY Positions
<1>2. /\ Tiled(RepIds(outputs), W, QueIds(mailbox), acked, written)
      /\ Run(M, s + 1, Len(M))
      /\ W = {M[x].id : x \in s + 1 .. Len(M)}
      /\ Marks(outputs, mailbox, acked, written, last)
  BY DEF PlaceInv, Places, Ordered, WindowRun, Numbers, WinIds
<1>u. /\ Unnumbered(window, p - b) =
           Cardinality({x \in b + 1 .. b + (p - b) : M[x].seqNo = 0})
      /\ p \in b + 1 .. Len(M) /\ last < Recovered + M[p].id /\ Recovered <= last
  BY DEF Unnumbered
<1> HIDE DEF M, s, b, last, W
<1>3. \A x, y \in s + 1 .. Len(M) :
        /\ M[x].id \in Nat /\ M[y].id \in Nat
        /\ M[y].id + x = M[x].id + y
        /\ x < y <=> M[x].id < M[y].id
  BY <1>1, <1>2, RunOrder
<1>4. p \in s + 1 .. Len(M) /\ b + (p - b) = p
  BY <1>1, <1>u
<1>5. /\ M[p].id \in Nat /\ M[p].id \in acked + 1 .. written /\ M[p].id \in W
  BY <1>1, <1>3, <1>4
<1>6. m \in acked + 1 .. M[p].id
  <2>1. acked = 0 \/ Recovered + acked <= last
    BY <1>2 DEF Marks
  <2>2. m >= acked + 1
    BY <1>1, <1>u, <2>1
  <2>3. m <= M[p].id
    BY <1>1, <1>5, <1>u
  <2> QED
    BY <1>1, <1>5, <2>2, <2>3
<1>7. m \in Nat /\ m # 0 /\ Recovered + m = last + 1
  BY <1>1, <1>u
<1> HIDE DEF m
<1>8. m \in W
  <2>1. m \in RepIds(outputs) \cup W \cup QueIds(mailbox)
    BY <1>2, <1>5, <1>6 DEF Tiled
  <2>2. m \notin RepIds(outputs)
    <3>1. ~(Recovered + m <= last)
      BY <1>1, <1>7
    <3> QED
      BY <1>2, <1>7, <3>1 DEF Marks
  <2>3. m \notin QueIds(mailbox)
    <3>1. ~(M[p].id < m)
      BY <1>5, <1>6, <1>7
    <3> QED
      BY <1>2, <1>5, <3>1 DEF Tiled, Before
  <2> QED
    BY <2>1, <2>2, <2>3
<1>9. PICK q \in s + 1 .. Len(M) : M[q].id = m
  BY <1>2, <1>8
<1>10. q \notin s + 1 .. b
  <2>1. ~(Recovered + M[q].id <= last)
    BY <1>1, <1>7, <1>9
  <2> QED
    BY <1>1, <2>1
<1>11. q \in b + 1 .. p
  <2>1. ~(p < q)
    <3>1. ~(M[p].id < m)
      BY <1>5, <1>6, <1>7
    <3> QED
      BY <1>3, <1>4, <1>9, <3>1
  <2>2. q \in Nat /\ p \in Nat /\ q <= p
    BY <1>1, <1>4, <1>9, <2>1
  <2>3. q > b
    BY <1>1, <1>9, <1>10, <2>2
  <2> QED
    BY <1>1, <2>2, <2>3
<1>12. {x \in b + 1 .. p : M[x].seqNo = 0} = q .. p
  <2>1. ASSUME NEW x \in b + 1 .. p PROVE M[x].seqNo = 0 <=> q <= x
    <3>1. x \in s + 1 .. Len(M)
      BY <1>1, <1>4
    <3>2. /\ M[x].id \in Nat /\ x \in Nat /\ q \in Nat
          /\ x < q <=> M[x].id < m
      BY <1>1, <1>3, <1>9, <3>1
    <3>3. Recovered + M[x].id <= last <=> M[x].id < m
      <4> DEFINE i == M[x].id
      <4>1. i \in Nat
        BY <3>2
      <4> HIDE DEF i
      <4>2. Recovered + i <= last <=> i < m
        BY <1>1, <1>7, <4>1
      <4> QED
        BY <4>2 DEF i
    <3>4. Recovered + M[x].id <= last => M[x].seqNo # 0
      <4> DEFINE i == M[x].id
      <4>1. Recovered + i <= last => M[x].seqNo = Recovered + i
        BY <1>1, <3>1
      <4>2. i \in Nat /\ i # 0
        BY <1>1, <3>1, <3>2
      <4> HIDE DEF i
      <4> QED
        BY <1>1, <4>1, <4>2 DEF i
    <3>5. ~(Recovered + M[x].id <= last) => M[x].seqNo = 0
      BY <1>1, <3>1
    <3>6. x < q <=> ~(q <= x)
      BY <3>2
    <3> QED
      BY <3>2, <3>3, <3>4, <3>5, <3>6
  <2>2. q .. p \subseteq b + 1 .. p
    BY <1>1, <1>11
  <2>3. \A x \in b + 1 .. p : x \in q .. p <=> q <= x
    BY <1>1, <1>11
  <2> QED
    BY <2>1, <2>2, <2>3
<1>13. Cardinality(q .. p) = p - q + 1
  <2>1. p \in Int /\ q \in Int /\ q <= p
    BY <1>1, <1>11
  <2> QED
    BY <2>1, FS_Interval
<1>14. Unnumbered(window, p - b) = p - q + 1
  BY <1>4, <1>12, <1>13, <1>u
<1>15. M[p].id + q = m + p
  BY <1>3, <1>4, <1>9
<1>16. last + (p - q + 1) = Recovered + M[p].id
  <2> DEFINE i == M[p].id
  <2>1. i \in Nat /\ p \in Nat /\ q \in Nat /\ i + q = m + p
    BY <1>1, <1>5, <1>11, <1>15
  <2> HIDE DEF i
  <2>2. last + (p - q + 1) = Recovered + i
    BY <1>1, <1>7, <2>1
  <2> QED
    BY <2>2 DEF i
<1> QED
  BY <1>14, <1>16 DEF last, M, b

\* A batch takes the next messages of the window; the last number given is then that of
\* its last message, unless that one had a number already.
LEMMA BatchMark ==
  ASSUME PlaceInv, Numbers, ~Manual, Recovered <= lastSeqNo, CanSend(window)
  PROVE  LET high == HighWater(window, lastSeqNo)
             end == window.bufferStart + BatchSize(window)
         IN /\ end \in window.bufferStart + 1 .. Len(window.messages)
            /\ high \in Nat /\ lastSeqNo <= high
            /\ Recovered + window.messages[end].id <= high
            /\ high = lastSeqNo \/ high = Recovered + window.messages[end].id
<1> DEFINE M == window.messages
           s == window.inflightStart
           b == window.bufferStart
           k == BatchSize(window)
           end == b + k
           last == lastSeqNo
           high == HighWater(window, lastSeqNo)
<1>1. /\ M \in Seq(Message) /\ Len(M) \in Nat /\ s \in Nat /\ b \in Nat /\ s <= b /\ b <= Len(M)
      /\ last \in Nat /\ Recovered \in Nat
      /\ \A x \in s + 1 .. Len(M) :
           /\ IF Recovered + M[x].id <= last
              THEN M[x].seqNo = Recovered + M[x].id
              ELSE M[x].seqNo = 0
           /\ M[x].id \in acked + 1 .. written
      /\ acked \in Nat /\ written \in Nat
  BY Positions
<1>2. /\ Sound(window, last) /\ window \in Window /\ WindowShape(window)
      /\ Run(M, s + 1, Len(M))
  BY DEF PlaceInv, WriterInv, Places, Ordered, WindowRun, Sound
<1>3. /\ k \in Nat /\ k <= window.bufferLength /\ k >= 1
      /\ Len(M) = b + window.bufferLength /\ window.bufferLength \in Nat
  BY <1>2, BatchSizes, WindowFields
<1>4. high \in Nat /\ last <= high
  BY <1>2, SentSound
<1>5. \A p, q \in s + 1 .. Len(M) :
        /\ M[p].id \in Nat /\ M[q].id \in Nat
        /\ p < q <=> M[p].id < M[q].id
  BY <1>1, <1>2, RunOrder
<1>6. high = last + Unnumbered(window, k)
  BY DEF HighWater
<1>7. Unnumbered(window, k) = Cardinality({p \in b + 1 .. b + k : M[p].seqNo = 0})
  BY DEF Unnumbered
<1>8. ASSUME NEW p \in b + 1 .. Len(M), last < Recovered + M[p].id
      PROVE  last + Unnumbered(window, p - b) = Recovered + M[p].id
  BY <1>8, CountedUp
<1> HIDE DEF M, s, b, k, last, high
<1>9. end \in b + 1 .. Len(M) /\ end \in s + 1 .. Len(M) /\ end - b = k
  BY <1>1, <1>3
<1>10. CASE last < Recovered + M[end].id
  <2>1. high = Recovered + M[end].id
    BY <1>6, <1>8, <1>9, <1>10
  <2>2. Recovered + M[end].id <= high
    BY <1>4, <2>1
  <2> QED
    BY <1>4, <1>9, <2>1, <2>2 DEF M, b, k, last, high
<1>11. CASE ~(last < Recovered + M[end].id)
  <2> DEFINE i == M[end].id
  <2>1. i \in Nat /\ Recovered + i <= last
    BY <1>1, <1>5, <1>9, <1>11
  <2> HIDE DEF i
  <2>2. ASSUME NEW p \in b + 1 .. b + k PROVE M[p].seqNo # 0
    <3>1. p \in s + 1 .. Len(M) /\ ~(end < p)
      BY <1>1, <1>3
    <3>2. M[p].id \in Nat /\ ~(i < M[p].id)
      BY <1>5, <1>9, <3>1 DEF i
    <3>3. M[p].id \in acked + 1 .. written
      BY <1>1, <3>1
    <3> DEFINE j == M[p].id
    <3>4. Recovered + j <= last => M[p].seqNo = Recovered + j
      BY <1>1, <3>1
    <3>5. j \in Nat /\ ~(i < j) /\ j # 0
      BY <1>1, <3>2, <3>3
    <3> HIDE DEF j
    <3>6. Recovered + j <= last /\ Recovered + j # 0
      BY <1>1, <2>1, <3>5
    <3> QED
      BY <3>4, <3>6
  <2>3. {p \in b + 1 .. b + k : M[p].seqNo = 0} = {}
    BY <2>2
  <2>4. Unnumbered(window, k) = 0
    BY <1>7, <2>3, FS_EmptySet
  <2>5. high = last
    BY <1>1, <1>6, <2>4
  <2> QED
    BY <1>4, <1>9, <2>1, <2>5 DEF M, b, k, last, high, i
<1> QED
  BY <1>10, <1>11

\* After a batch went in flight the numbers are still those of the messages.
LEMMA SentNumbers ==
  ASSUME PlaceInv, Numbers, ~Manual => Recovered <= lastSeqNo, CanSend(window)
  PROVE  /\ Named(Sent(window, lastSeqNo), HighWater(window, lastSeqNo))
         /\ ~Manual => /\ Marks(outputs, mailbox, acked, written, HighWater(window, lastSeqNo))
                       /\ Recovered <= HighWater(window, lastSeqNo)
<1> DEFINE M == window.messages
           s == window.inflightStart
           b == window.bufferStart
           k == BatchSize(window)
           end == b + k
           last == lastSeqNo
           high == HighWater(window, lastSeqNo)
           N == Sent(window, lastSeqNo).messages
           fresh(p) == p \in b + 1 .. b + k /\ M[p].seqNo = 0
<1>1. /\ M \in Seq(Message) /\ Len(M) \in Nat /\ s \in Nat /\ b \in Nat /\ s <= b /\ b <= Len(M)
      /\ last \in Nat /\ Recovered \in Nat /\ acked \in Nat /\ written \in Nat
      /\ \A p \in s + 1 .. Len(M) :
           /\ p \in 1 .. Len(M)
           /\ M[p].id \in acked + 1 .. written
           /\ M[p].id \in WinIds(window)
           /\ ~Manual => IF Recovered + M[p].id <= last
                         THEN M[p].seqNo = Recovered + M[p].id
                         ELSE M[p].seqNo = 0
           /\ Manual => M[p].seqNo = M[p].id
  BY Positions
<1>2. /\ Sound(window, last) /\ Run(M, s + 1, Len(M))
      /\ Tiled(RepIds(outputs), WinIds(window), QueIds(mailbox), acked, written)
  BY DEF PlaceInv, WriterInv, Places, Ordered, WindowRun
<1>3. /\ Len(N) = Len(M) /\ Sent(window, lastSeqNo).inflightStart = s
      /\ \A p \in 1 .. Len(M) : N[p].id = M[p].id
      /\ N = Numbered(window, last)
  BY <1>2, SentStays
<1>4. \A p \in 1 .. Len(M) :
        /\ ~fresh(p) => N[p] = M[p]
        /\ fresh(p) => N[p].seqNo = last + Unnumbered(window, p - b)
  BY <1>2, <1>3, NumberedProps
<1>5. \A p, q \in s + 1 .. Len(M) :
        /\ M[p].id \in Nat /\ M[q].id \in Nat
        /\ p < q <=> M[p].id < M[q].id
  BY <1>1, <1>2, RunOrder
<1>6. Named(Sent(window, last), high) <=>
        \A p \in s + 1 .. Len(M) : N[p].seqNo = Number(M[p].id, high)
  <2>1. \A p \in s + 1 .. Len(M) : p \in 1 .. Len(M)
    BY <1>1
  <2> HIDE DEF high
  <2> QED
    BY <1>3, <2>1 DEF Named
<1>7. ~Manual =>
        /\ end \in b + 1 .. Len(M) /\ high \in Nat /\ last <= high
        /\ Recovered + M[end].id <= high
        /\ high = last \/ high = Recovered + M[end].id
        /\ Recovered <= last
        /\ Marks(outputs, mailbox, acked, written, last)
  BY BatchMark DEF Numbers
<1>8. ASSUME ~Manual, NEW p \in b + 1 .. Len(M), last < Recovered + M[p].id
      PROVE  last + Unnumbered(window, p - b) = Recovered + M[p].id
  BY <1>7, <1>8, CountedUp
<1> HIDE DEF M, s, b, k, last, high, N, fresh
<1>9. CASE Manual
  <2>1. ASSUME NEW p \in s + 1 .. Len(M) PROVE N[p].seqNo = Number(M[p].id, high)
    <3>1. p \in 1 .. Len(M) /\ M[p].seqNo = M[p].id /\ M[p].id \in acked + 1 .. written
      BY <1>1, <1>9
    <3>2. M[p].seqNo # 0
      BY <1>1, <3>1
    <3>3. ~fresh(p)
      BY <3>2 DEF fresh
    <3>4. N[p] = M[p]
      BY <1>4, <3>1, <3>3
    <3> QED
      BY <1>9, <3>1, <3>4 DEF Number
  <2> QED
    BY <1>6, <1>9, <2>1 DEF last, high
<1>10. CASE ~Manual
  <2> DEFINE i == M[end].id
  <2>1. /\ end \in b + 1 .. Len(M) /\ high \in Nat /\ last <= high
        /\ Recovered + i <= high
        /\ high = last \/ high = Recovered + i
        /\ Recovered <= last
        /\ Marks(outputs, mailbox, acked, written, last)
    BY <1>7, <1>10
  <2>2. end \in s + 1 .. Len(M) /\ end \in Nat
    BY <1>1, <2>1
  <2>3. i \in Nat /\ i <= written /\ i \in WinIds(window)
    BY <1>1, <1>5, <2>2
  <2> HIDE DEF i
  <2>4. ASSUME NEW p \in s + 1 .. Len(M) PROVE N[p].seqNo = Number(M[p].id, high)
    <3> DEFINE j == M[p].id
    <3>1. /\ j \in Nat /\ p \in 1 .. Len(M)
          /\ IF Recovered + j <= last THEN M[p].seqNo = Recovered + j ELSE M[p].seqNo = 0
          /\ end < p <=> i < j
          /\ p < end <=> j < i
      BY <1>1, <1>5, <1>10, <2>2 DEF i
    <3>2. j # 0
      BY <1>1
    <3>3. /\ ~fresh(p) => N[p].seqNo = M[p].seqNo
          /\ fresh(p) => N[p].seqNo = last + Unnumbered(window, p - b)
      BY <1>4, <3>1
    <3>4. p \in b + 1 .. Len(M) /\ last < Recovered + j =>
            last + Unnumbered(window, p - b) = Recovered + j
      BY <1>8, <1>10
    <3>5. Number(j, high) = IF Recovered + j <= high THEN Recovered + j ELSE 0
      BY <1>10 DEF Number
    <3>6. fresh(p) <=> p \in b + 1 .. end /\ M[p].seqNo = 0
      BY DEF fresh
    <3> HIDE DEF j
    <3>7. CASE fresh(p)
      <4>1. p \in b + 1 .. Len(M) /\ ~(end < p)
        BY <2>1, <3>6, <3>7, <1>1
      <4>2. last < Recovered + j
        BY <1>1, <3>1, <3>2, <3>6, <3>7
      <4>3. N[p].seqNo = Recovered + j
        BY <3>3, <3>4, <3>7, <4>1, <4>2
      <4>4. j <= i
        BY <2>3, <3>1, <4>1
      <4>5. Recovered + j <= high
        BY <1>1, <2>1, <2>3, <3>1, <4>4
      <4> QED
        BY <3>5, <4>3, <4>5 DEF j
    <3>8. CASE ~fresh(p) /\ Recovered + j <= last
      <4>1. Recovered + j <= high
        BY <1>1, <2>1, <3>1, <3>8
      <4> QED
        BY <3>1, <3>3, <3>5, <3>8, <4>1 DEF j
    <3>9. CASE ~fresh(p) /\ ~(Recovered + j <= last)
      <4>1. M[p].seqNo = 0
        BY <3>1, <3>9
      <4>2. p \notin b + 1 .. end
        BY <3>6, <3>9, <4>1
      <4>3. p \notin s + 1 .. b
        <5>1. ASSUME p \in s + 1 .. b PROVE FALSE
          <6>1. M[p].seqNo # 0
            BY <5>1, Positions DEF M, s, b
          <6> QED
            BY <4>1, <6>1
        <5> QED
          BY <5>1
      <4>4. end < p
        BY <1>1, <2>2, <4>2, <4>3
      <4>5. i < j
        BY <3>1, <4>4
      <4>6. ~(Recovered + j <= high)
        BY <1>1, <2>1, <2>3, <3>1, <3>9, <4>5
      <4> QED
        BY <3>3, <3>5, <3>9, <4>1, <4>6 DEF j
    <3> QED
      BY <3>7, <3>8, <3>9
  <2>5. Named(Sent(window, last), high)
    BY <1>6, <2>4
  <2>6. Marks(outputs, mailbox, acked, written, high)
    <3>1. high <= Recovered + written
      BY <1>1, <2>1, <2>3 DEF Marks
    <3>2. ASSUME NEW m \in RepIds(outputs) \cup {acked} PROVE m = 0 \/ Recovered + m <= high
      <4>1. m \in Nat /\ (m = 0 \/ Recovered + m <= last)
        BY <1>1, <1>2, <2>1 DEF Marks, Tiled
      <4> QED
        BY <1>1, <2>1, <4>1
    <3>3. ASSUME NEW m \in QueIds(mailbox) PROVE high < Recovered + m
      <4>1. m \in Nat /\ last < Recovered + m /\ i < m
        BY <1>1, <1>2, <2>1, <2>3 DEF Marks, Tiled, Before
      <4> QED
        BY <1>1, <2>1, <2>3, <4>1
    <3> QED
      BY <3>1, <3>2, <3>3 DEF Marks
  <2>7. Recovered <= high
    BY <1>1, <2>1
  <2> QED
    BY <1>10, <2>5, <2>6, <2>7 DEF last, high
<1> QED
  BY <1>9, <1>10

\* What is unreported, and what is in flight, was so before.
Kept(w, v) ==
  /\ \A p \in v.inflightStart + 1 .. Len(v.messages) :
       \E q \in w.inflightStart + 1 .. Len(w.messages) : v.messages[p] = w.messages[q]
  /\ \A p \in v.inflightStart + 1 .. v.bufferStart :
       \E q \in w.inflightStart + 1 .. w.bufferStart : v.messages[p] = w.messages[q]

LEMMA KeptWindows ==
  ASSUME NEW w, NEW last, Sound(w, last), WindowRun(w)
  PROVE  /\ Kept(w, w) /\ Kept(w, EmptyWindow)
         /\ \A n \in 0 .. w.inflightLength :
              Kept(w, Acknowledged(w, n)) /\ Kept(w, Rewound(w, n))
<1>1. Kept(w, w)
  BY DEF Kept
<1>2. Kept(w, EmptyWindow)
  <2>1. /\ EmptyWindow.inflightStart = 0 /\ EmptyWindow.bufferStart = 0
        /\ Len(EmptyWindow.messages) = 0 /\ \A p \in 0 + 1 .. 0 : FALSE
    BY DEF EmptyWindow
  <2> QED
    BY <2>1 DEF Kept
<1>0. /\ w.messages \in Seq(Message) /\ Len(w.messages) \in Nat
      /\ w.inflightStart \in Nat /\ w.inflightLength \in Nat
      /\ w.bufferStart \in Nat /\ w.bufferLength \in Nat
      /\ w.bufferStart = w.inflightStart + w.inflightLength
      /\ Len(w.messages) = w.bufferStart + w.bufferLength
  BY WindowFields DEF Sound
<1>3. ASSUME NEW n \in 0 .. w.inflightLength PROVE Kept(w, Acknowledged(w, n))
  <2> DEFINE a == Acknowledged(w, n)
             k == w.inflightStart + n
  <2>1. /\ a.inflightStart = 0 /\ a.bufferStart = w.bufferStart - k
        /\ Len(a.messages) = Len(w.messages) - k
        /\ \A p \in 1 .. Len(a.messages) :
             a.messages[p] = w.messages[k + p] /\ k + p \in k + 1 .. Len(w.messages)
    BY AcknowledgedStays
  <2>2. k \in Nat /\ k >= w.inflightStart /\ k <= w.bufferStart
    BY <1>0
  <2> HIDE DEF a, k
  <2>3. ASSUME NEW p \in a.inflightStart + 1 .. Len(a.messages)
        PROVE  /\ p \in 1 .. Len(a.messages) /\ k + p \in w.inflightStart + 1 .. Len(w.messages)
    <3>1. p \in 1 .. Len(a.messages)
      BY <2>1
    <3>2. k + p \in k + 1 .. Len(w.messages)
      BY <2>1, <3>1
    <3>3. k + p \in w.inflightStart + 1 .. Len(w.messages)
      BY <1>0, <2>2, <3>2
    <3> QED
      BY <3>1, <3>3
  <2>4. ASSUME NEW p \in a.inflightStart + 1 .. a.bufferStart
        PROVE  /\ p \in 1 .. Len(a.messages) /\ k + p \in w.inflightStart + 1 .. w.bufferStart
    <3>1. p \in 1 .. w.bufferStart - k
      BY <2>1
    <3>2. p \in 1 .. Len(a.messages)
      BY <1>0, <2>1, <2>2, <3>1
    <3>3. k + p \in w.inflightStart + 1 .. w.bufferStart
      BY <1>0, <2>2, <3>1
    <3> QED
      BY <3>2, <3>3
  <2>5. Kept(w, a)
    BY <2>1, <2>3, <2>4 DEF Kept
  <2> QED
    BY <2>5 DEF a
<1>4. ASSUME NEW n \in 0 .. w.inflightLength PROVE Kept(w, Rewound(w, n))
  <2> DEFINE r == Rewound(w, n)
             k == w.inflightStart + n
  <2>1. r.messages = w.messages /\ r.inflightStart = k /\ r.bufferStart = k
    BY RewoundStays
  <2>2. k \in Nat /\ k >= w.inflightStart /\ k <= w.bufferStart
    BY <1>0
  <2> HIDE DEF r, k
  <2>3. \A p \in k + 1 .. Len(w.messages) : p \in w.inflightStart + 1 .. Len(w.messages)
    BY <1>0, <2>2
  <2>4. \A p \in k + 1 .. k : FALSE
    BY <2>2
  <2>5. Kept(w, r)
    BY <2>1, <2>3, <2>4 DEF Kept
  <2> QED
    BY <2>5 DEF r
<1> QED
  BY <1>1, <1>2, <1>3, <1>4

\* The writes in the mailbox when an event is taken.
LEMMA QueueShrinks ==
  ASSUME PlaceInv, mailbox # << >>, NEW posted \in {<< >>, <<PumpEvent>>}
  PROVE  QueIds(Tail(mailbox) \o posted) \subseteq QueIds(mailbox)
<1>1. mailbox \in Seq(MailEvent) /\ Mail(Manual, mailbox, window.messages, written)
  BY Mailbox DEF PlaceInv
<1>2. Tail(mailbox) \in Seq(MailEvent) /\ QueIds(Tail(mailbox)) \subseteq QueIds(mailbox)
  BY <1>1, QueueTaken, Taken
<1> DEFINE rest == Tail(mailbox)
<1> HIDE DEF rest
<1>3. PumpEvent \in MailEvent /\ PumpEvent.type # "write"
  BY EventKinds
<1>4. /\ rest \o <<PumpEvent>> = Append(rest, PumpEvent) /\ rest \o << >> = rest
      /\ QueIds(Append(rest, PumpEvent)) = QueIds(rest)
  <2>1. rest \in Seq(MailEvent)
    BY <1>2 DEF rest
  <2>2. rest \o <<PumpEvent>> = Append(rest, PumpEvent) /\ rest \o << >> = rest
    BY <1>3, <2>1, Added
  <2> QED
    BY <1>3, <2>1, <2>2, QueuePosted
<1> QED
  BY <1>2, <1>4 DEF rest

Sends == HandlePump \/ (FlushTick /\ CanSend(window))
Opens == ToReady \/ InitWhileClosing

\* What the machine does to the window, when it neither takes a write nor sends.
LEMMA MachineKeeps ==
  ASSUME PlaceInv, HandleEvent \/ TimerFires, ~HandleWrite, ~Sends
  PROVE  /\ Kept(window, window')
         /\ QueIds(mailbox') \subseteq QueIds(mailbox)
         /\ UNCHANGED <<seqNoMode, serverLast, log>>
         /\ Opens => /\ mailbox # << >> /\ Event.type = "init"
                     /\ hasEverConnected' = TRUE
                     /\ lastSeqNo' = RecoveredMark(Event.lastSeqNo)
                     /\ window'.inflightStart = window'.bufferStart
         /\ ~Opens => /\ UNCHANGED <<lastSeqNo, hasEverConnected>>
                      /\ state' = "ready" => state = "ready"
<1> USE DEF ctxVars, serverVars, userVars
<1>0. Sound(window, lastSeqNo) /\ WindowRun(window) /\ window \in Window /\ WindowShape(window)
  BY Mailbox DEF PlaceInv, Places, Ordered
<1>k. Kept(window, window) /\ Kept(window, EmptyWindow)
  BY <1>0, KeptWindows
<1>n. QueIds(<< >>) = {}
  BY EmptyIds
<1>e. EmptyWindow.inflightStart = EmptyWindow.bufferStart
  BY DEF EmptyWindow
<1> DEFINE Rest(posted) == mailbox' = Tail(mailbox) \o posted
<1>t. ASSUME mailbox # << >>, \E posted \in {<< >>, <<PumpEvent>>} : Rest(posted)
      PROVE  QueIds(mailbox') \subseteq QueIds(mailbox)
  BY <1>t, QueueShrinks
<1>s. ASSUME NEW terminal \in Terminal, NEW e, Terminate(terminal, e)
      PROVE  /\ Kept(window, window') /\ QueIds(mailbox') \subseteq QueIds(mailbox)
             /\ window'.inflightStart = window'.bufferStart /\ state' # "ready"
  BY <1>s, <1>k, <1>n, <1>e DEF Terminate, Terminal
<1>c. {"closed", "errored"} = Terminal
  BY DEF Terminal
<1>o. Opens => mailbox # << >> /\ Event.type = "init"
  BY DEF Opens, ToReady, InitWhileClosing, Handles
<1>1. CASE Opens
  <2> DEFINE n == Persisted(Event.lastSeqNo)
             w == Rewound(window, n)
             e == InitOutputs(Event.lastSeqNo)
  <2>1. n \in 0 .. window.inflightLength
    BY <1>0, LeadingWithin DEF Persisted
  <2>2. Kept(window, w) /\ w.inflightStart = w.bufferStart
    BY <1>0, <2>1, KeptWindows, RewoundStays
  <2> HIDE DEF n, w, e
  <2>3. /\ hasEverConnected' = TRUE /\ lastSeqNo' = RecoveredMark(Event.lastSeqNo)
        /\ UNCHANGED <<seqNoMode, serverLast, log>>
        /\ Terminate("closed", e) \/ (window' = w /\ mailbox' = Tail(mailbox) \o <<PumpEvent>>)
    BY <1>1 DEF Opens, ToReady, InitWhileClosing, ApplyInit, DrainedClose, Then, n, w, e
  <2>4. /\ Kept(window, window') /\ QueIds(mailbox') \subseteq QueIds(mailbox)
        /\ window'.inflightStart = window'.bufferStart
    BY <1>c, <1>o, <1>1, <1>s, <1>t, <2>2, <2>3
  <2> QED
    BY <1>1, <1>o, <2>3, <2>4
<1> DEFINE Same == /\ Kept(window, window') /\ QueIds(mailbox') \subseteq QueIds(mailbox)
                   /\ UNCHANGED <<seqNoMode, serverLast, log, lastSeqNo, hasEverConnected>>
                   /\ state' = "ready" => state = "ready"
<1> HIDE DEF Rest
<1>2. CASE HandleFlush
  <2>1. /\ mailbox # << >> /\ \E posted \in {<< >>, <<PumpEvent>>} : Rest(posted)
        /\ UNCHANGED <<seqNoMode, serverLast, log, lastSeqNo, hasEverConnected, state, window>>
    BY <1>2 DEF HandleFlush, Handles, Then, Rest
  <2>2. Same
    BY <1>k, <1>t, <2>1
  <2> QED
    BY <2>2, <1>1
<1>3. CASE HandleClose
  <2>1. /\ mailbox # << >>
        /\ UNCHANGED <<seqNoMode, serverLast, log, lastSeqNo, hasEverConnected>>
        /\ \/ Terminate("closed", << >>)
           \/ Rest(<<PumpEvent>>) /\ UNCHANGED window /\ state' # "ready"
    BY <1>3 DEF HandleClose, Handles, DrainedClose, Then, Rest
  <2>2. Same
    BY <1>k, <1>t, <1>s, <1>c, <2>1
  <2> QED
    BY <2>2, <1>1
<1>4. CASE HandleDestroy \/ DisconnectedFatal \/ RecoveryWindow \/ GracefulTimeout
  <2>1. /\ UNCHANGED <<seqNoMode, serverLast, log, lastSeqNo, hasEverConnected>>
        /\ Terminate("closed", << >>) \/ Terminate("errored", << >>)
    BY <1>4 DEF HandleDestroy, DisconnectedFatal, RecoveryWindow, GracefulTimeout
  <2>2. Same
    BY <1>s, <1>c, <2>1
  <2> QED
    BY <2>2, <1>1
<1>5. CASE HandleAcks
  <2> DEFINE n == AckedCount
             w == Acknowledged(window, n)
             e == AckedOutputs
  <2>1. n \in 0 .. window.inflightLength
    BY <1>0, LeadingWithin DEF AckedCount
  <2>2. Kept(window, w)
    BY <1>0, <2>1, KeptWindows
  <2> HIDE DEF n, w, e
  <2>3. /\ mailbox # << >>
        /\ UNCHANGED <<seqNoMode, serverLast, log, lastSeqNo, hasEverConnected>>
        /\ \/ Terminate("closed", e)
           \/ window' = w /\ Rest(<<PumpEvent>>) /\ state' = state
    BY <1>5 DEF HandleAcks, Handles, DrainedClose, Then, AckedWindow, Rest, n, w, e
  <2>4. Same
    BY <1>c, <1>s, <1>t, <2>2, <2>3
  <2> QED
    BY <2>4, <1>1
<1>6. CASE Disconnected \/ Ignore
  <2>1. /\ mailbox # << >> /\ Rest(<< >>)
        /\ UNCHANGED <<seqNoMode, serverLast, log, lastSeqNo, hasEverConnected, window>>
        /\ state' = "ready" => state = "ready"
    BY <1>6 DEF Disconnected, Ignore, Ignores, Handles, ToReconnecting, Then, Rest
  <2>2. Same
    BY <1>k, <1>t, <2>1
  <2> QED
    BY <2>2, <1>1
<1>7. CASE StartTimeout \/ RetryBackoff \/ (FlushTick /\ ~CanSend(window))
  <2>1. /\ UNCHANGED <<seqNoMode, serverLast, log, lastSeqNo, hasEverConnected, window, mailbox>>
        /\ state' = "ready" => state = "ready"
    BY <1>7 DEF StartTimeout, RetryBackoff, FlushTick, ToReconnecting, Due
  <2>2. Same
    BY <1>k, <2>1
  <2> QED
    BY <2>2, <1>1
<1> QED
  BY <1>1, <1>2, <1>3, <1>4, <1>5, <1>6, <1>7
     DEF HandleEvent, TimerFires, Sends, Opens

\* An answer covers messages in flight.
LEMMA ToldInFlight ==
  ASSUME PlaceInv, NEW N
  PROVE  /\ Told(N) \subseteq InflightIds(window)
         /\ \A m \in Told(N) :
              \E p \in window.inflightStart + 1 .. window.bufferStart :
                window.messages[p].id = m /\ window.messages[p].seqNo \in N
<1> DEFINE s == window.inflightStart
           n == LeadingInflight(window, N)
<1>1. /\ n \in 0 .. window.inflightLength
      /\ \A p \in 1 .. n : window.messages[s + p].seqNo \in N
  BY Mailbox, LeadingWithin DEF PlaceInv
<1>2. s \in Nat /\ window.bufferStart \in Nat /\ window.inflightLength \in Nat
      /\ window.bufferStart = s + window.inflightLength
  BY Mailbox, WindowFields DEF PlaceInv
<1>3. Told(N) = {window.messages[p].id : p \in s + 1 .. s + n}
  BY DEF Told
<1> HIDE DEF s, n
<1>4. ASSUME NEW p \in s + 1 .. s + n
      PROVE  p \in s + 1 .. window.bufferStart /\ window.messages[p].seqNo \in N
  <2>1. p \in s + 1 .. window.bufferStart /\ p - s \in 1 .. n /\ s + (p - s) = p
    BY <1>1, <1>2
  <2> DEFINE q == p - s
  <2>2. q \in 1 .. n /\ s + q = p
    BY <2>1
  <2> HIDE DEF q
  <2>3. window.messages[s + q].seqNo \in N
    BY <1>1, <2>2
  <2> QED
    BY <2>1, <2>2, <2>3
<1>5. Told(N) \subseteq InflightIds(window)
  BY <1>3, <1>4 DEF InflightIds, s
<1>6. \A m \in Told(N) :
        \E p \in s + 1 .. window.bufferStart :
          window.messages[p].id = m /\ window.messages[p].seqNo \in N
  BY <1>3, <1>4
<1> QED
  BY <1>5, <1>6 DEF s

\* The machine takes an event or a timer fires.
LEMMA FewReports ==
  ASSUME PlaceInv, HandleEvent \/ TimerFires
  PROVE  RepIds(outputs') \subseteq RepIds(outputs) \cup InflightIds(window)
BY MachineReports, ToldInFlight

\* Before the first session nothing is in flight, reported or acknowledged.
LEMMA NothingSent ==
  ASSUME PlaceInv, Numbers, Starting, ~Manual, ~hasEverConnected
  PROVE  /\ lastSeqNo = 0 /\ serverLast = Recovered
         /\ InflightIds(window) = {} /\ RepIds(outputs) = {} /\ acked = 0
<1>1. /\ lastSeqNo = 0 /\ serverLast = Recovered
      /\ Marks(outputs, mailbox, acked, written, 0)
  BY DEF Starting, Numbers
<1>2. /\ acked \in Nat /\ Recovered \in Nat /\ written \in Nat
      /\ \A p \in window.inflightStart + 1 .. window.bufferStart :
           /\ Recovered + window.messages[p].id <= 0
           /\ window.messages[p].id \in acked + 1 .. written
  BY <1>1, Positions
<1>3. InflightIds(window) = {}
  <2> SUFFICES ASSUME NEW p \in window.inflightStart + 1 .. window.bufferStart PROVE FALSE
    BY DEF InflightIds
  <2> DEFINE i == window.messages[p].id
  <2>1. Recovered + i <= 0 /\ i \in acked + 1 .. written
    BY <1>2
  <2> HIDE DEF i
  <2> QED
    BY <1>2, <2>1
<1>4. \A m \in RepIds(outputs) : m \in acked + 1 .. written
  BY DEF PlaceInv, Places, Ordered, Tiled
<1>5. ASSUME NEW m \in RepIds(outputs) PROVE FALSE
  <2>1. m \in acked + 1 .. written /\ (m = 0 \/ Recovered + m <= 0)
    BY <1>1, <1>4 DEF Marks
  <2> QED
    BY <1>2, <2>1
<1>6. acked = 0
  <2>1. acked = 0 \/ Recovered + acked <= 0
    BY <1>1 DEF Marks
  <2> QED
    BY <1>2, <2>1
<1> QED
  BY <1>1, <1>3, <1>5, <1>6

\* The first init tells the mark: nothing has a number yet, and the next one is that of
\* the first message.
LEMMA FirstInitNumbers ==
  ASSUME PlaceInv, Numbers, Starting, ~Manual, ~hasEverConnected, Opens
  PROVE  Numbers' /\ lastSeqNo' = Recovered
<1>1. /\ lastSeqNo = 0
      /\ InflightIds(window) = {} /\ RepIds(outputs) = {} /\ acked = 0
  BY NothingSent
<1>2. HandleEvent /\ ~HandleWrite /\ ~Sends
  <2>1. HandleEvent /\ mailbox # << >> /\ Event.type = "init"
    BY DEF HandleEvent, Opens, ToReady, InitWhileClosing, Handles
  <2> QED
    BY <2>1 DEF HandleWrite, Sends, HandlePump, FlushTick, Due, Handles
<1>3. /\ Kept(window, window') /\ QueIds(mailbox') \subseteq QueIds(mailbox)
      /\ UNCHANGED seqNoMode /\ hasEverConnected' = TRUE
      /\ lastSeqNo' = RecoveredMark(Event.lastSeqNo)
      /\ mailbox # << >> /\ Event.type = "init"
      /\ UNCHANGED <<acked, written, numbering>>
      /\ RepIds(outputs') = {}
  <2>1. RepIds(outputs') \subseteq {} \cup {}
    BY <1>1, <1>2, FewReports
  <2>2. UNCHANGED <<acked, written, numbering>>
    BY <1>2, MachineEmits
  <2> QED
    BY <1>2, <2>1, <2>2, MachineKeeps
<1>4. Event.lastSeqNo = Recovered
  <2>1. Tells(mailbox) /\ 1 \in 1 .. Len(mailbox) /\ Event = mailbox[1]
    BY <1>3, Mailbox, Taken DEF Starting, PlaceInv, Event
  <2>2. Event = [type |-> "init", lastSeqNo |-> Recovered]
    BY <1>3, <2>1 DEF Tells
  <2> QED
    BY <2>2
<1>5. /\ written \in Nat /\ Recovered \in Nat
      /\ \A p \in window.inflightStart + 1 .. Len(window.messages) :
           /\ window.messages[p].id \in 1 .. written
           /\ window.messages[p].seqNo = Number(window.messages[p].id, 0)
  BY <1>1, Positions DEF Numbers, Named
<1>6. lastSeqNo' = Recovered
  BY <1>1, <1>3, <1>4, <1>5 DEF RecoveredMark, Numbers
<1>7. \A i \in Nat \ {0} : Number(i, 0) = 0 /\ ~(Recovered + i <= Recovered)
  BY <1>5 DEF Number
<1>8. Manual' = Manual
  BY <1>3 DEF Manual
<1>9. Named(window, lastSeqNo)'
  <2> SUFFICES ASSUME NEW p \in window'.inflightStart + 1 .. Len(window'.messages)
               PROVE  (window.messages[p].seqNo = Number(window.messages[p].id, lastSeqNo))'
    BY DEF Named
  <2>1. PICK q \in window.inflightStart + 1 .. Len(window.messages) :
          window'.messages[p] = window.messages[q]
    BY <1>3 DEF Kept
  <2> DEFINE i == window.messages[q].id
  <2>2. i \in Nat \ {0} /\ window.messages[q].seqNo = Number(i, 0)
    BY <1>5
  <2>3. window'.messages[p].id = i /\ window'.messages[p].seqNo = window.messages[q].seqNo
    BY <2>1
  <2> HIDE DEF i
  <2>4. window'.messages[p].seqNo = 0 /\ ~(Recovered + i <= lastSeqNo')
    BY <1>6, <1>7, <2>2, <2>3
  <2> QED
    BY <1>8, <2>3, <2>4 DEF Number
<1>10. Marks(outputs', mailbox', acked', written', lastSeqNo')
  <2>1. \A m \in QueIds(mailbox') : m \in 1 .. written
    BY <1>1, <1>3 DEF PlaceInv, Places, Ordered, Tiled
  <2>2. \A m \in 1 .. written : Recovered < Recovered + m
    BY <1>5
  <2>3. Recovered <= Recovered + written
    BY <1>5
  <2> QED
    BY <1>1, <1>3, <1>6, <2>1, <2>2, <2>3 DEF Marks
<1>11. Recovered <= Recovered
  BY <1>5
<1> QED
  BY <1>3, <1>6, <1>8, <1>9, <1>10, <1>11 DEF Numbers

\* A write is handled: its number follows, or comes when it is sent.
LEMMA WriteNumbers == PlaceInv /\ Numbers /\ HandleWrite => Numbers'
<1> SUFFICES ASSUME PlaceInv, Numbers, HandleWrite PROVE Numbers'
  OBVIOUS
<1> DEFINE message == [id |-> Event.id, seqNo |-> IF numbering = "manual" THEN Event.id ELSE 0]
           M == window.messages
<1>1. /\ mailbox # << >> /\ Event.type = "write" /\ Event = Head(mailbox)
      /\ window' = Enqueued(window, message)
      /\ seqNoMode' = numbering
      /\ lastSeqNo' = IF numbering = "manual" /\ Event.id > lastSeqNo THEN Event.id ELSE lastSeqNo
      /\ \E posted \in {<< >>, <<PumpEvent>>} : mailbox' = Tail(mailbox) \o posted
      /\ UNCHANGED <<state, hasEverConnected, outputs, acked, written, numbering>>
  BY DEF HandleWrite, Handles, Event, Then, userVars
<1>2. /\ mailbox \in Seq(MailEvent) /\ Mail(Manual, mailbox, M, written)
      /\ Sound(window, lastSeqNo) /\ window \in Window
  BY Mailbox DEF PlaceInv
<1>3. Event.id \in Nat /\ message \in Message /\ Event.id \in QueIds(mailbox)
  <2>1. Event \in MailEvent
    BY <1>1, <1>2, Taken
  <2>2. Event.id \in Nat
    BY <1>1, <2>1, EventKinds
  <2>3. Event.id \in QueIds(mailbox)
    BY <1>1, <1>2, QueueTaken
  <2> QED
    BY <2>2, <2>3 DEF Message
<1>4. /\ window'.messages = Append(M, message)
      /\ window'.inflightStart = window.inflightStart
  <2>1. window'.messages = Append(M, message)
    BY <1>1, <1>2 DEF Enqueued, Window
  <2>2. window'.inflightStart = window.inflightStart
    BY <1>1, <1>2 DEF Enqueued, Window
  <2> QED
    BY <2>1, <2>2
<1>5. QueIds(mailbox') \subseteq QueIds(mailbox)
  BY <1>1, QueueShrinks
<1>6. ~Manual => lastSeqNo' = lastSeqNo /\ seqNoMode' # "manual"
  BY <1>1 DEF Manual
<1>7. ~Manual => lastSeqNo < Recovered + Event.id
  BY <1>3 DEF Numbers, Marks
<1>8. M \in Seq(Message) /\ Len(M) \in Nat /\ window.inflightStart \in Nat
  BY Positions
<1>m. message.id = Event.id /\ message.seqNo = IF Manual THEN Event.id ELSE 0
  BY DEF Manual
<1> DEFINE i == Event.id
           more == window'.messages
<1> HIDE DEF message, i, M, more
<1>9. ASSUME NEW p \in window.inflightStart + 1 .. Len(more)
      PROVE  more[p].seqNo = Number(more[p].id, lastSeqNo)
  <2>1. /\ Len(more) = Len(M) + 1 /\ more[Len(M) + 1] = message
        /\ \A x \in 1 .. Len(M) : more[x] = M[x]
    BY <1>3, <1>4, <1>8, Added DEF more, M
  <2>2. CASE p \in window.inflightStart + 1 .. Len(M)
    <3>1. p \in 1 .. Len(M) /\ M[p].seqNo = Number(M[p].id, lastSeqNo)
      BY <1>8, <2>2 DEF Numbers, Named, M
    <3> QED
      BY <2>1, <3>1
  <2>3. CASE p = Len(M) + 1
    <3>1. more[p].id = i /\ more[p].seqNo = IF Manual THEN i ELSE 0
      BY <1>m, <2>1, <2>3 DEF i
    <3>2. i \in Nat /\ lastSeqNo \in Nat /\ Recovered \in Nat /\ (~Manual => lastSeqNo < Recovered + i)
      BY <1>3, <1>7, Positions DEF i
    <3>3. ~Manual => ~(Recovered + i <= lastSeqNo)
      BY <3>2
    <3> QED
      BY <3>1, <3>3 DEF Number
  <2>4. p \in window.inflightStart + 1 .. Len(M) \/ p = Len(M) + 1
    BY <1>8, <2>1
  <2> QED
    BY <2>2, <2>3, <2>4
<1>10. /\ ~Manual /\ hasEverConnected' => Recovered <= lastSeqNo
       /\ state' = "ready" => hasEverConnected'
  BY <1>1 DEF Numbers
<1> QED
  BY <1>1, <1>4, <1>5, <1>6, <1>9, <1>10, NumbersKept DEF more

\* A batch is sent.
LEMMA SendNumbers == PlaceInv /\ Numbers /\ Sends => Numbers'
<1> SUFFICES ASSUME PlaceInv, Numbers, Sends PROVE Numbers'
  OBVIOUS
<1>1. /\ CanSend(window) /\ window' = Sent(window, lastSeqNo)
      /\ lastSeqNo' = HighWater(window, lastSeqNo)
      /\ UNCHANGED <<state, hasEverConnected, outputs, acked, written, numbering, seqNoMode>>
      /\ hasEverConnected
  <2>1. state = "ready" \/ hasEverConnected
    BY DEF Sends, HandlePump, MayPump, FlushTick, Due
  <2> QED
    BY <2>1, PumpQueues DEF Sends, Numbers
<1>2. ~Manual => Recovered <= lastSeqNo
  BY <1>1 DEF Numbers
<1>3. /\ Named(window', lastSeqNo')
      /\ ~Manual => Marks(outputs, mailbox, acked, written, lastSeqNo') /\ Recovered <= lastSeqNo'
  BY <1>1, <1>2, SentNumbers
<1>4. Manual' = Manual
  BY <1>1 DEF Manual
<1>5. QueIds(mailbox') \subseteq QueIds(mailbox)
  <2>1. CASE HandlePump
    <3>1. mailbox # << >> /\ \E posted \in {<< >>, <<PumpEvent>>} : mailbox' = Tail(mailbox) \o posted
      BY <2>1 DEF HandlePump, Handles, Pump
    <3> QED
      BY <3>1, QueueShrinks
  <2>2. CASE FlushTick /\ CanSend(window)
    <3>1. mailbox' = mailbox \o << >> \/ mailbox' = mailbox \o <<PumpEvent>>
      BY <2>2 DEF FlushTick, Pump
    <3>2. mailbox \in Seq(MailEvent) /\ PumpEvent \in MailEvent /\ PumpEvent.type # "write"
      BY Mailbox, EventKinds DEF PlaceInv
    <3>3. /\ mailbox \o << >> = mailbox /\ mailbox \o <<PumpEvent>> = Append(mailbox, PumpEvent)
          /\ QueIds(Append(mailbox, PumpEvent)) = QueIds(mailbox)
      BY <3>2, Added, QueuePosted
    <3> QED
      BY <3>1, <3>3
  <2> QED
    BY <2>1, <2>2 DEF Sends
<1>6. Named(window, lastSeqNo)'
  BY <1>3, <1>4 DEF Named, Number
<1>7. ~Manual' => Marks(outputs', mailbox', acked', written', lastSeqNo')
  BY <1>1, <1>3, <1>4, <1>5 DEF Marks
<1> QED
  BY <1>1, <1>3, <1>4, <1>6, <1>7 DEF Numbers

\* Every other event or timer leaves the numbers.
LEMMA MachineNumbers ==
  PlaceInv /\ Numbers /\ Starting /\ (HandleEvent \/ TimerFires) /\ ~HandleWrite /\ ~Sends
    => Numbers'
<1> SUFFICES ASSUME PlaceInv, Numbers, Starting, HandleEvent \/ TimerFires, ~HandleWrite, ~Sends
             PROVE  Numbers'
  OBVIOUS
<1>1. CASE Opens /\ ~Manual /\ ~hasEverConnected
  BY <1>1, FirstInitNumbers
<1>2. CASE ~(Opens /\ ~Manual /\ ~hasEverConnected)
  <2>1. /\ Kept(window, window') /\ QueIds(mailbox') \subseteq QueIds(mailbox)
        /\ UNCHANGED seqNoMode
        /\ Opens => hasEverConnected' = TRUE /\ lastSeqNo' = RecoveredMark(Event.lastSeqNo)
        /\ ~Opens => /\ UNCHANGED <<lastSeqNo, hasEverConnected>>
                     /\ state' = "ready" => state = "ready"
    BY MachineKeeps
  <2>2. UNCHANGED <<acked, written, numbering>>
    BY MachineEmits
  <2>3. ~Manual => lastSeqNo' = lastSeqNo /\ seqNoMode' # "manual"
    BY <1>2, <2>1 DEF RecoveredMark, Numbers
  <2>4. ~Manual /\ hasEverConnected' => Recovered <= lastSeqNo
    BY <1>2, <2>1 DEF Numbers
  <2>5. state' = "ready" => hasEverConnected'
    BY <2>1 DEF Numbers
  <2>6. \A p \in window'.inflightStart + 1 .. Len(window'.messages) :
          window'.messages[p].seqNo = Number(window'.messages[p].id, lastSeqNo)
    BY <2>1 DEF Numbers, Named, Kept
  <2>7. RepIds(outputs') \subseteq RepIds(outputs) \cup InflightIds(window)
    BY FewReports
  <2> QED
    BY <2>1, <2>2, <2>3, <2>4, <2>5, <2>6, <2>7, NumbersKept
<1> QED
  BY <1>1, <1>2

\* #consume: what is acknowledged to the user was reported.
LEMMA ConsumeReports ==
  ASSUME PlaceInv, ConsumeOutput
  PROVE  /\ RepIds(outputs') \subseteq RepIds(outputs)
         /\ acked' \in RepIds(outputs) \cup {acked}
         /\ UNCHANGED <<state, hasEverConnected, lastSeqNo, seqNoMode, window, numbering, written,
                        mailbox, stream, up, down, serverLast, log>>
<1>1. /\ outputs # << >> /\ outputs' = Tail(outputs)
      /\ UNCHANGED <<state, hasEverConnected, lastSeqNo, seqNoMode, window, numbering, written,
                     mailbox, stream, up, down, serverLast, log>>
      /\ acked' = IF Head(outputs).type = "acks" THEN acked + Len(Head(outputs).batch) ELSE acked
  BY DEF ConsumeOutput, ConsumeAcks, ConsumeFlushed, ConsumeError, ConsumeClosed, Consume,
         consumeUnchanged, ctxVars, streamVars, serverVars
<1>2. Ordered(outputs, window, mailbox, acked, written) /\ OutputsOk(outputs)
  BY DEF PlaceInv, Places, Ordered
<1>3. RepIds(Tail(outputs)) \subseteq RepIds(outputs)
  BY <1>1, <1>2, OutputTaken
<1>4. ASSUME Head(outputs).type = "acks"
      PROVE  acked + Len(Head(outputs).batch) \in RepIds(outputs) \cup {acked}
  <2> DEFINE b == Head(outputs).batch
             l == Len(b)
  <2>1. /\ l \in Nat /\ acked \in Nat
        /\ \A m \in Nat : m \in Ids(b) <=> acked < m /\ m <= acked + l
        /\ RepIds(outputs) = Ids(b) \cup RepIds(Tail(outputs))
    BY <1>1, <1>2, <1>4, FirstReport
  <2> HIDE DEF b, l
  <2>2. acked + l \in RepIds(outputs) \cup {acked}
    <3>1. CASE l = 0
      BY <2>1, <3>1
    <3>2. CASE l # 0
      <4>1. acked + l \in Nat /\ acked < acked + l
        BY <2>1, <3>2
      <4> QED
        BY <2>1, <4>1
    <3> QED
      BY <3>1, <3>2
  <2> QED
    BY <2>2 DEF b, l
<1> QED
  BY <1>1, <1>3, <1>4

\* The user posts one event.
LEMMA PostedKinds ==
  ASSUME PlaceInv, User
  PROVE  \E e \in MailEvent : /\ mailbox' = mailbox \/ mailbox' = Append(mailbox, e)
                              /\ e.type \in {"write", "flush", "close", "destroy"}
                              /\ e.type = "write" => e.id = written + 1
<1> DEFINE w == [type |-> "write", id |-> written + 1]
           Posts(e) == mailbox' = mailbox \/ mailbox' = Append(mailbox, e)
<1>1. w \in MailEvent /\ w.id = written + 1 /\ w.type = "write"
  <2>1. written \in Nat
    BY DEF PlaceInv, WriterInv, Types
  <2> QED
    BY <2>1, EventKinds
<1>2. CASE Write
  <2>1. Posts(w)
    BY <1>2 DEF Write, Dispatch
  <2> HIDE DEF w
  <2> QED
    BY <1>1, <2>1
<1>3. ASSUME NEW type \in {"flush", "close", "destroy"}, Posts([type |-> type])
      PROVE  \E e \in MailEvent : /\ Posts(e)
                                  /\ e.type \in {"write", "flush", "close", "destroy"}
                                  /\ e.type = "write" => e.id = written + 1
  <2> DEFINE e == [type |-> type]
  <2>1. e \in MailEvent /\ e.type = type /\ Posts(e)
    BY <1>3, EventKinds
  <2> HIDE DEF e
  <2> QED
    BY <2>1
<1>4. CASE Close \/ Destroy \/ \E f \in Flusher : Flush(f) \/ FlushAborts(f)
  <2>1. \E type \in {"flush", "close", "destroy"} : Posts([type |-> type])
    BY <1>4 DEF Close, Destroy, Flush, FlushAborts, Dispatch, machineOnly
  <2> QED
    BY <1>3, <2>1
<1> QED
  BY <1>2, <1>4 DEF User

\* Everything else.
LEMMA OtherNumbers ==
  PlaceInv /\ Numbers /\ (ConsumeOutput \/ Serve \/ Deliver \/ Break \/ User) => Numbers'
<1> SUFFICES ASSUME PlaceInv, Numbers, ConsumeOutput \/ Serve \/ Deliver \/ Break \/ User
             PROVE  Numbers'
  OBVIOUS
<1> USE DEF ctxVars, streamVars, userVars, machineOnly
<1>a. ASSUME UNCHANGED <<state, hasEverConnected, lastSeqNo, seqNoMode, window, numbering>>,
             RepIds(outputs') \subseteq RepIds(outputs),
             acked' \in RepIds(outputs) \cup {acked},
             written' \in {written, written + 1},
             QueIds(mailbox') \subseteq QueIds(mailbox) \cup {written + 1}
      PROVE  Numbers'
  <2>1. /\ ~Manual => seqNoMode' # "manual"
        /\ ~Manual /\ hasEverConnected' => Recovered <= lastSeqNo
        /\ state' = "ready" => hasEverConnected'
        /\ \A p \in window'.inflightStart + 1 .. Len(window'.messages) :
             window'.messages[p].seqNo = Number(window'.messages[p].id, lastSeqNo)
    BY <1>a DEF Numbers, Named
  <2> QED
    BY <1>a, <2>1, NumbersKept
<1>0. mailbox \in Seq(MailEvent) /\ down \in Seq(Response) /\ written \in Nat
  BY Mailbox DEF PlaceInv, WriterInv, Types
<1>b. ASSUME NEW e \in MailEvent,
             mailbox' = mailbox \/ mailbox' = Append(mailbox, e),
             e.type = "write" => e.id = written + 1
      PROVE  QueIds(mailbox') \subseteq QueIds(mailbox) \cup {written + 1}
  <2>1. QueIds(Append(mailbox, e)) \subseteq QueIds(mailbox) \cup {written + 1}
    <3>1. CASE e.type = "write"
      BY <1>0, <1>b, <3>1, QueuePosted
    <3>2. CASE e.type # "write"
      BY <1>0, <3>2, QueuePosted
    <3> QED
      BY <3>1, <3>2
  <2> QED
    BY <1>b, <2>1
<1>1. CASE ConsumeOutput
  BY <1>1, <1>a, ConsumeReports
<1>2. CASE Serve
  BY <1>2, <1>a DEF Serve, ServeInit, ServeWrite
<1>3. CASE Deliver
  <2>1. Head(down) \in MailEvent /\ Head(down).type # "write"
    <3>1. Head(down) \in Response
      BY <1>0, <1>3, Taken DEF Deliver
    <3> QED
      BY <3>1, EventKinds
  <2>2. QueIds(mailbox') \subseteq QueIds(mailbox) \cup {written + 1}
    BY <1>3, <1>b, <2>1 DEF Deliver
  <2> QED
    BY <1>3, <1>a, <2>2 DEF Deliver
<1>4. CASE Break
  <2>1. PICK fatal \in BOOLEAN : mailbox' = Append(mailbox, [type |-> "disconnected", fatal |-> fatal])
    BY <1>4 DEF Break
  <2> DEFINE e == [type |-> "disconnected", fatal |-> fatal]
  <2>2. e \in MailEvent /\ e.type # "write" /\ mailbox' = Append(mailbox, e)
    BY <2>1, EventKinds
  <2> HIDE DEF e
  <2>3. QueIds(mailbox') \subseteq QueIds(mailbox) \cup {written + 1}
    BY <1>b, <2>2
  <2> QED
    BY <1>4, <1>a, <2>3 DEF Break
<1>5. CASE User
  <2>1. /\ UNCHANGED <<state, hasEverConnected, lastSeqNo, seqNoMode, window, numbering, outputs,
                       acked>>
        /\ written' \in {written, written + 1}
    BY <1>5 DEF User, Write, Flush, FlushAborts, Close, Destroy
  <2>2. \E e \in MailEvent : /\ mailbox' = mailbox \/ mailbox' = Append(mailbox, e)
                             /\ e.type = "write" => e.id = written + 1
    BY <1>5, PostedKinds
  <2>3. QueIds(mailbox') \subseteq QueIds(mailbox) \cup {written + 1}
    BY <1>b, <2>2
  <2> QED
    BY <1>a, <2>1, <2>3
<1> QED
  BY <1>1, <1>2, <1>3, <1>4, <1>5

\* Every step keeps the numbers.
LEMMA NumbersStep == PlaceInv /\ Numbers /\ Starting /\ [Next]_vars => Numbers'
<1> SUFFICES ASSUME PlaceInv, Numbers, Starting, [Next]_vars PROVE Numbers'
  OBVIOUS
<1>1. CASE HandleEvent \/ TimerFires
  BY <1>1, MachineNumbers, WriteNumbers, SendNumbers
<1>2. CASE UNCHANGED vars
  BY <1>2 DEF vars, ctxVars, userVars, Numbers, Named, Number, Marks, Manual
<1> QED
  BY <1>1, <1>2, OtherNumbers DEF Next

\* What the machine does to the queues, when it does not send.
LEMMA MachineQueues ==
  ASSUME HandleEvent \/ TimerFires, ~Sends
  PROVE  /\ \/ UNCHANGED <<stream, up, down>>
            \/ stream' = FALSE /\ up' = << >> /\ down' = << >>
            \/ /\ stream' = TRUE /\ down' = << >>
               /\ up' = <<[type |-> "init", getLastSeqNo |-> ~hasEverConnected]>>
               /\ UNCHANGED <<mailbox, hasEverConnected>>
         /\ \/ mailbox' = mailbox
            \/ mailbox' = << >> /\ stream' = FALSE
            \/ /\ mailbox # << >>
               /\ \E posted \in {<< >>, <<PumpEvent>>} : mailbox' = Tail(mailbox) \o posted
<1> USE DEF ctxVars, streamVars
<1>1. CASE HandleWrite \/ HandleFlush \/ HandleClose \/ HandleDestroy
  BY <1>1 DEF HandleWrite, HandleFlush, HandleClose, HandleDestroy, Handles, Then, DrainedClose,
              Terminate
<1>2. CASE ToReady \/ InitWhileClosing \/ HandleAcks
  BY <1>2 DEF ToReady, InitWhileClosing, HandleAcks, Handles, Then, DrainedClose, Terminate
<1>3. CASE Disconnected \/ DisconnectedFatal \/ Ignore
  BY <1>3 DEF Disconnected, DisconnectedFatal, Ignore, Ignores, Handles, Then, Terminate
<1>4. CASE TimerFires
  BY <1>4 DEF TimerFires, StartTimeout, RetryBackoff, RecoveryWindow, GracefulTimeout, FlushTick,
              Connect, Terminate, Sends
<1> QED
  BY <1>1, <1>2, <1>3, <1>4 DEF HandleEvent, Sends

\* Every step keeps the start.
LEMMA StartingStep == PlaceInv /\ Numbers /\ Starting /\ [Next]_vars => Starting'
<1> SUFFICES ASSUME PlaceInv, Numbers, Starting, [Next]_vars, ~Manual', ~hasEverConnected'
             PROVE  /\ lastSeqNo' = 0 /\ serverLast' = Recovered
                    /\ Asks(up') /\ Tells(down') /\ Tells(mailbox')
  BY DEF Starting
<1> USE DEF ctxVars, streamVars, serverVars, userVars, machineOnly
<1>1. ~Manual /\ ~hasEverConnected /\ UNCHANGED numbering
  <2>1. UNCHANGED numbering
    <3>1. CASE HandleEvent \/ TimerFires
      BY <3>1, MachineEmits
    <3>2. CASE ConsumeOutput
      BY <3>2, ConsumeReports
    <3> QED
      BY <3>1, <3>2
         DEF Next, vars, Serve, ServeInit, ServeWrite, Deliver, Break, User, Write, Flush,
             FlushAborts, Close, Destroy
  <2>2. ~hasEverConnected
    <3>1. CASE HandleEvent \/ TimerFires
      <4>1. CASE HandleWrite \/ Sends
        BY <4>1, PumpQueues DEF Sends, HandleWrite
      <4>2. CASE ~(HandleWrite \/ Sends)
        BY <3>1, <4>2, MachineKeeps
      <4> QED
        BY <4>1, <4>2
    <3>2. CASE ConsumeOutput
      BY <3>2, ConsumeReports
    <3> QED
      BY <3>1, <3>2
         DEF Next, vars, Serve, ServeInit, ServeWrite, Deliver, Break, User, Write, Flush,
             FlushAborts, Close, Destroy
  <2> QED
    BY <2>1, <2>2 DEF Manual
<1>2. /\ lastSeqNo = 0 /\ serverLast = Recovered
      /\ Asks(up) /\ Tells(down) /\ Tells(mailbox)
  BY <1>1 DEF Starting
<1>3. up \in Seq(Request) /\ down \in Seq(Response) /\ mailbox \in Seq(MailEvent)
  BY Mailbox DEF PlaceInv, WriterInv, Types
<1>4. /\ Asks(<< >>) /\ Asks(<<[type |-> "init", getLastSeqNo |-> TRUE]>>) /\ Tells(<< >>)
      /\ up # << >> => Asks(Tail(up)) /\ Head(up) = [type |-> "init", getLastSeqNo |-> TRUE]
      /\ down # << >> => Tells(Tail(down))
  BY <1>2, <1>3, AsksKept, TellsKept
<1>a. ASSUME NEW e \in MailEvent, mailbox' = mailbox \/ mailbox' = Append(mailbox, e),
             e.type = "init" => e = [type |-> "init", lastSeqNo |-> Recovered]
      PROVE  Tells(mailbox')
  BY <1>2, <1>3, <1>a, TellsKept
<1>5. CASE HandleEvent \/ TimerFires
  <2>1. ~Sends
    BY <1>1 DEF Sends, HandlePump, MayPump, FlushTick, Due, Numbers
  <2>2. lastSeqNo' = 0 /\ serverLast' = Recovered
    <3>1. CASE HandleWrite
      BY <1>1, <1>2, <3>1 DEF HandleWrite, Manual
    <3>2. CASE ~HandleWrite
      <4>1. ~Opens
        BY <1>5, <2>1, <3>2, MachineKeeps
      <4> QED
        BY <1>2, <1>5, <2>1, <3>2, <4>1, MachineKeeps
    <3> QED
      BY <3>1, <3>2
  <2>3. Asks(up') /\ Tells(down')
    <3>1. ~hasEverConnected = TRUE
      BY <1>1, <1>2 DEF PlaceInv, WriterInv, Types
    <3> QED
      BY <1>2, <1>4, <1>5, <2>1, <3>1, MachineQueues
  <2>4. Tells(mailbox')
    <3>1. ASSUME mailbox # << >>, NEW posted \in {<< >>, <<PumpEvent>>},
                 mailbox' = Tail(mailbox) \o posted
          PROVE  Tells(mailbox')
      <4>1. Tail(mailbox) \in Seq(MailEvent) /\ Tells(Tail(mailbox))
        BY <1>2, <1>3, <3>1, TellsKept, Taken
      <4>2. PumpEvent \in MailEvent /\ PumpEvent.type # "init"
        BY EventKinds
      <4>3. Tells(Append(Tail(mailbox), PumpEvent))
        BY <4>1, <4>2, TellsKept
      <4>4. /\ Tail(mailbox) \o << >> = Tail(mailbox)
            /\ Tail(mailbox) \o <<PumpEvent>> = Append(Tail(mailbox), PumpEvent)
        BY <4>1, <4>2, Added
      <4> QED
        BY <3>1, <4>1, <4>3, <4>4
    <3> QED
      BY <1>2, <1>4, <1>5, <2>1, <3>1, MachineQueues
  <2> QED
    BY <2>2, <2>3, <2>4
<1>6. CASE ConsumeOutput
  BY <1>2, <1>6, ConsumeReports
<1>7. CASE Serve
  <2>1. up # << >> /\ Head(up) = [type |-> "init", getLastSeqNo |-> TRUE]
    BY <1>4, <1>7 DEF Serve, ServeInit, ServeWrite
  <2>2. Head(up).type = "init" /\ Head(up).getLastSeqNo = TRUE
    BY <2>1
  <2>3. ServeInit
    BY <1>7, <2>2 DEF Serve, ServeWrite
  <2> DEFINE e == [type |-> "init", lastSeqNo |-> Recovered]
  <2>4. down' = Append(down, e) /\ up' = Tail(up) /\ UNCHANGED <<lastSeqNo, serverLast, mailbox>>
    BY <1>2, <2>2, <2>3 DEF ServeInit
  <2>5. e \in Response
    BY WriterAssumption DEF Response
  <2>6. Tells(Append(down, e))
    BY <1>2, <1>3, <2>5, TellsKept
  <2> QED
    BY <1>2, <1>4, <2>1, <2>4, <2>6
<1>8. CASE Deliver
  <2>1. /\ down # << >> /\ down' = Tail(down) /\ mailbox' = Append(mailbox, Head(down))
        /\ UNCHANGED <<lastSeqNo, serverLast, up>>
    BY <1>8 DEF Deliver
  <2>2. /\ 1 \in 1 .. Len(down) /\ Head(down) = down[1] /\ Head(down) \in Response
    BY <1>3, <2>1, Taken
  <2>3. Head(down) \in MailEvent
    BY <2>2, EventKinds
  <2>4. Head(down).type = "init" => Head(down) = [type |-> "init", lastSeqNo |-> Recovered]
    BY <1>2, <2>2 DEF Tells
  <2> QED
    BY <1>2, <1>4, <1>a, <2>1, <2>3, <2>4
<1>9. CASE Break
  <2>1. /\ up' = << >> /\ down' = << >> /\ UNCHANGED <<lastSeqNo, serverLast>>
        /\ \E fatal \in BOOLEAN :
             mailbox' = Append(mailbox, [type |-> "disconnected", fatal |-> fatal])
    BY <1>9 DEF Break
  <2>2. PICK fatal \in BOOLEAN : mailbox' = Append(mailbox, [type |-> "disconnected", fatal |-> fatal])
    BY <2>1
  <2> DEFINE e == [type |-> "disconnected", fatal |-> fatal]
  <2>3. e \in MailEvent /\ e.type # "init" /\ mailbox' = Append(mailbox, e)
    BY <2>2, EventKinds
  <2> HIDE DEF e
  <2>4. Tells(mailbox')
    BY <1>a, <2>3
  <2> QED
    BY <1>2, <1>4, <2>1, <2>4
<1>10. CASE User
  <2>1. UNCHANGED <<lastSeqNo, serverLast, up, down>>
    BY <1>10 DEF User, Write, Flush, FlushAborts, Close, Destroy
  <2>2. \E e \in MailEvent : (mailbox' = mailbox \/ mailbox' = Append(mailbox, e)) /\ e.type # "init"
    BY <1>10, PostedKinds
  <2>3. Tells(mailbox')
    BY <1>a, <2>2
  <2> QED
    BY <1>2, <2>1, <2>3
<1>11. CASE UNCHANGED vars
  BY <1>2, <1>11 DEF vars
<1> QED
  BY <1>5, <1>6, <1>7, <1>8, <1>9, <1>10, <1>11 DEF Next

-----------------------------------------------------------------------------
(* What the server has and what it will get                                 *)

Base == IF Manual THEN 0 ELSE Recovered

\* A request that carries a message.
InBatch(request, n) ==
  request.type = "write" /\ \E k \in 1 .. Len(request.batch) : request.batch[k].id = n

\* What is told to the user, or on the way to the machine, is stored; what is stored are
\* the first messages.
FirstStored(queue, last) ==
  \A i \in 1 .. Len(queue) :
    /\ queue[i].type = "init" => queue[i].lastSeqNo <= last
    /\ queue[i].type = "acks" => \A n \in queue[i].seqNos : n <= last

FirstOnes(n) == [i \in 1 .. n |-> i]

Stored ==
  /\ Len(log) \in Nat /\ log = FirstOnes(Len(log))
  /\ serverLast = Base + Len(log)
  /\ \A n \in RepIds(outputs) \cup {acked} : n <= Len(log)
  /\ FirstStored(down, serverLast) /\ FirstStored(mailbox, serverLast)

\* A request under way carries messages in their order, and comes right behind what is
\* stored or what the requests before it carry.
Carries(batch, n) ==
  /\ Run(batch, 1, Len(batch))
  /\ \A k \in 1 .. Len(batch) :
       batch[k].id \in 1 .. n /\ batch[k].seqNo = Base + batch[k].id

Chained ==
  \A i \in 1 .. Len(up) : up[i].type = "write" =>
    /\ Carries(up[i].batch, written)
    /\ \/ up[i].batch[1].id <= Len(log) + 1
       \/ \E j \in 1 .. i - 1 : InBatch(up[j], up[i].batch[1].id - 1)

\* Unless its stream is opening or gone, what is in flight is stored or under way.
Underway ==
  stream /\ ~Opening =>
    \A m \in InflightIds(window) :
      m <= Len(log) \/ \E i \in 1 .. Len(up) : InBatch(up[i], m)

Delivered == Stored /\ Chained /\ Underway

\* What is in flight has its number.
LEMMA InflightNumbers ==
  ASSUME PlaceInv, Numbers
  PROVE  \A p \in window.inflightStart + 1 .. window.bufferStart :
           /\ window.messages[p].seqNo = Base + window.messages[p].id
           /\ window.messages[p].id \in Nat /\ Base \in Nat
<1> SUFFICES ASSUME NEW p \in window.inflightStart + 1 .. window.bufferStart
             PROVE  /\ window.messages[p].seqNo = Base + window.messages[p].id
                    /\ window.messages[p].id \in Nat /\ Base \in Nat
  OBVIOUS
<1> DEFINE i == window.messages[p].id
<1>1. /\ p \in window.inflightStart + 1 .. Len(window.messages)
      /\ ~Manual => Recovered + i <= lastSeqNo
      /\ Recovered \in Nat /\ acked \in Nat /\ written \in Nat
  BY Positions
<1>2. /\ i \in acked + 1 .. written
      /\ ~Manual => IF Recovered + i <= lastSeqNo
                    THEN window.messages[p].seqNo = Recovered + i
                    ELSE window.messages[p].seqNo = 0
      /\ Manual => window.messages[p].seqNo = i
  BY <1>1, Positions
<1>3. i \in Nat
  BY <1>1, <1>2
<1> HIDE DEF i
<1>4. window.messages[p].seqNo = Base + i /\ Base \in Nat
  BY <1>1, <1>2, <1>3 DEF Base
<1> QED
  BY <1>3, <1>4 DEF i

\* The answers under way when one is taken, one is added, or more is stored.
LEMMA FirstStoredKept ==
  ASSUME NEW S, NEW q \in Seq(S), NEW last, FirstStored(q, last)
  PROVE  /\ FirstStored(<< >>, last)
         /\ q # << >> => FirstStored(Tail(q), last)
         /\ \A e \in S : /\ e.type = "init" => e.lastSeqNo <= last
                         /\ e.type = "acks" => \A n \in e.seqNos : n <= last
                         => FirstStored(Append(q, e), last)
<1>1. FirstStored(<< >>, last)
  <2>1. Len(<< >>) = 0 /\ \A i \in 1 .. 0 : FALSE
    OBVIOUS
  <2> QED
    BY <2>1 DEF FirstStored
<1>2. q # << >> => FirstStored(Tail(q), last)
  BY Taken DEF FirstStored
<1>3. ASSUME NEW e \in S, e.type = "init" => e.lastSeqNo <= last,
             e.type = "acks" => \A n \in e.seqNos : n <= last
      PROVE  FirstStored(Append(q, e), last)
  <2> DEFINE more == Append(q, e)
  <2>1. /\ Len(q) \in Nat /\ Len(more) = Len(q) + 1
        /\ \A i \in 1 .. Len(q) : more[i] = q[i]
        /\ more[Len(q) + 1] = e
    BY Added
  <2> HIDE DEF more
  <2>2. \A i \in 1 .. Len(more) : i \in 1 .. Len(q) \/ i = Len(q) + 1
    BY <2>1
  <2>3. FirstStored(more, last)
    BY <1>3, <2>1, <2>2 DEF FirstStored
  <2> QED
    BY <2>3 DEF more
<1> QED
  BY <1>1, <1>2, <1>3

LEMMA FirstStoredGrows ==
  ASSUME NEW q \in Seq(MailEvent), NEW last \in Nat, NEW more \in Nat, last <= more,
         FirstStored(q, last)
  PROVE  FirstStored(q, more)
<1> SUFFICES ASSUME NEW i \in 1 .. Len(q)
             PROVE  /\ q[i].type = "init" => q[i].lastSeqNo <= more
                    /\ q[i].type = "acks" => \A n \in q[i].seqNos : n <= more
  BY DEF FirstStored
<1>1. q[i] \in MailEvent
  OBVIOUS
<1>2. CASE q[i].type = "init"
  <2> DEFINE n == q[i].lastSeqNo
  <2>1. n \in Nat /\ n <= last
    BY <1>1, <1>2, EventKinds DEF FirstStored
  <2> HIDE DEF n
  <2>2. n <= more
    BY <2>1
  <2> QED
    BY <1>2, <2>2 DEF n
<1>3. CASE q[i].type = "acks"
  <2>1. q[i].seqNos \in SUBSET Nat
    BY <1>1, <1>3 DEF MailEvent, Response
  <2> SUFFICES ASSUME NEW n \in q[i].seqNos PROVE n <= more
    BY <1>3
  <2>2. n \in Nat /\ n <= last
    BY <1>3, <2>1 DEF FirstStored
  <2> QED
    BY <2>2
<1> QED
  BY <1>2, <1>3

\* A handler takes the head of the mailbox and may post a pump.
LEMMA FirstStoredTaken ==
  ASSUME PlaceInv, NEW last, FirstStored(mailbox, last), NEW posted \in {<< >>, <<PumpEvent>>}
  PROVE  /\ mailbox # << >> => FirstStored(Tail(mailbox) \o posted, last)
         /\ FirstStored(mailbox \o posted, last)
<1>1. mailbox \in Seq(MailEvent) /\ PumpEvent \in MailEvent /\ PumpEvent.type = "pump"
  BY Mailbox, EventKinds DEF PlaceInv
<1>2. ASSUME NEW q \in Seq(MailEvent), FirstStored(q, last) PROVE FirstStored(q \o posted, last)
  <2>1. q \o << >> = q /\ q \o <<PumpEvent>> = Append(q, PumpEvent)
    BY <1>1, Added
  <2>2. FirstStored(Append(q, PumpEvent), last)
    BY <1>1, <1>2, FirstStoredKept
  <2> QED
    BY <1>2, <2>1, <2>2
<1>3. mailbox # << >> => Tail(mailbox) \in Seq(MailEvent) /\ FirstStored(Tail(mailbox), last)
  BY <1>1, FirstStoredKept, Taken
<1> QED
  BY <1>1, <1>2, <1>3

\* An answer covers what is stored.
LEMMA ToldIsStored ==
  ASSUME PlaceInv, Numbers, Stored, NEW N, AnswersTo(N), NEW m \in Told(N)
  PROVE  m <= Len(log)
<1>1. mailbox \in Seq(MailEvent) /\ mailbox # << >> /\ Event = Head(mailbox)
  BY Mailbox DEF PlaceInv, AnswersTo, Event
<1>2. 1 \in 1 .. Len(mailbox) /\ Event = mailbox[1] /\ Event \in MailEvent
  BY <1>1, Taken
<1>3. PICK p \in window.inflightStart + 1 .. window.bufferStart :
        window.messages[p].id = m /\ window.messages[p].seqNo \in N
  BY ToldInFlight
<1>4. /\ window.messages[p].seqNo = Base + m
      /\ m \in Nat /\ Base \in Nat
  BY <1>3, InflightNumbers
<1>5. serverLast \in Nat /\ serverLast = Base + Len(log) /\ Len(log) \in Nat
  BY DEF Stored, PlaceInv, WriterInv, Types
<1>6. Base + m <= serverLast
  <2>1. CASE Event.type = "init"
    <3>1. Base + m \in 1 .. Event.lastSeqNo /\ Event.lastSeqNo \in Nat
      BY <1>2, <1>3, <1>4, <2>1, EventKinds DEF AnswersTo
    <3>2. Event.lastSeqNo <= serverLast
      BY <1>2, <2>1 DEF Stored, FirstStored
    <3> DEFINE n == Event.lastSeqNo
    <3> HIDE DEF n
    <3>3. Base + m \in 1 .. n /\ n \in Nat /\ n <= serverLast
      BY <3>1, <3>2 DEF n
    <3> QED
      BY <1>4, <1>5, <3>3
  <2>2. CASE Event.type = "acks"
    BY <1>2, <1>3, <1>4, <2>2 DEF Stored, FirstStored, AnswersTo
  <2> QED
    BY <2>1, <2>2 DEF AnswersTo
<1> QED
  BY <1>4, <1>5, <1>6

LEMMA Joined ==
  ASSUME NEW S, NEW s \in Seq(S), NEW t \in Seq(S)
  PROVE  /\ s \o t \in Seq(S) /\ Len(s) \in Nat /\ Len(t) \in Nat
         /\ Len(s \o t) = Len(s) + Len(t)
         /\ \A i \in 1 .. Len(s) : (s \o t)[i] = s[i]
         /\ \A i \in 1 .. Len(t) : (s \o t)[Len(s) + i] = t[i]
OBVIOUS

\* Sequences of numbers that agree everywhere.
LEMMA SameNumbers ==
  ASSUME NEW s \in Seq(Nat), NEW t \in Seq(Nat), Len(s) = Len(t),
         \A i \in 1 .. Len(s) : s[i] = t[i]
  PROVE  s = t
OBVIOUS

LEMMA ListOf ==
  ASSUME NEW k \in Nat, NEW t \in [1 .. k -> Nat]
  PROVE  t \in Seq(Nat) /\ Len(t) = k
OBVIOUS

LEMMA OneToLen ==
  ASSUME NEW s \in Seq(Nat), \A i \in 1 .. Len(s) : s[i] = i
  PROVE  s = FirstOnes(Len(s))
BY DEF FirstOnes

\* Of a batch the server has seen the first ones.
Unseen(batch, seen) == [i \in 1 .. Len(batch) - seen |-> batch[seen + i].id]

\* The log g has become h, which ends with the batch.
Continues(g, h, batch, n, last) ==
  /\ Len(h) \in Nat /\ h = FirstOnes(Len(h))
  /\ h = g \/ Len(h) \in Len(g) + 1 .. n
  /\ Len(g) <= Len(h)
  /\ \A k \in 1 .. Len(batch) : batch[k].id <= Len(h)
  /\ Base + Len(h) = IF batch[Len(batch)].seqNo > last THEN batch[Len(batch)].seqNo ELSE last

\* The server stores of a batch what it has not seen; the batch follows what is stored.
LEMMA StoredBatch ==
  ASSUME NEW g, Len(g) \in Nat, g = FirstOnes(Len(g)),
         NEW batch \in Seq(Message) \ {<< >>}, NEW n \in Nat, Carries(batch, n), Base \in Nat,
         batch[1].id <= Len(g) + 1,
         NEW last, last = Base + Len(g),
         NEW seen \in 0 .. Len(batch),
         \A i \in 1 .. Len(batch) : batch[i].seqNo <= last <=> i <= seen,
         NEW h, h = g \o Unseen(batch, seen)
  PROVE  Continues(g, h, batch, n, last)
<1> SUFFICES /\ Len(h) \in Nat /\ h = FirstOnes(Len(h))
             /\ h = g \/ Len(h) \in Len(g) + 1 .. n
             /\ Len(g) <= Len(h)
             /\ \A k \in 1 .. Len(batch) : batch[k].id <= Len(h)
             /\ Base + Len(h) = IF batch[Len(batch)].seqNo > last THEN batch[Len(batch)].seqNo
                                ELSE last
  BY DEF Continues
<1> DEFINE l == Len(batch)
           L == Len(g)
           f == batch[1].id
           tail == [i \in 1 .. l - seen |-> batch[seen + i].id]
<1>1. /\ l \in Nat /\ l >= 1 /\ L \in Nat /\ seen \in Nat /\ seen <= l
      /\ \A k \in 1 .. l : batch[k] \in Message
  <2>1. batch \in Seq(Message) /\ batch # << >>
    OBVIOUS
  <2> QED
    BY <2>1
<1>2. \A k \in 1 .. l : /\ batch[k].id \in 1 .. n
                        /\ batch[k].seqNo = Base + batch[k].id
  BY DEF Carries
<1>3. \A i, j \in 1 .. l : batch[i].id + j = batch[j].id + i
  BY DEF Carries, Run
<1>u. /\ \A i \in 1 .. l : batch[i].seqNo <= last <=> i <= seen
      /\ h = g \o tail /\ f <= L + 1
  BY DEF Unseen
<1> HIDE DEF l, L, f
<1>4. f \in Nat /\ \A k \in 1 .. l : batch[k].id = f + k - 1 /\ f + k - 1 <= n /\ k \in Nat
  <2>1. 1 \in 1 .. l /\ f \in 1 .. n
    BY <1>1, <1>2 DEF f
  <2>2. ASSUME NEW k \in 1 .. l PROVE batch[k].id = f + k - 1 /\ f + k - 1 <= n /\ k \in Nat
    <3> DEFINE i == batch[k].id
    <3>1. i + 1 = f + k /\ i \in 1 .. n
      BY <1>2, <1>3, <2>1 DEF f
    <3> HIDE DEF i
    <3>2. i = f + k - 1 /\ f + k - 1 <= n /\ k \in Nat
      BY <1>1, <2>1, <3>1
    <3> QED
      BY <3>2 DEF i
  <2> QED
    BY <2>1, <2>2
<1>5. \A k \in 1 .. l : batch[k].seqNo = Base + (f + k - 1)
  BY <1>2, <1>4
<1>6. \A k \in 1 .. l : f + k - 1 <= L <=> k <= seen
  <2> SUFFICES ASSUME NEW k \in 1 .. l PROVE f + k - 1 <= L <=> k <= seen
    OBVIOUS
  <2>1. Base + (f + k - 1) <= Base + L <=> k <= seen
    BY <1>5, <1>u DEF L
  <2>2. Base + (f + k - 1) <= Base + L <=> f + k - 1 <= L
    BY <1>1, <1>4
  <2> QED
    BY <2>1, <2>2
<1>7. \A k \in 1 .. l - seen : tail[k] = f + (seen + k) - 1 /\ seen + k \in 1 .. l
  <2> SUFFICES ASSUME NEW k \in 1 .. l - seen
               PROVE  tail[k] = f + (seen + k) - 1 /\ seen + k \in 1 .. l
    OBVIOUS
  <2>1. seen + k \in 1 .. l
    BY <1>1
  <2>2. tail[k] = batch[seen + k].id
    OBVIOUS
  <2> QED
    BY <1>4, <2>1, <2>2
<1>t. tail \in Seq(Nat) /\ Len(tail) = l - seen
  <2>1. \A k \in 1 .. l - seen : batch[seen + k].id \in Nat
    <3> SUFFICES ASSUME NEW k \in 1 .. l - seen PROVE batch[seen + k].id \in Nat
      OBVIOUS
    <3>1. seen + k \in 1 .. l
      BY <1>1
    <3> QED
      BY <1>2, <3>1
  <2> DEFINE K == l - seen
  <2>2. K \in Nat
    BY <1>1
  <2>3. tail = [i \in 1 .. K |-> batch[seen + i].id] /\ \A k \in 1 .. K : batch[seen + k].id \in Nat
    BY <2>1
  <2> HIDE DEF K, tail
  <2>x. tail \in [1 .. K -> Nat]
    BY <2>3
  <2>4. tail \in Seq(Nat) /\ Len(tail) = K
    BY ONLY <2>2, <2>x, ListOf
  <2> QED
    BY <2>4 DEF K
<1>g. g \in Seq(Nat) /\ \A i \in 1 .. L : g[i] = i
  <2>1. g = [i \in 1 .. L |-> i]
    BY DEF L, FirstOnes
  <2> QED
    BY <1>1, <2>1
<1> HIDE DEF tail
<1>8. /\ h \in Seq(Nat) /\ Len(h) = L + (l - seen)
      /\ \A i \in 1 .. L : h[i] = i
      /\ \A i \in 1 .. l - seen : h[L + i] = tail[i]
  <2>1. Len(g) = L
    BY DEF L
  <2>2. /\ g \o tail \in Seq(Nat) /\ Len(g \o tail) = Len(g) + Len(tail)
        /\ \A i \in 1 .. Len(g) : (g \o tail)[i] = g[i]
        /\ \A i \in 1 .. Len(tail) : (g \o tail)[Len(g) + i] = tail[i]
    <3>1. g \in Seq(Nat) /\ tail \in Seq(Nat)
      BY <1>g, <1>t
    <3> QED
      BY ONLY <3>1, Joined
  <2>3. h = g \o tail
    BY <1>u
  <2> HIDE DEF tail
  <2> QED
    BY <1>g, <1>t, <2>1, <2>2, <2>3
<1>9. CASE seen = l
  <2>1. Len(h) = L
    BY <1>1, <1>8, <1>9
  <2>2. h = g
    <3>1. Len(g) = L
      BY DEF L
    <3> QED
      BY <1>8, <1>g, <2>1, <3>1, SameNumbers
  <2>3. ASSUME NEW k \in 1 .. l PROVE batch[k].id <= L
    <3>1. k <= seen
      BY <1>1, <1>9
    <3>2. f + k - 1 <= L /\ batch[k].id = f + k - 1
      BY <1>4, <1>6, <3>1
    <3> QED
      BY <3>2
  <2>4. ~(batch[l].seqNo > last)
    <3>1. l \in 1 .. l /\ l <= seen
      BY <1>1, <1>9
    <3>2. f + l - 1 <= L
      BY <1>6, <3>1
    <3>3. batch[l].seqNo = Base + (f + l - 1)
      BY <1>5, <3>1
    <3>4. last = Base + L
      BY DEF L
    <3> QED
      BY <1>1, <1>4, <3>2, <3>3, <3>4
  <2> QED
    <3>0. Len(g) = L
      BY DEF L
    <3>1. Len(h) \in Nat /\ Len(g) = L /\ Len(h) = L /\ L <= L
      BY ONLY <1>1, <2>1, <3>0
    <3>2. h = FirstOnes(Len(h))
      BY <2>2
    <3>3. \A k \in 1 .. l : batch[k].id <= Len(h)
      BY <2>3, <3>1
    <3>4. Base + Len(h) = last
      BY <3>1
    <3>5. Len(g) <= Len(h)
      BY <3>1
    <3> QED
      BY <2>2, <2>4, <3>1, <3>2, <3>3, <3>4, <3>5 DEF l
<1>10. CASE seen # l
  <2>1. f + seen = L + 1
    <3>1. seen + 1 \in 1 .. l /\ ~(seen + 1 <= seen)
      BY <1>1, <1>10
    <3>2. ~(f + (seen + 1) - 1 <= L)
      BY <1>6, <3>1
    <3>3. CASE seen = 0
      BY <1>1, <1>4, <1>u, <3>2, <3>3
    <3>4. CASE seen # 0
      <4>1. seen \in 1 .. l
        BY <1>1, <3>4
      <4>2. f + seen - 1 <= L
        BY <1>1, <1>6, <4>1
      <4> QED
        BY <1>1, <1>4, <3>2, <4>2
    <3> QED
      BY <3>3, <3>4
  <2>2. Len(h) = f + l - 1 /\ Len(h) \in Nat /\ L < Len(h)
    <3>1. Len(h) = L + (l - seen)
      BY <1>8
    <3> DEFINE H == Len(h)
    <3> HIDE DEF H
    <3>2. H = L + (l - seen)
      BY <3>1 DEF H
    <3>3. H = f + l - 1 /\ H \in Nat /\ L < H
      BY <1>1, <1>4, <1>10, <2>1, <3>2
    <3> QED
      BY <3>3 DEF H
  <2>3. ASSUME NEW i \in 1 .. Len(h) PROVE h[i] = i
    <3>1. CASE i \in 1 .. L
      BY <1>8, <3>1
    <3>2. CASE i \notin 1 .. L
      <4> DEFINE k == i - L
      <4>1. k \in 1 .. l - seen /\ i = L + k
        BY <1>1, <1>8, <3>2
      <4> HIDE DEF k
      <4>2. h[L + k] = f + (seen + k) - 1
        BY <1>7, <1>8, <4>1
      <4> QED
        <5>1. h[i] = f + (seen + k) - 1
          BY <4>1, <4>2
        <5>2. k \in Nat /\ f + (seen + k) - 1 = i
          BY <1>1, <1>4, <2>1, <4>1
        <5> QED
          BY <5>1, <5>2
    <3> QED
      BY <3>1, <3>2
  <2>4. h = FirstOnes(Len(h))
    <3>1. h \in Seq(Nat)
      BY <1>8
    <3> QED
      BY ONLY <3>1, <2>3, OneToLen
  <2>5. l \in 1 .. l
    BY <1>1
  <2>6. Len(h) <= n
    BY <1>4, <2>2, <2>5
  <2>7. ASSUME NEW k \in 1 .. l PROVE batch[k].id <= Len(h)
    BY <1>1, <1>4, <2>2
  <2>8. batch[l].seqNo = Base + Len(h)
    BY <1>5, <2>2, <2>5
  <2>9. last = Base + L
    BY DEF L
  <2>10. batch[l].seqNo > last
    BY <1>1, <2>2, <2>8, <2>9
  <2>11. Len(h) \in L + 1 .. n /\ L <= Len(h)
    BY <1>1, <2>2, <2>6
  <2> QED
    BY <2>2, <2>4, <2>7, <2>8, <2>10, <2>11 DEF l, L
<1> QED
  BY <1>9, <1>10

\* A new batch carries the next messages, and the one before them is in flight, reported or
\* acknowledged to the user.
LEMMA BatchCarries ==
  ASSUME PlaceInv, Numbers, CanSend(window), ~Manual => Recovered <= lastSeqNo
  PROVE  LET batch == Batch(window, lastSeqNo)
         IN /\ batch \in Seq(Message) \ {<< >>}
            /\ Carries(batch, written)
            /\ batch[1].id - 1 \in InflightIds(window) \cup RepIds(outputs) \cup {acked}
            /\ InflightIds(Sent(window, lastSeqNo)) \subseteq InflightIds(window) \cup Ids(batch)
<1> DEFINE w == window
           M == window.messages
           s == window.inflightStart
           b == window.bufferStart
           k == BatchSize(window)
           high == HighWater(window, lastSeqNo)
           N == Numbered(window, lastSeqNo)
           v == Sent(window, lastSeqNo)
           batch == Batch(window, lastSeqNo)
           R == RepIds(outputs)
           W == WinIds(window)
           Q == QueIds(mailbox)
<1>1. /\ Sound(window, lastSeqNo) /\ window \in Window /\ WindowShape(window)
      /\ WindowRun(window) /\ Tiled(R, W, Q, acked, written)
  BY Mailbox DEF PlaceInv, Places, Ordered
<1>2. /\ M \in Seq(Message) /\ Len(M) \in Nat /\ s \in Nat /\ b \in Nat /\ s <= b /\ b <= Len(M)
      /\ acked \in Nat /\ written \in Nat /\ Recovered \in Nat
      /\ \A p \in s + 1 .. Len(M) : M[p].id \in acked + 1 .. written /\ M[p].id \in W
  BY Positions
<1>3. k \in Nat /\ k >= 1 /\ b + k <= Len(M)
  <2> DEFINE c == window.bufferLength
             x == Len(window.messages)
  <2>1. c \in Nat /\ x = b + c
    BY <1>1, WindowFields
  <2>2. k \in Nat /\ k <= c /\ k >= 1
    BY <1>1, BatchSizes
  <2> HIDE DEF c, x, b, k
  <2>3. k \in Nat /\ k >= 1 /\ b + k <= x
    BY <1>2, <2>1, <2>2
  <2> QED
    BY <2>3 DEF x
<1>4. /\ Sound(v, high) /\ high \in Nat
  BY <1>1, SentSound
<1>5. /\ Len(N) = Len(M) /\ v.messages = N /\ v.inflightStart = s /\ v.bufferStart = b + k
      /\ WindowRun(v)
      /\ \A p \in 1 .. Len(M) : N[p].id = M[p].id
  BY <1>1, SentStays
<1>6. N \in Seq(Message)
  BY <1>1, NumberedProps
<1>7. Named(v, high)
  BY SentNumbers
<1>8. /\ batch \in Seq(Message) \ {<< >>}
  BY <1>1, BatchNotEmpty
<1> HIDE DEF N
<1>9. batch = SubSeq(N, b + 1, b + k)
  BY DEF Batch, N
<1> HIDE DEF M, s, b, k, high, v, batch, R, W, Q
<1>10. Len(batch) = k /\ \A j \in 1 .. k : batch[j] = N[b + j]
  <2> DEFINE lo == b + 1
             hi == b + k
  <2>1. lo \in Int /\ hi \in Int /\ lo <= hi /\ hi - lo + 1 = k
    BY <1>2, <1>3
  <2>2. \A j \in lo .. hi : N[j] \in Message
    BY <1>2, <1>3, <1>5, <1>6
  <2>h. batch = SubSeq(N, lo, hi)
    BY <1>9
  <2>w. \A j \in 1 .. k : lo + j - 1 = b + j
    BY <1>2
  <2> HIDE DEF lo, hi
  <2>3. /\ Len(batch) = hi - lo + 1
        /\ \A j \in 1 .. hi - lo + 1 : batch[j] = N[lo + j - 1]
    BY <2>1, <2>2, <2>h, SubSeqProperties
  <2> QED
    BY <2>1, <2>3, <2>w
<1>11. \A p \in s + 1 .. b + k :
         p \in s + 1 .. Len(N) /\ p \in 1 .. Len(M) /\ p \in 1 .. b + k
  BY <1>2, <1>3, <1>5
<1>12. ASSUME NEW p \in s + 1 .. b + k
       PROVE  /\ N[p].seqNo = Base + N[p].id
              /\ N[p].id = M[p].id /\ M[p].id \in acked + 1 .. written /\ M[p].id \in W
  <2>1. /\ p \in s + 1 .. Len(N) /\ p \in 1 .. Len(M) /\ p \in 1 .. b + k
        /\ p \in s + 1 .. Len(M)
    BY <1>5, <1>11
  <2>2. N[p].seqNo # 0
    BY <1>4, <1>5, <2>1 DEF Sound, WindowNumbers
  <2>3. N[p].seqNo = Number(N[p].id, high)
    BY <1>5, <1>7, <2>1 DEF Named
  <2>4. N[p].seqNo = Base + N[p].id
    <3>1. CASE Manual
      <4>1. N[p].id \in Nat
        BY <1>2, <1>5, <2>1
      <4> QED
        BY <2>3, <3>1, <4>1 DEF Number, Base
    <3>2. CASE ~Manual
      BY <2>2, <2>3, <3>2 DEF Number, Base
    <3> QED
      BY <3>1, <3>2
  <2> QED
    BY <1>2, <1>5, <2>1, <2>4
<1>13. \A j \in 1 .. k : b + j \in s + 1 .. b + k
  BY <1>2, <1>3
<1>14. Carries(batch, written)
  <2>1. ASSUME NEW j \in 1 .. k
        PROVE  batch[j].id \in 1 .. written /\ batch[j].seqNo = Base + batch[j].id
    <3>1. /\ batch[j] = N[b + j] /\ N[b + j].seqNo = Base + N[b + j].id
          /\ N[b + j].id \in acked + 1 .. written
      BY <1>10, <1>12, <1>13
    <3> QED
      BY <1>2, <3>1
  <2>2. Run(batch, 1, k)
    <3> SUFFICES ASSUME NEW i \in 1 .. k, NEW j \in 1 .. k
                 PROVE  batch[i].id + j = batch[j].id + i
      BY DEF Run
    <3>1. N[b + i].id + (b + j) = N[b + j].id + (b + i)
      <4>1. b + i \in s + 1 .. Len(N) /\ b + j \in s + 1 .. Len(N)
        BY <1>11, <1>13
      <4> QED
        BY <1>5, <4>1 DEF WindowRun, Run
    <3> DEFINE x == N[b + i].id
               y == N[b + j].id
    <3>2. x \in acked + 1 .. written /\ y \in acked + 1 .. written /\ x + (b + j) = y + (b + i)
      BY <1>12, <1>13, <3>1
    <3>3. batch[i].id = x /\ batch[j].id = y
      BY <1>10
    <3> HIDE DEF x, y
    <3>4. i \in Nat /\ j \in Nat
      BY <1>3
    <3>5. x \in Int /\ y \in Int
      BY <1>2, <3>2
    <3>6. x + j = y + i
      BY <1>2, <3>2, <3>4, <3>5
    <3> QED
      BY <3>3, <3>6
  <2> QED
    BY <1>10, <2>1, <2>2 DEF Carries
<1>15. batch[1].id - 1 \in InflightIds(window) \cup R \cup {acked}
  <2> DEFINE f == batch[1].id
  <2>1. /\ b + 1 \in s + 1 .. b + k /\ b + 1 \in s + 1 .. Len(M)
        /\ f = M[b + 1].id /\ f \in acked + 1 .. written /\ f \in W
    <3>1. 1 \in 1 .. k /\ b + 1 \in s + 1 .. b + k /\ b + 1 \in s + 1 .. Len(M)
      BY <1>2, <1>3
    <3> QED
      BY <1>10, <1>12, <3>1
  <2> HIDE DEF f
  <2>2. CASE s < b
    <3>1. b \in s + 1 .. b /\ b \in s + 1 .. Len(M)
      BY <1>2, <2>2
    <3>2. M[b + 1].id + b = M[b].id + (b + 1)
      BY <1>1, <2>1, <3>1 DEF WindowRun, Run, M, s
    <3>3. M[b].id \in acked + 1 .. written
      BY <1>2, <3>1
    <3> DEFINE g == M[b].id
    <3>4. g \in InflightIds(window)
      BY <3>1 DEF InflightIds, M, s, b
    <3>5. f + b = g + (b + 1) /\ g \in acked + 1 .. written
      BY <2>1, <3>2, <3>3
    <3> HIDE DEF g
    <3>6. f - 1 = g
      <4>1. f \in Int /\ g \in Int /\ b \in Int
        BY <1>2, <2>1, <3>5
      <4> QED
        BY <3>5, <4>1
    <3> QED
      BY <3>4, <3>6 DEF f
  <2>3. CASE ~(s < b)
    <3>1. s = b
      BY <1>2, <2>3
    <3>2. ASSUME NEW p \in s + 1 .. Len(M) PROVE ~(M[p].id < f)
      <4>1. M[p].id + (b + 1) = f + p
        BY <1>1, <2>1 DEF WindowRun, Run, M, s
      <4> DEFINE g == M[p].id
      <4>2. g \in acked + 1 .. written /\ g + (b + 1) = f + p
        BY <1>2, <4>1
      <4> HIDE DEF g
      <4>3. ~(g < f)
        BY <1>2, <2>1, <3>1, <4>2
      <4> QED
        BY <4>3 DEF g
    <3>3. f - 1 \notin W
      <4>1. W = {M[p].id : p \in s + 1 .. Len(M)}
        BY DEF W, WinIds, M, s
      <4>2. f - 1 < f
        BY <1>2, <2>1
      <4> QED
        BY <3>2, <4>1, <4>2
    <3>4. f - 1 \notin Q
      <4>1. \A q \in Q : f < q
        BY <1>1, <2>1 DEF Tiled, Before
      <4>2. ~(f < f - 1)
        BY <1>2, <2>1
      <4> QED
        BY <4>1, <4>2
    <3>5. CASE f = acked + 1
      <4>1. f - 1 = acked
        BY <1>2, <3>5
      <4> QED
        BY <4>1 DEF f
    <3>6. CASE f # acked + 1
      <4>1. f - 1 \in acked + 1 .. f
        BY <1>2, <2>1, <3>6
      <4>2. f - 1 \in R \cup W \cup Q
        BY <1>1, <2>1, <4>1 DEF Tiled
      <4> QED
        BY <3>3, <3>4, <4>2 DEF f
    <3> QED
      BY <3>5, <3>6
  <2> QED
    BY <2>2, <2>3
<1>16. InflightIds(v) \subseteq InflightIds(window) \cup Ids(batch)
  <2> SUFFICES ASSUME NEW p \in s + 1 .. b + k PROVE N[p].id \in InflightIds(window) \cup Ids(batch)
    BY <1>5 DEF InflightIds
  <2>1. CASE p \in s + 1 .. b
    <3>1. N[p].id = M[p].id
      BY <1>12
    <3>2. M[p].id \in InflightIds(window)
      BY <2>1 DEF InflightIds, M, s, b
    <3> QED
      BY <3>1, <3>2
  <2>2. CASE p \notin s + 1 .. b
    <3> DEFINE j == p - b
    <3>1. j \in 1 .. k /\ p = b + j
      BY <1>2, <1>3, <2>2
    <3> HIDE DEF j
    <3>2. batch[j] = N[p] /\ j \in 1 .. Len(batch)
      BY <1>10, <3>1
    <3>3. batch[j].id \in Ids(batch)
      BY <3>2 DEF Ids
    <3> QED
      BY <3>2, <3>3
  <2> QED
    BY <2>1, <2>2
<1> QED
  BY <1>8, <1>14, <1>15, <1>16 DEF batch, v, R

\* What is in flight was so before, unless a batch is sent.
LEMMA InflightKept ==
  ASSUME PlaceInv, Numbers, HandleEvent \/ TimerFires, ~Sends
  PROVE  InflightIds(window') \subseteq InflightIds(window)
<1>1. CASE HandleWrite
  <2> DEFINE message == [id |-> Event.id, seqNo |-> IF numbering = "manual" THEN Event.id ELSE 0]
             M == window.messages
             more == window'.messages
  <2>1. window' = Enqueued(window, message)
    BY <1>1 DEF HandleWrite
  <2>2. window \in Window
    BY Mailbox DEF PlaceInv
  <2>3. more = Append(M, message)
    BY <2>1, <2>2 DEF Enqueued, Window
  <2>4. window'.inflightStart = window.inflightStart
    BY <2>1, <2>2 DEF Enqueued, Window
  <2>5. window'.bufferStart = window.bufferStart
    BY <2>1, <2>2 DEF Enqueued, Window
  <2>6. /\ M \in Seq(Message)
        /\ \A p \in window.inflightStart + 1 .. window.bufferStart : p \in 1 .. Len(M)
    BY Positions
  <2>7. InflightIds(window') = {more[p].id : p \in window.inflightStart + 1 .. window.bufferStart}
    BY <2>4, <2>5 DEF InflightIds
  <2> HIDE DEF message, M, more
  <2>8. M \in Seq(Message \cup {message}) /\ message \in Message \cup {message}
    BY <2>6
  <2>9. \A p \in 1 .. Len(M) : more[p] = M[p]
    BY <2>3, <2>8, Added
  <2> QED
    BY <2>6, <2>7, <2>9 DEF InflightIds, M
<1>2. CASE ~HandleWrite
  <2>1. Kept(window, window')
    BY <1>2, MachineKeeps
  <2> QED
    BY <2>1 DEF Kept, InflightIds
<1> QED
  BY <1>1, <1>2

\* When a stream has opened, what was in flight on the one before is not any more.
LEMMA InitHandled ==
  ASSUME PlaceInv, Phase, HandleEvent \/ TimerFires, ~Sends, Opening, ~Opening', stream'
  PROVE  InflightIds(window') = {}
<1>1. mailbox \in Seq(MailEvent)
  BY Mailbox DEF PlaceInv
<1>2. UNCHANGED <<up, down>>
  <2>1. ASSUME up' = <<[type |-> "init", getLastSeqNo |-> ~hasEverConnected]>> PROVE FALSE
    <3>1. Len(up') = 1 /\ up'[1].type = "init"
      BY <2>1
    <3>2. Has(up', "init")
      BY <3>1 DEF Has
    <3> QED
      BY <3>2 DEF Opening
  <2> QED
    BY <2>1, MachineQueues
<1>3. Has(mailbox, "init") /\ ~Has(mailbox', "init")
  BY <1>2 DEF Opening
<1>4. mailbox # << >> /\ Event.type = "init"
  <2>1. mailbox # << >> /\ \E posted \in {<< >>, <<PumpEvent>>} : mailbox' = Tail(mailbox) \o posted
    BY <1>3, MachineQueues
  <2> QED
    BY <1>1, <1>3, <2>1, BoxTaken DEF Event
<1>5. HandleEvent
  BY <1>4 DEF TimerFires, StartTimeout, RetryBackoff, RecoveryWindow, GracefulTimeout,
              FlushTick, Due
<1>6. state # "ready"
  BY DEF Phase, Calm
<1>7. Opens /\ ~HandleWrite
  BY <1>4, <1>5, <1>6
     DEF HandleEvent, HandleWrite, HandleFlush, HandleClose, HandleDestroy, HandlePump,
         HandleAcks, Disconnected, DisconnectedFatal, Ignore, Ignores, Handles, Opens
<1>8. window'.inflightStart = window'.bufferStart
  BY <1>7, MachineKeeps
<1>9. window' \in Window
  BY PlacesStep DEF Next, PlaceInv, WriterInv, Sound
<1>10. window'.bufferStart \in Nat
  BY <1>9 DEF Window
<1>11. window'.inflightStart + 1 .. window'.bufferStart = {}
  BY <1>8, <1>10
<1> QED
  BY <1>11 DEF InflightIds

\* The machine reports what is stored, and leaves what is under way on the stream or gives
\* the stream up.
LEMMA MachineDelivers ==
  ASSUME PlaceInv, Numbers, Phase, Delivered, HandleEvent \/ TimerFires, ~Sends
  PROVE  Delivered'
<1>1. UNCHANGED <<written, acked, log, serverLast, numbering>>
  BY MachineEmits
<1>2. Base' = Base
  BY <1>1 DEF Base, Manual
<1>3. \A n \in RepIds(outputs') \cup {acked'} : n <= Len(log)
  <2>1. \A n \in RepIds(outputs) \cup {acked} : n <= Len(log)
    BY DEF Delivered, Stored
  <2>2. CASE RepIds(outputs') = RepIds(outputs)
    BY <1>1, <2>1, <2>2
  <2>3. CASE \E N : AnswersTo(N) /\ RepIds(outputs') = RepIds(outputs) \cup Told(N)
    <3>1. PICK N : AnswersTo(N) /\ RepIds(outputs') = RepIds(outputs) \cup Told(N)
      BY <2>3
    <3>2. \A m \in Told(N) : m <= Len(log)
      BY <3>1, ToldIsStored DEF Delivered
    <3> QED
      BY <1>1, <2>1, <3>1, <3>2
  <2> QED
    BY <2>2, <2>3, MachineReports
<1>4. FirstStored(down', serverLast) /\ FirstStored(mailbox', serverLast)
  <2>1. FirstStored(down, serverLast) /\ FirstStored(mailbox, serverLast)
    BY DEF Delivered, Stored
  <2>2. FirstStored(<< >>, serverLast)
    <3>1. down \in Seq(Response)
      BY DEF PlaceInv, WriterInv, Types
    <3> QED
      BY <2>1, <3>1, FirstStoredKept
  <2>3. down' = down \/ down' = << >>
    BY MachineQueues
  <2>4. ASSUME mailbox # << >>, NEW posted \in {<< >>, <<PumpEvent>>},
               mailbox' = Tail(mailbox) \o posted
        PROVE  FirstStored(mailbox', serverLast)
    BY <2>1, <2>4, FirstStoredTaken
  <2>5. FirstStored(mailbox', serverLast)
    BY <2>1, <2>2, <2>4, MachineQueues
  <2> QED
    BY <2>1, <2>2, <2>3, <2>5
<1>5. Stored'
  BY <1>1, <1>2, <1>3, <1>4 DEF Delivered, Stored
<1>6. \/ UNCHANGED <<stream, up, down>>
      \/ stream' = FALSE /\ up' = << >>
      \/ stream' /\ Len(up') = 1 /\ up'[1].type = "init"
  <2>1. ASSUME up' = <<[type |-> "init", getLastSeqNo |-> ~hasEverConnected]>>
        PROVE  Len(up') = 1 /\ up'[1].type = "init"
    BY <2>1
  <2> QED
    BY <2>1, MachineQueues
<1>7. Chained'
  <2>1. CASE up' = up
    BY <1>1, <1>2, <2>1 DEF Delivered, Chained, Carries
  <2>2. CASE up' = << >>
    BY <2>2 DEF Chained
  <2>3. CASE Len(up') = 1 /\ up'[1].type = "init"
    <3>1. \A i \in 1 .. Len(up') : up'[i].type # "write"
      BY <2>3
    <3> QED
      BY <3>1 DEF Chained
  <2> QED
    BY <1>6, <2>1, <2>2, <2>3
<1>8. Underway'
  <2> SUFFICES ASSUME stream', ~Opening', NEW m \in InflightIds(window')
               PROVE  m <= Len(log) \/ \E i \in 1 .. Len(up') : InBatch(up'[i], m)
    BY <1>1 DEF Underway
  <2>1. ~Opening
    BY InitHandled
  <2>2. UNCHANGED <<stream, up>>
    <3>1. ASSUME Len(up') = 1, up'[1].type = "init" PROVE FALSE
      <4>1. Has(up', "init")
        BY <3>1 DEF Has
      <4> QED
        BY <4>1 DEF Opening
    <3> QED
      BY <1>6, <3>1
  <2>3. m \in InflightIds(window)
    BY InflightKept
  <2>4. m <= Len(log) \/ \E i \in 1 .. Len(up) : InBatch(up[i], m)
    BY <2>1, <2>2, <2>3 DEF Delivered, Underway
  <2> QED
    BY <2>2, <2>4
<1> QED
  BY <1>5, <1>7, <1>8 DEF Delivered

\* A batch goes out behind what is stored or under way.
LEMMA SendDelivers ==
  ASSUME PlaceInv, Numbers, Phase, Delivered, Sends
  PROVE  Delivered'
<1> DEFINE batch == Batch(window, lastSeqNo)
           request == [type |-> "write", batch |-> batch]
<1>1. /\ CanSend(window) /\ window' = Sent(window, lastSeqNo)
      /\ up' = IF stream THEN Append(up, request) ELSE up
      /\ request \in Request
      /\ UNCHANGED <<hasEverConnected, stream, down, outputs, acked, written, log, serverLast,
                     numbering>>
  BY PumpQueues DEF Sends
<1>2. ~Manual => Recovered <= lastSeqNo
  <2>1. state = "ready" \/ hasEverConnected
    BY DEF Sends, HandlePump, MayPump, FlushTick, Due
  <2> QED
    BY <2>1 DEF Numbers
<1>3. /\ batch \in Seq(Message) \ {<< >>}
      /\ Carries(batch, written)
      /\ batch[1].id - 1 \in InflightIds(window) \cup RepIds(outputs) \cup {acked}
      /\ InflightIds(window') \subseteq InflightIds(window) \cup Ids(batch)
  BY <1>1, <1>2, BatchCarries
<1>r. request.type = "write" /\ request.batch = batch
  OBVIOUS
<1> HIDE DEF batch, request
<1>4. Base' = Base
  BY <1>1 DEF Base, Manual
<1>5. Stored'
  <2>1. FirstStored(mailbox, serverLast)
    BY DEF Delivered, Stored
  <2>2. FirstStored(mailbox', serverLast)
    <3>1. CASE HandlePump
      <4>1. mailbox # << >> /\ \E posted \in {<< >>, <<PumpEvent>>} : mailbox' = Tail(mailbox) \o posted
        BY <3>1 DEF HandlePump, Handles, Pump
      <4> QED
        BY <2>1, <4>1, FirstStoredTaken
    <3>2. CASE FlushTick /\ CanSend(window)
      <4>1. \E posted \in {<< >>, <<PumpEvent>>} : mailbox' = mailbox \o posted
        BY <3>2 DEF FlushTick, Pump
      <4> QED
        BY <2>1, <4>1, FirstStoredTaken
    <3> QED
      BY <3>1, <3>2 DEF Sends
  <2> QED
    BY <1>1, <1>4, <2>2 DEF Delivered, Stored
<1>6. CASE ~stream
  <2>1. Chained'
    BY <1>1, <1>4, <1>6 DEF Delivered, Chained, Carries
  <2>2. Underway'
    BY <1>1, <1>6 DEF Underway
  <2> QED
    BY <1>5, <2>1, <2>2 DEF Delivered
<1>7. CASE stream
  <2>1. ~Opening
    BY <1>7, SendingOpened DEF Sends
  <2>2. /\ Len(up) \in Nat /\ Len(up') = Len(up) + 1
        /\ \A i \in 1 .. Len(up) : up'[i] = up[i]
        /\ up'[Len(up) + 1] = request
    <3>1. up \in Seq(Request) /\ up' = Append(up, request)
      BY <1>1, <1>7 DEF PlaceInv, WriterInv, Types
    <3> QED
      BY <1>1, <3>1, Added
  <2>3. \A i \in 1 .. Len(up') : i \in 1 .. Len(up) \/ i = Len(up) + 1
    BY <2>2
  <2>4. ASSUME NEW m \in InflightIds(window)
        PROVE  m <= Len(log) \/ \E j \in 1 .. Len(up) : InBatch(up'[j], m)
    <3>1. m <= Len(log) \/ \E j \in 1 .. Len(up) : InBatch(up[j], m)
      BY <1>7, <2>1 DEF Delivered, Underway
    <3> QED
      BY <2>2, <3>1
  <2>5. Chained'
    <3> SUFFICES ASSUME NEW i \in 1 .. Len(up'), up'[i].type = "write"
                 PROVE  /\ Carries(up'[i].batch, written)
                        /\ \/ up'[i].batch[1].id <= Len(log) + 1
                           \/ \E j \in 1 .. i - 1 : InBatch(up'[j], up'[i].batch[1].id - 1)
      BY <1>1, <1>4 DEF Chained, Carries
    <3>1. CASE i \in 1 .. Len(up)
      <4>1. \A j \in 1 .. i - 1 : up'[j] = up[j]
        BY <2>2, <3>1
      <4>2. up'[i] = up[i] /\ up[i].type = "write"
        BY <2>2, <3>1
      <4>3. /\ Carries(up[i].batch, written)
            /\ \/ up[i].batch[1].id <= Len(log) + 1
               \/ \E j \in 1 .. i - 1 : InBatch(up[j], up[i].batch[1].id - 1)
        BY <3>1, <4>2 DEF Delivered, Chained
      <4> QED
        BY <4>1, <4>2, <4>3
    <3>2. CASE i = Len(up) + 1
      <4> DEFINE f == batch[1].id
      <4>1. up'[i].batch = batch /\ i - 1 = Len(up)
        BY <1>r, <2>2, <3>2
      <4>2. CASE f - 1 \in InflightIds(window)
        <5>1. f - 1 <= Len(log) \/ \E j \in 1 .. i - 1 : InBatch(up'[j], f - 1)
          BY <2>4, <4>1, <4>2
        <5>2. f \in Nat /\ Len(log) \in Nat
          <6>1. 1 \in 1 .. Len(batch)
            BY <1>3
          <6> QED
            BY <1>3, <6>1 DEF Carries, Delivered, Stored
        <5> HIDE DEF f
        <5>3. f - 1 <= Len(log) => f <= Len(log) + 1
          BY <5>2
        <5> QED
          BY <1>3, <4>1, <5>1, <5>3 DEF f
      <4>3. CASE f - 1 \in RepIds(outputs) \cup {acked}
        <5>1. f - 1 <= Len(log)
          BY <4>3 DEF Delivered, Stored
        <5>2. f \in Nat /\ Len(log) \in Nat
          <6>1. 1 \in 1 .. Len(batch)
            BY <1>3
          <6> QED
            BY <1>3, <6>1 DEF Carries, Delivered, Stored
        <5> HIDE DEF f
        <5>3. f <= Len(log) + 1
          BY <5>1, <5>2
        <5> QED
          BY <1>3, <4>1, <5>3 DEF f
      <4> QED
        BY <1>3, <4>2, <4>3
    <3> QED
      BY <2>3, <3>1, <3>2
  <2>6. Underway'
    <3> SUFFICES ASSUME NEW m \in InflightIds(window')
                 PROVE  m <= Len(log) \/ \E i \in 1 .. Len(up') : InBatch(up'[i], m)
      BY <1>1 DEF Underway
    <3>1. CASE m \in InflightIds(window)
      <4>1. \A j \in 1 .. Len(up) : j \in 1 .. Len(up')
        BY <2>2
      <4> QED
        BY <2>4, <3>1, <4>1
    <3>2. CASE m \in Ids(batch)
      <4>1. InBatch(request, m)
        BY <1>r, <3>2 DEF InBatch, Ids
      <4>2. Len(up) + 1 \in 1 .. Len(up')
        BY <2>2
      <4> QED
        BY <2>2, <4>1, <4>2
    <3> QED
      BY <1>3, <3>1, <3>2
  <2> QED
    BY <1>5, <2>5, <2>6 DEF Delivered
<1> QED
  BY <1>6, <1>7

\* An answer to an init tells what is stored, or nothing.
LEMMA ServeInitDelivers ==
  ASSUME PlaceInv, Phase, Delivered, ServeInit
  PROVE  Delivered'
<1>1. /\ up # << >> /\ Head(up).type = "init" /\ up' = Tail(up)
      /\ UNCHANGED <<window, mailbox, outputs, acked, written, log, serverLast, numbering, stream>>
  BY DEF ServeInit, ctxVars, serverVars, userVars
<1>2. PICK last \in {serverLast, 0} : down' = Append(down, [type |-> "init", lastSeqNo |-> last])
  BY DEF ServeInit
<1> DEFINE e == [type |-> "init", lastSeqNo |-> last]
<1>3. /\ down \in Seq(Response) /\ up \in Seq(Request) /\ serverLast \in Nat
  BY DEF PlaceInv, WriterInv, Types
<1>4. last \in Nat /\ last <= serverLast
  BY <1>2, <1>3
<1>5. e \in Response /\ e.type = "init" /\ e.lastSeqNo = last
  BY <1>4 DEF Response
<1>6. down' = Append(down, e)
  BY <1>2
<1> HIDE DEF e
<1>7. FirstStored(down', serverLast)
  <2>1. FirstStored(down, serverLast)
    BY DEF Delivered, Stored
  <2> QED
    BY <1>3, <1>4, <1>5, <1>6, <2>1, FirstStoredKept
<1>8. Has(up, "init") /\ Has(down', "init")
  <2>1. Has(up, "init")
    BY <1>1, <1>3, HasTaken
  <2> QED
    BY <1>3, <1>5, <1>6, <2>1, HasAdded
<1>9. up' = << >>
  <2>1. Len(up) = 1
    BY <1>8 DEF Phase, Lines
  <2> QED
    BY <1>1, <1>3, <2>1, Taken, EmptySeq
<1>10. Stored'
  BY <1>1, <1>7 DEF Delivered, Stored, Base, Manual
<1>11. Chained' /\ Underway'
  BY <1>8, <1>9 DEF Chained, Underway, Opening
<1> QED
  BY <1>10, <1>11 DEF Delivered

\* A batch is stored: the requests behind it follow what is stored or under way.
LEMMA ServeWriteDelivers ==
  ASSUME PlaceInv, Phase, Delivered, ServeWrite
  PROVE  /\ Delivered'
         /\ log' = log \/ Len(log') \in Len(log) + 1 .. written
<1> DEFINE batch == Head(up).batch
           acks == {batch[i].seqNo : i \in 1 .. Len(batch)}
           e == [type |-> "acks", seqNos |-> acks]
<1>1. /\ up # << >> /\ Head(up).type = "write" /\ up' = Tail(up)
      /\ down' = Append(down, e)
      /\ UNCHANGED <<window, mailbox, outputs, acked, written, numbering, stream>>
  BY DEF ServeWrite, ctxVars, userVars
<1>2. PICK seen \in 0 .. Len(batch) :
        /\ \A i \in 1 .. Len(batch) : batch[i].seqNo <= serverLast <=> i <= seen
        /\ log' = log \o Unseen(batch, seen)
  BY DEF ServeWrite, Unseen
<1>3. serverLast' = IF batch[Len(batch)].seqNo > serverLast THEN batch[Len(batch)].seqNo
                    ELSE serverLast
  BY DEF ServeWrite
<1>4. /\ down \in Seq(Response) /\ mailbox \in Seq(MailEvent) /\ up \in Seq(Request)
      /\ serverLast \in Nat /\ written \in Nat
  BY Mailbox DEF PlaceInv, WriterInv, Types
<1>5. /\ Len(up) \in Nat /\ Len(up) >= 1 /\ Head(up) = up[1] /\ Head(up) \in Request
      /\ Len(up') = Len(up) - 1
      /\ \A i \in 1 .. Len(up') : up'[i] = up[i + 1] /\ i + 1 \in 1 .. Len(up)
  BY <1>1, <1>4, Taken
<1>6. /\ batch \in Seq(Message) \ {<< >>} /\ up[1].type = "write" /\ up[1].batch = batch
  BY <1>1, <1>5, RequestKinds
<1>e. e.type = "acks" /\ e.seqNos = acks
  OBVIOUS
<1> HIDE DEF batch, e
<1>7. /\ Carries(batch, written) /\ batch[1].id <= Len(log) + 1
  <2>1. 1 \in 1 .. Len(up) /\ \A j \in 1 .. 1 - 1 : FALSE
    BY <1>5
  <2>2. /\ Carries(up[1].batch, written)
        /\ \/ up[1].batch[1].id <= Len(log) + 1
           \/ \E j \in 1 .. 1 - 1 : InBatch(up[j], up[1].batch[1].id - 1)
    BY <1>6, <2>1 DEF Delivered, Chained
  <2> QED
    BY <1>6, <2>1, <2>2
<1>8. /\ Len(log) \in Nat /\ log = FirstOnes(Len(log)) /\ serverLast = Base + Len(log)
  BY DEF Delivered, Stored
<1>9. Base \in Nat /\ Base' = Base
  BY <1>1, WriterAssumption DEF Base, Manual
<1>10. /\ Len(log') \in Nat /\ log' = FirstOnes(Len(log'))
       /\ log' = log \/ Len(log') \in Len(log) + 1 .. written
       /\ Len(log) <= Len(log')
       /\ \A k \in 1 .. Len(batch) : batch[k].id <= Len(log')
       /\ Base + Len(log') = serverLast'
  <2> DEFINE g == log
             h == log'
             last == serverLast
  <2>1. /\ Len(g) \in Nat /\ g = FirstOnes(Len(g)) /\ last = Base + Len(g)
        /\ batch[1].id <= Len(g) + 1
        /\ \A i \in 1 .. Len(batch) : batch[i].seqNo <= last <=> i <= seen
        /\ h = g \o Unseen(batch, seen)
    BY <1>2, <1>7, <1>8
  <2> HIDE DEF g, h, last
  <2>2. Continues(g, h, batch, written, last)
    <3>1. seen \in 0 .. Len(batch)
      OBVIOUS
    <3>2. batch \in Seq(Message) \ {<< >>} /\ written \in Nat /\ Carries(batch, written) /\ Base \in Nat
      BY <1>4, <1>6, <1>7, <1>9
    <3> QED
      BY ONLY <2>1, <3>1, <3>2, StoredBatch
  <2> QED
    BY <1>3, <2>2 DEF g, h, last, Continues
<1> DEFINE n == Len(log)
           more == Len(log')
<1>11. /\ n \in Nat /\ more \in Nat /\ n <= more /\ serverLast = Base + n
       /\ serverLast' = Base + more /\ serverLast <= serverLast' /\ serverLast' \in Nat
       /\ \A k \in 1 .. Len(batch) : batch[k].id <= more
  BY <1>8, <1>9, <1>10
<1>12. \A m : InBatch(up[1], m) => m <= more
  BY <1>6, <1>11 DEF InBatch
<1> HIDE DEF n, more
<1>13. FirstStored(down', serverLast') /\ FirstStored(mailbox', serverLast')
  <2>1. down \in Seq(MailEvent)
    BY <1>4, EventKinds
  <2>2. FirstStored(down, serverLast') /\ FirstStored(mailbox, serverLast')
    BY <1>4, <1>11, <2>1, FirstStoredGrows DEF Delivered, Stored
  <2>3. \A m \in acks : m \in Nat /\ m <= serverLast'
    <3> SUFFICES ASSUME NEW k \in 1 .. Len(batch)
                 PROVE  batch[k].seqNo \in Nat /\ batch[k].seqNo <= serverLast'
      OBVIOUS
    <3> DEFINE i == batch[k].id
    <3>1. i \in 1 .. written /\ batch[k].seqNo = Base + i /\ i <= more
      BY <1>7, <1>11 DEF Carries
    <3>2. i \in Nat
      BY <1>4, <3>1
    <3> HIDE DEF i
    <3>3. Base + i \in Nat /\ Base + i <= Base + more
      BY <1>9, <1>11, <3>1, <3>2
    <3> QED
      BY <1>11, <3>1, <3>3
  <2>4. acks \in SUBSET Nat
    BY <2>3
  <2> HIDE DEF acks
  <2>5. e \in Response
    BY <2>4 DEF Response, e
  <2>6. FirstStored(Append(down, e), serverLast')
    BY <1>4, <1>e, <2>2, <2>3, <2>5, FirstStoredKept
  <2> QED
    BY <1>1, <2>2, <2>6
<1>14. Stored'
  <2>1. \A m \in RepIds(outputs) \cup {acked} : m \in Nat /\ m <= n
    <3>1. acked \in Nat /\ RepIds(outputs) \subseteq Nat
      BY DEF PlaceInv, Places, Ordered, Tiled
    <3> QED
      BY <3>1 DEF Delivered, Stored, n
  <2>2. \A m \in RepIds(outputs) \cup {acked} : m <= more
    BY <1>11, <2>1
  <2> QED
    BY <1>1, <1>9, <1>10, <1>13, <2>2 DEF Stored, more
<1>15. Chained'
  <2> SUFFICES ASSUME NEW i \in 1 .. Len(up'), up'[i].type = "write"
               PROVE  /\ Carries(up'[i].batch, written)
                      /\ \/ up'[i].batch[1].id <= more + 1
                         \/ \E j \in 1 .. i - 1 : InBatch(up'[j], up'[i].batch[1].id - 1)
    BY <1>1, <1>9 DEF Chained, Carries, more
  <2> DEFINE r == up[i + 1]
             f == r.batch[1].id
  <2>1. up'[i] = r /\ r.type = "write" /\ i + 1 \in 1 .. Len(up) /\ r \in Request
    BY <1>4, <1>5
  <2>2. /\ Carries(r.batch, written)
        /\ \/ f <= n + 1
           \/ \E j \in 1 .. i + 1 - 1 : InBatch(up[j], f - 1)
    BY <2>1 DEF Delivered, Chained, n
  <2>3. f \in Nat
    <3>1. r.batch \in Seq(Message) \ {<< >>}
      BY <2>1, RequestKinds
    <3>2. 1 \in 1 .. Len(r.batch)
      BY <3>1
    <3> QED
      BY <2>2, <3>2 DEF Carries
  <2> HIDE DEF r
  <2>4. CASE f <= n + 1
    <3>1. f <= more + 1
      BY <1>11, <2>3, <2>4
    <3> QED
      BY <2>1, <2>2, <3>1
  <2>5. CASE \E j \in 1 .. i + 1 - 1 : InBatch(up[j], f - 1)
    <3>1. PICK j \in 1 .. i + 1 - 1 : InBatch(up[j], f - 1)
      BY <2>5
    <3>2. i \in Nat /\ i >= 1 /\ i <= Len(up')
      BY <1>5
    <3>3. CASE j = 1
      <4>1. f - 1 <= more
        BY <1>12, <3>1, <3>3
      <4>2. f <= more + 1
        BY <1>11, <2>3, <4>1
      <4> QED
        BY <2>1, <2>2, <4>2
    <3>4. CASE j # 1
      <4> DEFINE h == j - 1
      <4>1. h \in 1 .. i - 1 /\ h \in 1 .. Len(up') /\ h + 1 = j
        BY <1>5, <3>2, <3>4
      <4> HIDE DEF h
      <4>2. up'[h] = up[j]
        BY <1>5, <4>1
      <4> QED
        BY <2>1, <2>2, <3>1, <4>1, <4>2
    <3> QED
      BY <3>3, <3>4
  <2> QED
    BY <2>2, <2>4, <2>5
<1>16. Underway'
  <2> SUFFICES ASSUME stream, ~Opening', NEW m \in InflightIds(window)
               PROVE  m <= more \/ \E i \in 1 .. Len(up') : InBatch(up'[i], m)
    BY <1>1 DEF Underway, more
  <2>1. ~Opening
    <3>1. ~Has(up, "init")
      <4>1. ASSUME Has(up, "init") PROVE FALSE
        <5>1. Len(up) = 1
          BY <4>1 DEF Phase, Lines
        <5>2. PICK i \in 1 .. Len(up) : up[i].type = "init"
          BY <4>1 DEF Has
        <5> QED
          BY <1>6, <5>1, <5>2
      <4> QED
        BY <4>1
    <3>2. ~Has(down, "init")
      BY <1>1 DEF Phase, Lines
    <3>3. ~Has(mailbox, "init")
      BY <1>1 DEF Opening
    <3> QED
      BY <3>1, <3>2, <3>3 DEF Opening
  <2>2. m \in Nat
    <3>1. PICK p \in window.inflightStart + 1 .. window.bufferStart : m = window.messages[p].id
      BY DEF InflightIds
    <3>2. /\ window \in Window /\ WindowShape(window)
      BY Mailbox DEF PlaceInv
    <3>3. window.messages[p] \in Message
      <4>1. /\ window.inflightStart \in Nat /\ window.bufferStart \in Nat
            /\ window.bufferLength \in Nat
            /\ Len(window.messages) = window.bufferStart + window.bufferLength
        BY <3>2, WindowFields
      <4>2. p \in 1 .. Len(window.messages)
        BY <4>1
      <4> QED
        BY <3>2, <4>2, WindowFields
    <3> QED
      BY <3>1, <3>3 DEF Message
  <2>3. m <= n \/ \E i \in 1 .. Len(up) : InBatch(up[i], m)
    BY <2>1 DEF Delivered, Underway, n
  <2>4. CASE m <= n
    BY <1>11, <2>2, <2>4
  <2>5. CASE \E i \in 1 .. Len(up) : InBatch(up[i], m)
    <3>1. PICK i \in 1 .. Len(up) : InBatch(up[i], m)
      BY <2>5
    <3>2. CASE i = 1
      BY <1>12, <3>1, <3>2
    <3>3. CASE i # 1
      <4> DEFINE h == i - 1
      <4>1. h \in 1 .. Len(up') /\ h + 1 = i
        BY <1>5, <3>3
      <4> HIDE DEF h
      <4>2. up'[h] = up[i]
        BY <1>5, <4>1
      <4> QED
        BY <3>1, <4>1, <4>2
    <3> QED
      BY <3>2, <3>3
  <2> QED
    BY <2>3, <2>4, <2>5
<1> QED
  BY <1>10, <1>14, <1>15, <1>16 DEF Delivered

\* An answer arrives; a stream breaks.
LEMMA StreamDelivers ==
  ASSUME PlaceInv, Delivered, Deliver \/ Break
  PROVE  Delivered'
<1>1. /\ down \in Seq(Response) /\ mailbox \in Seq(MailEvent)
      /\ FirstStored(down, serverLast) /\ FirstStored(mailbox, serverLast)
  BY Mailbox DEF PlaceInv, WriterInv, Types, Delivered, Stored
<1>2. CASE Deliver
  <2>1. /\ down # << >> /\ down' = Tail(down) /\ mailbox' = Append(mailbox, Head(down))
        /\ UNCHANGED <<window, outputs, acked, written, log, serverLast, numbering, stream, up>>
    BY <1>2 DEF Deliver, ctxVars, serverVars, userVars
  <2>2. /\ Head(down) = down[1] /\ 1 \in 1 .. Len(down) /\ Head(down) \in Response
        /\ Tail(down) \in Seq(Response)
    BY <1>1, <2>1, Taken
  <2>3. Head(down) \in MailEvent
    BY <2>2, EventKinds
  <2>4. FirstStored(down', serverLast)
    BY <1>1, <2>1, FirstStoredKept
  <2>5. FirstStored(mailbox', serverLast)
    <3>1. /\ Head(down).type = "init" => Head(down).lastSeqNo <= serverLast
          /\ Head(down).type = "acks" => \A n \in Head(down).seqNos : n <= serverLast
      BY <1>1, <2>2 DEF FirstStored
    <3> QED
      BY <1>1, <2>1, <2>3, <3>1, FirstStoredKept
  <2>6. Opening => Opening'
    <3>1. /\ \A t : Has(down, t) => Head(down).type = t \/ Has(down', t)
          /\ \A t : Has(mailbox', t) <=> Has(mailbox, t) \/ Head(down).type = t
      BY <1>1, <2>1, <2>3, HasTaken, HasAdded
    <3> QED
      BY <2>1, <3>1 DEF Opening
  <2>7. Stored'
    BY <2>1, <2>4, <2>5 DEF Delivered, Stored, Base, Manual
  <2>8. Chained'
    BY <2>1 DEF Delivered, Chained, Carries, Base, Manual
  <2>9. Underway'
    BY <2>1, <2>6 DEF Delivered, Underway
  <2> QED
    BY <2>7, <2>8, <2>9 DEF Delivered
<1>3. CASE Break
  <2>1. /\ stream' = FALSE /\ up' = << >> /\ down' = << >>
        /\ \E fatal \in BOOLEAN :
             mailbox' = Append(mailbox, [type |-> "disconnected", fatal |-> fatal])
        /\ UNCHANGED <<window, outputs, acked, written, log, serverLast, numbering>>
    BY <1>3 DEF Break, ctxVars, serverVars, userVars
  <2>2. PICK fatal \in BOOLEAN :
          mailbox' = Append(mailbox, [type |-> "disconnected", fatal |-> fatal])
    BY <2>1
  <2> DEFINE e == [type |-> "disconnected", fatal |-> fatal]
  <2>3. e \in MailEvent /\ e.type = "disconnected"
    BY EventKinds
  <2> HIDE DEF e
  <2>4. FirstStored(Append(mailbox, e), serverLast) /\ FirstStored(<< >>, serverLast)
    BY <1>1, <2>3, FirstStoredKept
  <2>5. mailbox' = Append(mailbox, e)
    BY <2>2 DEF e
  <2>6. Stored'
    BY <2>1, <2>4, <2>5 DEF Delivered, Stored, Base, Manual
  <2>7. Chained' /\ Underway'
    BY <2>1 DEF Chained, Underway
  <2> QED
    BY <2>6, <2>7 DEF Delivered
<1> QED
  BY <1>2, <1>3

\* The user: one more message may be accepted, and an event posted.
LEMMA UserDelivers ==
  ASSUME PlaceInv, Delivered, User
  PROVE  Delivered'
<1>1. PICK e \in MailEvent :
        /\ mailbox' = mailbox \/ mailbox' = Append(mailbox, e)
        /\ e.type \in {"write", "flush", "close", "destroy"}
  BY PostedKinds
<1>2. /\ UNCHANGED <<window, outputs, acked, log, serverLast, numbering, stream, up, down>>
      /\ written' \in {written, written + 1}
  BY DEF User, Write, Close, Destroy, Flush, FlushAborts, machineOnly, ctxVars, streamVars, serverVars
<1>3. /\ mailbox \in Seq(MailEvent) /\ FirstStored(mailbox, serverLast) /\ written \in Nat
  BY Mailbox DEF PlaceInv, WriterInv, Types, Delivered, Stored
<1>4. FirstStored(mailbox', serverLast)
  <2>1. e.type # "init" /\ e.type # "acks"
    BY <1>1
  <2>2. FirstStored(Append(mailbox, e), serverLast)
    BY <1>3, <2>1, FirstStoredKept
  <2> QED
    BY <1>1, <1>3, <2>2
<1>5. Has(mailbox, "init") => Has(mailbox', "init")
  <2>1. Has(mailbox, "init") => Has(Append(mailbox, e), "init")
    BY <1>3, HasAdded
  <2> QED
    BY <1>1, <2>1
<1>6. Base' = Base
  BY <1>2 DEF Base, Manual
<1>7. Stored'
  BY <1>2, <1>4, <1>6 DEF Delivered, Stored
<1>8. \A b : Carries(b, written) => Carries(b, written')
  <2> SUFFICES ASSUME NEW b, Carries(b, written), NEW k \in 1 .. Len(b)
               PROVE  b[k].id \in 1 .. written' /\ b[k].seqNo = Base + b[k].id
    BY DEF Carries
  <2> DEFINE i == b[k].id
  <2>1. i \in 1 .. written /\ b[k].seqNo = Base + i
    BY DEF Carries
  <2> HIDE DEF i
  <2>2. i \in 1 .. written'
    BY <1>2, <1>3, <2>1
  <2> QED
    BY <2>1, <2>2 DEF i
<1>9. Chained'
  <2> SUFFICES ASSUME NEW i \in 1 .. Len(up), up[i].type = "write"
               PROVE  /\ Carries(up[i].batch, written')
                      /\ \/ up[i].batch[1].id <= Len(log) + 1
                         \/ \E j \in 1 .. i - 1 : InBatch(up[j], up[i].batch[1].id - 1)
    BY <1>2, <1>6 DEF Chained, Carries
  <2> QED
    BY <1>8 DEF Delivered, Chained
<1>10. Underway'
  BY <1>2, <1>5 DEF Delivered, Underway, Opening
<1> QED
  BY <1>7, <1>9, <1>10 DEF Delivered

\* #consume: what was reported becomes acknowledged.
LEMMA ConsumeDelivers ==
  ASSUME PlaceInv, Delivered, ConsumeOutput
  PROVE  Delivered'
<1>1. /\ RepIds(outputs') \subseteq RepIds(outputs)
      /\ acked' \in RepIds(outputs) \cup {acked}
      /\ UNCHANGED <<window, numbering, written, mailbox, stream, up, down, serverLast, log>>
  BY ConsumeReports
<1>2. Stored'
  BY <1>1 DEF Delivered, Stored, Base, Manual
<1>3. Chained' /\ Underway'
  BY <1>1 DEF Delivered, Chained, Carries, Base, Manual, Underway, Opening
<1> QED
  BY <1>2, <1>3 DEF Delivered

\* Every step keeps it.
LEMMA DeliveredStep ==
  PlaceInv /\ Numbers /\ Phase /\ Delivered /\ [Next]_vars => Delivered'
<1> SUFFICES ASSUME PlaceInv, Numbers, Phase, Delivered, [Next]_vars PROVE Delivered'
  OBVIOUS
<1>1. CASE HandleEvent \/ TimerFires
  BY <1>1, MachineDelivers, SendDelivers
<1>2. CASE ConsumeOutput
  BY <1>2, ConsumeDelivers
<1>3. CASE Serve
  BY <1>3, ServeInitDelivers, ServeWriteDelivers DEF Serve
<1>4. CASE Deliver \/ Break
  BY <1>4, StreamDelivers
<1>5. CASE User
  BY <1>5, UserDelivers
<1>6. CASE UNCHANGED vars
  <2>1. UNCHANGED <<window, outputs, acked, written, log, serverLast, numbering, stream, up, down,
                    mailbox>>
    BY <1>6 DEF vars, ctxVars, streamVars, serverVars, userVars
  <2> QED
    BY <2>1 DEF Delivered, Stored, Chained, Carries, Base, Manual, Underway, Opening
<1> QED
  BY <1>1, <1>2, <1>3, <1>4, <1>5, <1>6 DEF Next

-----------------------------------------------------------------------------
(* The refinement                                                           *)

DurableInv == PlaceInv /\ EndInv /\ Numbers /\ Starting /\ Phase /\ Delivered

LEMMA DurableStart == Init => DurableInv
<1> SUFFICES ASSUME Init PROVE DurableInv
  OBVIOUS
<1> DEFINE e == [type |-> "init", getLastSeqNo |-> TRUE]
<1>1. /\ outputs = << >> /\ window = EmptyWindow /\ mailbox = << >> /\ down = << >>
      /\ up = <<e>> /\ stream = TRUE /\ state = "connecting" /\ closed = FALSE
      /\ acked = 0 /\ written = 0 /\ lastSeqNo = 0 /\ hasEverConnected = FALSE
      /\ serverLast = Recovered /\ seqNoMode = "none"
      /\ log = IF numbering = "manual" THEN [i \in 1 .. Recovered |-> i] ELSE << >>
  BY DEF Init
<1>2. Len(<< >>) = 0 /\ \A i \in 1 .. 0 : FALSE
  OBVIOUS
<1>4. e.type = "init"
  OBVIOUS
<1> HIDE DEF e
<1>3. Len(up) = 1 /\ \A i \in 1 .. Len(up) : up[i] = e
  BY <1>1
<1>5. EmptyWindow.messages = << >> /\ EmptyWindow.inflightStart = 0 /\ EmptyWindow.bufferStart = 0
  BY DEF EmptyWindow
<1>6. RepIds(<< >>) = {} /\ QueIds(<< >>) = {} /\ InflightIds(window) = {}
  BY <1>1, <1>2, <1>5, EmptyIds DEF RepIds, InflightIds
<1>7. Recovered \in Nat
  BY WriterAssumption
<1>8. EndInv
  <2>1. << >> \in Seq(PlainOutput)
    OBVIOUS
  <2> QED
    BY <1>1, <1>2, <2>1 DEF EndInv, Terminal
<1>9. Numbers
  <2>1. Named(window, lastSeqNo)
    BY <1>1, <1>2, <1>5 DEF Named
  <2>2. Marks(outputs, mailbox, acked, written, lastSeqNo)
    BY <1>1, <1>6, <1>7 DEF Marks
  <2> QED
    BY <1>1, <2>1, <2>2 DEF Numbers
<1>10. Starting
  BY <1>1, <1>2, <1>3 DEF Starting, Asks, Tells, e
<1>11. Phase
  <2>1. Lines(up, down, mailbox, stream)
    BY <1>1, <1>2, <1>3, HasNothing DEF Lines, One, Only
  <2> QED
    BY <1>1, <2>1 DEF Phase, Calm
<1>12. Delivered
  <2>1. Len(log) \in Nat /\ log = FirstOnes(Len(log)) /\ serverLast = Base + Len(log)
    <3>1. CASE numbering = "manual"
      <4>1. log = FirstOnes(Recovered) /\ Base = 0
        BY <1>1, <3>1 DEF FirstOnes, Base, Manual
      <4>2. Len(log) = Recovered
        BY <1>7, <4>1 DEF FirstOnes
      <4> QED
        BY <1>1, <1>7, <4>1, <4>2
    <3>2. CASE numbering # "manual"
      <4>1. log = << >> /\ Base = Recovered
        BY <1>1, <3>2 DEF Base, Manual
      <4>2. << >> = FirstOnes(0)
        BY DEF FirstOnes
      <4> QED
        BY <1>1, <1>2, <1>7, <4>1, <4>2
    <3> QED
      BY <3>1, <3>2
  <2>2. Stored
    <3>1. FirstStored(<< >>, serverLast)
      BY <1>2 DEF FirstStored
    <3>2. \A n \in RepIds(outputs) \cup {acked} : n <= Len(log)
      <4>1. RepIds(outputs) \cup {acked} = {0}
        BY <1>1, <1>6
      <4> DEFINE k == Len(log)
      <4>2. k \in Nat
        BY <2>1
      <4> HIDE DEF k
      <4>3. 0 <= k
        BY <4>2
      <4> QED
        BY <4>1, <4>3 DEF k
    <3> QED
      BY <1>1, <2>1, <3>1, <3>2 DEF Stored
  <2>3. Chained
    BY <1>3, <1>4 DEF Chained
  <2> QED
    BY <1>6, <2>2, <2>3 DEF Delivered, Underway
<1> QED
  BY <1>8, <1>9, <1>10, <1>11, <1>12, PlacesInit DEF DurableInv

LEMMA DurableInvAlways ==
  ASSUME OrderlyClose
  PROVE  Spec => []DurableInv
<1>1. DurableInv /\ [Next]_vars => DurableInv'
  BY PlacesStep, EndStep, NumbersStep, StartingStep, PhaseStep, DeliveredStep DEF DurableInv
<1> QED
  BY <1>1, DurableStart, PTL DEF Spec

\* The status that the public object shows.
Status == IF lastError THEN "failed" ELSE IF closed THEN "closed" ELSE "open"

\* onAck is called: what it confirms is stored.
LEMMA AcksConfirm ==
  ASSUME DurableInv, DurableInv', ConsumeAcks
  PROVE  Durable!Confirm \/ UNCHANGED <<written, log, acked, Status>>
<1>1. /\ outputs # << >> /\ Head(outputs).type = "acks"
      /\ acked' = acked + Len(Head(outputs).batch)
      /\ UNCHANGED <<written, log, closed, lastError>>
  BY DEF ConsumeAcks, Consume, consumeUnchanged, serverVars
<1>2. Len(Head(outputs).batch) \in Nat
  <2>1. OutputsOk(outputs)
    BY DEF DurableInv, PlaceInv, Places, Ordered
  <2>2. Head(outputs) \in Output
    BY <1>1, <2>1, OutputTaken
  <2>3. Head(outputs).batch \in Seq(Message)
    BY <1>1, <2>2, OutputKinds
  <2> QED
    BY <2>3
<1>3. /\ acked \in Nat /\ acked' \in Nat /\ written' \in Nat /\ acked' <= written'
  BY DEF DurableInv, PlaceInv, Places, Ordered, Tiled
<1>4. acked' <= Len(log')
  BY DEF DurableInv, Delivered, Stored
<1>5. Status # "closed" /\ Status' = Status
  <2>1. ~closed
    BY <1>1 DEF DurableInv, EndInv
  <2> QED
    BY <1>1, <2>1 DEF Status
<1>6. CASE acked' = acked
  BY <1>1, <1>5, <1>6
<1>7. CASE acked' # acked
  <2>1. acked' \in acked + 1 .. written
    BY <1>1, <1>2, <1>3, <1>7
  <2> QED
    BY <1>1, <1>4, <1>5, <2>1 DEF Durable!Confirm, Status
<1> QED
  BY <1>6, <1>7

\* A writer that has closed without an error has told everything.
LEMMA ClosedIsWhole ==
  ASSUME DurableInv, ConsumeClosed
  PROVE  Durable!Close \/ UNCHANGED <<written, log, acked, Status>>
<1>1. /\ outputs # << >> /\ Head(outputs).type = "closed" /\ closed' = TRUE
      /\ UNCHANGED <<written, log, acked, lastError>>
  BY DEF ConsumeClosed, Consume, consumeUnchanged, serverVars
<1>2. CASE lastError
  BY <1>1, <1>2 DEF Status
<1>3. CASE ~lastError
  <2>1. ~closed
    BY <1>1 DEF DurableInv, EndInv
  <2>2. /\ outputs \in Seq(Output) /\ acked \in Nat /\ written \in Nat /\ acked <= written
    BY DEF DurableInv, PlaceInv, Places, Ordered, OutputsOk, Tiled
  <2>3. /\ Head(outputs) = outputs[1] /\ 1 \in 1 .. Len(outputs) /\ Len(outputs) \in Nat
    BY <1>1, <2>2, Taken
  <2>4. Len(outputs) = 1
    BY <1>1, <2>3 DEF DurableInv, EndInv
  <2>5. \A i \in 1 .. Len(outputs) : outputs[i].type = "closed"
    BY <1>1, <2>3, <2>4
  <2>6. state \in Terminal
    <3>1. ASSUME state \notin Terminal PROVE FALSE
      <4>1. outputs \in Seq(PlainOutput)
        BY <3>1 DEF DurableInv, EndInv
      <4>2. outputs[1] \in PlainOutput
        BY <2>3, <4>1
      <4> QED
        BY <1>1, <2>3, <4>2, PlainKinds
    <3> QED
      BY <3>1
  <2>7. state = "closed"
    <3>1. ~Has(outputs, "error")
      BY <2>5 DEF Has
    <3> QED
      BY <1>3, <2>1, <2>6, <3>1 DEF DurableInv, EndInv, Terminal
  <2>8. RepIds(outputs) = {}
    BY <2>5 DEF RepIds
  <2>9. mailbox = << >> /\ window = EmptyWindow
    BY <2>6 DEF DurableInv, EndInv
  <2>10. acked + 1 .. written \subseteq RepIds(outputs) \cup WinIds(window) \cup QueIds(mailbox)
    BY <1>3, <2>7 DEF DurableInv, PlaceInv, Places, Alive, Whole
  <2>11. acked + 1 .. written = {}
    BY <2>8, <2>9, <2>10, EmptyIds
  <2>12. acked = written
    <3>1. ~(acked + 1 <= written)
      BY <2>2, <2>11
    <3> QED
      BY <2>2, <3>1
  <2>13. Status = "open" /\ Status' = "closed"
    BY <1>1, <1>3, <2>1 DEF Status
  <2> QED
    BY <1>1, <2>12, <2>13 DEF Durable!Close, Status
<1> QED
  BY <1>2, <1>3

\* Everything else that is consumed.
LEMMA OthersConsumed ==
  ASSUME DurableInv, ConsumeFlushed \/ ConsumeError
  PROVE  Durable!Fail \/ UNCHANGED <<written, log, acked, Status>>
<1>1. /\ outputs # << >> /\ UNCHANGED <<written, log, acked, closed>>
      /\ lastError' = lastError \/ lastError' = TRUE
  BY DEF ConsumeFlushed, ConsumeError, Consume, consumeUnchanged, serverVars
<1>2. ~closed /\ lastError \in BOOLEAN
  BY <1>1 DEF DurableInv, EndInv, PlaceInv, CallsInv
<1> QED
  BY <1>1, <1>2 DEF Status, Durable!Fail

\* The server stores, or answers only.
LEMMA ServePersists ==
  ASSUME DurableInv, Serve
  PROVE  Durable!Persist \/ UNCHANGED <<written, log, acked, Status>>
<1>1. UNCHANGED <<written, acked, Status>>
  BY DEF Serve, ServeInit, ServeWrite, userVars, Status
<1>2. CASE ServeInit
  BY <1>1, <1>2 DEF ServeInit, serverVars
<1>3. CASE ServeWrite
  <2>1. /\ log' = log \/ Len(log') \in Len(log) + 1 .. written
        /\ Delivered'
    BY <1>3, ServeWriteDelivers DEF DurableInv
  <2>2. log' = FirstOnes(Len(log'))
    BY <2>1 DEF Delivered, Stored
  <2>3. CASE log' = log
    BY <1>1, <2>3
  <2>4. CASE log' # log
    <3>1. log' = Durable!FirstMessages(Len(log'))
      BY <2>2 DEF FirstOnes, Durable!FirstMessages
    <3> QED
      BY <1>1, <2>1, <2>4, <3>1 DEF Durable!Persist, Status
  <2> QED
    BY <2>3, <2>4
<1> QED
  BY <1>2, <1>3 DEF Serve

\* The user: a write is a promise, destroy() breaks it.
LEMMA UserSubmits ==
  ASSUME DurableInv, User
  PROVE  Durable!Submit \/ Durable!Fail \/ UNCHANGED <<written, log, acked, Status>>
<1>1. lastError \in BOOLEAN /\ closed \in BOOLEAN
  BY DEF DurableInv, PlaceInv, CallsInv
<1>2. CASE Write
  BY <1>2 DEF Write, machineOnly, serverVars, Durable!Submit, Status
<1>3. CASE Destroy
  BY <1>1, <1>3 DEF Destroy, machineOnly, serverVars, Durable!Fail, Status
<1>4. CASE Close \/ \E f \in Flusher : Flush(f) \/ FlushAborts(f)
  BY <1>4 DEF Close, Flush, FlushAborts, machineOnly, serverVars, Status
<1> QED
  BY <1>2, <1>3, <1>4 DEF User

LEMMA DurableNext ==
  ASSUME DurableInv, DurableInv', [Next]_vars
  PROVE  Durable!Next \/ UNCHANGED <<written, log, acked, Status>>
<1>1. CASE HandleEvent \/ TimerFires
  BY <1>1, MachineEmits DEF DurableInv, Status
<1>2. CASE ConsumeOutput
  BY <1>2, AcksConfirm, ClosedIsWhole, OthersConsumed DEF ConsumeOutput, Durable!Next
<1>3. CASE Serve
  BY <1>3, ServePersists DEF Durable!Next
<1>4. CASE Deliver \/ Break
  <2>1. UNCHANGED <<written, log, acked, closed, lastError>>
    BY <1>4 DEF Deliver, Break, serverVars, userVars
  <2> QED
    BY <2>1 DEF Status
<1>5. CASE User
  BY <1>5, UserSubmits DEF Durable!Next
<1>6. CASE UNCHANGED vars
  BY <1>6 DEF vars, serverVars, userVars, Status
<1> QED
  BY <1>1, <1>2, <1>3, <1>4, <1>5, <1>6 DEF Next

\* DurableSpec: a writer that is closed in an orderly way implements DurableLog.  Whatever
\* breaks and whenever, what the server has stored is a prefix of what was written, each
\* message once; onAck confirms only what is stored; close() succeeds only when everything
\* was confirmed.
THEOREM DurableHolds ==
  ASSUME OrderlyClose
  PROVE  Spec => DurableSpec
<1>1. Init => Durable!Init
  <2> SUFFICES ASSUME Init PROVE Durable!Init
    OBVIOUS
  <2>1. /\ written = 0 /\ acked = 0 /\ Status = "open"
        /\ log = IF numbering = "manual" THEN [i \in 1 .. Recovered |-> i] ELSE << >>
    BY DEF Init, Status
  <2>2. \E n \in 0 .. Recovered : log = Durable!FirstMessages(n)
    <3>1. Recovered \in 0 .. Recovered /\ 0 \in 0 .. Recovered
      BY WriterAssumption
    <3>2. CASE numbering = "manual"
      <4>1. log = Durable!FirstMessages(Recovered)
        BY <2>1, <3>2 DEF Durable!FirstMessages
      <4> QED
        BY <3>1, <4>1
    <3>3. CASE numbering # "manual"
      <4>1. log = Durable!FirstMessages(0)
        BY <2>1, <3>3 DEF Durable!FirstMessages
      <4> QED
        BY <3>1, <4>1
    <3> QED
      BY <3>2, <3>3
  <2> QED
    BY <2>1, <2>2 DEF Durable!Init, Status
<1>2. DurableInv /\ DurableInv' /\ [Next]_vars => [Durable!Next]_(Durable!vars)
  <2> SUFFICES ASSUME DurableInv, DurableInv', [Next]_vars
               PROVE  Durable!Next \/ UNCHANGED Durable!vars
    OBVIOUS
  <2> QED
    BY DurableNext DEF Durable!vars, Status
<1> QED
  BY <1>1, <1>2, DurableInvAlways, PTL DEF Spec, DurableSpec, Durable!Spec

\* AckedIsStored: of a writer that is closed in an orderly way the server has every message
\* that was reported to onAck.
THEOREM AckedIsStoredHolds ==
  ASSUME OrderlyClose
  PROVE  Spec => []AckedIsStored
<1>1. DurableInv => AckedIsStored
  <2> SUFFICES ASSUME DurableInv, NEW n \in 1 .. acked PROVE \E i \in 1 .. Len(log) : log[i] = n
    BY DEF AckedIsStored
  <2>1. acked \in Nat /\ acked <= Len(log) /\ Len(log) \in Nat /\ log = FirstOnes(Len(log))
    BY DEF DurableInv, PlaceInv, Places, Ordered, Tiled, Delivered, Stored
  <2>2. n \in 1 .. Len(log)
    BY <2>1
  <2>3. log[n] = n
    BY <2>1, <2>2 DEF FirstOnes
  <2> QED
    BY <2>2, <2>3
<1> QED
  BY <1>1, DurableInvAlways, PTL

-----------------------------------------------------------------------------
(* flush() as a barrier                                                     *)

FlushedOutput == [type |-> "flushed"]

\* Behind a request there are only writes after the message t.
Ahead(box, t) ==
  \A i \in 1 .. Len(box) : box[i].type = "flush" =>
    \A j \in i .. Len(box) : box[j].type = "write" => t < box[j].id

\* Before an answer t is reported, if it was not confirmed yet.
Barrier(out, t, a) ==
  \A i \in 1 .. Len(out) : out[i].type = "flushed" =>
    t <= a \/ \E j \in 1 .. i - 1 : out[j].type = "acks" /\ t \in Ids(out[j].batch)

\* What is owed to a caller that waits and called when nothing was under way: every request
\* is its own or a later one, and an answer that is not read yet comes behind its messages.
FlushDue(f) ==
  flush[f] = "pending" /\ alone[f] =>
    /\ target[f] \in 0 .. written
    /\ Ahead(mailbox, target[f])
    /\ flushRequested => \A q \in QueIds(mailbox) : target[f] < q
    /\ Barrier(outputs, target[f], acked)

FlushTypes ==
  /\ flushRequested \in BOOLEAN
  /\ flush \in [Flusher -> Promise] /\ target \in [Flusher -> Nat]
  /\ alone \in [Flusher -> BOOLEAN]

FlushInv == FlushTypes /\ \A f \in Flusher : FlushDue(f)

\* Outputs that answer no flush() are added.
LEMMA SilentAdded ==
  ASSUME NEW out \in Seq(Output), NEW more \in Seq(Output), ~Has(more, "flushed")
  PROVE  /\ out \o more \in Seq(Output)
         /\ Has(out \o more, "flushed") <=> Has(out, "flushed")
         /\ \A t, a : Barrier(out, t, a) => Barrier(out \o more, t, a)
<1> DEFINE all == out \o more
           l == Len(out)
           m == Len(more)
<1>1. /\ all \in Seq(Output) /\ Len(all) = l + m /\ l \in Nat /\ m \in Nat
      /\ \A i \in 1 .. l : all[i] = out[i]
      /\ \A i \in l + 1 .. l + m : all[i] = more[i - l] /\ i - l \in 1 .. m
  OBVIOUS
<1> HIDE DEF all, l, m
<1>2. \A i \in 1 .. Len(all) : i \in 1 .. l \/ i \in l + 1 .. l + m
  BY <1>1
<1>3. \A i \in 1 .. Len(all) : all[i].type = "flushed" => i \in 1 .. l /\ out[i].type = "flushed"
  BY <1>1, <1>2 DEF Has, m
<1>4. \A i \in 1 .. l : i \in 1 .. Len(all)
  BY <1>1
<1>5. Has(all, "flushed") <=> Has(out, "flushed")
  BY <1>1, <1>3, <1>4 DEF Has, l
<1>6. ASSUME NEW t, NEW a, Barrier(out, t, a) PROVE Barrier(all, t, a)
  <2> SUFFICES ASSUME NEW i \in 1 .. Len(all), all[i].type = "flushed", ~(t <= a)
               PROVE  \E j \in 1 .. i - 1 : all[j].type = "acks" /\ t \in Ids(all[j].batch)
    BY DEF Barrier
  <2>1. i \in 1 .. l /\ out[i].type = "flushed"
    BY <1>3
  <2>2. PICK j \in 1 .. i - 1 : out[j].type = "acks" /\ t \in Ids(out[j].batch)
    BY <1>6, <2>1 DEF Barrier, l
  <2>3. j \in 1 .. l
    BY <1>1, <2>1
  <2> QED
    BY <1>1, <2>2, <2>3
<1> QED
  BY <1>1, <1>5, <1>6 DEF all

\* An answer is added, behind the reports.
LEMMA AnswerAdded ==
  ASSUME NEW out \in Seq(Output)
  PROVE  /\ out \o <<FlushedOutput>> \in Seq(Output)
         /\ \A t, a : Barrier(out, t, a) /\ (t <= a \/ t \in RepIds(out)) =>
                        Barrier(out \o <<FlushedOutput>>, t, a)
<1> DEFINE all == out \o <<FlushedOutput>>
           l == Len(out)
<1>1. FlushedOutput \in Output
  BY OutputKinds DEF FlushedOutput
<1>2. all = Append(out, FlushedOutput) /\ all \in Seq(Output) /\ l \in Nat /\ Len(all) = l + 1
      /\ \A i \in 1 .. l : all[i] = out[i]
  BY <1>1, Added
<1> HIDE DEF all, l
<1>3. ASSUME NEW t, NEW a, Barrier(out, t, a), t <= a \/ t \in RepIds(out)
      PROVE  Barrier(all, t, a)
  <2> SUFFICES ASSUME NEW i \in 1 .. Len(all), all[i].type = "flushed", ~(t <= a)
               PROVE  \E j \in 1 .. i - 1 : all[j].type = "acks" /\ t \in Ids(all[j].batch)
    BY DEF Barrier
  <2>1. CASE i = l + 1
    <3>1. PICK j \in 1 .. l : out[j].type = "acks" /\ t \in Ids(out[j].batch)
      BY <1>3 DEF RepIds, l
    <3>2. j \in 1 .. i - 1
      BY <1>2, <2>1
    <3> QED
      BY <1>2, <3>1, <3>2
  <2>2. CASE i # l + 1
    <3>1. i \in 1 .. l /\ out[i].type = "flushed"
      BY <1>2, <2>2
    <3>2. PICK j \in 1 .. i - 1 : out[j].type = "acks" /\ t \in Ids(out[j].batch)
      BY <1>3, <3>1 DEF Barrier, l
    <3>3. j \in 1 .. l
      BY <1>2, <3>1
    <3> QED
      BY <1>2, <3>2, <3>3
  <2> QED
    BY <2>1, <2>2
<1> QED
  BY <1>2, <1>3 DEF all

\* The first output is consumed; if it is a report, it confirms what it holds.
LEMMA BarrierTaken ==
  ASSUME NEW out \in Seq(Output), out # << >>, NEW t \in Nat, NEW a \in Nat, NEW b \in Nat,
         a <= b, Barrier(out, t, a),
         Head(out).type = "acks" /\ t \in Ids(Head(out).batch) => t <= b
  PROVE  Barrier(Tail(out), t, b)
<1> DEFINE rest == Tail(out)
<1>1. /\ Len(out) \in Nat /\ Head(out) = out[1]
      /\ \A i \in 1 .. Len(rest) : rest[i] = out[i + 1] /\ i + 1 \in 1 .. Len(out)
  BY Taken
<1> HIDE DEF rest
<1> SUFFICES ASSUME NEW i \in 1 .. Len(rest), rest[i].type = "flushed", ~(t <= b)
             PROVE  \E j \in 1 .. i - 1 : rest[j].type = "acks" /\ t \in Ids(rest[j].batch)
  BY DEF Barrier, rest
<1>2. i + 1 \in 1 .. Len(out) /\ out[i + 1].type = "flushed" /\ ~(t <= a)
  BY <1>1
<1>3. PICK j \in 1 .. (i + 1) - 1 : out[j].type = "acks" /\ t \in Ids(out[j].batch)
  BY <1>2 DEF Barrier
<1>4. j # 1
  BY <1>1, <1>3
<1>5. j - 1 \in 1 .. i - 1 /\ j - 1 \in 1 .. Len(rest) /\ (j - 1) + 1 = j
  <2>1. Len(rest) \in Nat
    BY Taken DEF rest
  <2> QED
    BY <1>3, <1>4, <2>1
<1> QED
  BY <1>1, <1>3, <1>5

\* The mailbox without its first event: behind a request all that is queued is later.
LEMMA AheadTaken ==
  ASSUME NEW box \in Seq(MailEvent), box # << >>, NEW t, Ahead(box, t)
  PROVE  /\ Ahead(Tail(box), t)
         /\ Head(box).type = "flush" => \A q \in QueIds(box) : t < q
<1> DEFINE rest == Tail(box)
<1>1. /\ Len(box) \in Nat /\ Len(box) >= 1 /\ Head(box) = box[1]
      /\ Len(rest) = Len(box) - 1
      /\ \A i \in 1 .. Len(rest) : rest[i] = box[i + 1] /\ i + 1 \in 1 .. Len(box)
  BY Taken
<1> HIDE DEF rest
<1>2. Ahead(rest, t)
  <2> SUFFICES ASSUME NEW i \in 1 .. Len(rest), rest[i].type = "flush",
                      NEW j \in i .. Len(rest), rest[j].type = "write"
               PROVE  t < rest[j].id
    BY DEF Ahead
  <2>1. j \in 1 .. Len(rest) /\ j + 1 \in i + 1 .. Len(box)
    BY <1>1
  <2> QED
    BY <1>1, <2>1 DEF Ahead
<1>3. ASSUME Head(box).type = "flush", NEW q \in QueIds(box) PROVE t < q
  <2>1. PICK i \in 1 .. Len(box) : box[i].type = "write" /\ q = box[i].id
    BY <1>3 DEF QueIds
  <2>2. 1 \in 1 .. Len(box)
    BY <1>1
  <2> QED
    BY <1>1, <1>3, <2>1, <2>2 DEF Ahead
<1> QED
  BY <1>2, <1>3 DEF rest

\* An event comes to the mailbox: a write is later than every request before it.
LEMMA AheadAdded ==
  ASSUME NEW box \in Seq(MailEvent), NEW e \in MailEvent, NEW t, Ahead(box, t),
         e.type = "write" => t < e.id
  PROVE  Ahead(Append(box, e), t)
<1> DEFINE more == Append(box, e)
<1>1. /\ Len(box) \in Nat /\ Len(more) = Len(box) + 1
      /\ \A i \in 1 .. Len(box) : more[i] = box[i]
      /\ more[Len(box) + 1] = e
  BY Added
<1> HIDE DEF more
<1> SUFFICES ASSUME NEW i \in 1 .. Len(more), more[i].type = "flush",
                    NEW j \in i .. Len(more), more[j].type = "write"
             PROVE  t < more[j].id
  BY DEF Ahead, more
<1>2. CASE j = Len(box) + 1
  BY <1>1, <1>2
<1>3. CASE j # Len(box) + 1
  <2>1. j \in i .. Len(box) /\ i \in 1 .. Len(box) /\ j \in 1 .. Len(box)
    BY <1>1, <1>3
  <2> QED
    BY <1>1, <2>1 DEF Ahead
<1> QED
  BY <1>2, <1>3

\* What the machine leaves in the mailbox.
LEMMA BoxMoves ==
  ASSUME PlaceInv, HandleEvent \/ TimerFires
  PROVE  /\ \/ \E posted \in {<< >>, <<PumpEvent>>} :
                 \/ mailbox' = mailbox \o posted
                 \/ mailbox # << >> /\ mailbox' = Tail(mailbox) \o posted
            \/ mailbox' = << >>
         /\ UNCHANGED <<flush, target, alone>>
<1> USE DEF userVars, streamVars
<1>1. CASE HandleWrite \/ HandleFlush \/ HandleClose \/ HandleDestroy
  BY <1>1 DEF HandleWrite, HandleFlush, HandleClose, HandleDestroy, Handles, Then, DrainedClose,
              Terminate
<1>2. CASE ToReady \/ InitWhileClosing \/ HandleAcks
  BY <1>2 DEF ToReady, InitWhileClosing, HandleAcks, Handles, Then, DrainedClose, Terminate
<1>3. CASE HandlePump \/ Disconnected \/ DisconnectedFatal \/ Ignore
  BY <1>3 DEF HandlePump, Pump, Disconnected, DisconnectedFatal, Ignore, Ignores, Handles, Then,
              Terminate
<1>4. CASE TimerFires
  <2>1. mailbox \o << >> = mailbox
    BY Mailbox, Added, EventKinds DEF PlaceInv
  <2> QED
    BY <1>4, <2>1 DEF TimerFires, StartTimeout, RetryBackoff, RecoveryWindow, GracefulTimeout,
                      FlushTick, Pump, Connect, Terminate
<1> QED
  BY <1>1, <1>2, <1>3, <1>4 DEF HandleEvent

\* The machine adds no request to the mailbox and keeps the order of what is there.
LEMMA BoxKeeps ==
  ASSUME PlaceInv, HandleEvent \/ TimerFires
  PROVE  /\ QueIds(mailbox') \subseteq QueIds(mailbox)
         /\ \A t : Ahead(mailbox, t) => Ahead(mailbox', t)
<1>1. mailbox \in Seq(MailEvent) /\ Mail(Manual, mailbox, window.messages, written)
  BY Mailbox DEF PlaceInv
<1>2. PumpEvent \in MailEvent /\ PumpEvent.type = "pump"
  BY EventKinds
<1> DEFINE Neat(box) == /\ box \in Seq(MailEvent)
                        /\ QueIds(box) \subseteq QueIds(mailbox)
                        /\ \A t : Ahead(mailbox, t) => Ahead(box, t)
<1>3. Neat(mailbox)
  BY <1>1
<1>4. mailbox # << >> => Neat(Tail(mailbox))
  <2> SUFFICES ASSUME mailbox # << >> PROVE Neat(Tail(mailbox))
    OBVIOUS
  <2>1. Tail(mailbox) \in Seq(MailEvent)
    BY <1>1, Taken
  <2>2. QueIds(Tail(mailbox)) \subseteq QueIds(mailbox)
    BY <1>1, QueueTaken
  <2>3. \A t : Ahead(mailbox, t) => Ahead(Tail(mailbox), t)
    BY <1>1, AheadTaken
  <2> QED
    BY <2>1, <2>2, <2>3
<1>5. ASSUME NEW box, Neat(box), NEW posted \in {<< >>, <<PumpEvent>>} PROVE Neat(box \o posted)
  <2>1. box \o << >> = box /\ box \o <<PumpEvent>> = Append(box, PumpEvent)
        /\ Append(box, PumpEvent) \in Seq(MailEvent)
    BY <1>2, <1>5, Added
  <2>2. QueIds(Append(box, PumpEvent)) = QueIds(box)
    BY <1>2, <1>5, QueuePosted
  <2>3. \A t : Ahead(box, t) => Ahead(Append(box, PumpEvent), t)
    BY <1>2, <1>5, AheadAdded
  <2>4. CASE posted = << >>
    BY <1>5, <2>1, <2>4
  <2>5. CASE posted = <<PumpEvent>>
    BY <1>5, <2>1, <2>2, <2>3, <2>5
  <2> QED
    BY <2>4, <2>5
<1>6. Neat(<< >>)
  <2>1. << >> \in Seq(MailEvent) /\ Len(<< >>) = 0 /\ \A i \in 1 .. 0 : FALSE
    OBVIOUS
  <2> QED
    BY <2>1 DEF QueIds, Ahead
<1> HIDE DEF Neat
<1>7. Neat(mailbox')
  BY <1>3, <1>4, <1>5, <1>6, BoxMoves
<1> QED
  BY <1>7 DEF Neat

\* The outputs as a sequence, and what is known of the numbers.
LEMMA FlushFacts ==
  ASSUME PlaceInv
  PROVE  /\ outputs \in Seq(Output) /\ mailbox \in Seq(MailEvent)
         /\ acked \in Nat /\ written \in Nat /\ acked <= written
BY Mailbox DEF PlaceInv, Places, Ordered, OutputsOk, Tiled

\* The machine says nothing about flush().
LEMMA FlushQuiet ==
  ASSUME PlaceInv, FlushInv, HandleEvent \/ TimerFires,
         NEW a \in Seq(Output), ~Has(a, "flushed"), outputs' = outputs \o a,
         UNCHANGED <<flushRequested, written, acked>>
  PROVE  FlushInv'
<1>1. outputs \in Seq(Output)
  BY FlushFacts
<1>2. \A t, b : Barrier(outputs, t, b) => Barrier(outputs', t, b)
  BY <1>1, SilentAdded
<1>3. UNCHANGED <<flush, target, alone>>
  BY BoxMoves
<1>4. ASSUME NEW f \in Flusher PROVE FlushDue(f)'
  BY <1>2, <1>3, BoxKeeps DEF FlushInv, FlushDue
<1> QED
  BY <1>3, <1>4 DEF FlushInv, FlushTypes

\* The machine answers a request: all that a caller it is owed to wrote before is reported
\* or behind it.
LEMMA FlushAnswered ==
  ASSUME PlaceInv, FlushInv, HandleEvent \/ TimerFires,
         NEW a \in Seq(Output), ~Has(a, "flushed"), NEW b \in Seq(Output), ~Has(b, "flushed"),
         outputs' = ((outputs \o a) \o <<FlushedOutput>>) \o b,
         ~flushRequested', flushRequested' \in BOOLEAN,
         acked + 1 .. written \subseteq RepIds(outputs \o a) \cup QueIds(mailbox),
         \A f \in Flusher : flush[f] = "pending" /\ alone[f] =>
                              \A q \in QueIds(mailbox) : target[f] < q,
         UNCHANGED <<written, acked>>
  PROVE  FlushInv'
<1>1. outputs \in Seq(Output) /\ acked \in Nat /\ written \in Nat
  BY FlushFacts
<1> DEFINE out == outputs \o a
           all == out \o <<FlushedOutput>>
<1>2. out \in Seq(Output) /\ \A t, k : Barrier(outputs, t, k) => Barrier(out, t, k)
  BY <1>1, SilentAdded
<1> HIDE DEF out
<1>3. /\ all \in Seq(Output)
      /\ \A t, k : Barrier(out, t, k) /\ (t <= k \/ t \in RepIds(out)) => Barrier(all, t, k)
  BY <1>2, AnswerAdded
<1> HIDE DEF all
<1>4. outputs' = all \o b
  BY DEF all, out
<1>5. \A t, k : Barrier(outputs, t, k) /\ (t <= k \/ t \in RepIds(out)) => Barrier(outputs', t, k)
  <2>1. \A t, k : Barrier(all, t, k) => Barrier(all \o b, t, k)
    BY <1>3, SilentAdded
  <2> QED
    BY <1>2, <1>3, <1>4, <2>1
<1>6. UNCHANGED <<flush, target, alone>>
  BY BoxMoves
<1>7. ASSUME NEW f \in Flusher, flush[f] = "pending", alone[f]
      PROVE  target[f] <= acked \/ target[f] \in RepIds(out)
  <2>1. target[f] \in 0 .. written
    BY <1>7 DEF FlushInv, FlushDue
  <2>2. target[f] \notin QueIds(mailbox)
    BY <1>7, <2>1
  <2> QED
    BY <1>1, <2>1, <2>2 DEF out
<1>8. ASSUME NEW f \in Flusher PROVE FlushDue(f)'
  BY <1>5, <1>6, <1>7, BoxKeeps DEF FlushInv, FlushDue
<1> QED
  BY <1>6, <1>8 DEF FlushInv, FlushTypes

\* A report answers no flush().
LEMMA ReportMade ==
  ASSUME PlaceInv, NEW n \in 0 .. window.inflightLength
  PROVE  AckOutput(n) \in Seq(Output) /\ ~Has(AckOutput(n), "flushed")
<1>1. Inflight(window, n) \in Seq(Message)
  BY Mailbox, InflightRun DEF PlaceInv, Places, Ordered
<1> DEFINE o == [type |-> "acks", batch |-> Inflight(window, n)]
<1>2. o \in Output /\ o.type = "acks"
  BY <1>1, OutputKinds
<1>3. AckOutput(n) = << >> \/ AckOutput(n) = <<o>>
  BY DEF AckOutput
<1> HIDE DEF o
<1>4. << >> \in Seq(Output) /\ <<o>> \in Seq(Output) /\ ~Has(<<o>>, "flushed")
  BY <1>2 DEF Has
<1> QED
  BY <1>3, <1>4, HasNothing

\* What is said behind the outputs of a machine that stops.
LEMMA StopSays ==
  ASSUME outputs \in Seq(Output), NEW terminal \in Terminal, NEW e \in Seq(Output),
         Terminate(terminal, e)
  PROVE  \E b \in Seq(Output) : ~Has(b, "flushed") /\ outputs' = (outputs \o e) \o b
<1> DEFINE err == IF terminal = "errored" THEN <<[type |-> "error"]>> ELSE << >>
           end == <<[type |-> "closed"]>>
<1>1. outputs' = ((outputs \o e) \o err) \o end
  BY DEF Terminate
<1>2. err \in Seq(Output) /\ end \in Seq(Output) /\ outputs \o e \in Seq(Output)
  <2>1. [type |-> "error"] \in Output /\ [type |-> "closed"] \in Output
    BY OutputKinds
  <2>2. << >> \in Seq(Output) /\ \A o \in Output : <<o>> \in Seq(Output)
    BY OneReport
  <2>3. outputs \o e \in Seq(Output)
    OBVIOUS
  <2> QED
    BY <2>1, <2>2, <2>3
<1>3. ~Has(err, "flushed") /\ ~Has(end, "flushed")
  BY HasNothing DEF Has
<1> HIDE DEF err, end
<1>4. err \o end \in Seq(Output) /\ ~Has(err \o end, "flushed")
  <2>1. /\ err \o end \in Seq(Output)
        /\ Has(err \o end, "flushed") <=> Has(err, "flushed")
    BY <1>2, <1>3, SilentAdded
  <2> QED
    BY <1>3, <2>1
<1>5. outputs' = (outputs \o e) \o (err \o end)
  <2> DEFINE out == outputs \o e
  <2>1. out \in Seq(Output) /\ outputs' = (out \o err) \o end
    BY <1>1, <1>2
  <2> HIDE DEF out
  <2>2. (out \o err) \o end = out \o (err \o end)
    BY <1>2, <2>1, ConcatAssociative
  <2> QED
    BY <2>1, <2>2 DEF out
<1> QED
  BY <1>4, <1>5

\* flush() is handled: answered at once, or remembered with what was written before it in
\* the window or reported.
LEMMA HandleFlushKeeps == PlaceInv /\ FlushInv /\ HandleFlush => FlushInv'
<1> SUFFICES ASSUME PlaceInv, FlushInv, HandleFlush PROVE FlushInv'
  OBVIOUS
<1>1. HandleEvent
  BY DEF HandleEvent
<1>2. /\ mailbox # << >> /\ Head(mailbox).type = "flush" /\ state \notin Terminal
      /\ UNCHANGED <<written, acked>>
  BY DEF HandleFlush, Handles, Event, userVars, Terminal
<1>3. /\ outputs \in Seq(Output) /\ mailbox \in Seq(MailEvent)
      /\ acked \in Nat /\ written \in Nat
  BY FlushFacts
<1>4. \A f \in Flusher : flush[f] = "pending" /\ alone[f] =>
                           \A q \in QueIds(mailbox) : target[f] < q
  BY <1>2, <1>3, AheadTaken DEF FlushInv, FlushDue
<1>5. CASE AllDrained(window)
  <2>1. flushRequested' = FALSE /\ outputs' = Append(outputs, FlushedOutput)
    BY <1>5 DEF HandleFlush, FlushedOutput
  <2>2. << >> \in Seq(Output) /\ ~Has(<< >>, "flushed")
    BY HasNothing
  <2>3. /\ outputs \o << >> = outputs
        /\ outputs \o <<FlushedOutput>> = Append(outputs, FlushedOutput)
        /\ outputs \o <<FlushedOutput>> \in Seq(Output)
    BY <1>3, AnswerAdded, OutputKinds, Added DEF FlushedOutput
  <2> DEFINE more == outputs \o <<FlushedOutput>>
  <2>4. outputs' = ((outputs \o << >>) \o <<FlushedOutput>>) \o << >>
    <3>1. more \o << >> = more
      BY <2>3
    <3> QED
      BY <2>1, <2>3, <3>1
  <2>5. WinIds(window) = {}
    BY <1>5, Mailbox, DrainedIds DEF PlaceInv
  <2>6. Whole(outputs, window, mailbox, acked, written)
    BY <1>2 DEF PlaceInv, Places, Alive
  <2>7. acked + 1 .. written \subseteq RepIds(outputs \o << >>) \cup QueIds(mailbox)
    BY <2>3, <2>5, <2>6 DEF Whole
  <2> QED
    BY <1>1, <1>2, <1>4, <2>1, <2>2, <2>4, <2>7, FlushAnswered
<1>6. CASE ~AllDrained(window)
  <2>1. flushRequested' = TRUE /\ outputs' = outputs
    BY <1>6 DEF HandleFlush
  <2>2. UNCHANGED <<flush, target, alone>>
    BY <1>1, BoxMoves
  <2>3. ASSUME NEW f \in Flusher PROVE FlushDue(f)'
    BY <1>1, <1>2, <1>4, <2>1, <2>2, BoxKeeps DEF FlushInv, FlushDue
  <2> QED
    BY <2>1, <2>2, <2>3 DEF FlushInv, FlushTypes
<1> QED
  BY <1>5, <1>6

\* An init or acknowledgments answer the flush() that waits once nothing is left.
LEMMA ReportedFlush ==
  ASSUME PlaceInv, FlushInv, HandleEvent, state \notin Terminal,
         NEW n \in 0 .. window.inflightLength,
         NEW v \in {Acknowledged(window, n), Rewound(window, n)},
         flushRequested' = StillFlushing(v),
         \/ outputs' = outputs \o (AckOutput(n) \o FlushOutput(v))
         \/ Terminate("closed", AckOutput(n) \o FlushOutput(v)),
         UNCHANGED <<written, acked>>
  PROVE  FlushInv'
<1> DEFINE a == AckOutput(n)
           fl == FlushOutput(v)
<1>1. /\ outputs \in Seq(Output) /\ a \in Seq(Output) /\ ~Has(a, "flushed")
      /\ outputs \o a \in Seq(Output)
  BY FlushFacts, ReportMade, SilentAdded
<1>2. FlushedOutput \in Output
  BY OutputKinds DEF FlushedOutput
<1>3. /\ flushRequested /\ AllDrained(v) => fl = <<FlushedOutput>>
      /\ ~(flushRequested /\ AllDrained(v)) => fl = << >>
  BY DEF FlushOutput, FlushedOutput
<1> HIDE DEF a, fl
<1>4. fl \in Seq(Output)
  <2>1. << >> \in Seq(Output) /\ <<FlushedOutput>> \in Seq(Output)
    BY <1>2, OneReport
  <2> QED
    BY <1>3, <2>1
<1>5. \E b \in Seq(Output) : ~Has(b, "flushed") /\ outputs' = (outputs \o (a \o fl)) \o b
  <2>1. CASE outputs' = outputs \o (a \o fl)
    <3>1. outputs \o (a \o fl) \in Seq(Output)
      BY <1>1, <1>4
    <3>2. << >> \in Seq(Output) /\ ~Has(<< >>, "flushed")
          /\ (outputs \o (a \o fl)) \o << >> = outputs \o (a \o fl)
      BY <3>1, HasNothing
    <3> QED
      BY <2>1, <3>2
  <2>2. CASE Terminate("closed", a \o fl)
    <3>1. a \o fl \in Seq(Output) /\ "closed" \in Terminal
      BY <1>1, <1>4 DEF Terminal
    <3> QED
      BY <1>1, <2>2, <3>1, StopSays
  <2> QED
    BY <2>1, <2>2 DEF a, fl
<1>6. PICK b \in Seq(Output) : ~Has(b, "flushed") /\ outputs' = (outputs \o (a \o fl)) \o b
  BY <1>5
<1>7. outputs' = ((outputs \o a) \o fl) \o b
  BY <1>1, <1>4, <1>6, ConcatAssociative
<1>8. CASE flushRequested /\ AllDrained(v)
  <2>1. outputs' = ((outputs \o a) \o <<FlushedOutput>>) \o b
    BY <1>3, <1>7, <1>8
  <2>2. ~flushRequested' /\ flushRequested' \in BOOLEAN
    BY <1>8 DEF StillFlushing
  <2>3. acked + 1 .. written \subseteq RepIds(outputs \o a) \cup QueIds(mailbox)
    <3>1. /\ WriterInv /\ Ordered(outputs, window, mailbox, acked, written)
          /\ Whole(outputs, window, mailbox, acked, written)
      BY DEF PlaceInv, Places, Alive
    <3>2. RepIds(outputs \o (a \o << >>)) \cup WinIds(v) = RepIds(outputs) \cup WinIds(window)
      BY <3>1, Moved DEF a
    <3>3. a \o << >> = a
      BY <1>1
    <3>4. Sound(v, lastSeqNo)
      BY <3>1, AcknowledgedSound, RewoundSound DEF WriterInv
    <3>5. WinIds(v) = {}
      BY <1>8, <3>4, DrainedIds DEF Sound
    <3> QED
      BY <3>1, <3>2, <3>3, <3>5 DEF Whole
  <2>4. \A f \in Flusher : flush[f] = "pending" /\ alone[f] =>
                             \A q \in QueIds(mailbox) : target[f] < q
    BY <1>8 DEF FlushInv, FlushDue
  <2> QED
    BY <1>1, <1>6, <2>1, <2>2, <2>3, <2>4, FlushAnswered
<1>9. CASE ~(flushRequested /\ AllDrained(v))
  <2>1. flushRequested' = flushRequested
    BY <1>9 DEF StillFlushing, FlushInv, FlushTypes
  <2>2. outputs' = outputs \o (a \o b)
    <3>1. (outputs \o a) \o << >> = outputs \o a
      BY <1>1
    <3> QED
      BY <1>1, <1>3, <1>6, <1>7, <1>9, <3>1, ConcatAssociative
  <2>3. a \o b \in Seq(Output) /\ ~Has(a \o b, "flushed")
    BY <1>1, <1>6, SilentAdded
  <2> QED
    BY <2>1, <2>2, <2>3, FlushQuiet
<1> QED
  BY <1>8, <1>9

\* The machine stops with nothing to say about flush().
LEMMA StoppedFlush ==
  ASSUME PlaceInv, FlushInv, HandleEvent \/ TimerFires, NEW terminal \in Terminal,
         Terminate(terminal, << >>), UNCHANGED <<flushRequested, written, acked>>
  PROVE  FlushInv'
<1>1. outputs \in Seq(Output) /\ << >> \in Seq(Output) /\ outputs \o << >> = outputs
  BY FlushFacts
<1>2. PICK b \in Seq(Output) : ~Has(b, "flushed") /\ outputs' = (outputs \o << >>) \o b
  BY <1>1, StopSays
<1> QED
  BY <1>1, <1>2, FlushQuiet

\* Events and timers.
LEMMA MachineFlush == PlaceInv /\ FlushInv /\ (HandleEvent \/ TimerFires) => FlushInv'
<1> SUFFICES ASSUME PlaceInv, FlushInv, HandleEvent \/ TimerFires PROVE FlushInv'
  OBVIOUS
<1>0. UNCHANGED <<written, acked>> /\ state \notin Terminal
  BY MachineEmits
<1> DEFINE Silent == outputs' = outputs /\ UNCHANGED flushRequested
           Stops == /\ \E terminal \in Terminal : Terminate(terminal, << >>)
                    /\ UNCHANGED flushRequested
<1>1. Silent => FlushInv'
  <2>1. /\ << >> \in Seq(Output) /\ outputs \o << >> = outputs /\ ~Has(<< >>, "flushed")
    BY FlushFacts, HasNothing
  <2> QED
    BY <1>0, <2>1, FlushQuiet
<1>2. Stops => FlushInv'
  BY <1>0, StoppedFlush
<1>3. CASE HandleWrite \/ HandlePump \/ Disconnected \/ Ignore
  <2>1. Silent
    BY <1>3 DEF HandleWrite, HandlePump, Disconnected, Ignore, ctxVars
  <2> QED
    BY <1>1, <2>1
<1>4. CASE HandleClose \/ HandleDestroy \/ DisconnectedFatal
  <2>1. Silent \/ Stops
    BY <1>4 DEF HandleClose, HandleDestroy, DisconnectedFatal, DrainedClose, Terminal
  <2> QED
    BY <1>1, <1>2, <2>1
<1>5. CASE TimerFires
  <2>1. Silent \/ Stops
    <3>1. CASE StartTimeout \/ RetryBackoff \/ FlushTick
      BY <3>1 DEF StartTimeout, RetryBackoff, FlushTick, ctxVars
    <3>2. CASE RecoveryWindow \/ GracefulTimeout
      BY <3>2 DEF RecoveryWindow, GracefulTimeout, Terminal
    <3> QED
      BY <1>5, <3>1, <3>2 DEF TimerFires
  <2> QED
    BY <1>1, <1>2, <2>1
<1>6. CASE ToReady \/ InitWhileClosing \/ HandleAcks
  <2>0. HandleEvent /\ window \in Window /\ WindowShape(window)
    BY <1>6, Mailbox DEF HandleEvent, PlaceInv
  <2>1. CASE ToReady \/ InitWhileClosing
    <3> DEFINE n == Persisted(Event.lastSeqNo)
               v == Rewound(window, n)
    <3>1. n \in 0 .. window.inflightLength
      BY <2>0, LeadingWithin DEF Persisted
    <3>2. /\ flushRequested' = StillFlushing(v)
          /\ \/ outputs' = outputs \o (AckOutput(n) \o FlushOutput(v))
             \/ Terminate("closed", AckOutput(n) \o FlushOutput(v))
      BY <2>1 DEF ToReady, InitWhileClosing, ApplyInit, DrainedClose, InitOutputs
    <3>3. v \in {Acknowledged(window, n), Rewound(window, n)}
      OBVIOUS
    <3> HIDE DEF n, v
    <3> QED
      BY <1>0, <2>0, <3>1, <3>2, <3>3, ReportedFlush
  <2>2. CASE HandleAcks
    <3> DEFINE n == AckedCount
               v == Acknowledged(window, n)
    <3>1. n \in 0 .. window.inflightLength
      BY <2>0, LeadingWithin DEF AckedCount
    <3>2. /\ flushRequested' = StillFlushing(v)
          /\ \/ outputs' = outputs \o (AckOutput(n) \o FlushOutput(v))
             \/ Terminate("closed", AckOutput(n) \o FlushOutput(v))
      BY <2>2 DEF HandleAcks, DrainedClose, AckedOutputs, AckedWindow
    <3>3. v \in {Acknowledged(window, n), Rewound(window, n)}
      OBVIOUS
    <3> HIDE DEF n, v
    <3> QED
      BY <1>0, <2>0, <3>1, <3>2, <3>3, ReportedFlush
  <2> QED
    BY <1>6, <2>1, <2>2
<1> HIDE DEF Silent, Stops
<1> QED
  BY <1>3, <1>4, <1>5, <1>6, HandleFlushKeeps DEF HandleEvent

\* #consume: a report confirms its messages, every other output but the reports settles all
\* who wait.
LEMMA ConsumeFlush == PlaceInv /\ FlushInv /\ ConsumeOutput => FlushInv'
<1> SUFFICES ASSUME PlaceInv, FlushInv, ConsumeOutput PROVE FlushInv'
  OBVIOUS
<1>1. /\ outputs \in Seq(Output) /\ acked \in Nat /\ written \in Nat
      /\ outputs # << >> /\ outputs' = Tail(outputs)
      /\ UNCHANGED <<mailbox, flushRequested, written>>
  BY FlushFacts DEF ConsumeOutput, ConsumeAcks, ConsumeFlushed, ConsumeError, ConsumeClosed, Consume,
              consumeUnchanged, ctxVars
<1>2. CASE ConsumeAcks
  <2> DEFINE b == Head(outputs).batch
  <2>1. /\ Head(outputs).type = "acks" /\ acked' = acked + Len(b)
        /\ UNCHANGED <<flush, target, alone>>
    BY <1>2 DEF ConsumeAcks, Consume
  <2>2. /\ Len(b) \in Nat
        /\ \A m \in Nat : m \in Ids(b) <=> acked < m /\ m <= acked + Len(b)
    BY <1>1, <2>1, FirstReport DEF PlaceInv, Places
  <2> HIDE DEF b
  <2>3. acked' \in Nat /\ acked <= acked'
    BY <1>1, <2>1, <2>2
  <2>4. ASSUME NEW f \in Flusher, flush[f] = "pending", alone[f]
        PROVE  Barrier(outputs', target[f], acked')
    <3>1. target[f] \in 0 .. written /\ Barrier(outputs, target[f], acked)
      BY <2>4 DEF FlushInv, FlushDue
    <3>2. target[f] \in Nat /\ (target[f] \in Ids(b) => target[f] <= acked')
      BY <1>1, <2>1, <2>2, <3>1
    <3> QED
      BY <1>1, <2>3, <3>1, <3>2, BarrierTaken DEF b
  <2>5. ASSUME NEW f \in Flusher PROVE FlushDue(f)'
    BY <1>1, <2>1, <2>4 DEF FlushInv, FlushDue
  <2> QED
    BY <1>1, <2>1, <2>5 DEF FlushInv, FlushTypes
<1>3. CASE ConsumeFlushed \/ ConsumeError \/ ConsumeClosed
  <2>1. /\ flush' \in [Flusher -> Promise] /\ target' \in [Flusher -> Nat]
        /\ alone' \in [Flusher -> BOOLEAN] /\ \A f \in Flusher : flush'[f] # "pending"
    <3>1. \E outcome \in {"resolved", "rejected"} : SettleFlushes(outcome)
      BY <1>3 DEF ConsumeFlushed, ConsumeError, ConsumeClosed
    <3> QED
      BY <3>1 DEF SettleFlushes, FlushInv, FlushTypes, Promise
  <2>2. \A f \in Flusher : FlushDue(f)'
    BY <2>1 DEF FlushDue
  <2> QED
    BY <1>1, <2>1, <2>2 DEF FlushInv, FlushTypes
<1> QED
  BY <1>2, <1>3 DEF ConsumeOutput

\* An event comes to the mailbox, or none does, and a caller may stop waiting.
LEMMA PostedFlush ==
  ASSUME PlaceInv, FlushInv, NEW e \in MailEvent,
         mailbox' = mailbox \/ mailbox' = Append(mailbox, e),
         e.type = "write" => e.id = written + 1,
         UNCHANGED <<outputs, flushRequested, acked>>, written' \in {written, written + 1},
         FlushTypes',
         NEW f \in Flusher,
         flush'[f] = "pending" => flush[f] = "pending" /\ UNCHANGED <<target[f], alone[f]>>
  PROVE  FlushDue(f)'
<1>1. mailbox \in Seq(MailEvent) /\ written \in Nat
  BY FlushFacts
<1>2. /\ QueIds(mailbox') \subseteq QueIds(mailbox) \cup {written + 1}
      /\ \A t \in 0 .. written : Ahead(mailbox, t) => Ahead(mailbox', t)
  <2>1. CASE mailbox' = mailbox
    BY <2>1
  <2>2. CASE mailbox' = Append(mailbox, e)
    <3>1. QueIds(mailbox') \subseteq QueIds(mailbox) \cup {written + 1}
      BY <1>1, <2>2, QueuePosted
    <3>2. ASSUME NEW t \in 0 .. written, Ahead(mailbox, t) PROVE Ahead(mailbox', t)
      <4>1. e.type = "write" => t < e.id
        BY <1>1
      <4> QED
        BY <1>1, <2>2, <3>2, <4>1, AheadAdded
    <3> QED
      BY <3>1, <3>2
  <2> QED
    BY <2>1, <2>2
<1> SUFFICES ASSUME flush'[f] = "pending", alone'[f]
             PROVE  /\ target'[f] \in 0 .. written'
                    /\ Ahead(mailbox', target'[f])
                    /\ flushRequested' => \A q \in QueIds(mailbox') : target'[f] < q
                    /\ Barrier(outputs', target'[f], acked')
  BY DEF FlushDue
<1>3. flush[f] = "pending" /\ alone[f] /\ target'[f] = target[f]
  OBVIOUS
<1>4. target[f] \in 0 .. written /\ Barrier(outputs, target[f], acked)
      /\ Ahead(mailbox, target[f])
      /\ (flushRequested => \A q \in QueIds(mailbox) : target[f] < q)
  BY <1>3 DEF FlushInv, FlushDue
<1>5. target[f] \in 0 .. written'
  BY <1>1, <1>4
<1>6. flushRequested => \A q \in QueIds(mailbox') : target[f] < q
  BY <1>1, <1>2, <1>4
<1> QED
  BY <1>2, <1>3, <1>4, <1>5, <1>6

\* flush() is called: its request comes behind all that was written, and behind no other one
\* when the caller is owed its answer.
LEMMA CalledFlush ==
  ASSUME PlaceInv, FlushInv, NEW f \in Flusher, Flush(f)
  PROVE  FlushInv'
<1>1. mailbox \in Seq(MailEvent) /\ written \in Nat
  BY FlushFacts
<1> DEFINE e == [type |-> "flush"]
<1>2. /\ flush' = [flush EXCEPT ![f] = "pending"]
      /\ target' = [target EXCEPT ![f] = written]
      /\ alone' = [alone EXCEPT ![f] = ~Flushing]
      /\ mailbox' = mailbox \/ mailbox' = Append(mailbox, e)
      /\ UNCHANGED <<outputs, flushRequested, written, acked>>
  BY DEF Flush, Dispatch, machineOnly, ctxVars
<1>3. e \in MailEvent /\ e.type = "flush"
  BY EventKinds
<1> HIDE DEF e
<1>4. FlushTypes'
  <2>1. Flushing \in BOOLEAN
    BY DEF Flushing, FlushInv, FlushTypes
  <2> QED
    BY <1>1, <1>2, <2>1 DEF FlushInv, FlushTypes, Promise
<1>5. FlushDue(f)'
  <2>1. flush'[f] = "pending" /\ target'[f] = written /\ alone'[f] = ~Flushing
    BY <1>2 DEF FlushInv, FlushTypes
  <2> SUFFICES ASSUME ~Flushing PROVE FlushDue(f)'
    BY <2>1 DEF FlushDue
  <2>2. /\ \A i \in 1 .. Len(mailbox) : mailbox[i].type # "flush"
        /\ \A i \in 1 .. Len(outputs) : outputs[i].type # "flushed"
        /\ ~flushRequested
    BY DEF Flushing, Requests, Answers
  <2>3. Ahead(mailbox', written)
    <3>1. Ahead(mailbox, written)
      BY <2>2 DEF Ahead
    <3>2. Ahead(Append(mailbox, e), written)
      BY <1>1, <1>3, <3>1, AheadAdded
    <3> QED
      BY <1>2, <3>1, <3>2
  <2>4. Barrier(outputs', written, acked)
    BY <1>2, <2>2 DEF Barrier
  <2> QED
    BY <1>1, <1>2, <2>1, <2>2, <2>3, <2>4 DEF FlushDue
<1>6. ASSUME NEW g \in Flusher, g # f PROVE FlushDue(g)'
  <2>1. flush'[g] = flush[g] /\ target'[g] = target[g] /\ alone'[g] = alone[g]
    BY <1>2, <1>6 DEF FlushInv, FlushTypes
  <2> QED
    BY <1>2, <1>3, <1>4, <2>1, PostedFlush
<1> QED
  BY <1>4, <1>5, <1>6 DEF FlushInv

\* Every step keeps the barrier.
LEMMA FlushStep ==
  ASSUME PlaceInv, FlushInv, [Next]_vars
  PROVE  FlushInv'
<1>1. CASE HandleEvent \/ TimerFires
  BY <1>1, MachineFlush
<1>2. CASE ConsumeOutput
  BY <1>2, ConsumeFlush
<1>3. written \in Nat /\ FlushTypes
  BY FlushFacts DEF FlushInv
<1>4. CASE Serve \/ Deliver \/ Break
  <2>1. /\ UNCHANGED <<outputs, flushRequested, flush, target, alone, acked, written>>
        /\ \/ mailbox' = mailbox
           \/ down # << >> /\ mailbox' = Append(mailbox, Head(down))
           \/ \E fatal \in BOOLEAN :
                mailbox' = Append(mailbox, [type |-> "disconnected", fatal |-> fatal])
    BY <1>4 DEF Serve, ServeInit, ServeWrite, Deliver, Break, ctxVars, userVars
  <2>2. PICK e \in MailEvent : /\ mailbox' = mailbox \/ mailbox' = Append(mailbox, e)
                              /\ e.type # "write"
    <3>1. CASE mailbox' = mailbox
      BY <3>1, EventKinds
    <3>2. CASE down # << >> /\ mailbox' = Append(mailbox, Head(down))
      <4>1. Head(down) \in Response
        BY <3>2, Taken DEF PlaceInv, WriterInv, Types
      <4> QED
        BY <3>2, <4>1, EventKinds
    <3>3. CASE \E fatal \in BOOLEAN :
                 mailbox' = Append(mailbox, [type |-> "disconnected", fatal |-> fatal])
      <4>1. PICK fatal \in BOOLEAN :
                   mailbox' = Append(mailbox, [type |-> "disconnected", fatal |-> fatal])
        BY <3>3
      <4> DEFINE e == [type |-> "disconnected", fatal |-> fatal]
      <4>2. e \in MailEvent /\ e.type = "disconnected" /\ mailbox' = Append(mailbox, e)
        BY <4>1, EventKinds
      <4> HIDE DEF e
      <4> QED
        BY <4>2
    <3> QED
      BY <2>1, <3>1, <3>2, <3>3
  <2>3. FlushTypes'
    BY <1>3, <2>1 DEF FlushTypes
  <2>4. \A f \in Flusher : FlushDue(f)'
    BY <2>1, <2>2, <2>3, PostedFlush
  <2> QED
    BY <2>3, <2>4 DEF FlushInv
<1>5. CASE User
  <2>1. CASE \E f \in Flusher : Flush(f)
    BY <2>1, CalledFlush
  <2>2. CASE Write \/ Close \/ Destroy \/ \E f \in Flusher : FlushAborts(f)
    <3>1. PICK e \in MailEvent : /\ mailbox' = mailbox \/ mailbox' = Append(mailbox, e)
                                 /\ e.type = "write" => e.id = written + 1
      <4>1. CASE Write
        <5> DEFINE e == [type |-> "write", id |-> written + 1]
        <5>1. e \in MailEvent /\ e.type = "write" /\ e.id = written + 1
          BY <1>3, EventKinds
        <5>2. mailbox' = mailbox \/ mailbox' = Append(mailbox, e)
          BY <4>1 DEF Write, Dispatch
        <5> HIDE DEF e
        <5> QED
          BY <5>1, <5>2
      <4>2. CASE Close \/ Destroy
        <5>1. PICK type \in {"close", "destroy"} :
                     mailbox' = mailbox \/ mailbox' = Append(mailbox, [type |-> type])
          BY <4>2 DEF Close, Destroy, Dispatch
        <5> DEFINE e == [type |-> type]
        <5>2. e \in MailEvent /\ e.type \in {"close", "destroy"}
              /\ (mailbox' = mailbox \/ mailbox' = Append(mailbox, e))
          BY <5>1, EventKinds
        <5> HIDE DEF e
        <5> QED
          BY <5>2
      <4>3. CASE \E f \in Flusher : FlushAborts(f)
        BY <4>3, EventKinds DEF FlushAborts
      <4> QED
        BY <2>2, <4>1, <4>2, <4>3
    <3>2. UNCHANGED <<outputs, flushRequested, acked>> /\ written' \in {written, written + 1}
      BY <2>2 DEF Write, Close, Destroy, FlushAborts, machineOnly, ctxVars
    <3>3. /\ flush' \in [Flusher -> Promise] /\ target' \in [Flusher -> Nat]
          /\ alone' \in [Flusher -> BOOLEAN]
          /\ \A f \in Flusher : flush'[f] = "pending" =>
               flush[f] = "pending" /\ UNCHANGED <<target[f], alone[f]>>
      <4>1. CASE Write \/ Close
        BY <1>3, <4>1 DEF Write, Close, FlushTypes
      <4>2. CASE Destroy
        BY <1>3, <4>2 DEF Destroy, SettleFlushes, Promise, FlushTypes
      <4>3. CASE \E f \in Flusher : FlushAborts(f)
        <5>1. PICK g \in Flusher : FlushAborts(g)
          BY <4>3
        <5>2. /\ flush' = [flush EXCEPT ![g] = "rejected"]
              /\ target' = [target EXCEPT ![g] = 0]
              /\ alone' = [alone EXCEPT ![g] = FALSE]
          BY <5>1 DEF FlushAborts
        <5>3. /\ flush \in [Flusher -> Promise] /\ target \in [Flusher -> Nat]
              /\ alone \in [Flusher -> BOOLEAN]
          BY <1>3 DEF FlushTypes
        <5>4. flush' \in [Flusher -> Promise] /\ target' \in [Flusher -> Nat]
          BY <5>2, <5>3 DEF Promise
        <5>5. alone' \in [Flusher -> BOOLEAN]
          BY <5>2, <5>3
        <5>6. ASSUME NEW f \in Flusher, flush'[f] = "pending"
              PROVE  flush[f] = "pending" /\ f # g
          BY <5>2, <5>3, <5>6
        <5>7. ASSUME NEW f \in Flusher, f # g
              PROVE  UNCHANGED <<target[f], alone[f]>>
          BY <5>2, <5>3, <5>7
        <5> QED
          BY <5>4, <5>5, <5>6, <5>7
      <4> QED
        BY <2>2, <4>1, <4>2, <4>3
    <3>4. FlushTypes'
      BY <1>3, <3>2, <3>3 DEF FlushTypes
    <3>5. \A f \in Flusher : FlushDue(f)'
      BY <3>1, <3>2, <3>3, <3>4, PostedFlush
    <3> QED
      BY <3>4, <3>5 DEF FlushInv
  <2> QED
    BY <1>5, <2>1, <2>2 DEF User
<1>6. CASE UNCHANGED vars
  <2>1. UNCHANGED <<mailbox, outputs, flushRequested, flush, target, alone, acked, written>>
    BY <1>6 DEF vars, ctxVars, userVars
  <2> QED
    BY <2>1 DEF FlushInv, FlushTypes, FlushDue
<1> QED
  BY <1>1, <1>2, <1>4, <1>5, <1>6 DEF Next

\* FlushBarrier: a flush() called while no earlier request is under way resolves only when
\* all that was written before it was acknowledged, whoever calls, aborts and calls again
\* after it, and whatever is rewound, repeated or lost in between.
THEOREM FlushBarrierHolds == Spec => FlushBarrier
<1>1. Init => FlushInv
  <2> SUFFICES ASSUME Init PROVE FlushInv
    OBVIOUS
  <2>1. /\ flushRequested = FALSE /\ flush = [f \in Flusher |-> "none"]
        /\ target = [f \in Flusher |-> 0] /\ alone = [f \in Flusher |-> FALSE]
    BY DEF Init
  <2>2. FlushTypes
    BY <2>1 DEF FlushTypes, Promise
  <2>3. \A f \in Flusher : FlushDue(f)
    BY <2>1 DEF FlushDue
  <2> QED
    BY <2>2, <2>3 DEF FlushInv
<1>2. PlaceInv /\ FlushInv /\ [Next]_vars => FlushInv'
  BY FlushStep
<1>3. PlaceInv /\ FlushInv /\ [Next]_vars =>
        [\A f \in Flusher :
           flush[f] = "pending" /\ flush'[f] = "resolved" /\ alone[f] =>
             target[f] <= acked]_vars
  <2> SUFFICES ASSUME PlaceInv, FlushInv, Next, NEW f \in Flusher,
                      flush[f] = "pending", flush'[f] = "resolved", alone[f]
               PROVE  target[f] <= acked
    OBVIOUS
  <2>1. ConsumeFlushed
    <3>1. ~(HandleEvent \/ TimerFires)
      BY BoxMoves
    <3>2. ~(Serve \/ Deliver \/ Break)
      BY DEF Serve, ServeInit, ServeWrite, Deliver, Break, userVars
    <3>3. ~User
      BY DEF User, Write, Close, Destroy, SettleFlushes, Flush, FlushAborts, FlushInv, FlushTypes
    <3>4. ~(ConsumeAcks \/ ConsumeError \/ ConsumeClosed)
      BY DEF ConsumeAcks, ConsumeError, ConsumeClosed, SettleFlushes
    <3> QED
      BY <3>1, <3>2, <3>3, <3>4 DEF Next, ConsumeOutput
  <2>2. outputs \in Seq(Output) /\ outputs # << >> /\ Head(outputs).type = "flushed"
    BY <2>1, FlushFacts DEF ConsumeFlushed, Consume
  <2>3. 1 \in 1 .. Len(outputs) /\ outputs[1].type = "flushed"
    BY <2>2, Taken
  <2>4. Barrier(outputs, target[f], acked)
    BY DEF FlushInv, FlushDue
  <2> QED
    BY <2>3, <2>4 DEF Barrier
<1> QED
  BY <1>1, <1>2, <1>3, PlacesAlways, PTL DEF Spec, FlushBarrier
=============================================================================
