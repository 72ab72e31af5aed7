------------------------- MODULE TopicWriterProofs -------------------------
(* Proofs about TopicWriter, for every number of messages, faults, flushers *)
(* and every limit: the window keeps its shape and its order, the next      *)
(* number is a new one, and the send loop does not stop with work to do.    *)
EXTENDS TopicWriter, FiniteSetTheorems, SequenceTheorems, TLAPS

-----------------------------------------------------------------------------
(* What the operations on the window preserve                              *)

Message == [id : Nat, seqNo : Nat]

Window ==
  [messages : Seq(Message), inflightStart : Nat, inflightLength : Nat,
   bufferStart : Nat, bufferLength : Nat]

\* What holds of the window while `last` is the last number given.
Sound(w, last) ==
  /\ w \in Window
  /\ last \in Nat
  /\ WindowShape(w)
  /\ WindowNumbers(w)
  /\ \A p \in 1 .. Len(w.messages) : w.messages[p].seqNo <= last

\* The fields of a window, and how they relate.
LEMMA WindowFields ==
  ASSUME NEW w \in Window, WindowShape(w)
  PROVE  /\ w.messages \in Seq(Message) /\ Len(w.messages) \in Nat
         /\ w.inflightStart \in Nat /\ w.inflightLength \in Nat
         /\ w.bufferStart \in Nat /\ w.bufferLength \in Nat
         /\ w.bufferStart = w.inflightStart + w.inflightLength
         /\ Len(w.messages) = w.bufferStart + w.bufferLength
         /\ w.inflightLength <= MaxInflight
         /\ \A p \in 1 .. Len(w.messages) :
              w.messages[p] \in Message /\ w.messages[p].seqNo \in Nat
<1>1. /\ w.messages \in Seq(Message)
      /\ w.inflightStart \in Nat /\ w.inflightLength \in Nat
      /\ w.bufferStart \in Nat /\ w.bufferLength \in Nat
  BY DEF Window
<1>2. \A p \in 1 .. Len(w.messages) : w.messages[p] \in Message
  BY <1>1
<1>3. \A m \in Message : m.seqNo \in Nat
  BY DEF Message
<1> QED
  BY <1>1, <1>2, <1>3, WindowAssumption DEF WindowShape

-----------------------------------------------------------------------------
(* Acknowledgments                                                          *)

\* Of the positions up to k that have a property, one is the first: of the prefixes that
\* end in one of them, one is the smallest.
LEMMA FirstPosition ==
  ASSUME NEW k \in Nat, NEW S \in SUBSET (1 .. k), S # {}
  PROVE  \E n \in S : \A m \in S : n <= m
<1> DEFINE R == StrictSubsetOrdering(1 .. k)
           Prefixes == {1 .. n : n \in S}
<1>1. IsFiniteSet(1 .. k)
  BY FS_Interval
<1>2. IsWellFoundedOn(R, SUBSET (1 .. k))
  BY <1>1, FS_StrictSubsetOrderingWellFounded, FS_FiniteSubsetsOfFinite
<1>3. Prefixes \subseteq SUBSET (1 .. k) /\ Prefixes # {}
  <2>1. PICK n \in S : TRUE
    OBVIOUS
  <2>2. 1 .. n \in Prefixes
    OBVIOUS
  <2>3. \A m \in S : 1 .. m \subseteq 1 .. k
    OBVIOUS
  <2> QED
    BY <2>2, <2>3
<1> HIDE DEF R
<1>4. PICK p \in Prefixes : \A q \in Prefixes : ~(<<q, p>> \in R)
  BY <1>2, <1>3, WFMin
<1>5. PICK n \in S : p = 1 .. n
  BY <1>4
<1>6. ASSUME NEW m \in S, m < n PROVE FALSE
  <2>1. 1 .. m \subseteq 1 .. n /\ n \in 1 .. n /\ n \notin 1 .. m
    BY <1>6
  <2>2. 1 .. m # 1 .. n /\ 1 .. m \in SUBSET (1 .. k) /\ 1 .. n \in SUBSET (1 .. k)
    BY <2>1
  <2>3. <<1 .. m, 1 .. n>> \in R
    BY <2>1, <2>2 DEF R, StrictSubsetOrdering
  <2>4. 1 .. m \in Prefixes
    OBVIOUS
  <2> QED
    BY <1>4, <1>5, <2>3, <2>4
<1>7. \A m \in S : n \in Nat /\ m \in Nat
  OBVIOUS
<1> QED
  BY <1>6, <1>7

\* How much of the in-flight range is acknowledged is well defined and at most all of it,
\* and it is acknowledged.
LEMMA LeadingWithin ==
  ASSUME NEW w \in Window, WindowShape(w), NEW N
  PROVE  /\ LeadingInflight(w, N) \in 0 .. w.inflightLength
         /\ \A p \in 1 .. LeadingInflight(w, N) : w.messages[w.inflightStart + p].seqNo \in N
<1> DEFINE k == w.bufferStart - w.inflightStart
           Is(n) == w.messages[w.inflightStart + n].seqNo \in N
           Leads(n) == /\ \A p \in 1 .. n : Is(p)
                       /\ n < k => ~Is(n + 1)
<1>1. k = w.inflightLength /\ k \in Nat
  BY WindowFields
<1>2. \E n \in 0 .. k : Leads(n)
  <2>1. CASE \A p \in 1 .. k : Is(p)
    BY <1>1, <2>1
  <2>2. CASE ~\A p \in 1 .. k : Is(p)
    <3> DEFINE S == {p \in 1 .. k : ~Is(p)}
    <3> HIDE DEF Is
    <3>1. S \in SUBSET (1 .. k) /\ S # {}
      BY <2>2
    <3>2. PICK n \in S : \A m \in S : n <= m
      BY <1>1, <3>1, FirstPosition
    <3>3. n \in 1 .. k /\ ~Is(n) /\ n - 1 \in 0 .. k /\ (n - 1) + 1 = n
      BY <1>1, <3>2
    <3>4. \A p \in 1 .. n - 1 : Is(p)
      BY <1>1, <3>2, <3>3
    <3> QED
      BY <3>3, <3>4
  <2> QED
    BY <2>1, <2>2
<1>3. \A n \in 0 .. k : w.inflightStart + n + 1 = w.inflightStart + (n + 1)
  <2>1. w.inflightStart \in Nat
    BY WindowFields
  <2> HIDE DEF k
  <2> QED
    BY <1>1, <2>1
<1>4. LeadingInflight(w, N) \in 0 .. k /\ Leads(LeadingInflight(w, N))
  BY <1>2, <1>3 DEF LeadingInflight
<1> QED
  BY <1>1, <1>4

\* The messages that remain when a prefix goes.
LEMMA Remaining ==
  ASSUME NEW S, NEW s \in Seq(S), NEW n \in 0 .. Len(s)
  PROVE  /\ Len(s) \in Nat
         /\ SubSeq(s, n + 1, Len(s)) \in Seq(S)
         /\ Len(SubSeq(s, n + 1, Len(s))) = Len(s) - n
         /\ \A i \in 1 .. Len(s) - n : SubSeq(s, n + 1, Len(s))[i] = s[n + i]
<1>1. Len(s) \in Nat /\ \A i \in n + 1 .. Len(s) : s[i] \in S
  OBVIOUS
<1>2. /\ SubSeq(s, n + 1, Len(s)) \in Seq(S)
      /\ Len(SubSeq(s, n + 1, Len(s))) =
           IF n + 1 <= Len(s) THEN Len(s) - (n + 1) + 1 ELSE 0
      /\ \A i \in 1 .. Len(s) - (n + 1) + 1 :
           SubSeq(s, n + 1, Len(s))[i] = s[n + 1 + i - 1]
  BY <1>1, SubSeqProperties
<1> QED
  BY <1>1, <1>2

\* An acknowledgment takes messages from the head and keeps the window sound.
LEMMA AcknowledgedSound ==
  ASSUME NEW w, NEW last, Sound(w, last), NEW n \in 0 .. w.inflightLength
  PROVE  /\ Sound(Acknowledged(w, n), last)
         /\ \A p \in 1 .. Len(Acknowledged(w, n).messages) :
              \E q \in 1 .. Len(w.messages) :
                Acknowledged(w, n).messages[p] = w.messages[q]
<1> DEFINE k == w.inflightStart + n
           rest == SubSeq(w.messages, k + 1, Len(w.messages))
           a == Acknowledged(w, n)
<1>1. w \in Window /\ WindowShape(w) /\ WindowNumbers(w) /\ last \in Nat
  BY DEF Sound
<1>2. /\ w.messages \in Seq(Message) /\ k \in 0 .. Len(w.messages) /\ k <= w.bufferStart
      /\ k \in Nat
  BY <1>1, WindowFields
<1>3. /\ rest \in Seq(Message) /\ Len(rest) = Len(w.messages) - k
      /\ \A i \in 1 .. Len(rest) : rest[i] = w.messages[k + i]
      /\ \A i \in 1 .. Len(rest) : k + i \in 1 .. Len(w.messages)
      /\ Len(rest) \in Nat
  <2> HIDE DEF k
  <2>1. /\ Len(w.messages) \in Nat /\ k \in Nat /\ k <= Len(w.messages)
        /\ rest \in Seq(Message) /\ Len(rest) = Len(w.messages) - k
        /\ \A i \in 1 .. Len(w.messages) - k : rest[i] = w.messages[k + i]
    BY <1>2, Remaining
  <2> HIDE DEF rest
  <2>2. Len(rest) \in Nat
    BY <2>1
  <2>3. ASSUME NEW i \in 1 .. Len(rest)
        PROVE  rest[i] = w.messages[k + i] /\ k + i \in 1 .. Len(w.messages)
    <3>1. i \in 1 .. Len(w.messages) - k
      BY <2>1
    <3>2. k + i \in 1 .. Len(w.messages)
      BY <2>1, <3>1
    <3> QED
      BY <2>1, <3>1, <3>2
  <2> QED
    BY <2>1, <2>2, <2>3
<1>4. /\ a.messages = rest /\ a.inflightStart = 0
      /\ a.inflightLength = w.inflightLength - n
      /\ a.bufferStart = w.bufferStart - k
      /\ a.bufferLength = w.bufferLength
  BY <1>1 DEF Acknowledged, Compacted, Window
<1>5. a \in Window
  <2>1. w.inflightLength - n \in Nat /\ w.bufferStart - k \in Nat
    BY <1>1, <1>2, WindowFields
  <2> DEFINE b == [w EXCEPT !.inflightStart = k, !.inflightLength = w.inflightLength - n]
  <2>2. b \in Window /\ b.inflightStart = k /\ b.messages = w.messages /\ b.bufferStart = w.bufferStart
    BY <1>1, <1>2, <2>1 DEF Window
  <2>3. a = [b EXCEPT !.messages = SubSeq(b.messages, b.inflightStart + 1, Len(b.messages)),
                      !.inflightStart = 0, !.bufferStart = b.bufferStart - b.inflightStart]
    BY DEF Acknowledged, Compacted
  <2> HIDE DEF b
  <2>4. /\ SubSeq(b.messages, b.inflightStart + 1, Len(b.messages)) \in Seq(Message)
        /\ b.bufferStart - b.inflightStart \in Nat
    BY <1>3, <2>1, <2>2
  <2> HIDE DEF rest, a
  <2> QED
    BY <2>2, <2>3, <2>4 DEF Window
<1> HIDE DEF rest, a
<1>6. WindowShape(a)
  <2>1. /\ w.inflightStart \in Nat /\ w.inflightLength \in Nat /\ w.bufferLength \in Nat
        /\ w.bufferStart = w.inflightStart + w.inflightLength
        /\ Len(w.messages) = w.bufferStart + w.bufferLength
        /\ w.inflightLength <= MaxInflight /\ MaxInflight \in Nat
    BY <1>1, WindowFields, WindowAssumption
  <2>2. /\ a.inflightStart = 0 /\ a.inflightLength \in 0 .. MaxInflight
        /\ a.bufferLength \in Nat /\ a.bufferStart = a.inflightLength
    BY <1>4, <2>1
  <2>3. Len(a.messages) = a.bufferStart + a.bufferLength
    BY <1>3, <1>4, <2>1
  <2> QED
    BY <2>2, <2>3 DEF WindowShape
<1>7. \A p \in 1 .. a.bufferStart : a.messages[p].seqNo # 0
  <2> SUFFICES ASSUME NEW p \in 1 .. a.bufferStart PROVE a.messages[p].seqNo # 0
    OBVIOUS
  <2>1. p \in 1 .. Len(rest) /\ k + p \in 1 .. w.bufferStart
    <3>1. /\ w.bufferStart \in Nat /\ w.bufferStart <= Len(w.messages) /\ Len(w.messages) \in Nat
          /\ k \in Nat /\ Len(rest) = Len(w.messages) - k
          /\ p \in 1 .. w.bufferStart - k
      BY <1>1, <1>2, <1>3, <1>4, WindowFields
    <3> HIDE DEF k
    <3> QED
      BY <3>1
  <2> QED
    BY <1>1, <1>3, <1>4, <2>1 DEF WindowNumbers
<1>8. \A p, q \in 1 .. Len(a.messages) :
        p < q /\ a.messages[q].seqNo # 0 =>
          a.messages[p].seqNo # 0 /\ a.messages[p].seqNo < a.messages[q].seqNo
  <2> SUFFICES ASSUME NEW p \in 1 .. Len(rest), NEW q \in 1 .. Len(rest), p < q,
                      rest[q].seqNo # 0
               PROVE  rest[p].seqNo # 0 /\ rest[p].seqNo < rest[q].seqNo
    BY <1>4
  <2>1. k + p < k + q /\ k + p \in 1 .. Len(w.messages) /\ k + q \in 1 .. Len(w.messages)
    BY <1>2, <1>3
  <2> QED
    BY <1>1, <1>3, <2>1 DEF WindowNumbers
<1>9. \A p \in 1 .. Len(a.messages) :
        a.messages[p].seqNo <= last /\ \E q \in 1 .. Len(w.messages) :
                                         a.messages[p] = w.messages[q]
  BY <1>3, <1>4 DEF Sound
<1> QED
  BY <1>1, <1>5, <1>6, <1>7, <1>8, <1>9 DEF Sound, WindowNumbers, a

\* A rewind changes the pointers only.
LEMMA RewoundSound ==
  ASSUME NEW w, NEW last, Sound(w, last), NEW n \in 0 .. w.inflightLength
  PROVE  Sound(Rewound(w, n), last) /\ Rewound(w, n).messages = w.messages
<1> DEFINE r == Rewound(w, n)
<1>1. w \in Window /\ WindowShape(w) /\ WindowNumbers(w)
  BY DEF Sound
<1>2. /\ r.messages = w.messages /\ r.inflightStart = w.inflightStart + n
      /\ r.inflightLength = 0 /\ r.bufferStart = w.inflightStart + n
      /\ r.bufferLength = Len(w.messages) - (w.inflightStart + n)
  BY <1>1 DEF Rewound, Window
<1>3. /\ w.inflightStart + n \in Nat
      /\ Len(w.messages) - (w.inflightStart + n) \in Nat
      /\ w.inflightStart + n <= w.bufferStart
  BY <1>1, WindowFields
<1>4. r \in Window
  BY <1>1, <1>3 DEF Rewound, Window
<1> HIDE DEF r
<1>5. WindowShape(r)
  BY <1>1, <1>2, <1>3, WindowFields, WindowAssumption, SMTT(30) DEF WindowShape
<1>6. \A p \in 1 .. r.bufferStart : p \in 1 .. w.bufferStart
  BY <1>1, <1>2, <1>3, WindowFields
<1>7. WindowNumbers(r)
  BY <1>1, <1>2, <1>6 DEF WindowNumbers
<1> QED
  BY <1>2, <1>4, <1>5, <1>7 DEF Sound, r

-----------------------------------------------------------------------------
(* Writes and batches                                                       *)

\* The first window.
LEMMA EmptySound == ASSUME NEW last \in Nat PROVE Sound(EmptyWindow, last)
<1>1. << >> \in Seq(Message) /\ Len(<< >>) = 0
  OBVIOUS
<1>2. EmptyWindow \in Window
  BY <1>1 DEF EmptyWindow, Window
<1>3. WindowShape(EmptyWindow) /\ WindowNumbers(EmptyWindow)
  BY <1>1, WindowAssumption DEF EmptyWindow, WindowShape, WindowNumbers
<1> QED
  BY <1>1, <1>2, <1>3 DEF Sound, EmptyWindow

\* A message is enqueued without a number, or with one above those before it.
LEMMA EnqueuedSound ==
  ASSUME NEW w, NEW last, Sound(w, last), NEW message \in Message, NEW mark \in Nat,
         mark >= last, message.seqNo <= mark,
         message.seqNo # 0 =>
           \A p \in 1 .. Len(w.messages) :
             w.messages[p].seqNo # 0 /\ w.messages[p].seqNo < message.seqNo
  PROVE  /\ Sound(Enqueued(w, message), mark)
         /\ Enqueued(w, message).messages = Append(w.messages, message)
<1> DEFINE e == Enqueued(w, message)
           l == Len(w.messages)
<1>1. w \in Window /\ WindowShape(w) /\ WindowNumbers(w) /\ last \in Nat
  BY DEF Sound
<1>2. /\ w.messages \in Seq(Message) /\ l \in Nat
      /\ w.inflightStart \in Nat /\ w.inflightLength \in Nat /\ w.bufferStart \in Nat
      /\ w.bufferLength \in Nat /\ w.bufferStart <= l
      /\ \A p \in 1 .. l : w.messages[p].seqNo \in Nat
  BY <1>1, WindowFields
<1>3. /\ e.messages = Append(w.messages, message)
      /\ e.inflightStart = w.inflightStart /\ e.inflightLength = w.inflightLength
      /\ e.bufferStart = w.bufferStart /\ e.bufferLength = w.bufferLength + 1
  BY <1>1 DEF Enqueued, Window
<1>4. /\ e.messages \in Seq(Message) /\ Len(e.messages) = l + 1
      /\ \A p \in 1 .. l : e.messages[p] = w.messages[p]
      /\ e.messages[l + 1] = message
  BY <1>2, <1>3
<1>5. e \in Window
  <2>1. Append(w.messages, message) \in Seq(Message) /\ w.bufferLength + 1 \in Nat
    BY <1>2
  <2> QED
    BY <1>1, <2>1 DEF Enqueued, Window
<1> HIDE DEF e
<1>6. WindowShape(e)
  <2>1. /\ w.bufferStart = w.inflightStart + w.inflightLength
        /\ w.inflightStart \in Nat /\ w.inflightLength <= MaxInflight
        /\ l = w.bufferStart + w.bufferLength
    BY <1>1 DEF WindowShape
  <2> HIDE DEF l
  <2>2. Len(e.messages) = e.bufferStart + e.bufferLength
    BY <1>2, <1>3, <1>4, <2>1
  <2> QED
    BY <1>1, <1>3, <2>2 DEF WindowShape
<1>7. \A p \in 1 .. e.bufferStart : e.messages[p].seqNo # 0
  BY <1>1, <1>2, <1>3, <1>4 DEF WindowNumbers
<1>8. ASSUME NEW p \in 1 .. l + 1, NEW q \in 1 .. l + 1, p < q, e.messages[q].seqNo # 0
      PROVE  e.messages[p].seqNo # 0 /\ e.messages[p].seqNo < e.messages[q].seqNo
  <2>1. p \in 1 .. l
    BY <1>2, <1>8
  <2>2. CASE q = l + 1
    BY <1>4, <1>8, <2>1, <2>2
  <2>3. CASE q # l + 1
    <3>1. q \in 1 .. l
      BY <1>2, <2>3
    <3> QED
      BY <1>1, <1>4, <1>8, <2>1, <3>1 DEF WindowNumbers
  <2> QED
    BY <2>2, <2>3
<1>9. \A p \in 1 .. l + 1 : e.messages[p].seqNo <= mark
  <2> SUFFICES ASSUME NEW p \in 1 .. l + 1 PROVE e.messages[p].seqNo <= mark
    OBVIOUS
  <2>1. CASE p = l + 1
    BY <1>4, <2>1
  <2>2. CASE p # l + 1
    <3>1. p \in 1 .. l
      BY <1>2, <2>2
    <3>2. w.messages[p].seqNo <= last /\ w.messages[p].seqNo \in Nat
      BY <1>2, <3>1 DEF Sound
    <3> QED
      BY <1>1, <1>4, <3>1, <3>2
  <2> QED
    BY <2>1, <2>2
<1> QED
  BY <1>3, <1>4, <1>5, <1>6, <1>7, <1>8, <1>9 DEF Sound, WindowNumbers, e

\* The more of the buffer, the more messages without a number, and one more with the last.
LEMMA UnnumberedGrows ==
  ASSUME NEW w \in Window, NEW k \in Nat, NEW m \in Nat, k <= m
  PROVE  /\ Unnumbered(w, k) \in Nat
         /\ Unnumbered(w, k) <= Unnumbered(w, m)
         /\ k < m /\ w.messages[w.bufferStart + m].seqNo = 0 =>
              Unnumbered(w, k) < Unnumbered(w, m)
<1> DEFINE b == w.bufferStart
           U(n) == {p \in b + 1 .. b + n : w.messages[p].seqNo = 0}
<1>1. b \in Nat
  BY DEF Window
<1>2. \A n \in Nat : Unnumbered(w, n) = Cardinality(U(n))
  BY DEF Unnumbered
<1> HIDE DEF b
<1>3. IsFiniteSet(U(m)) /\ Cardinality(U(m)) \in Nat
  <2>1. IsFiniteSet(b + 1 .. b + m)
    BY <1>1, FS_Interval
  <2>2. U(m) \in SUBSET (b + 1 .. b + m)
    OBVIOUS
  <2> QED
    BY <2>1, <2>2, FS_Subset, FS_CardinalityType
<1>4. U(k) \in SUBSET U(m)
  <2>1. b + 1 .. b + k \subseteq b + 1 .. b + m
    BY <1>1
  <2> QED
    BY <2>1
<1>5. /\ IsFiniteSet(U(k)) /\ Cardinality(U(k)) \in Nat
      /\ Cardinality(U(k)) <= Cardinality(U(m))
      /\ Cardinality(U(m)) = Cardinality(U(k)) => U(m) = U(k)
  BY <1>3, <1>4, FS_Subset, FS_CardinalityType
<1>6. ASSUME k < m, w.messages[b + m].seqNo = 0
      PROVE  Cardinality(U(k)) < Cardinality(U(m))
  <2>1. b + m \in U(m) /\ b + m \notin U(k)
    BY <1>1, <1>6
  <2>2. Cardinality(U(m)) # Cardinality(U(k))
    BY <1>5, <2>1
  <2> HIDE DEF U
  <2> QED
    BY <1>3, <1>5, <2>2
<1> HIDE DEF U
<1> QED
  BY <1>2, <1>5, <1>6 DEF b

\* What a batch consists of.
LEMMA BatchSizes ==
  ASSUME NEW w \in Window, WindowShape(w)
  PROVE  /\ BatchSize(w) \in Nat
         /\ BatchSize(w) <= w.bufferLength
         /\ w.inflightLength + BatchSize(w) <= MaxInflight
         /\ CanSend(w) => BatchSize(w) >= 1
<1>1. /\ w.bufferLength \in Nat /\ w.inflightLength \in Nat /\ w.inflightLength <= MaxInflight
      /\ MaxInflight \in Nat /\ BatchLimit \in Nat /\ BatchLimit >= 1
  BY WindowFields, WindowAssumption
<1> QED
  BY <1>1 DEF BatchSize, Least, CanSend

\* How a batch numbers the messages: what had a number keeps it, what is in the batch gets
\* one above the last number given, and the later the larger.
LEMMA NumberedProps ==
  ASSUME NEW w, NEW last, Sound(w, last)
  PROVE  LET fresh(p) == /\ p \in w.bufferStart + 1 .. w.bufferStart + BatchSize(w)
                         /\ w.messages[p].seqNo = 0
             numbered == Numbered(w, last)
         IN /\ numbered \in Seq(Message) /\ Len(numbered) = Len(w.messages)
            /\ \A p \in 1 .. Len(w.messages) :
                 /\ ~fresh(p) => numbered[p] = w.messages[p]
                 /\ fresh(p) => /\ numbered[p].seqNo = last + Unnumbered(w, p - w.bufferStart)
                                /\ numbered[p].seqNo > last
                                /\ numbered[p].seqNo <= HighWater(w, last)
            /\ HighWater(w, last) \in Nat /\ HighWater(w, last) >= last
<1> DEFINE M == w.messages
           b == w.bufferStart
           B == BatchSize(w)
           fresh(p) == p \in b + 1 .. b + B /\ M[p].seqNo = 0
           numbered == Numbered(w, last)
<1>1. w \in Window /\ WindowShape(w) /\ last \in Nat
  BY DEF Sound
<1>2. /\ M \in Seq(Message) /\ Len(M) \in Nat /\ b \in Nat /\ B \in Nat
      /\ \A p \in 1 .. Len(M) : M[p] \in Message
  BY <1>1, WindowFields, BatchSizes
<1>3. numbered = [p \in 1 .. Len(M) |->
                    IF fresh(p) THEN [M[p] EXCEPT !.seqNo = last + Unnumbered(w, p - b)]
                                ELSE M[p]]
  BY DEF Numbered
<1>4. HighWater(w, last) = last + Unnumbered(w, B)
  BY DEF HighWater
<1>5. Unnumbered(w, 0) \in Nat /\ Unnumbered(w, B) \in Nat
  BY <1>1, <1>2, UnnumberedGrows
<1>6. ASSUME NEW p \in 1 .. Len(M), fresh(p)
      PROVE  /\ Unnumbered(w, p - b) \in Nat /\ Unnumbered(w, p - b) > 0
             /\ Unnumbered(w, p - b) <= Unnumbered(w, B)
  <2>1. /\ p - b \in Nat /\ p - b > 0 /\ p - b <= B /\ b + (p - b) = p
        /\ M[p].seqNo = 0
    BY <1>2, <1>6
  <2>2. /\ Unnumbered(w, p - b) \in Nat
        /\ Unnumbered(w, p - b) <= Unnumbered(w, B)
    BY <1>1, <1>2, <2>1, UnnumberedGrows
  <2>3. Unnumbered(w, 0) < Unnumbered(w, p - b)
    BY <1>1, <2>1, UnnumberedGrows
  <2> QED
    BY <1>5, <2>2, <2>3
<1> HIDE DEF M, b, B, fresh, numbered
<1>7. ASSUME NEW p \in 1 .. Len(M)
      PROVE  /\ numbered[p] \in Message
             /\ ~fresh(p) => numbered[p] = M[p]
             /\ fresh(p) => numbered[p].seqNo = last + Unnumbered(w, p - b)
  <2>1. CASE fresh(p)
    <3>1. numbered[p] = [M[p] EXCEPT !.seqNo = last + Unnumbered(w, p - b)]
      BY <1>3, <2>1
    <3>2. last + Unnumbered(w, p - b) \in Nat /\ M[p] \in Message
      BY <1>1, <1>2, <1>6, <2>1
    <3> QED
      BY <2>1, <3>1, <3>2 DEF Message
  <2>2. CASE ~fresh(p)
    BY <1>2, <1>3, <2>2
  <2> QED
    BY <2>1, <2>2
<1>8. numbered \in Seq(Message) /\ Len(numbered) = Len(M)
  <2>1. numbered = [p \in 1 .. Len(M) |-> numbered[p]]
    BY <1>3
  <2>2. numbered \in [1 .. Len(M) -> Message]
    BY <1>7, <2>1
  <2> QED
    BY <1>2, <2>2
<1>9. HighWater(w, last) \in Nat /\ HighWater(w, last) >= last
  BY <1>1, <1>4, <1>5
<1>10. ASSUME NEW p \in 1 .. Len(M), fresh(p)
       PROVE  /\ last + Unnumbered(w, p - b) > last
              /\ last + Unnumbered(w, p - b) <= HighWater(w, last)
  BY <1>1, <1>4, <1>5, <1>6, <1>10
<1> QED
  BY <1>7, <1>8, <1>9, <1>10 DEF M, b, B, fresh, numbered

\* Sending a batch keeps the window sound: numbers stay, new ones follow the last, and no
\* more is in flight than allowed.
LEMMA SentSound ==
  ASSUME NEW w, NEW last, Sound(w, last)
  PROVE  /\ Sound(Sent(w, last), HighWater(w, last))
         /\ HighWater(w, last) \in Nat /\ HighWater(w, last) >= last
         /\ Len(Sent(w, last).messages) = Len(w.messages)
         /\ \A p \in 1 .. Len(w.messages) :
              w.messages[p].seqNo # 0 => Sent(w, last).messages[p] = w.messages[p]
<1> DEFINE M == w.messages
           l == Len(w.messages)
           b == w.bufferStart
           B == BatchSize(w)
           fresh(p) == p \in b + 1 .. b + B /\ M[p].seqNo = 0
           numbered == Numbered(w, last)
           high == HighWater(w, last)
           s == Sent(w, last)
<1>1. w \in Window /\ WindowShape(w) /\ WindowNumbers(w) /\ last \in Nat
  BY DEF Sound
<1>2. /\ M \in Seq(Message) /\ l \in Nat /\ b \in Nat /\ B \in Nat
      /\ w.inflightStart \in Nat /\ w.inflightLength \in Nat /\ w.bufferLength \in Nat
      /\ b = w.inflightStart + w.inflightLength /\ l = b + w.bufferLength
      /\ B <= w.bufferLength /\ w.inflightLength + B <= MaxInflight
      /\ MaxInflight \in Nat
      /\ \A p \in 1 .. l : M[p].seqNo \in Nat
  BY <1>1, WindowFields, BatchSizes, WindowAssumption
<1>3. /\ numbered \in Seq(Message) /\ Len(numbered) = l
      /\ \A p \in 1 .. l :
           /\ ~fresh(p) => numbered[p] = M[p]
           /\ fresh(p) => /\ numbered[p].seqNo = last + Unnumbered(w, p - b)
                          /\ numbered[p].seqNo > last
                          /\ numbered[p].seqNo <= high
      /\ high \in Nat /\ high >= last
  BY NumberedProps
<1>4. /\ s.messages = numbered /\ s.inflightStart = w.inflightStart
      /\ s.inflightLength = w.inflightLength + B
      /\ s.bufferStart = b + B /\ s.bufferLength = w.bufferLength - B
  BY <1>1 DEF Sent, Window
<1>5. s \in Window
  <2>1. b + B \in Nat /\ w.bufferLength - B \in Nat /\ w.inflightLength + B \in Nat
    <3>1. /\ b \in Nat /\ B \in Nat /\ w.bufferLength \in Nat /\ w.inflightLength \in Nat
          /\ B <= w.bufferLength
      BY <1>2
    <3> HIDE DEF b, B
    <3> QED
      BY <3>1
  <2> HIDE DEF B, numbered
  <2> QED
    BY <1>1, <1>3, <2>1 DEF Sent, Window, b, B, numbered
<1>6. \A p \in 1 .. l : numbered[p].seqNo \in Nat
  <2>1. \A p \in 1 .. l : numbered[p] \in Message
    BY <1>2, <1>3
  <2>2. \A m \in Message : m.seqNo \in Nat
    BY DEF Message
  <2> QED
    BY <2>1, <2>2
<1>7. \A p \in 1 .. l : M[p].seqNo <= last
  BY DEF Sound
<1>8. \A p, q \in 1 .. l : p < q /\ M[q].seqNo # 0 =>
                             M[p].seqNo # 0 /\ M[p].seqNo < M[q].seqNo
  BY <1>1 DEF WindowNumbers
<1>9. \A p \in 1 .. b : M[p].seqNo # 0
  BY <1>1 DEF WindowNumbers
<1>10. ASSUME NEW p \in 1 .. l, NEW q \in 1 .. l, p < q, fresh(p), fresh(q)
       PROVE  Unnumbered(w, p - b) < Unnumbered(w, q - b)
  <2>1. /\ p - b \in Nat /\ q - b \in Nat /\ p - b < q - b /\ b + (q - b) = q
        /\ M[q].seqNo = 0
    <3>1. /\ p \in b + 1 .. b + B /\ q \in b + 1 .. b + B /\ p < q
          /\ M[q].seqNo = 0 /\ b \in Nat /\ B \in Nat
      BY <1>2, <1>10
    <3> HIDE DEF b, B, M, l, fresh
    <3> QED
      BY <3>1
  <2>2. w.messages[w.bufferStart + (q - b)].seqNo = 0 /\ p - b <= q - b
    BY <1>2, <2>1
  <2> HIDE DEF b
  <2> QED
    BY <1>1, <2>1, <2>2, UnnumberedGrows
<1>11. ASSUME NEW p \in 1 .. l, NEW q \in 1 .. l, fresh(p), fresh(q)
       PROVE  Unnumbered(w, p - b) \in Nat /\ Unnumbered(w, q - b) \in Nat
  <2>1. p - b \in Nat /\ q - b \in Nat
    <3>1. p \in b + 1 .. b + B /\ q \in b + 1 .. b + B /\ b \in Nat /\ B \in Nat
      BY <1>2, <1>11
    <3> HIDE DEF b, B
    <3> QED
      BY <3>1
  <2> HIDE DEF b, B, M, l, fresh, numbered, high, s
  <2>2. Unnumbered(w, p - b) \in Nat
    BY <1>1, <2>1, UnnumberedGrows
  <2>3. Unnumbered(w, q - b) \in Nat
    BY <1>1, <2>1, UnnumberedGrows
  <2> QED
    BY <2>2, <2>3
<1> HIDE DEF s, numbered, high, fresh
<1> HIDE DEF M, l, b, B
<1>12. WindowShape(s)
  <2>1. s.inflightStart \in Nat /\ s.inflightLength \in 0 .. MaxInflight
    BY <1>2, <1>4
  <2>2. s.bufferLength \in Nat /\ s.bufferStart = s.inflightStart + s.inflightLength
    BY <1>2, <1>4, SMTT(30)
  <2>3. Len(s.messages) = s.bufferStart + s.bufferLength
    BY <1>2, <1>3, <1>4
  <2> QED
    BY <2>1, <2>2, <2>3 DEF WindowShape
<1>13. ASSUME NEW p \in 1 .. s.bufferStart PROVE s.messages[p].seqNo # 0
  <2>1. p \in 1 .. b + B /\ p \in 1 .. l
    BY <1>2, <1>4
  <2>2. CASE fresh(p)
    BY <1>1, <1>3, <1>4, <2>1, <2>2
  <2>3. CASE ~fresh(p)
    <3>1. M[p].seqNo # 0
      BY <1>2, <1>9, <2>1, <2>3 DEF fresh
    <3> QED
      BY <1>3, <1>4, <2>1, <2>3, <3>1
  <2> QED
    BY <2>2, <2>3
<1>14. ASSUME NEW p \in 1 .. l, NEW q \in 1 .. l, p < q, numbered[q].seqNo # 0
       PROVE  numbered[p].seqNo # 0 /\ numbered[p].seqNo < numbered[q].seqNo
  <2>1. CASE fresh(p) /\ fresh(q)
    <3>1. /\ numbered[p].seqNo = last + Unnumbered(w, p - b)
          /\ numbered[q].seqNo = last + Unnumbered(w, q - b)
          /\ numbered[p].seqNo > last
      BY <1>3, <2>1
    <3>2. Unnumbered(w, p - b) < Unnumbered(w, q - b)
      BY <1>10, <1>14, <2>1
    <3>3. Unnumbered(w, p - b) \in Nat /\ Unnumbered(w, q - b) \in Nat
      BY <1>11, <2>1
    <3> HIDE DEF b
    <3> QED
      BY <1>1, <3>1, <3>2, <3>3
  <2>2. CASE fresh(p) /\ ~fresh(q)
    <3>1. M[q].seqNo # 0 /\ M[p].seqNo = 0
      BY <1>3, <1>14, <2>2 DEF fresh
    <3> QED
      BY <1>8, <1>14, <3>1
  <2>3. CASE ~fresh(p) /\ fresh(q)
    <3>1. numbered[p] = M[p] /\ numbered[q].seqNo > last
      BY <1>3, <2>3
    <3>2. p \in 1 .. b + B
      <4>1. /\ q \in b + 1 .. b + B /\ p \in 1 .. l /\ p < q
            /\ b \in Nat /\ B \in Nat /\ l \in Nat
        BY <1>2, <1>14, <2>3 DEF fresh
      <4> QED
        BY <4>1
    <3>3. M[p].seqNo # 0
      <4>1. CASE p \in 1 .. b
        BY <1>9, <4>1
      <4>2. CASE p \notin 1 .. b
        <5>1. b \in Nat /\ B \in Nat
          BY <1>2
        <5>2. p \in b + 1 .. b + B
          BY <3>2, <4>2, <5>1
        <5> QED
          BY <2>3, <5>2 DEF fresh
      <4> QED
        BY <4>1, <4>2
    <3>4. M[p].seqNo <= last /\ M[p].seqNo \in Nat /\ numbered[q].seqNo \in Nat
      BY <1>2, <1>6, <1>7
    <3> QED
      BY <1>1, <3>1, <3>3, <3>4
  <2>4. CASE ~fresh(p) /\ ~fresh(q)
    BY <1>3, <1>8, <1>14, <2>4
  <2> QED
    BY <2>1, <2>2, <2>3, <2>4
<1>15. ASSUME NEW p \in 1 .. l PROVE numbered[p].seqNo <= high
  <2>1. CASE fresh(p)
    BY <1>3, <2>1
  <2>2. CASE ~fresh(p)
    <3>1. numbered[p].seqNo <= last /\ numbered[p].seqNo \in Nat
      BY <1>3, <1>6, <1>7, <2>2
    <3> QED
      BY <1>1, <1>3, <3>1
  <2> QED
    BY <2>1, <2>2
<1>16. WindowNumbers(s)
  BY <1>3, <1>4, <1>13, <1>14 DEF WindowNumbers
<1>17. Sound(s, high)
  BY <1>3, <1>4, <1>5, <1>12, <1>15, <1>16 DEF Sound
<1>18. ASSUME NEW p \in 1 .. l, M[p].seqNo # 0 PROVE numbered[p] = M[p]
  BY <1>3, <1>18 DEF fresh
<1> QED
  BY <1>3, <1>4, <1>17, <1>18 DEF s, high, M, l

\* A batch that may be sent is not empty, and all of it are messages.
LEMMA BatchNotEmpty ==
  ASSUME NEW w, NEW last, Sound(w, last), CanSend(w)
  PROVE  Batch(w, last) \in Seq(Message) \ {<< >>}
<1> DEFINE b == w.bufferStart
           B == BatchSize(w)
           numbered == Numbered(w, last)
<1>1. w \in Window /\ WindowShape(w)
  BY DEF Sound
<1>2. /\ b \in Nat /\ B \in Nat /\ B >= 1
      /\ w.bufferLength \in Nat /\ B <= w.bufferLength
      /\ Len(w.messages) = b + w.bufferLength
  BY <1>1, WindowFields, BatchSizes
<1>3. numbered \in Seq(Message) /\ Len(numbered) = Len(w.messages)
  BY NumberedProps
<1> DEFINE m == b + 1
           n == b + B
<1>4. m \in Int /\ n \in Int /\ m <= n /\ n - m + 1 = B /\ m >= 1 /\ n <= Len(w.messages)
  <2> HIDE DEF b, B
  <2> QED
    BY <1>2
<1>5. Batch(w, last) = SubSeq(numbered, m, n)
  BY DEF Batch
<1> HIDE DEF numbered, b, B, m, n
<1>6. \A i \in m .. n : numbered[i] \in Message
  <2>1. Len(w.messages) \in Nat /\ \A i \in m .. n : i \in 1 .. Len(w.messages)
    BY <1>2, <1>4
  <2> QED
    BY <1>3, <2>1
<1>7. /\ SubSeq(numbered, m, n) \in Seq(Message)
      /\ Len(SubSeq(numbered, m, n)) = B
  BY <1>4, <1>6, SubSeqProperties
<1>8. SubSeq(numbered, m, n) # << >>
  <2>1. Len(SubSeq(numbered, m, n)) # 0
    BY <1>2, <1>7
  <2> QED
    BY <2>1, EmptySeq
<1> QED
  BY <1>5, <1>7, <1>8

-----------------------------------------------------------------------------
(* What goes through the queues                                            *)

Response ==
  [type : {"init"}, lastSeqNo : Nat] \cup [type : {"acks"}, seqNos : SUBSET Nat]

MailEvent ==
  [type : {"flush", "close", "destroy", "pump"}]
    \cup [type : {"write"}, id : Nat \ {0}]
    \cup [type : {"disconnected"}, fatal : BOOLEAN]
    \cup Response

Request ==
  [type : {"init"}, getLastSeqNo : BOOLEAN]
    \cup [type : {"write"}, batch : Seq(Message) \ {<< >>}]

\* Writes are handled in the order they were accepted.  With numbers of the caller's, what
\* is in the window was accepted before what is in the mailbox.
Mail(manual, box, messages, n) ==
  /\ box \in Seq(MailEvent)
  /\ \A i \in 1 .. Len(box) : box[i].type = "write" => box[i].id <= n
  /\ \A i, j \in 1 .. Len(box) :
       i < j /\ box[i].type = "write" /\ box[j].type = "write" => box[i].id < box[j].id
  /\ manual => \A p \in 1 .. Len(messages) :
       /\ messages[p].seqNo # 0 /\ messages[p].seqNo <= n
       /\ \A i \in 1 .. Len(box) : box[i].type = "write" => messages[p].seqNo < box[i].id

Pumped(box) == \E i \in 1 .. Len(box) : box[i].type = "pump"

Manual == numbering = "manual"

Types ==
  /\ hasEverConnected \in BOOLEAN
  /\ up \in Seq(Request) /\ down \in Seq(Response)
  /\ serverLast \in Nat /\ written \in Nat

\* A ready machine that may send has a pump coming.
PumpInv == state = "ready" /\ CanSend(window) => Pumped(mailbox)

WriterInv ==
  /\ Types
  /\ Sound(window, lastSeqNo)
  /\ Mail(Manual, mailbox, window.messages, written)
  /\ PumpInv

-----------------------------------------------------------------------------
(* Queues *)

\* The kinds of events.
LEMMA EventKinds ==
  /\ PumpEvent \in MailEvent /\ PumpEvent.type = "pump"
  /\ \A type \in {"flush", "close", "destroy"} : [type |-> type] \in MailEvent
  /\ \A id \in Nat \ {0} : [type |-> "write", id |-> id] \in MailEvent
  /\ \A fatal \in BOOLEAN : [type |-> "disconnected", fatal |-> fatal] \in MailEvent
  /\ \A r \in Response : r \in MailEvent /\ r.type \in {"init", "acks"}
  /\ \A e \in MailEvent : e.type = "write" => e.id \in Nat \ {0}
  /\ \A e \in MailEvent : e.type = "init" => e.lastSeqNo \in Nat
BY DEF PumpEvent, MailEvent, Response

\* The kinds of requests.
LEMMA RequestKinds ==
  /\ \A b \in BOOLEAN : [type |-> "init", getLastSeqNo |-> b] \in Request
  /\ \A batch \in Seq(Message) \ {<< >>} : [type |-> "write", batch |-> batch] \in Request
  /\ \A r \in Request : r.type = "write" => r.batch \in Seq(Message) \ {<< >>}
BY DEF Request

\* What is left when the head is taken.
LEMMA Taken ==
  ASSUME NEW S, NEW s \in Seq(S), s # << >>
  PROVE  /\ Len(s) \in Nat /\ Len(s) >= 1 /\ Head(s) = s[1] /\ Head(s) \in S
         /\ Tail(s) \in Seq(S) /\ Len(Tail(s)) = Len(s) - 1
         /\ \A i \in 1 .. Len(Tail(s)) : Tail(s)[i] = s[i + 1] /\ i + 1 \in 1 .. Len(s)
OBVIOUS

\* One more at the end.
LEMMA Added ==
  ASSUME NEW S, NEW s \in Seq(S), NEW e \in S
  PROVE  /\ Len(s) \in Nat
         /\ Append(s, e) \in Seq(S) /\ Len(Append(s, e)) = Len(s) + 1
         /\ \A i \in 1 .. Len(s) : Append(s, e)[i] = s[i]
         /\ Append(s, e)[Len(s) + 1] = e
         /\ s \o <<e>> = Append(s, e) /\ s \o << >> = s
OBVIOUS

\* The rest of the mailbox.
LEMMA MailTail ==
  ASSUME NEW manual, NEW box, NEW messages, NEW n, Mail(manual, box, messages, n), box # << >>
  PROVE  /\ Mail(manual, Tail(box), messages, n)
         /\ Pumped(box) /\ Head(box).type # "pump" => Pumped(Tail(box))
<1>1. /\ box \in Seq(MailEvent) /\ Len(box) \in Nat /\ Head(box) = box[1]
      /\ Tail(box) \in Seq(MailEvent) /\ Len(Tail(box)) = Len(box) - 1
      /\ \A i \in 1 .. Len(Tail(box)) : Tail(box)[i] = box[i + 1] /\ i + 1 \in 1 .. Len(box)
  BY Taken DEF Mail
<1>2. Mail(manual, Tail(box), messages, n)
  <2>1. \A i, j \in 1 .. Len(Tail(box)) : i < j => i + 1 < j + 1
    BY <1>1
  <2> QED
    BY <1>1, <2>1 DEF Mail
<1>3. ASSUME Pumped(box), Head(box).type # "pump" PROVE Pumped(Tail(box))
  <2>1. PICK i \in 1 .. Len(box) : box[i].type = "pump"
    BY <1>3 DEF Pumped
  <2>2. i # 1
    BY <1>1, <1>3, <2>1
  <2>3. i - 1 \in 1 .. Len(Tail(box)) /\ (i - 1) + 1 = i
    BY <1>1, <2>2
  <2> QED
    BY <1>1, <2>1, <2>3 DEF Pumped
<1> QED
  BY <1>2, <1>3

\* An event that is not a write is posted.
LEMMA MailPosted ==
  ASSUME NEW manual, NEW box, NEW messages, NEW n, Mail(manual, box, messages, n),
         NEW e \in MailEvent, e.type # "write"
  PROVE  /\ Mail(manual, Append(box, e), messages, n)
         /\ Pumped(box) => Pumped(Append(box, e))
         /\ e.type = "pump" => Pumped(Append(box, e))
         /\ box \o <<e>> = Append(box, e) /\ box \o << >> = box
<1> DEFINE l == Len(box)
           more == Append(box, e)
<1>1. /\ box \in Seq(MailEvent) /\ l \in Nat /\ more \in Seq(MailEvent) /\ Len(more) = l + 1
      /\ \A i \in 1 .. l : more[i] = box[i]
      /\ more[l + 1] = e
      /\ box \o <<e>> = more /\ box \o << >> = box
  BY Added DEF Mail
<1> HIDE DEF more
<1>2. \A i \in 1 .. Len(more) : more[i].type = "write" => i \in 1 .. l /\ more[i] = box[i]
  <2> SUFFICES ASSUME NEW i \in 1 .. Len(more), more[i].type = "write"
               PROVE  i \in 1 .. l /\ more[i] = box[i]
    OBVIOUS
  <2>1. i # l + 1
    BY <1>1
  <2>2. i \in 1 .. l
    BY <1>1, <2>1
  <2> QED
    BY <1>1, <2>2
<1>3. Mail(manual, more, messages, n)
  BY <1>1, <1>2 DEF Mail
<1>4. Pumped(box) => Pumped(more)
  BY <1>1 DEF Pumped
<1>5. e.type = "pump" => Pumped(more)
  BY <1>1 DEF Pumped
<1> QED
  BY <1>1, <1>3, <1>4, <1>5 DEF more

\* What a handler posts: a pump or nothing.
LEMMA MailPump ==
  ASSUME NEW manual, NEW box, NEW messages, NEW n, Mail(manual, box, messages, n)
  PROVE  /\ Mail(manual, box \o <<PumpEvent>>, messages, n)
         /\ Pumped(box \o <<PumpEvent>>)
         /\ box \o << >> = box
<1>1. PumpEvent \in MailEvent /\ PumpEvent.type # "write" /\ PumpEvent.type = "pump"
  BY EventKinds
<1>2. /\ Mail(manual, Append(box, PumpEvent), messages, n)
      /\ Pumped(Append(box, PumpEvent))
      /\ box \o <<PumpEvent>> = Append(box, PumpEvent) /\ box \o << >> = box
  BY <1>1, MailPosted
<1> QED
  BY <1>2

\* The next write is accepted.
LEMMA MailWritten ==
  ASSUME NEW manual, NEW box, NEW messages, NEW n \in Nat, Mail(manual, box, messages, n),
         \A p \in 1 .. Len(messages) : messages[p].seqNo \in Nat
  PROVE  /\ Mail(manual, Append(box, [type |-> "write", id |-> n + 1]), messages, n + 1)
         /\ Pumped(box) => Pumped(Append(box, [type |-> "write", id |-> n + 1]))
<1> DEFINE l == Len(box)
           e == [type |-> "write", id |-> n + 1]
           more == Append(box, e)
<1>1. e \in MailEvent /\ e.type = "write" /\ e.id = n + 1
  BY EventKinds
<1> HIDE DEF e
<1>2. /\ box \in Seq(MailEvent) /\ l \in Nat /\ more \in Seq(MailEvent) /\ Len(more) = l + 1
      /\ \A i \in 1 .. l : more[i] = box[i] /\ box[i] \in MailEvent
      /\ more[l + 1] = e
  BY <1>1, Added DEF Mail
<1> HIDE DEF more
<1>3. \A i \in 1 .. l : box[i].type = "write" => box[i].id \in Nat /\ box[i].id <= n
  BY <1>2, EventKinds DEF Mail
<1>4. \A i \in 1 .. Len(more) : i \in 1 .. l \/ i = l + 1
  BY <1>2
<1>5. \A i \in 1 .. Len(more) : more[i].type = "write" => more[i].id <= n + 1
  BY <1>1, <1>2, <1>3, <1>4
<1>6. ASSUME NEW i \in 1 .. Len(more), NEW j \in 1 .. Len(more), i < j,
             more[i].type = "write", more[j].type = "write"
      PROVE  more[i].id < more[j].id
  <2>1. i \in 1 .. l
    BY <1>2, <1>6
  <2>2. CASE j = l + 1
    BY <1>1, <1>2, <1>3, <1>6, <2>1, <2>2
  <2>3. CASE j \in 1 .. l
    BY <1>2, <1>6, <2>1, <2>3 DEF Mail
  <2> QED
    BY <1>4, <2>2, <2>3
<1>7. ASSUME manual, NEW p \in 1 .. Len(messages)
      PROVE  /\ messages[p].seqNo # 0 /\ messages[p].seqNo <= n + 1
             /\ \A i \in 1 .. Len(more) : more[i].type = "write" => messages[p].seqNo < more[i].id
  <2>1. /\ messages[p].seqNo # 0 /\ messages[p].seqNo <= n /\ messages[p].seqNo \in Nat
        /\ \A i \in 1 .. l : box[i].type = "write" => messages[p].seqNo < box[i].id
    BY <1>7 DEF Mail
  <2> HIDE DEF l
  <2>2. messages[p].seqNo < n + 1 /\ messages[p].seqNo <= n + 1
    BY <2>1
  <2>3. ASSUME NEW i \in 1 .. Len(more), more[i].type = "write"
        PROVE  messages[p].seqNo < more[i].id
    <3>1. CASE i = l + 1
      BY <1>1, <1>2, <2>2, <3>1
    <3>2. CASE i \in 1 .. l
      BY <1>2, <2>1, <2>3, <3>2
    <3> QED
      BY <1>4, <3>1, <3>2
  <2> QED
    BY <2>1, <2>2, <2>3
<1>8. Mail(manual, more, messages, n + 1)
  BY <1>2, <1>5, <1>6, <1>7 DEF Mail
<1>9. Pumped(box) => Pumped(more)
  BY <1>2 DEF Pumped
<1> QED
  BY <1>8, <1>9 DEF more, e

\* Messages leave the window, or keep their numbers.
LEMMA MailFewer ==
  ASSUME NEW manual, NEW box, NEW messages, NEW n, Mail(manual, box, messages, n), NEW fewer,
         \A p \in 1 .. Len(fewer) : \E q \in 1 .. Len(messages) :
           messages[q].seqNo # 0 => fewer[p] = messages[q]
  PROVE  Mail(manual, box, fewer, n)
BY DEF Mail

\* A write enters the window.
LEMMA MailHandled ==
  ASSUME NEW manual, NEW box, NEW messages \in Seq(Message), NEW n \in Nat,
         Mail(manual, box, messages, n), box # << >>, Head(box).type = "write",
         NEW message \in Message, manual => message.seqNo = Head(box).id
  PROVE  Mail(manual, Tail(box), Append(messages, message), n)
<1> DEFINE l == Len(messages)
           more == Append(messages, message)
<1>1. /\ Len(box) \in Nat /\ Len(box) >= 1 /\ Head(box) = box[1] /\ Head(box) \in MailEvent
      /\ \A i \in 1 .. Len(Tail(box)) : Tail(box)[i] = box[i + 1] /\ i + 1 \in 1 .. Len(box)
  BY Taken DEF Mail
<1>2. Mail(manual, Tail(box), messages, n)
  BY MailTail
<1>3. /\ l \in Nat /\ Len(more) = l + 1
      /\ \A p \in 1 .. l : more[p] = messages[p]
      /\ more[l + 1] = message
  BY Added
<1> HIDE DEF more
<1>4. 1 \in 1 .. Len(box) /\ box[1].type = "write"
  BY <1>1
<1>5. box[1].id <= n /\ box[1].id # 0
  BY <1>1, <1>4, EventKinds DEF Mail
<1>6. \A i \in 1 .. Len(Tail(box)) : Tail(box)[i].type = "write" => box[1].id < Tail(box)[i].id
  <2> SUFFICES ASSUME NEW i \in 1 .. Len(Tail(box)), Tail(box)[i].type = "write"
               PROVE  box[1].id < Tail(box)[i].id
    OBVIOUS
  <2>1. 1 < i + 1 /\ i + 1 \in 1 .. Len(box) /\ Tail(box)[i] = box[i + 1]
    BY <1>1
  <2> QED
    BY <1>4, <2>1 DEF Mail
<1>7. ASSUME manual, NEW p \in 1 .. Len(more)
      PROVE  /\ more[p].seqNo # 0 /\ more[p].seqNo <= n
             /\ \A i \in 1 .. Len(Tail(box)) :
                  Tail(box)[i].type = "write" => more[p].seqNo < Tail(box)[i].id
  <2>1. CASE p = l + 1
    BY <1>1, <1>3, <1>5, <1>6, <1>7, <2>1
  <2>2. CASE p \in 1 .. l
    BY <1>2, <1>3, <1>7, <2>2 DEF Mail
  <2> QED
    BY <1>3, <2>1, <2>2
<1> QED
  BY <1>2, <1>7 DEF Mail, more

\* Nothing to handle and nothing in the window.
LEMMA MailEmpty ==
  ASSUME NEW manual, NEW n PROVE Mail(manual, << >>, EmptyWindow.messages, n)
<1>1. << >> \in Seq(MailEvent) /\ Len(<< >>) = 0
  OBVIOUS
<1>2. Len(EmptyWindow.messages) = 0
  BY DEF EmptyWindow
<1> QED
  BY <1>1, <1>2 DEF Mail

-----------------------------------------------------------------------------
(* Steps *)

\* A step that leaves the window and the queues alone.
LEMMA QuietKeeps ==
  ASSUME WriterInv,
         UNCHANGED <<hasEverConnected, up, down, serverLast, written, window, lastSeqNo,
                     mailbox, numbering>>,
         state' = state \/ state' # "ready"
  PROVE  WriterInv'
<1>1. Types' /\ Sound(window, lastSeqNo)'
  BY DEF WriterInv, Types
<1>2. Mail(Manual, mailbox, window.messages, written)'
  BY DEF WriterInv, Manual
<1>3. PumpInv'
  BY DEF WriterInv, PumpInv
<1> QED
  BY <1>1, <1>2, <1>3 DEF WriterInv

\* The end of the machine, whichever event brings it.
LEMMA TerminateKeeps ==
  ASSUME WriterInv, NEW terminal \in Terminal, NEW emitted, Terminate(terminal, emitted),
         UNCHANGED <<serverLast, written, numbering>>,
         hasEverConnected' \in BOOLEAN, lastSeqNo' \in Nat
  PROVE  WriterInv'
<1>1. << >> \in Seq(Request) /\ << >> \in Seq(Response)
  OBVIOUS
<1>2. Types'
  BY <1>1 DEF WriterInv, Types, Terminate
<1>3. Sound(window, lastSeqNo)'
  BY EmptySound DEF Terminate
<1>4. Mail(Manual, mailbox, window.messages, written)'
  BY MailEmpty DEF Terminate
<1>5. PumpInv'
  BY DEF PumpInv, Terminate, Terminal
<1> QED
  BY <1>2, <1>3, <1>4, <1>5 DEF WriterInv

\* The event is taken, the window and its numbers stay.
LEMMA TakenKeeps ==
  ASSUME WriterInv, mailbox # << >>,
         UNCHANGED <<hasEverConnected, up, down, serverLast, written, window, lastSeqNo, numbering>>,
         \/ mailbox' = Tail(mailbox) \o << >>
         \/ mailbox' = Tail(mailbox) \o <<PumpEvent>>,
         \/ state' # "ready"
         \/ mailbox' = Tail(mailbox) \o <<PumpEvent>>
         \/ state' = state /\ Head(mailbox).type # "pump"
         \/ ~CanSend(window)
  PROVE  WriterInv'
<1>1. Types' /\ Sound(window, lastSeqNo)'
  BY DEF WriterInv, Types
<1>2. /\ Mail(Manual, Tail(mailbox), window.messages, written)
      /\ Pumped(mailbox) /\ Head(mailbox).type # "pump" => Pumped(Tail(mailbox))
  BY MailTail DEF WriterInv
<1>3. /\ Mail(Manual, Tail(mailbox) \o << >>, window.messages, written)
      /\ Mail(Manual, Tail(mailbox) \o <<PumpEvent>>, window.messages, written)
      /\ Tail(mailbox) \o << >> = Tail(mailbox)
      /\ Pumped(Tail(mailbox) \o <<PumpEvent>>)
  BY <1>2, MailPump
<1>4. Mail(Manual, mailbox, window.messages, written)'
  BY <1>3 DEF Manual
<1>5. PumpInv'
  BY <1>2, <1>3 DEF PumpInv, WriterInv
<1> QED
  BY <1>1, <1>4, <1>5 DEF WriterInv

\* The window changes, its messages keep their numbers, and a pump is posted.
LEMMA PumpedKeeps ==
  ASSUME WriterInv, mailbox # << >>, Types',
         UNCHANGED <<written, numbering>>,
         Sound(window', lastSeqNo'),
         \A p \in 1 .. Len(window'.messages) : \E q \in 1 .. Len(window.messages) :
           window.messages[q].seqNo # 0 => window'.messages[p] = window.messages[q],
         mailbox' = Tail(mailbox) \o <<PumpEvent>>
  PROVE  WriterInv'
<1>1. Mail(Manual, Tail(mailbox), window.messages, written)
  BY MailTail DEF WriterInv
<1>2. Mail(Manual, Tail(mailbox), window'.messages, written)
  BY <1>1, MailFewer
<1>3. /\ Mail(Manual, Tail(mailbox) \o <<PumpEvent>>, window'.messages, written)
      /\ Pumped(Tail(mailbox) \o <<PumpEvent>>)
  BY <1>2, MailPump
<1>4. Mail(Manual, mailbox, window.messages, written)'
  BY <1>3 DEF Manual
<1>5. PumpInv'
  BY <1>3 DEF PumpInv
<1> QED
  BY <1>4, <1>5 DEF WriterInv

\* A write is handled: its number, when the caller gave one, is above all in the window.
LEMMA HandleWriteKeeps == WriterInv /\ HandleWrite => WriterInv'
<1> SUFFICES ASSUME WriterInv, HandleWrite PROVE WriterInv'
  OBVIOUS
<1> DEFINE message == [id |-> Event.id, seqNo |-> IF numbering = "manual" THEN Event.id ELSE 0]
           posted == IF state = "ready" THEN <<PumpEvent>> ELSE << >>
<1>1. /\ mailbox # << >> /\ Head(mailbox).type = "write"
      /\ window' = Enqueued(window, message)
      /\ lastSeqNo' = IF numbering = "manual" /\ Event.id > lastSeqNo THEN Event.id ELSE lastSeqNo
      /\ mailbox' = Tail(mailbox) \o posted
      /\ UNCHANGED <<state, hasEverConnected, up, down, serverLast, written, numbering>>
  BY DEF HandleWrite, Handles, Event, Then, streamVars, serverVars, userVars
<1>2. /\ Sound(window, lastSeqNo) /\ lastSeqNo \in Nat
      /\ window.messages \in Seq(Message) /\ written \in Nat
      /\ mailbox \in Seq(MailEvent)
      /\ Mail(Manual, mailbox, window.messages, written)
  BY WindowFields DEF WriterInv, Sound, Types, Mail
<1>3. /\ Event \in MailEvent /\ Event = mailbox[1] /\ 1 \in 1 .. Len(mailbox)
      /\ Event.type = "write" /\ Event.id \in Nat \ {0}
  <2>1. Event \in MailEvent /\ Event = mailbox[1] /\ 1 \in 1 .. Len(mailbox)
    BY <1>1, <1>2, Taken DEF Event
  <2> QED
    BY <1>1, <2>1, EventKinds DEF Event
<1>4. /\ message \in Message
      /\ message.seqNo = IF numbering = "manual" THEN Event.id ELSE 0
      /\ Manual => message.seqNo = Head(mailbox).id
  BY <1>3 DEF Message, Manual, Event
<1>5. lastSeqNo' \in Nat /\ lastSeqNo' >= lastSeqNo /\ message.seqNo <= lastSeqNo'
  BY <1>1, <1>2, <1>3, <1>4
<1>6. ASSUME message.seqNo # 0, NEW p \in 1 .. Len(window.messages)
      PROVE  window.messages[p].seqNo # 0 /\ window.messages[p].seqNo < message.seqNo
  <2>1. Manual /\ message.seqNo = mailbox[1].id /\ mailbox[1].type = "write"
    BY <1>3, <1>4, <1>6 DEF Manual
  <2> QED
    BY <1>2, <1>3, <2>1 DEF Mail
<1> HIDE DEF message
<1>7. /\ Sound(window', lastSeqNo')
      /\ window'.messages = Append(window.messages, message)
  BY <1>1, <1>2, <1>4, <1>5, <1>6, EnqueuedSound
<1>8. Mail(Manual, Tail(mailbox), window'.messages, written)
  BY <1>1, <1>2, <1>4, <1>7, MailHandled
<1>9. /\ Mail(Manual, mailbox', window'.messages, written)
      /\ state = "ready" => Pumped(mailbox')
  BY <1>1, <1>8, MailPump
<1>10. Mail(Manual, mailbox, window.messages, written)'
  BY <1>1, <1>9 DEF Manual
<1>11. PumpInv'
  BY <1>1, <1>9 DEF PumpInv
<1>12. Types'
  BY <1>1 DEF WriterInv, Types
<1> QED
  BY <1>7, <1>10, <1>11, <1>12 DEF WriterInv

\* A batch is sent, from the mailbox or from the interval: unless nothing more may be
\* sent another pump is posted.
LEMMA PumpKeeps ==
  ASSUME WriterInv, NEW rest, Pump(rest), Mail(Manual, rest, window.messages, written),
         UNCHANGED <<state, hasEverConnected, down, serverLast, written, numbering>>
  PROVE  WriterInv'
<1>1. /\ CanSend(window)
      /\ window' = Sent(window, lastSeqNo)
      /\ lastSeqNo' = HighWater(window, lastSeqNo)
      /\ up' = IF stream
               THEN Append(up, [type |-> "write", batch |-> Batch(window, lastSeqNo)])
               ELSE up
      /\ mailbox' = rest \o (IF CanSend(window') THEN <<PumpEvent>> ELSE << >>)
  BY DEF Pump
<1>2. /\ Sound(window', lastSeqNo')
      /\ Len(window'.messages) = Len(window.messages)
      /\ \A p \in 1 .. Len(window.messages) :
           window.messages[p].seqNo # 0 => window'.messages[p] = window.messages[p]
  BY <1>1, SentSound DEF WriterInv
<1>3. Batch(window, lastSeqNo) \in Seq(Message) \ {<< >>}
  BY <1>1, BatchNotEmpty DEF WriterInv
<1>4. up' \in Seq(Request)
  BY <1>1, <1>3, RequestKinds, Added DEF WriterInv, Types
<1>6. Mail(Manual, rest, window'.messages, written)
  BY <1>2, MailFewer
<1>7. /\ Mail(Manual, mailbox', window'.messages, written)
      /\ CanSend(window') => Pumped(mailbox')
  BY <1>1, <1>6, MailPump
<1>8. Mail(Manual, mailbox, window.messages, written)'
  BY <1>7 DEF Manual
<1>9. PumpInv'
  BY <1>7 DEF PumpInv
<1>10. Types'
  BY <1>4 DEF WriterInv, Types
<1> QED
  BY <1>2, <1>8, <1>9, <1>10 DEF WriterInv

\* The head of the mailbox is an event.
LEMMA HeadIsEvent ==
  ASSUME WriterInv, mailbox # << >>
  PROVE  /\ Event = Head(mailbox) /\ Event \in MailEvent
         /\ Event.type = "init" => Event.lastSeqNo \in Nat
BY Taken, EventKinds DEF WriterInv, Mail, Event

\* An init applies: the mark stays a number, what is persisted goes out of flight and the
\* rest back to the buffer.
LEMMA InitApplies ==
  ASSUME WriterInv, NEW last \in Nat, ApplyInit(last)
  PROVE  /\ hasEverConnected' \in BOOLEAN
         /\ lastSeqNo' \in Nat
         /\ Sound(Rewound(window, Persisted(last)), lastSeqNo')
         /\ Rewound(window, Persisted(last)).messages = window.messages
<1> DEFINE w == Rewound(window, Persisted(last))
<1>1. Sound(window, lastSeqNo) /\ window \in Window /\ WindowShape(window) /\ lastSeqNo \in Nat
  BY DEF WriterInv, Sound
<1>2. Persisted(last) \in 0 .. window.inflightLength
  BY <1>1, LeadingWithin DEF Persisted
<1>3. Sound(w, lastSeqNo) /\ w.messages = window.messages
  BY <1>1, <1>2, RewoundSound
<1>4. lastSeqNo' \in Nat /\ lastSeqNo' >= lastSeqNo
  BY <1>1 DEF ApplyInit, RecoveredMark
<1>5. w \in Window /\ WindowShape(w)
  BY <1>3 DEF Sound
<1> HIDE DEF w
<1>6. \A p \in 1 .. Len(w.messages) : w.messages[p].seqNo <= lastSeqNo'
  <2> SUFFICES ASSUME NEW p \in 1 .. Len(w.messages) PROVE w.messages[p].seqNo <= lastSeqNo'
    OBVIOUS
  <2>1. w.messages[p].seqNo \in Nat /\ w.messages[p].seqNo <= lastSeqNo
    BY <1>3, <1>5, WindowFields DEF Sound
  <2> QED
    BY <1>1, <1>4, <2>1
<1>7. Sound(w, lastSeqNo')
  BY <1>3, <1>4, <1>5, <1>6 DEF Sound
<1>8. hasEverConnected' \in BOOLEAN
  BY DEF ApplyInit
<1> QED
  BY <1>3, <1>4, <1>7, <1>8 DEF w

\* Acknowledgments take what they cover out of the window.
LEMMA AcksApply ==
  ASSUME WriterInv
  PROVE  /\ Sound(AckedWindow, lastSeqNo)
         /\ \A p \in 1 .. Len(AckedWindow.messages) : \E q \in 1 .. Len(window.messages) :
              AckedWindow.messages[p] = window.messages[q]
<1>1. Sound(window, lastSeqNo) /\ window \in Window /\ WindowShape(window)
  BY DEF WriterInv, Sound
<1>2. AckedCount \in 0 .. window.inflightLength
  BY <1>1, LeadingWithin DEF AckedCount
<1> QED
  BY <1>1, <1>2, AcknowledgedSound DEF AckedWindow

\* Events of the public object.
LEMMA UserEventsKeep ==
  WriterInv /\ (HandleFlush \/ HandleClose \/ HandleDestroy \/ HandlePump) => WriterInv'
<1> SUFFICES ASSUME WriterInv, HandleFlush \/ HandleClose \/ HandleDestroy \/ HandlePump
             PROVE  WriterInv'
  OBVIOUS
<1> USE DEF streamVars, serverVars, userVars
<1>1. CASE HandleFlush
  BY <1>1, TakenKeeps DEF HandleFlush, Handles, Event, Then
<1>2. CASE HandleClose
  <2>1. /\ mailbox # << >> /\ UNCHANGED <<hasEverConnected, lastSeqNo, serverLast, written, numbering>>
        /\ \/ Terminate("closed", << >>)
           \/ /\ state' = "closing" /\ mailbox' = Tail(mailbox) \o <<PumpEvent>>
              /\ UNCHANGED <<window, up, down>>
    BY <1>2 DEF HandleClose, Handles, DrainedClose, Then
  <2>2. hasEverConnected' \in BOOLEAN /\ lastSeqNo' \in Nat
    BY <2>1 DEF WriterInv, Types, Sound
  <2>3. CASE Terminate("closed", << >>)
    BY <2>1, <2>2, <2>3, TerminateKeeps DEF Terminal
  <2>4. CASE /\ state' = "closing" /\ mailbox' = Tail(mailbox) \o <<PumpEvent>>
             /\ UNCHANGED <<window, up, down>>
    BY <2>1, <2>4, TakenKeeps
  <2> QED
    BY <2>1, <2>3, <2>4
<1>3. CASE HandleDestroy
  <2>1. hasEverConnected' \in BOOLEAN /\ lastSeqNo' \in Nat
    BY <1>3 DEF HandleDestroy, WriterInv, Types, Sound
  <2> QED
    BY <1>3, <2>1, TerminateKeeps DEF HandleDestroy, Terminal
<1>4. CASE HandlePump
  <2>1. mailbox # << >> /\ Pump(Tail(mailbox))
        /\ UNCHANGED <<state, hasEverConnected, down, serverLast, written, numbering>>
    BY <1>4 DEF HandlePump, Handles
  <2>2. Mail(Manual, Tail(mailbox), window.messages, written)
    BY <2>1, MailTail DEF WriterInv
  <2> QED
    BY <2>1, <2>2, PumpKeeps
<1> QED
  BY <1>1, <1>2, <1>3, <1>4

\* Events of the stream.
LEMMA StreamEventsKeep ==
  WriterInv /\ (ToReady \/ InitWhileClosing \/ HandleAcks) => WriterInv'
<1> SUFFICES ASSUME WriterInv, ToReady \/ InitWhileClosing \/ HandleAcks PROVE WriterInv'
  OBVIOUS
<1> USE DEF streamVars, serverVars, userVars
<1>1. CASE ToReady
  <2>1. /\ mailbox # << >> /\ Event.type = "init"
        /\ ApplyInit(Event.lastSeqNo)
        /\ window' = Rewound(window, Persisted(Event.lastSeqNo))
        /\ mailbox' = Tail(mailbox) \o <<PumpEvent>>
        /\ UNCHANGED <<up, down, serverLast, written, numbering>>
    BY <1>1 DEF ToReady, Handles, Then
  <2>2. Event.lastSeqNo \in Nat
    BY <2>1, HeadIsEvent
  <2>3. /\ hasEverConnected' \in BOOLEAN
        /\ Sound(window', lastSeqNo')
        /\ window'.messages = window.messages
    BY <2>1, <2>2, InitApplies
  <2>4. Types'
    BY <2>1, <2>3 DEF WriterInv, Types
  <2> QED
    BY <2>1, <2>3, <2>4, PumpedKeeps
<1>2. CASE InitWhileClosing
  <2> DEFINE w == Rewound(window, Persisted(Event.lastSeqNo))
             outs == InitOutputs(Event.lastSeqNo)
  <2>1. /\ mailbox # << >> /\ Event.type = "init"
        /\ ApplyInit(Event.lastSeqNo)
        /\ \/ Terminate("closed", outs)
           \/ /\ window' = w
              /\ mailbox' = Tail(mailbox) \o <<PumpEvent>>
              /\ UNCHANGED <<up, down>>
        /\ UNCHANGED <<serverLast, written, numbering>>
    BY <1>2 DEF InitWhileClosing, Handles, Then, DrainedClose
  <2>2. Event.lastSeqNo \in Nat
    BY <2>1, HeadIsEvent
  <2>3. /\ hasEverConnected' \in BOOLEAN /\ lastSeqNo' \in Nat
        /\ Sound(w, lastSeqNo')
        /\ w.messages = window.messages
    BY <2>1, <2>2, InitApplies
  <2> HIDE DEF w, outs
  <2>4. CASE Terminate("closed", outs)
    BY <2>1, <2>3, <2>4, TerminateKeeps DEF Terminal
  <2>5. CASE /\ window' = w
             /\ mailbox' = Tail(mailbox) \o <<PumpEvent>>
             /\ UNCHANGED <<up, down>>
    <3>1. Types'
      BY <2>1, <2>3, <2>5 DEF WriterInv, Types
    <3> QED
      BY <2>1, <2>3, <2>5, <3>1, PumpedKeeps
  <2> QED
    BY <2>1, <2>4, <2>5
<1>3. CASE HandleAcks
  <2>1. /\ mailbox # << >>
        /\ \/ Terminate("closed", AckedOutputs)
           \/ /\ window' = AckedWindow
              /\ mailbox' = Tail(mailbox) \o <<PumpEvent>>
              /\ UNCHANGED <<up, down>>
        /\ UNCHANGED <<hasEverConnected, lastSeqNo, serverLast, written, numbering>>
    BY <1>3 DEF HandleAcks, Handles, Then, DrainedClose
  <2>2. hasEverConnected' \in BOOLEAN /\ lastSeqNo' \in Nat
    BY <2>1 DEF WriterInv, Types, Sound
  <2>3. CASE Terminate("closed", AckedOutputs)
    BY <2>1, <2>2, <2>3, TerminateKeeps DEF Terminal
  <2>4. CASE /\ window' = AckedWindow
             /\ mailbox' = Tail(mailbox) \o <<PumpEvent>>
             /\ UNCHANGED <<up, down>>
    <3>1. Types'
      BY <2>1, <2>4 DEF WriterInv, Types
    <3>2. /\ Sound(window', lastSeqNo')
          /\ \A p \in 1 .. Len(window'.messages) : \E q \in 1 .. Len(window.messages) :
               window'.messages[p] = window.messages[q]
      BY <2>1, <2>4, AcksApply
    <3> QED
      BY <2>1, <2>4, <3>1, <3>2, PumpedKeeps
  <2> QED
    BY <2>1, <2>3, <2>4
<1> QED
  BY <1>1, <1>2, <1>3

\* The end of a stream, and what the transition ignores.
LEMMA OtherEventsKeep ==
  WriterInv /\ (Disconnected \/ DisconnectedFatal \/ Ignore) => WriterInv'
<1> SUFFICES ASSUME WriterInv, Disconnected \/ DisconnectedFatal \/ Ignore PROVE WriterInv'
  OBVIOUS
<1> USE DEF ctxVars, streamVars, serverVars, userVars
<1>1. CASE Disconnected
  <2>1. /\ mailbox # << >> /\ Head(mailbox).type = "disconnected"
        /\ state' # "ready"
        /\ mailbox' = Tail(mailbox) \o << >>
        /\ UNCHANGED <<hasEverConnected, up, down, serverLast, written, window, lastSeqNo, numbering>>
    BY <1>1 DEF Disconnected, Handles, Event, Then, ToReconnecting
  <2> QED
    BY <2>1, TakenKeeps
<1>2. CASE DisconnectedFatal
  <2>1. hasEverConnected' \in BOOLEAN /\ lastSeqNo' \in Nat
    BY <1>2 DEF DisconnectedFatal, WriterInv, Types, Sound
  <2> QED
    BY <1>2, <2>1, TerminateKeeps DEF DisconnectedFatal, Terminal
<1>3. CASE Ignore
  <2>1. /\ mailbox # << >>
        /\ mailbox' = Tail(mailbox) \o << >>
        /\ UNCHANGED <<state, hasEverConnected, up, down, serverLast, written, window, lastSeqNo,
                       numbering>>
    BY <1>3 DEF Ignore, Ignores, Handles, Then
  <2>2. state # "ready" \/ Head(mailbox).type # "pump" \/ ~CanSend(window)
    BY <1>3 DEF Ignore, Ignores, Handles, Event, MayPump
  <2> QED
    BY <2>1, <2>2, TakenKeeps
<1> QED
  BY <1>1, <1>2, <1>3

\* Timers.  The interval never finds anything to send; if it did it would send it.
LEMMA TimersKeep == WriterInv /\ TimerFires => WriterInv'
<1> SUFFICES ASSUME WriterInv, TimerFires PROVE WriterInv'
  OBVIOUS
<1> USE DEF ctxVars, streamVars, serverVars, userVars
<1>1. CASE StartTimeout
  BY <1>1, QuietKeeps DEF StartTimeout, ToReconnecting
<1>2. CASE RetryBackoff
  <2>1. /\ up' = <<[type |-> "init", getLastSeqNo |-> ~hasEverConnected]>>
        /\ down' = << >>
        /\ state' # "ready"
        /\ UNCHANGED <<hasEverConnected, serverLast, written, window, lastSeqNo, mailbox, numbering>>
    BY <1>2 DEF RetryBackoff, Due, Connect
  <2>2. [type |-> "init", getLastSeqNo |-> ~hasEverConnected] \in Request
    BY RequestKinds
  <2>3. up' \in Seq(Request) /\ down' \in Seq(Response)
    BY <2>1, <2>2
  <2>4. Types'
    BY <2>1, <2>3 DEF WriterInv, Types
  <2>5. Sound(window, lastSeqNo)' /\ Mail(Manual, mailbox, window.messages, written)'
    BY <2>1 DEF WriterInv, Manual
  <2>6. PumpInv'
    BY <2>1 DEF PumpInv
  <2> QED
    BY <2>4, <2>5, <2>6 DEF WriterInv
<1>3. CASE RecoveryWindow \/ GracefulTimeout
  <2>1. /\ \E terminal \in Terminal : Terminate(terminal, << >>)
        /\ UNCHANGED <<hasEverConnected, lastSeqNo, serverLast, written, numbering>>
    BY <1>3 DEF RecoveryWindow, GracefulTimeout, Terminal
  <2>2. hasEverConnected' \in BOOLEAN /\ lastSeqNo' \in Nat
    BY <2>1 DEF WriterInv, Types, Sound
  <2>3. PICK terminal \in Terminal : Terminate(terminal, << >>)
    BY <2>1
  <2> QED
    BY <2>1, <2>2, <2>3, TerminateKeeps
<1>4. CASE FlushTick
  <2>1. \/ Pump(mailbox)
        \/ UNCHANGED <<window, lastSeqNo, up, mailbox>>
    BY <1>4 DEF FlushTick
  <2>2. UNCHANGED <<state, hasEverConnected, down, serverLast, written, numbering>>
    BY <1>4 DEF FlushTick
  <2>3. CASE Pump(mailbox)
    <3>1. Mail(Manual, mailbox, window.messages, written)
      BY DEF WriterInv
    <3> QED
      BY <2>2, <2>3, <3>1, PumpKeeps
  <2>4. CASE UNCHANGED <<window, lastSeqNo, up, mailbox>>
    BY <2>2, <2>4, QuietKeeps
  <2> QED
    BY <2>1, <2>3, <2>4
<1> QED
  BY <1>1, <1>2, <1>3, <1>4 DEF TimerFires

\* The public object takes an output.
LEMMA ConsumeKeeps == WriterInv /\ ConsumeOutput => WriterInv'
<1> SUFFICES ASSUME WriterInv, ConsumeOutput PROVE WriterInv'
  OBVIOUS
<1>1. UNCHANGED consumeUnchanged
  BY DEF ConsumeOutput, ConsumeAcks, ConsumeFlushed, ConsumeError, ConsumeClosed, consumeUnchanged
<1>2. UNCHANGED <<state, hasEverConnected, up, down, serverLast, written, window, lastSeqNo,
                  mailbox, numbering>>
  BY <1>1 DEF consumeUnchanged, ctxVars, streamVars, serverVars
<1> QED
  BY <1>2, QuietKeeps

\* The server answers a request.
LEMMA ServeKeeps == WriterInv /\ Serve => WriterInv'
<1> SUFFICES ASSUME WriterInv, Serve PROVE WriterInv'
  OBVIOUS
<1> USE DEF ctxVars, streamVars, userVars
<1>1. /\ up # << >> /\ up' = Tail(up)
      /\ UNCHANGED <<state, hasEverConnected, written, window, lastSeqNo, mailbox, numbering>>
  BY DEF Serve, ServeInit, ServeWrite
<1>2. /\ up \in Seq(Request) /\ down \in Seq(Response) /\ serverLast \in Nat
      /\ hasEverConnected \in BOOLEAN /\ written \in Nat
  BY DEF WriterInv, Types
<1>3. up' \in Seq(Request) /\ Head(up) \in Request
  BY <1>1, <1>2, Taken
<1>4. serverLast' \in Nat /\ down' \in Seq(Response)
  <2>1. CASE ServeInit
    <3>1. serverLast' = serverLast
      BY <2>1 DEF ServeInit, serverVars
    <3>2. PICK last \in {serverLast} \cup (IF Head(up).getLastSeqNo THEN {} ELSE {0}) :
            down' = Append(down, [type |-> "init", lastSeqNo |-> last])
      BY <2>1 DEF ServeInit
    <3>3. last \in Nat
      BY <1>2, <3>2
    <3>4. [type |-> "init", lastSeqNo |-> last] \in Response
      BY <3>3 DEF Response
    <3> QED
      BY <1>2, <3>1, <3>2, <3>4, Added
  <2>2. CASE ServeWrite
    <3> DEFINE batch == Head(up).batch
               last == batch[Len(batch)].seqNo
               acks == {batch[i].seqNo : i \in 1 .. Len(batch)}
    <3>1. batch \in Seq(Message) /\ batch # << >>
      BY <1>3, <2>2, RequestKinds DEF ServeWrite
    <3>2. /\ serverLast' = IF last > serverLast THEN last ELSE serverLast
          /\ down' = Append(down, [type |-> "acks", seqNos |-> acks])
      BY <2>2 DEF ServeWrite
    <3> HIDE DEF batch
    <3>3. Len(batch) \in 1 .. Len(batch) /\ \A i \in 1 .. Len(batch) : batch[i] \in Message
      BY <3>1
    <3>4. \A m \in Message : m.seqNo \in Nat
      BY DEF Message
    <3>5. last \in Nat /\ acks \in SUBSET Nat
      BY <3>3, <3>4
    <3> HIDE DEF last, acks
    <3>6. [type |-> "acks", seqNos |-> acks] \in Response
      BY <3>5 DEF Response
    <3>7. down' \in Seq(Response)
      BY <1>2, <3>2, <3>6, Added
    <3> QED
      BY <1>2, <3>2, <3>5, <3>7
  <2> QED
    BY <2>1, <2>2 DEF Serve
<1>5. Types'
  BY <1>1, <1>2, <1>3, <1>4 DEF Types
<1>6. Sound(window, lastSeqNo)' /\ Mail(Manual, mailbox, window.messages, written)' /\ PumpInv'
  BY <1>1 DEF WriterInv, Manual, PumpInv
<1> QED
  BY <1>5, <1>6 DEF WriterInv

\* An event that is not a write comes to the mailbox.
LEMMA PostedKeeps ==
  ASSUME WriterInv, Types', NEW e \in MailEvent, e.type # "write",
         mailbox' = Append(mailbox, e),
         UNCHANGED <<state, written, window, lastSeqNo, numbering>>
  PROVE  WriterInv'
<1>1. /\ Mail(Manual, Append(mailbox, e), window.messages, written)
      /\ Pumped(mailbox) => Pumped(Append(mailbox, e))
  BY MailPosted DEF WriterInv
<1>2. Sound(window, lastSeqNo)' /\ Mail(Manual, mailbox, window.messages, written)'
  BY <1>1 DEF WriterInv, Manual
<1>3. PumpInv'
  BY <1>1 DEF WriterInv, PumpInv
<1> QED
  BY <1>2, <1>3 DEF WriterInv

\* What the stream brings: a response, or its end.
LEMMA StreamKeeps == WriterInv /\ (Deliver \/ Break) => WriterInv'
<1> SUFFICES ASSUME WriterInv, Deliver \/ Break PROVE WriterInv'
  OBVIOUS
<1> USE DEF ctxVars, serverVars, userVars
<1>1. CASE Deliver
  <2>1. /\ down # << >> /\ down' = Tail(down) /\ mailbox' = Append(mailbox, Head(down))
        /\ UNCHANGED <<state, hasEverConnected, up, serverLast, written, window, lastSeqNo, numbering>>
    BY <1>1 DEF Deliver
  <2>2. Head(down) \in Response /\ down' \in Seq(Response)
    BY <2>1, Taken DEF WriterInv, Types
  <2>3. Head(down) \in MailEvent /\ Head(down).type # "write"
    BY <2>2, EventKinds
  <2>4. Types'
    BY <2>1, <2>2 DEF WriterInv, Types
  <2> QED
    BY <2>1, <2>3, <2>4, PostedKeeps
<1>2. CASE Break
  <2>1. /\ up' = << >> /\ down' = << >>
        /\ \E fatal \in BOOLEAN :
             mailbox' = Append(mailbox, [type |-> "disconnected", fatal |-> fatal])
        /\ UNCHANGED <<state, hasEverConnected, serverLast, written, window, lastSeqNo, numbering>>
    BY <1>2 DEF Break
  <2>2. PICK fatal \in BOOLEAN :
          mailbox' = Append(mailbox, [type |-> "disconnected", fatal |-> fatal])
    BY <2>1
  <2>3. [type |-> "disconnected", fatal |-> fatal] \in MailEvent
    BY EventKinds
  <2>4. up' \in Seq(Request) /\ down' \in Seq(Response)
    BY <2>1
  <2>5. Types'
    BY <2>1, <2>4 DEF WriterInv, Types
  <2> QED
    BY <2>1, <2>2, <2>3, <2>5, PostedKeeps
<1> QED
  BY <1>1, <1>2

\* The user: a write comes to the mailbox above all that was accepted, other calls change
\* nothing here, and a stopped machine takes no event.
LEMMA UserKeeps == WriterInv /\ User => WriterInv'
<1> SUFFICES ASSUME WriterInv, User PROVE WriterInv'
  OBVIOUS
<1> USE DEF machineOnly, ctxVars, streamVars, serverVars
<1>1. CASE Write
  <2>1. /\ written' = written + 1
        /\ UNCHANGED <<state, hasEverConnected, up, down, serverLast, window, lastSeqNo, numbering>>
        /\ mailbox' = IF state \in Terminal THEN mailbox
                      ELSE Append(mailbox, [type |-> "write", id |-> written + 1])
    BY <1>1 DEF Write, Dispatch
  <2>2. Types' /\ Sound(window, lastSeqNo)' /\ written \in Nat
    BY <2>1 DEF WriterInv, Types
  <2>3. \A p \in 1 .. Len(window.messages) : window.messages[p].seqNo \in Nat
    BY WindowFields DEF WriterInv, Sound
  <2>4. Mail(Manual, mailbox, window.messages, written)
    BY DEF WriterInv
  <2>5. CASE state \in Terminal
    <3>1. \A i \in 1 .. Len(mailbox) :
            mailbox[i].type = "write" => mailbox[i].id \in Nat /\ mailbox[i].id <= written
      BY <2>4, EventKinds DEF Mail
    <3>2. \A i \in 1 .. Len(mailbox) :
            mailbox[i].type = "write" => mailbox[i].id <= written + 1
      BY <2>2, <3>1
    <3>3. Manual => \A p \in 1 .. Len(window.messages) : window.messages[p].seqNo <= written
      BY <2>4 DEF Mail
    <3>4. Manual => \A p \in 1 .. Len(window.messages) : window.messages[p].seqNo <= written + 1
      BY <2>2, <2>3, <3>3
    <3>5. Mail(Manual, mailbox, window.messages, written + 1)
      BY <2>4, <3>2, <3>4 DEF Mail
    <3>6. Mail(Manual, mailbox, window.messages, written)'
      BY <2>1, <2>5, <3>5 DEF Manual
    <3>7. PumpInv'
      BY <2>1, <2>5 DEF PumpInv, Terminal
    <3> QED
      BY <2>2, <3>6, <3>7 DEF WriterInv
  <2>6. CASE state \notin Terminal
    <3>1. /\ Mail(Manual, mailbox', window.messages, written + 1)
          /\ Pumped(mailbox) => Pumped(mailbox')
      BY <2>1, <2>2, <2>3, <2>4, <2>6, MailWritten
    <3>2. Mail(Manual, mailbox, window.messages, written)'
      BY <2>1, <3>1 DEF Manual
    <3>3. PumpInv'
      BY <2>1, <3>1 DEF WriterInv, PumpInv
    <3> QED
      BY <2>2, <3>2, <3>3 DEF WriterInv
  <2> QED
    BY <2>5, <2>6
<1>2. ASSUME NEW type \in {"flush", "close", "destroy"}, Dispatch([type |-> type]),
             UNCHANGED machineOnly, UNCHANGED written
      PROVE  WriterInv'
  <2>1. UNCHANGED <<state, hasEverConnected, up, down, serverLast, written, window, lastSeqNo,
                    numbering>>
    BY <1>2
  <2>2. Types'
    BY <2>1 DEF WriterInv, Types
  <2>3. [type |-> type] \in MailEvent /\ [type |-> type].type # "write"
    BY EventKinds
  <2> QED
    BY <1>2, <2>1, <2>2, <2>3, PostedKeeps, QuietKeeps DEF Dispatch
<1>3. CASE Close \/ Destroy
  BY <1>2, <1>3 DEF Close, Destroy
<1>4. ASSUME NEW f \in Flusher, Flush(f) PROVE WriterInv'
  BY <1>2, <1>4 DEF Flush
<1>5. ASSUME NEW f \in Flusher, FlushAborts(f) PROVE WriterInv'
  BY <1>5, QuietKeeps DEF FlushAborts
<1> QED
  BY <1>1, <1>3, <1>4, <1>5 DEF User

-----------------------------------------------------------------------------
(* Theorems *)

\* The writer starts with an empty window.
LEMMA InvInit == Init => WriterInv
<1> SUFFICES ASSUME Init PROVE WriterInv
  OBVIOUS
<1>1. [type |-> "init", getLastSeqNo |-> TRUE] \in Request
  BY RequestKinds
<1>2. up \in Seq(Request) /\ down \in Seq(Response)
  BY <1>1 DEF Init
<1>3. Types
  BY <1>2, WriterAssumption DEF Init, Types
<1>4. Sound(window, lastSeqNo)
  BY EmptySound DEF Init
<1>5. Mail(Manual, mailbox, window.messages, written)
  BY MailEmpty DEF Init
<1>6. PumpInv
  BY DEF Init, PumpInv
<1> QED
  BY <1>3, <1>4, <1>5, <1>6 DEF WriterInv

\* Every step keeps the invariant.
LEMMA InvStep == WriterInv /\ [Next]_vars => WriterInv'
<1> SUFFICES ASSUME WriterInv, [Next]_vars PROVE WriterInv'
  OBVIOUS
<1>1. CASE HandleEvent
  BY <1>1, HandleWriteKeeps, UserEventsKeep, StreamEventsKeep, OtherEventsKeep DEF HandleEvent
<1>2. CASE UNCHANGED vars
  <2>1. UNCHANGED <<state, hasEverConnected, up, down, serverLast, written, window, lastSeqNo,
                    mailbox, numbering>>
    BY <1>2 DEF vars, ctxVars, streamVars, serverVars, userVars
  <2> QED
    BY <2>1, QuietKeeps
<1> QED
  BY <1>1, <1>2, ConsumeKeeps, TimersKeep, ServeKeeps, StreamKeeps, UserKeeps DEF Next

\* The invariant holds always.
LEMMA InvAlways == Spec => []WriterInv
BY InvInit, InvStep, PTL DEF Spec

\* Whatever the sequence of writes, acknowledgments, rewinds and reconnects, the pointers
\* of the window agree with its lengths and numbers increase along it up to lastSeqNo: the
\* numbers that formBatch gives to the messages of a batch were never used in the window.
THEOREM WindowHolds == Spec => []WindowInv
<1>1. WriterInv => WindowInv
  <2> SUFFICES ASSUME WriterInv PROVE WindowInv
    OBVIOUS
  <2> QED
    BY DEF WriterInv, Sound, WindowInv
<1> QED
  BY <1>1, InvAlways, PTL

\* The send loop never stops with work to do: whenever a ready machine may send, a pump
\* event is in its mailbox, so no message waits for the flush_tick interval.
THEOREM PumpKeepsUpHolds == Spec => []PumpKeepsUp
<1>1. WriterInv => PumpKeepsUp
  <2> SUFFICES ASSUME WriterInv, state = "ready", mailbox = << >>, CanSend(window) PROVE FALSE
    BY DEF PumpKeepsUp
  <2>1. Pumped(mailbox)
    BY DEF WriterInv, PumpInv
  <2> QED
    BY <2>1 DEF Pumped
<1> QED
  BY <1>1, InvAlways, PTL

=============================================================================
