---------------------------- MODULE WriterWindow ----------------------------
(***************************************************************************)
(* The topic writer's sliding window: packages/topic/src/writer/           *)
(* writer-state.ts, "Window & batch helpers".                              *)
(*                                                                         *)
(*   messages = [ garbage | inflight | buffer ]                            *)
(*                        ^inflightStart                                   *)
(*                                   ^bufferStart                          *)
(*                                                                         *)
(* The code keeps the two lengths beside the two pointers and updates the  *)
(* four separately; so does this module.  Positions are counted from 0, as *)
(* in the code: position p is messages[p + 1].                             *)
(***************************************************************************)
EXTENDS Naturals, Sequences, FiniteSets

CONSTANTS
  MaxInflight,  \* limits.maxInflightCount
  BatchLimit    \* how many messages of equal size fit into maxBatchBytes, at least one

ASSUME WindowAssumption ==
  /\ MaxInflight \in Nat \ {0}   \* the TopicWriter constructor rejects less
  /\ BatchLimit \in Nat \ {0}    \* the first message of a batch always fits

Least(a, b) == IF a <= b THEN a ELSE b

EmptyWindow ==
  [messages |-> << >>, inflightStart |-> 0, inflightLength |-> 0,
   bufferStart |-> 0, bufferLength |-> 0]

\* A message has its number in manual mode, 0 in auto mode until it is sent.
Enqueued(w, message) ==
  [w EXCEPT !.messages = Append(@, message), !.bufferLength = @ + 1]

\* (broken) what is in flight is forgotten
AllDrained_BufferOnly(w) == w.bufferLength = 0

AllDrained(w) == w.bufferLength = 0 /\ w.inflightLength = 0

CanSend(w) == w.bufferLength > 0 /\ w.inflightLength < MaxInflight

-----------------------------------------------------------------------------
(* formBatch: the next messages of the buffer go in flight                 *)

BatchSize(w) == Least(w.bufferLength, Least(MaxInflight - w.inflightLength, BatchLimit))

\* How many of the first k messages of the buffer have no number yet.
Unnumbered(w, k) ==
  Cardinality({p \in w.bufferStart + 1 .. w.bufferStart + k : w.messages[p].seqNo = 0})

\* An auto message is numbered when it is first sent and keeps its number.
Numbered(w, last) ==
  [p \in 1 .. Len(w.messages) |->
     IF /\ p \in w.bufferStart + 1 .. w.bufferStart + BatchSize(w)
        /\ w.messages[p].seqNo = 0
     THEN [w.messages[p] EXCEPT !.seqNo = last + Unnumbered(w, p - w.bufferStart)]
     ELSE w.messages[p]]

Batch(w, last) ==
  SubSeq(Numbered(w, last), w.bufferStart + 1, w.bufferStart + BatchSize(w))

\* lastSeqNo after the batch was formed.
HighWater(w, last) == last + Unnumbered(w, BatchSize(w))

Sent(w, last) ==
  [w EXCEPT !.messages = Numbered(w, last),
            !.bufferStart = @ + BatchSize(w),
            !.bufferLength = @ - BatchSize(w),
            !.inflightLength = @ + BatchSize(w)]

-----------------------------------------------------------------------------
(* acknowledge, compactGarbage and dropAckedAndRewind                      *)

\* How many messages, from the head of the in-flight range, have a number in N.
LeadingInflight(w, N) ==
  CHOOSE n \in 0 .. (w.bufferStart - w.inflightStart) :
    /\ \A p \in 1 .. n : w.messages[w.inflightStart + p].seqNo \in N
    /\ n < w.bufferStart - w.inflightStart =>
         w.messages[w.inflightStart + n + 1].seqNo \notin N

Inflight(w, n) == SubSeq(w.messages, w.inflightStart + 1, w.inflightStart + n)

\* (broken) the pointers are not rebased
Compacted_KeepsPointer(w) ==
  [w EXCEPT !.messages = SubSeq(@, w.inflightStart + 1, Len(@)),
            !.inflightStart = 0]

Compacted(w) ==
  [w EXCEPT !.messages = SubSeq(@, w.inflightStart + 1, Len(@)),
            !.inflightStart = 0,
            !.bufferStart = @ - w.inflightStart]

\* The first n messages in flight were acknowledged.
Acknowledged(w, n) ==
  Compacted([w EXCEPT !.inflightStart = @ + n, !.inflightLength = @ - n])

\* (broken) what was in flight and is not persisted is not sent again
Rewound_Forgets(w, n) ==
  [w EXCEPT !.inflightStart = w.bufferStart, !.inflightLength = 0]

\* A new session: the first n messages in flight were persisted, the others go back to
\* the front of the buffer.
Rewound(w, n) ==
  [w EXCEPT !.bufferStart = w.inflightStart + n,
            !.bufferLength = Len(w.messages) - (w.inflightStart + n),
            !.inflightStart = @ + n,
            !.inflightLength = 0]

-----------------------------------------------------------------------------

\* The pointers and the lengths agree, and no more is in flight than allowed.
WindowShape(w) ==
  /\ w.inflightStart \in Nat /\ w.inflightLength \in 0 .. MaxInflight
  /\ w.bufferLength \in Nat
  /\ w.bufferStart = w.inflightStart + w.inflightLength
  /\ Len(w.messages) = w.bufferStart + w.bufferLength

\* What is in flight has a number, and numbers increase along the window; the messages
\* without a number come last.
WindowNumbers(w) ==
  /\ \A p \in 1 .. w.bufferStart : w.messages[p].seqNo # 0
  /\ \A p, q \in 1 .. Len(w.messages) :
       p < q /\ w.messages[q].seqNo # 0 =>
         w.messages[p].seqNo # 0 /\ w.messages[p].seqNo < w.messages[q].seqNo
=============================================================================
