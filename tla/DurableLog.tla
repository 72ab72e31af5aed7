----------------------------- MODULE DurableLog -----------------------------
(***************************************************************************)
(* What a topic writer promises its caller: the messages submitted are     *)
(* stored once each and in order, nothing is confirmed before it is        *)
(* stored, and a successful close means that everything was confirmed.     *)
(* TopicWriter implements it.                                              *)
(***************************************************************************)
EXTENDS Naturals, Sequences

CONSTANT MaxRestored   \* at most so many messages are there from an earlier writer

VARIABLES
  submitted,   \* how many messages were accepted
  persisted,   \* the messages stored, in order
  confirmed,   \* how many were reported as stored
  status       \* "open", "closed" (successfully), "failed"

vars == <<submitted, persisted, confirmed, status>>

FirstMessages(n) == [i \in 1 .. n |-> i]

Init ==
  /\ submitted = 0 /\ confirmed = 0
  /\ \E n \in 0 .. MaxRestored : persisted = FirstMessages(n)
  /\ status = "open"

Submit ==
  /\ status = "open"
  /\ submitted' = submitted + 1
  /\ UNCHANGED <<persisted, confirmed, status>>

\* The next messages are stored; also after the writer has failed.
Persist ==
  /\ \E n \in Len(persisted) + 1 .. submitted : persisted' = FirstMessages(n)
  /\ UNCHANGED <<submitted, confirmed, status>>

Confirm ==
  /\ status # "closed"
  /\ confirmed' \in confirmed + 1 .. submitted
  /\ confirmed' <= Len(persisted)
  /\ UNCHANGED <<submitted, persisted, status>>

Close ==
  /\ status = "open" /\ confirmed = submitted
  /\ status' = "closed"
  /\ UNCHANGED <<submitted, persisted, confirmed>>

Fail ==
  /\ status = "open"
  /\ status' = "failed"
  /\ UNCHANGED <<submitted, persisted, confirmed>>

Next == Submit \/ Persist \/ Confirm \/ Close \/ Fail

Spec == Init /\ [][Next]_vars
=============================================================================
