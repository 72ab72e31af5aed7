--------------------------- MODULE CommitPromise ---------------------------
(***************************************************************************)
(* What commit() of the topic reader promises, without reader, stream or   *)
(* session: the consumer's offset of a partition only moves forward; a     *)
(* commit resolves only once that offset has reached its target, it is     *)
(* settled once, and otherwise it is rejected.                             *)
(***************************************************************************)
EXTENDS Naturals

CONSTANTS Partition, Caller

VARIABLES
  committed,   \* the consumer's offset of each partition
  target,      \* the partition and the offset each commit asks for
  outcome      \* what became of each commit

Open    == {c \in Caller : outcome[c] = "pending"}
Reached == {c \in Open : target[c].offset <= committed[target[c].partition]}

Init ==
  /\ committed \in [Partition -> Nat]
  /\ target \in [Caller -> [partition : Partition, offset : Nat]]
  /\ outcome = [c \in Caller |-> "none"]

\* The consumer's offsets move forward.
Advance ==
  /\ \A p \in Partition : committed'[p] >= committed[p]
  /\ UNCHANGED <<target, outcome>>

\* A caller asks for an offset.
Ask(c) ==
  /\ outcome[c] = "none"
  /\ outcome' = [outcome EXCEPT ![c] = "pending"]
  /\ \A d \in Caller \ {c} : target'[d] = target[d]
  /\ UNCHANGED committed

\* Some open commits resolve, their offsets being reached; others are rejected.
Settle ==
  /\ \A c \in Caller : \/ outcome'[c] = outcome[c]
                       \/ c \in Reached /\ outcome'[c] = "resolved"
                       \/ c \in Open /\ outcome'[c] = "rejected"
  /\ UNCHANGED <<committed, target>>

Next == Advance \/ Settle \/ \E c \in Caller : Ask(c)

Spec == Init /\ [][Next]_<<committed, target, outcome>>
=============================================================================
