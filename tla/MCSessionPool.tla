--------------------------- MODULE MCSessionPool ---------------------------
(* Small instances of SessionPool for TLC. *)
EXTENDS SessionPool, TLC

\* Callers and session identities are interchangeable (safety runs only).
PoolSymmetry == Permutations(Client) \cup Permutations(Session)
=============================================================================
