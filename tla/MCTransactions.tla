----------------------------- MODULE MCTransactions ----------------------------
(* Two concurrent calls over two sessions; b opted into idempotent retries.     *)
EXTENDS Transactions

CONSTANTS a, b, s1, s2

================================================================================
