--------------------------- MODULE MCTopicWriter ---------------------------
(* Small instances of TopicWriter for TLC. *)
EXTENDS TopicWriter
=============================================================================
