--------------------------- MODULE MCTopicReader ---------------------------
(* Small instances of TopicReader for TLC. *)
EXTENDS TopicReader
=============================================================================
