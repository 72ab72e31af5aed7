------------------------ MODULE MCCoordinationCalls ------------------------
(* Small instances of CoordinationCalls for TLC. *)
EXTENDS CoordinationCalls
=============================================================================
