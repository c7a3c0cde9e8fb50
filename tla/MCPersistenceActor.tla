------------------------ MODULE MCPersistenceActor ------------------------
(* TLC instance of PersistenceActor. *)
EXTENDS PersistenceActor
=============================================================================
