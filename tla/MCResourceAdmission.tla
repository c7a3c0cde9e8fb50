------------------------ MODULE MCResourceAdmission ------------------------
(* TLC instance of ResourceAdmission. *)
EXTENDS ResourceAdmission
=============================================================================
