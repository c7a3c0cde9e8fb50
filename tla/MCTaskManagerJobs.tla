------------------------- MODULE MCTaskManagerJobs -------------------------
(* TLC instance of the refinement. *)
EXTENDS TaskManagerJobs
=============================================================================
