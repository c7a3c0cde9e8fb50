--------------------------- MODULE MCTaskWatchdog ---------------------------
(* TLC instances of TaskWatchdog; every bound is given by the .cfg files.   *)
EXTENDS TaskWatchdog
=============================================================================
