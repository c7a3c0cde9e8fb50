--------------------------- MODULE MCTaskManager ---------------------------
(* TLC instances of TaskManager: tasks and workers are model values.       *)
EXTENDS TaskManager, TLC

Symmetry == Permutations(Tasks) \cup Permutations(Workers)
=============================================================================
