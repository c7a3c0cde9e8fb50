--------------------------- MODULE MCFleetLedger ---------------------------
(* TLC instances of FleetLedger.  Tasks, workers and callers are             *)
(* interchangeable: no operation orders or names one of them.                 *)
EXTENDS FleetLedger, TLC
Symmetry == Permutations(Callers) \cup Permutations(Tasks) \cup Permutations(Workers)
=============================================================================
