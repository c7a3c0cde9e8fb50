--------------------------- MODULE MCFleetManager ---------------------------
(* TLC instances of FleetManager; tasks, drivers and operators are interchangeable. *)
EXTENDS FleetManager, TLC
Symmetry == Permutations(Tasks) \cup Permutations(Workers)
              \cup Permutations(Drivers) \cup Permutations(Operators)
=============================================================================
