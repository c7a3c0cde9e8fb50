------------------------- MODULE MCTurnSettlement -------------------------
(* TLC instance of TurnSettlement. *)
EXTENDS TurnSettlement
=============================================================================
