------------------------- MODULE MCDelayedTriggers -------------------------
(* TLC instance of DelayedTriggers. *)
EXTENDS DelayedTriggers
=============================================================================
