\* Owned and detached sub-agents, a stop, panics and Esc at any point.
SPECIFICATION FairSpec
CONSTANTS
  Children = {c1, c2}
  Engine = Engine
  Free = Free
  Detached = TRUE
  Panics = TRUE
  MaxSends = 1
  MaxStops = 1
INVARIANTS
  AcceptedAreForwarded
  CancelledIsMeant
  OutcomeInTurn
PROPERTY
  TurnSettles
CHECK_DEADLOCK FALSE
