\* One execution from its start to its end.
SPECIFICATION FairSpec
CONSTANTS
  Wall = 4
  Idle = 2
  Grace = 1
  Debounce = 1
  Poll = 2
  EventsPerTick = 1
  ChannelCap = 3
INVARIANTS
  EndsInTime
  NoOrphanTurn
  StopsWithinGrace
PROPERTIES
  IdleIsReal
  AlwaysEnds
\* The model ends when the run does.
CHECK_DEADLOCK FALSE
