\* Sessions schedule and cancel while the loop fires; crashes at any point.
SPECIFICATION TriggerSpec
CONSTANTS
  Triggers = {x1, x2}
  Tasks = {t1, t2, t3, t4}
  Procs = {p1}
  Sessions = {s1, s2}
  NoOwner = NoOwner
  MaxTime = 3
  MaxCrashes = 2
INVARIANT
  RepeatsBounded
PROPERTY
  CancelHolds
CHECK_DEADLOCK FALSE
