\* Two drivers, an operator, limits, the ceiling, and one thing that fails or dies.
SPECIFICATION Spec
CONSTANTS
  Tasks = {t1}
  Workers = {w1}
  Drivers = {d1, d2}
  Operators = {o1}
  Starts = {"start", "restart"}
  Controls = {"stop", "interrupt", "resume"}
  Limited = TRUE
  Metered = TRUE
  MaxActive = 1
  Retries = 2
  MaxAttempts = 2
  MaxFaults = 1
SYMMETRY Symmetry
INVARIANTS
  OneManagedProcessPerWorker
  CompletedMeansAll
PROPERTY
  CompletedByItsProcess
CHECK_DEADLOCK FALSE
