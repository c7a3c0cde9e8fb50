SPECIFICATION Spec
CONSTANTS
  Tasks = {t1}
  Workers = {w1}
  Callers = {c1, c2}
  Drivers = {c1, c2}
  Payloads = {"Progress", "Usage"}
  Results = {"Completed", "Failed", "Cancelled"}
  MaxActive = 1
  Ceiling = 1
  MaxAttempts = 2
  MaxSeq = 6
  MaxTime = 2
  MaxTorn = 1
SYMMETRY Symmetry
INVARIANT
  CompletedHasReceipt
PROPERTIES
  TerminalSticks
  LifecycleSeqAdvances
CHECK_DEADLOCK FALSE
