SPECIFICATION Spec
CONSTANTS
  Tasks = {t1, t2}
  Workers = {w1, w2}
  Callers = {c1, c2}
  Drivers = {}
  Payloads = {"Progress"}
  Results = {"Completed"}
  MaxActive = 2
  Ceiling = 1
  MaxAttempts = 2
  MaxSeq = 1
  MaxTime = 1
  MaxTorn = 1
SYMMETRY Symmetry
INVARIANT
  OneLeasePerWorker
CHECK_DEADLOCK FALSE
