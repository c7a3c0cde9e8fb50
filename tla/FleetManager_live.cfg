\* Two tasks for one worker, an interrupt and a restart: does everybody stop?
SPECIFICATION LiveSpec
CONSTANTS
  Tasks = {t1, t2}
  Workers = {w1}
  Drivers = {d1, d2}
  Operators = {o1}
  Starts = {"start", "restart"}
  Controls = {"interrupt"}
  Limited = FALSE
  Metered = FALSE
  MaxActive = 1
  Retries = 2
  MaxAttempts = 2
  MaxFaults = 0
PROPERTY
  DriverReturns
CHECK_DEADLOCK FALSE
