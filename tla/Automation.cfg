\* Users change, pause, delete and start an automation in the middle of ticks;
\* one crash or one failing file operation at any point.
SPECIFICATION FairSpec
CONSTANTS
  Autos = {a1}
  Tasks = {t1, t2}
  Procs = {p1}
  Callers = {c1}
  Schedules <- OnceOrEach
  Modes = {"Watcher"}
  Outcomes = {"Completed"}
  UserOps = {"Update", "Pause", "Delete", "RunNow"}
  Legacy = {a1}
  SlotWindow = 1
  PendingWindow = 1
  NoTask = NoTask
  MaxTime = 2
  MaxRuns = 2
  MaxManual = 1
  MaxFaults = 1
INVARIANTS
  UserChangesKept
  SlotRepeatsBounded
PROPERTIES
  DueSlotRuns
  RunSettles
CHECK_DEADLOCK FALSE
