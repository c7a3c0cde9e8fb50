\* Crashes at any point, also while a restart is loading, and no failing write:
\* clients see a JobQueue, and every accepted task finishes.
SPECIFICATION FairSpec
CONSTANTS
  Tasks = {t1, t2}
  Workers = {w1}
  NoTask = NoTask
  QueueFile = QueueFile
  MaxSeq = 2
  MaxCrashes = 2
  MaxFaults = 0
PROPERTIES
  ImplementsJobs
  AcceptedFinishes
  ShutdownDrains
\* A manager that was shut down has nothing left to do.
CHECK_DEADLOCK FALSE
