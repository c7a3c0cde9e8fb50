SPECIFICATION Spec
CONSTANTS
  Tasks = {t1, t2}
  Workers = {w1, w2}
  NoTask = NoTask
  QueueFile = QueueFile
  MaxSeq = 3
  MaxCrashes = 1
  MaxFaults = 1
SYMMETRY Symmetry
INVARIANTS
  TypeOK
  QueueExact
  RunningIsOwned
  DiskMatchesMemory
  AtMostOncePerFault
  AcceptedNeverLost
  CancelAckHolds
  NoLostWakeup
PROPERTY TerminalIsFinal
CHECK_DEADLOCK FALSE
