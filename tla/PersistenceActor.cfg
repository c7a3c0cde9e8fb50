\* Two sessions, a list of two failures and up to three, a reset without a
\* snapshot, a crash, and the exit.
SPECIFICATION FairSpec
CONSTANTS
  Sessions = {s1, s2}
  None = None
  MaxFailures = 2
  MaxVersion = 2
  MaxClears = 1
  MaxFaults = 3
  MaxCrashes = 1
INVARIANTS
  ReportNamesLosses
  RecoverableOutsideCycle
PROPERTY
  ExitReturns
CHECK_DEADLOCK FALSE
