\* More processes than permits, each calling again and again.
SPECIFICATION FairSpec
CONSTANTS
  Commands = {c1, c2}
  None = None
  limit = 1
INVARIANT
  HeavyWithinLimit

  
CHECK_DEADLOCK FALSE
