CONSTANTS
  s1 = s1
  s2 = s2
  Sessions = {s1}
  Total <- NodeTotal
  Asked <- Whole
  Syncs = {1, 2}
  MaxCreates <- FirstTwice
  MaxDeletes <- Once
  MaxFaults = 2
SPECIFICATION FairSpec
CHECK_DEADLOCK FALSE
PROPERTY CapacityConverges
