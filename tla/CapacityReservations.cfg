CONSTANTS
  s1 = s1
  s2 = s2
  Sessions = {s1, s2}
  Total <- NodeTotal
  Asked <- Conflict
  Syncs = {}
  MaxCreates <- FirstTwice
  MaxDeletes <- FirstTwice
  MaxFaults = 1
SPECIFICATION Spec
CHECK_DEADLOCK FALSE
INVARIANT TypeOK
INVARIANT AccountBalances
INVARIANT NothingLeaks
