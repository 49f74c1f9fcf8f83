CONSTANTS
  s1 = s1
  s2 = s2
  s3 = s3
  s4 = s4
  Sessions = {s1, s2, s3, s4}
  Creators = {c1}
  Extenders = {}
  Stoppers = {x1}
  Extensions = {}
  MaxExtensions = 1
  TicksPerMinute = 2
  Deposit = 100
  Asking = TRUE
  Transferring = FALSE
  MaxNow = 1
  MaxFaults = 1
SPECIFICATION Spec
SYMMETRY Symmetry
INVARIANTS
  TypeOK
  QuotaIsBounded
  BalanceMissesNothing
CHECK_DEADLOCK FALSE
