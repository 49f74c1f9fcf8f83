CONSTANTS
  s1 = s1
  s2 = s2
  s3 = s3
  s4 = s4
  Sessions = {s1}
  Creators = {c1}
  Extenders = {e1, e2}
  Stoppers = {x1}
  Extensions = {1}
  MaxExtensions = 2
  TicksPerMinute = 2
  Deposit = 100
  Asking = FALSE
  Transferring = TRUE
  MaxNow = 3
  MaxFaults = 1
SPECIFICATION FairSpec
INVARIANTS
  ExtensionsAreBounded
  ExtendedTimeIsCounted
  TransfersMatchRecord
  ChargedTimeHasPassed
PROPERTIES
  StoppedIsSettled
  ImplementsLedger
CHECK_DEADLOCK FALSE
