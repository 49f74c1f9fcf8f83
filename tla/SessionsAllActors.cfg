CONSTANTS
  s1 = s1
  s2 = s2
  u1 = u1
  u2 = u2
  r1 = r1
  r2 = r2
  t1 = t1
  t2 = t2
  t3 = t3
  Sessions = {s1}
  InitialSessions = {s1}
  Users = {u1, u2}
  UserOf <- SharedUser
  Rentals = {r1}
  Txs = {t1}
  RentalOf <- OwnRental
  Renter <- SharedRenter
  Requests = {a, b, c}
  RequestKinds = {"confirm", "cancel", "stop"}
  Background = {"worker", "watcher", "listener", "enforcer", "expirer"}
  MaxCrashes = 1
SPECIFICATION Spec
CHECK_DEADLOCK FALSE
INVARIANT TypeOK
INVARIANT CleanupSparesConfirmed
INVARIANT RunsArePaid
INVARIANT PodsArePaid
PROPERTY StoppedNeverRuns
SYMMETRY RequestSymmetry
