CONSTANTS
  s1 = s1
  s2 = s2
  u1 = u1
  u2 = u2
  r1 = r1
  r2 = r2
  t1 = t1
  t2 = t2
  t3 = t3
  Sessions = {s1}
  InitialSessions = {s1}
  Users = {u1, u2}
  UserOf <- SharedUser
  Rentals = {r1, r2}
  Txs = {t1, t3}
  RentalOf <- AliasRental
  Renter <- SharedRenter
  Requests = {a, b}
  RequestKinds = {"confirm", "cancel"}
  Background = {"worker", "watcher", "listener", "enforcer", "expirer"}
  MaxCrashes = 0
SPECIFICATION Spec
CHECK_DEADLOCK FALSE
PROPERTY RentalIsForLife
PROPERTY ImplementsLifecycle
SYMMETRY RequestSymmetry
