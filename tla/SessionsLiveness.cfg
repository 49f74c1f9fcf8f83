CONSTANTS
  s1 = s1
  s2 = s2
  u1 = u1
  u2 = u2
  r1 = r1
  r2 = r2
  t1 = t1
  t2 = t2
  t3 = t3
  Sessions = {s1, s2}
  InitialSessions = {s1}
  Users = {u1, u2}
  UserOf <- OwnUser
  Rentals = {r1, r2}
  Txs = {t1, t2}
  RentalOf <- OwnRental
  Renter <- OwnRenter
  Requests = {a, b, c}
  RequestKinds = {"create", "confirm", "cancel"}
  Background = {"worker"}
  MaxCrashes = 0
SPECIFICATION FairSpec
CHECK_DEADLOCK FALSE
PROPERTY DecidedLeavesPending
