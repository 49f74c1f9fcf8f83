CONSTANTS
  NONE = NONE
  p1 = p1
  p2 = p2
  w1 = w1
  g1 = g1
  Providers = {p1, p2}
  Workers = {}
  ClusterOf <- OneCluster
  Gpus <- OwnAndGhost
  Conns = {c1, c2}
  Cns <- WalletAndNode
  Requests = {r1}
  Trackers = {k1}
  Prices = {9, 11}
  MaxFaults = 1
SPECIFICATION Spec
INVARIANTS
  TypeOK
  EntriesAreAlive
PROPERTIES
  OwnersAreForever
CHECK_DEADLOCK FALSE
