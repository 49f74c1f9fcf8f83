CONSTANTS
  NONE = NONE
  p1 = p1
  p2 = p2
  w1 = w1
  g1 = g1
  Providers = {p1}
  Workers = {w1}
  ClusterOf <- OneCluster
  Gpus = {}
  Conns = {c1, c2}
  Cns <- Wallet
  Requests = {r1}
  Trackers = {k1}
  Prices = {10}
  MaxFaults = 1
SPECIFICATION FairSpec
PROPERTIES
  ReadyWorkersComeBack
  GoneWorkersAreWithdrawn
  HeartbeatsRevive
CHECK_DEADLOCK FALSE
