CONSTANTS
  NONE = NONE
  p1 = p1
  p2 = p2
  w1 = w1
  g1 = g1
  Providers = {p1}
  Workers = {w1}
  ClusterOf <- OneCluster
  Gpus = {}
  Conns = {c1}
  Cns <- Wallet
  Requests = {}
  Trackers = {k1}
  Prices = {9, 11}
  MaxFaults = 0
SPECIFICATION FairSpec
PROPERTY NewWorkersBecomeVisible
CHECK_DEADLOCK FALSE
