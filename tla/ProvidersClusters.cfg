CONSTANTS
  w1 = w1
  eip55 = eip55
  lower = lower
  i1 = i1
  i2 = i2
  i3 = i3
  k1 = k1
  bad = bad
  Wallets = {w1}
  Spellings = {eip55, lower}
  WalletOf <- OneWallet
  Checksummed <- InMixedCase
  Ids = {i1, i2, i3}
  Kubeconfigs = {k1, bad}
  Clusters = {k1}
  Nonces = {n1}
  Requests = {r1, r2}
  Launches = {l1, l2}
  MaxFaults = 1
  MaxRestarts = 1
SPECIFICATION Spec
SYMMETRY Symmetry
INVARIANTS
  TypeOK
  EntriesAreBacked
  StoredConfigsLoad
  ConfiguredAreServed
  SessionsNameTheSigner
  OneSessionPerNonce
  TenantsAreComplete
CHECK_DEADLOCK FALSE
