------------------------- MODULE MCProviderClusters -------------------------
EXTENDS ProviderClusters, TLC

CONSTANTS w1, eip55, lower, i1, i2, i3, k1, bad

\* One wallet, with and without the checksum in the case of its address
OneWallet == [a \in {eip55, lower} |-> w1]
InMixedCase == [w \in {w1} |-> eip55]

\* Ids, requests and launches are alike.
Symmetry == Permutations(Ids) \cup Permutations(Requests) \cup Permutations(Launches)
=============================================================================
