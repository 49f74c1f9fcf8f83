--------------------------- MODULE MCNodeRegistry ---------------------------
(* One provider with a cluster of one worker, and another provider, who    *)
(* may also register the GPU of a row that a connection has made.          *)
EXTENDS NodeRegistry

CONSTANTS p1, p2, w1, g1

OneCluster == [w \in Workers |-> p1]
WalletAndNode == {p1, <<p1, g1>>}
Wallet == {p1}
OwnAndGhost == {g1, <<GHOST, p1>>}
=============================================================================
