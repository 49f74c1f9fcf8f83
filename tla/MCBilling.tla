------------------------------ MODULE MCBilling ------------------------------
EXTENDS Billing, TLC

CONSTANTS s1, s2, s3, s4

\* Sessions are alike.
Symmetry == Permutations(Sessions)
=============================================================================
