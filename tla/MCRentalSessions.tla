-------------------------- MODULE MCRentalSessions --------------------------
(***************************************************************************)
(* Small instances of RentalSessions: two sessions, two on-chain rentals   *)
(* and up to three transaction hashes.  In the "own" instances transaction *)
(* ti starts rental ri, paid by session si's renter; in the "shared" ones  *)
(* the two sessions have the same renter and provider.  In "alias" t1 and  *)
(* t2 are two spellings of one transaction's hash and t3 is another        *)
(* transaction: ConfirmRental accepts upper and lower case digits, the     *)
(* table compares hashes as text, the verifier as numbers.                 *)
(***************************************************************************)
EXTENDS RentalSessions, TLC

CONSTANTS s1, s2, u1, u2, r1, r2, t1, t2, t3

OwnUser    == [s \in Sessions |-> IF s = s1 THEN u1 ELSE u2]
SharedUser == [s \in Sessions |-> u1]

OwnRental   == [t \in Txs |-> IF t = t1 THEN r1 ELSE r2]
AliasRental == [t \in Txs |-> IF t = t3 THEN r2 ELSE r1]

OwnRenter    == [r \in Rentals |-> Sessions \cap {IF r = r1 THEN s1 ELSE s2}]
SharedRenter == [r \in Rentals |-> Sessions]

\* Requests are interchangeable: no formula names one.
RequestSymmetry == Permutations(Requests)
=============================================================================
