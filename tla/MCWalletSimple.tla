--------------------------- MODULE MCWalletSimple ---------------------------
(* Four addresses besides zero, so that a transaction may go to a stranger. *)
EXTENDS WalletSimple, TLC

CONSTANTS s1, s2, s3, stranger

MCAddress == {s1, s2, s3, stranger}
Symmetry == Permutations(MCAddress)
=============================================================================
