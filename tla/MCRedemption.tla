---------------------------- MODULE MCRedemption ----------------------------
(***************************************************************************)
(* Finite instances of Redemption for TLC: two claims, of the same value,  *)
(* as all are, and nothing else that tells them apart.                     *)
(***************************************************************************)
EXTENDS Redemption, TLC

CONSTANTS c1, c2

TwoClaims == {c1, c2}
Symmetry == Permutations(TwoClaims)

=============================================================================
