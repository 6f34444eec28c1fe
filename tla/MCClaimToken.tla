---------------------------- MODULE MCClaimToken ----------------------------
(***************************************************************************)
(* Two tills that ask at the same time, three tokens.  Two failures lock,  *)
(* and up to five are made, so that a lock is followed by another.         *)
(***************************************************************************)
EXTENDS ClaimToken, TLC

CONSTANTS r1, r2
TwoTills == {r1, r2}
Symmetry == Permutations(TwoTills)
=============================================================================
