------------------------------ MODULE MCPairing ------------------------------
(***************************************************************************)
(* Up to three attempts from two pages, so that requests meet in the       *)
(* channel and in the session, and two tenants, so that a bridge can       *)
(* change hands.                                                           *)
(***************************************************************************)
EXTENDS Pairing, TLC

CONSTANTS b1, b2, a1, a2, a3, t1, t2

OnePage       == {b1}
TwoPages      == {b1, b2}
TwoAttempts   == {a1, a2}
ThreeAttempts == {a1, a2, a3}
OneTenant     == {t1}
TwoTenants    == {t1, t2}

Symmetry == Permutations(Browsers) \cup Permutations(Attempts) \cup Permutations(Tenants)
=============================================================================
