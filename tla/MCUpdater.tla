------------------------------ MODULE MCUpdater ------------------------------
(***************************************************************************)
(* Two requests, so that one may arrive while the other is carried out.    *)
(***************************************************************************)
EXTENDS Updater, TLC

CONSTANTS v0, v1, v2

OneTarget  == {v1}
TwoTargets == {v1, v2}

AnyFault     == Kinds
BackupFault  == {"backup"}
=============================================================================
