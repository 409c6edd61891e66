------------------------------ MODULE MCUpgrade ------------------------------
(***************************************************************************)
(* Instances of Upgrade for TLC.                                           *)
(***************************************************************************)
EXTENDS Upgrade

CONSTANTS r1, r2

TwoRequests == {r1, r2}
=============================================================================
