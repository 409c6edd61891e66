------------------------------ MODULE MCStation ------------------------------
(***************************************************************************)
(* Instances of Station for TLC.                                           *)
(***************************************************************************)
EXTENDS Station, TLC

CONSTANTS l1, l2, c1

OneLoop  == {l1}
TwoLoops == {l1, l2}
OneCaller == {c1}
AllOps == {"start", "stop", "restart"}
StartOnly == {"start"}
AllReplies == {"ok", "okHeaderId", "undecodable", "notRegistered", "overCapacity", "other"}
GoodReplies == {"ok"}

\* Loop identities are interchangeable
LoopSymmetry == Permutations(Loops)
=============================================================================
