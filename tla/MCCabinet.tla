------------------------------ MODULE MCCabinet ------------------------------
(* Instances of Cabinet: one or two devices, doors and requests at a time.    *)
EXTENDS Cabinet, TLC

CONSTANTS c1, c2

OneClient == {c1}
TwoClients == {c1, c2}
ClientSymmetry == Permutations(Clients)
OneDoor == {1}
TwoDoors == {1, 2}
NoDoor == {0}           \* no door asked for
WrongDoors == {0, 3}    \* or one the cabinet does not have
Received == {"received"}
BatchStatus == {"registered", "received"}

\* What the users of the runs ask for
SlotOps == {"create", "insert", "remove", "issue"}
CarefulOps == SlotOps \cup {"scrap"}
CountOps == SlotOps \cup {"fault"}
RaceOps == {"create", "insert", "remove", "status", "config", "fault"}
=============================================================================
