----------------------------- MODULE MCPlatform -----------------------------
(* Instances of Platform: two connections, headers of three bytes, blocks of  *)
(* two, bodies below four.                                                    *)
EXTENDS Platform, TLC

CONSTANTS c1, c2

TwoConns == {c1, c2}
SomeCmds == {"register", "alarm"}
\* The second never fits
SomeSizes == {1, 5}
=============================================================================
