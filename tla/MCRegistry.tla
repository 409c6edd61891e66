----------------------------- MODULE MCRegistry -----------------------------
(* Instances of Registry: three ids, a limit of two stations, and addresses   *)
(* with two values per octet and byte.                                        *)
EXTENDS Registry, TLC

CONSTANTS s1, s2, s3, c1, c2, h1, h2

TwoClients == {c1, c2}
ThreeIds == {s1, s2, s3}
OneId == {s1}
TwoHosts == {h1, h2}
\* prefix-1, prefix-2 ...
Batches == {<<s1>>, <<s1, s2, s3>>}
SomeSymmetry == Permutations({c1, c2}) \cup Permutations({h1, h2})
AllOps == {"create", "batch", "start", "stop", "config", "platform", "delete"}
=============================================================================
