------------------------------ MODULE MCClaims ------------------------------
(* Instances of Claims: two workers per task, and up to two items.            *)
EXTENDS Claims, TLC

BothKinds == {"claim", "lifecycle"}
\* A negative number, which means the default for claim tasks, and up to two
SomeTotals == {-1, 1, 2}
SomeWorkers == {0}
\* Sums below and above 100, which are scaled; and a negative share, with which two items are
\* borrowed and one of them is returned
SomeShares == {[claimed |-> 0, borrowed |-> 1, returned |-> 1, expired |-> 0],
               [claimed |-> 0, borrowed |-> 100, returned |-> 0, expired |-> 100],
               [claimed |-> 0, borrowed |-> 200, returned |-> -150, expired |-> 50]}
=============================================================================
