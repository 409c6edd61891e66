---------------------------- MODULE MCGenerators ----------------------------
(* Instances of Generators: two runs, batches of one or two messages.         *)
EXTENDS Generators

\* The managers share nothing, and two modes of audit data only the manager
OneKind == {{"local"}, {"platform"}, {"pressure"}}
\* The defaults: one message, in batches of the maximal rate
SomeTotals == {-1}
SomeRates == {0}
\* The default, and one that a second is too short for
SomeFrequencies == {0, 3}
=============================================================================
