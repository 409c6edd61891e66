----------------------------- MODULE StationTable -----------------------------
(***************************************************************************)
(* What the hub promises its users of the stations they create: a station  *)
(* has the addresses it was given until it is removed, also when the       *)
(* process ends and the next one takes over.                               *)
(***************************************************************************)
EXTENDS Naturals, FiniteSets

CONSTANTS Ids, Addresses, MaxStations

VARIABLES
    table,      \* the addresses of each station there is
    process,    \* processes that ended
    careful     \* rigid: TRUE if the users do not disturb each other

vars == <<table, process, careful>>

NoTable == [i \in {} |-> 0]

Init == table = NoTable /\ process = 0 /\ careful \in BOOLEAN

\* One more station, given some addresses.  Users who race may put it over another, and
\* exceed the limit
Add(i) ==
    /\ careful => i \notin DOMAIN table /\ Cardinality(DOMAIN table) < MaxStations
    /\ DOMAIN table' = DOMAIN table \cup {i}
    /\ table'[i] \in Addresses
    /\ \A j \in DOMAIN table \ {i} : table'[j] = table[j]
    /\ UNCHANGED <<process, careful>>

Remove(i) ==
    /\ i \in DOMAIN table
    /\ DOMAIN table' = DOMAIN table \ {i}
    /\ \A j \in DOMAIN table' : table'[j] = table[j]
    /\ UNCHANGED <<process, careful>>

\* The next process has the same stations, though not with the same addresses if users race:
\* the row of a station may be written from another that was under its id
Restart ==
    /\ process' = process + 1
    /\ DOMAIN table' = DOMAIN table
    /\ careful => table' = table
    /\ UNCHANGED careful

Next ==
    \/ \E i \in Ids : Add(i) \/ Remove(i)
    \/ Restart

Spec == Init /\ [][Next]_vars
=============================================================================
