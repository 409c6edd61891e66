---------------------------- MODULE StationService ----------------------------
(***************************************************************************)
(* What a station promises the one who started it: it registers on a       *)
(* connection of its own, is online once the id assigned on that           *)
(* connection is known, and after a loss starts over with a new one.       *)
(***************************************************************************)
EXTENDS Naturals

VARIABLES
    session,    \* "idle", "register", "online", "reconnect"
    links,      \* connections made so far
    link,       \* the current one, 0 for none
    id          \* the connection on which the station's id was assigned, 0 for none

vars == <<session, links, link, id>>

Init == session = "idle" /\ links = 0 /\ link = 0 /\ id = 0

\* An attempt begins without a connection or an id from before ...
Register ==
    /\ session \in {"idle", "reconnect"} /\ link = 0 /\ id = 0
    /\ session' = "register"
    /\ UNCHANGED <<links, link, id>>

\* ... fails ...
Fail ==
    /\ session = "register" /\ link = 0
    /\ session' = "reconnect"
    /\ UNCHANGED <<links, link, id>>

\* ... or makes a connection that was not there before
Connect ==
    /\ session = "register" /\ link = 0
    /\ links' = links + 1 /\ link' = links + 1
    /\ UNCHANGED <<session, id>>

\* The platform assigns an id on the current connection ...
Identify ==
    /\ session = "register" /\ link # 0 /\ id = 0
    /\ id' = link
    /\ UNCHANGED <<session, links, link>>

\* ... which makes the station online
Accept ==
    /\ session = "register" /\ link # 0 /\ id = link
    /\ session' = "online"
    /\ UNCHANGED <<links, link, id>>

\* The connection is lost, and the id with it; not between Identify and Accept
Lose ==
    /\ link # 0 /\ (session = "register" => id = 0)
    /\ session' = "reconnect" /\ link' = 0 /\ id' = 0
    /\ UNCHANGED links

Next == Register \/ Fail \/ Connect \/ Identify \/ Accept \/ Lose

Spec == Init /\ [][Next]_vars
=============================================================================
