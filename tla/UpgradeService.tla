---------------------------- MODULE UpgradeService ----------------------------
(***************************************************************************)
(* What the upgrade of a station promises the platform: one upgrade at a   *)
(* time.  An upgrade that was accepted is reported stage by stage and      *)
(* never backwards, then reported completed with its own version, then     *)
(* installed, and only then is another one accepted.                       *)
(***************************************************************************)
EXTENDS Naturals

CONSTANTS Tasks, Kinds, Components

VARIABLES
    active,     \* the upgrade under way, 0 for none
    accepted,   \* all upgrades accepted so far
    kind,       \* what each of them installs
    shown,      \* the last status reported for each
    results,    \* completions reported: <<task, task whose version it names>>
    installed   \* the upgrade whose version each component has

vars == <<active, accepted, kind, shown, results, installed>>

Init ==
    /\ active = 0 /\ accepted = {} /\ kind \in [Tasks -> Kinds]
    /\ shown = [t \in Tasks |-> 0] /\ results = {}
    /\ installed = [c \in Components |-> 0]

\* Accepted, at once with a first report or not
Accept(t) ==
    /\ active = 0 /\ t \notin accepted
    /\ active' = t /\ accepted' = accepted \cup {t}
    /\ \E k \in Kinds : kind' = [kind EXCEPT ![t] = k]
    /\ \E s \in {0, 1} : shown' = [shown EXCEPT ![t] = s]
    /\ UNCHANGED <<results, installed>>

\* Downloading, downloaded, running: 1, 2, 3
Report ==
    /\ active # 0
    /\ \E s \in 1..3 : s >= shown[active] /\ shown' = [shown EXCEPT ![active] = s]
    /\ UNCHANGED <<active, accepted, kind, results, installed>>

Complete ==
    /\ active # 0 /\ shown[active] = 3
    /\ shown' = [shown EXCEPT ![active] = 4]
    /\ results' = results \cup {<<active, active>>}
    /\ UNCHANGED <<active, accepted, kind, installed>>

Install ==
    /\ active # 0 /\ shown[active] = 4
    /\ kind[active] \in Components
    /\ installed' = [installed EXCEPT ![kind[active]] = active]
    /\ UNCHANGED <<active, accepted, kind, shown, results>>

Release ==
    /\ active # 0 /\ shown[active] = 4
    /\ kind[active] \in Components => installed[kind[active]] = active
    /\ active' = 0
    /\ UNCHANGED <<accepted, kind, shown, results, installed>>

Next == (\E t \in Tasks : Accept(t)) \/ Report \/ Complete \/ Install \/ Release

Spec == Init /\ [][Next]_vars
=============================================================================
