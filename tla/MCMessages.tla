----------------------------- MODULE MCMessages -----------------------------
(* Instances of Messages: one request with every kind of body; two that meet   *)
(* the changes of the station; the notices of those; two clients, who may get  *)
(* the same names; and a client with the events of others or of a request.     *)
EXTENDS Messages, TLC

CONSTANTS r1, r2, r3, c1, c2

TwoClients == {c1, c2}
ThreeRequests == {r1, r2, r3}
ThreeTypes == {"station_state_changed", "message_sent", "message_received"}
TwoTypes == <<"station_state_changed", "message_sent">>
TwoSamples == <<"noReturnSlot", "usageViolation">>
TwoReadings == {1, 2}

Alarms == [type : {"", "doorFault", "noReturnSlot", "usageViolation"}, reason : {0, 1, 5, 29},
           sn : {"", "disk"}, door : {0, 1}]
Operations == [operation : {"", "insert", "kill", "copy", "other"},
               result : {"", "success", "fail", "other"}, sn : {"", "disk"}]
Claims == [applyCode : {"", "code"}, sn : {"", "disk"}, result : {"", "fail", "other"}]
Plain == {"register", "heartbeat", "info_report", "upgrade_issue", "upgrade_result", "unknown"}

AnyBody ==
    {[via |-> v, cmd |-> "alarm", body |-> b] : v \in {"own", "command"}, b \in Alarms}
    \cup {[via |-> v, cmd |-> "operation_log", body |-> b] :
             v \in {"own", "command"}, b \in Operations}
    \cup {[via |-> v, cmd |-> k, body |-> b] : v \in {"own", "command"},
             k \in {"claim_verify", "usb_claim", "usb_return"}, b \in Claims}
    \cup {[via |-> "command", cmd |-> k, body |-> NoBody] : k \in Plain}

Heartbeat == {[via |-> "own", cmd |-> "heartbeat", body |-> NoBody]}
AllAlarms == {[via |-> "all", cmd |-> "alarm", body |-> NoBody]}
SomeWants == (r1 :> AnyBody) @@ (r2 :> Heartbeat) @@ (r3 :> AllAlarms)

SomeCasts == {{r1}, {r2, r3, "station"}, {"station", "watch"}, {c1, c2}, {c1, "others"}, {c1, r3}}
=============================================================================
