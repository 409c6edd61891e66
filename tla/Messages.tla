------------------------------ MODULE Messages ------------------------------
(***************************************************************************)
(* What is sent by hand and what is told about it: the handlers that send  *)
(* a command for a station (api/station.go, api/protocol_debug.go), the    *)
(* builders of the bodies (simulator/commands), the frames written, the    *)
(* message log, and the notices of changes of the station's state that go  *)
(* to the event bus and to the database.                                   *)
(*                                                                         *)
(* One station.  Its connections, registrations and reconnections are      *)
(* those of Station, here only as far as a handler or a notice can tell.   *)
(* A body has the fields a rule is about; a field that is empty or missing *)
(* is "", or None if it is a number.  Alarm types and reasons stand for   *)
(* the classes the rules distinguish.                                      *)
(***************************************************************************)
EXTENDS EventBus

CONSTANTS
    Requests,   \* requests to send something, each a goroutine
    Wants,      \* what each of them may ask for, a set of [via, cmd, body]
    Casts,      \* who takes part in a behaviour, any one of these sets
    Samples,    \* the types of AllSafeUdiskAlarmSamples, in that order
    MaxConns,   \* bound: connections
    MaxChanges, \* bound: changes of the state
    MaxOthers,  \* bound: events published by others
    MaxClears   \* bound: times the log is cleared

None == 0

\* AlarmTypeReasons, with one reason for those the rules do not tell apart
AlarmTypeReasons == [doorFault |-> {1}, noReturnSlot |-> {5, 6}, usageViolation |-> {29}]

ASSUME MessagesAssumption ==
    /\ None \notin Requests
    /\ {"station_state_changed", "message_sent", "message_received"} \subseteq EventTypes
    /\ Samples \in Seq(DOMAIN AlarmTypeReasons) /\ Samples # <<>>
    /\ MaxConns \in Nat \ {0} /\ {MaxChanges, MaxOthers, MaxClears} \subseteq Nat

VARIABLES
    cast,     \* rigid: who takes part, of the requests and clients, the "station", "others", and
              \* the callback OnStateChange as "watch"
    calm,     \* rigid: the station does not change its state while something else is under way
    dbWorks,  \* rigid: the database does not fail
    state,    \* SimStation.State
    conn,     \* the number of the connection, None if there is none
    dial,     \* connectAndRegister: "no", "dial", "register"
    awaiting, \* the platform has a registration to answer
    answers,  \* answers receiveLoop has read and not yet looked at: the code, a number
    resends,  \* goroutines that will send the registration once more
    notices,  \* calls of notifyStateChange that have not returned
    status,   \* the status in the station's row
    told,     \* the state the last event told
    wire,     \* frames written: the connection, the command, who wrote it
    frame,    \* the body of the last of them
    log,      \* message_log: the frames sent that are in it
    cleared,  \* those that were
    req,      \* each request
    budget    \* what is left of MaxChanges, MaxOthers and MaxClears

stationVars == <<state, conn, dial, awaiting, answers, resends>>
noticeVars == <<notices, status, told>>
wireVars == <<wire, frame>>
logVars == <<log, cleared>>
rigid == <<cast, calm, dbWorks>>
vars == <<busVars, stationVars, noticeVars, wireVars, logVars, req, budget, rigid>>

NoBody == [sn |-> ""]
NoReq == [pc |-> "new", want |-> [via |-> "none"], next |-> 0, sent |-> 0, failed |-> 0]

\* The station is online, or has not been started.  What does not matter to those who take part
\* is not varied
Init ==
    /\ BusInit
    /\ cast \in Casts /\ calm \in BOOLEAN /\ dbWorks \in BOOLEAN
    /\ dial = "no" /\ awaiting = FALSE /\ answers = {} /\ resends = 0 /\ notices = {}
    /\ \/ state = "online" /\ conn = 1 /\ wire = <<[conn |-> 1, cmd |-> "register", by |-> None]>>
       \/ state = "idle" /\ conn = None /\ wire = <<>>
    /\ "station" \notin cast => ~calm /\ state = "online"
    /\ cast \cap Requests = {} => dbWorks
    /\ status = state /\ told = state
    /\ frame = NoBody
    /\ log = {} /\ cleared = {}
    /\ req = [r \in Requests |-> NoReq]
    /\ budget = [changes |-> MaxChanges, others |-> MaxOthers, clears |-> MaxClears]

Spend(what) == budget[what] > 0 /\ budget' = [budget EXCEPT ![what] = @ - 1]

-----------------------------------------------------------------------------
(* Bodies                                                                  *)

IsSafeUdiskAlarm(type) == type \in DOMAIN AlarmTypeReasons
IsValidReasonForType(type, reason) == IsSafeUdiskAlarm(type) /\ reason \in AlarmTypeReasons[type]

\* "copy" stands for the operations on what has no serial number, "kill" for "scan"
ValidOperations == {"insert", "remove", "kill", "copy"}

Error == [error |-> TRUE]
Failed(body) == "error" \in DOMAIN body

\* Fault: an alarm without a device keeps the one it was given
FaultyAlarmBody(b) ==
    LET type == IF b.type = "" THEN "deviceFault" ELSE b.type IN
    IF ~IsSafeUdiskAlarm(type) THEN [type |-> type, sn |-> b.sn]
    ELSE [type |-> type, reason |-> b.reason, sn |-> b.sn,
          door |-> IF b.reason \in {5, 6, 29} THEN None ELSE b.door]

\* AlarmCommand.BuildBody
AlarmBody(b) ==
    LET type == IF b.type = "" THEN "deviceFault" ELSE b.type IN
    IF ~IsSafeUdiskAlarm(type) THEN [type |-> type, sn |-> b.sn]
    ELSE [type |-> type, reason |-> b.reason, sn |-> IF b.reason \in {5, 6} THEN "" ELSE b.sn,
          door |-> IF b.reason \in {5, 6, 29} THEN None ELSE b.door]

\* OperationLogCommand.BuildBody
OperationBody(b) ==
    LET operation == IF b.operation = "" THEN "insert" ELSE b.operation
        result == IF b.result = "" THEN "success" ELSE b.result IN
    IF operation \notin ValidOperations \/ result \notin {"success", "fail"} THEN Error
    ELSE [operation |-> operation, sn |-> b.sn,
          result |-> IF operation \in {"insert", "remove"} THEN "success" ELSE result]

\* UsbClaimCommand.BuildBody
ClaimBody(b) ==
    IF b.sn = "" \/ b.applyCode = "" THEN Error
    ELSE [sn |-> b.sn, applyCode |-> b.applyCode,
          result |-> IF b.result = "" THEN "success" ELSE b.result]

\* UsbReturnCommand.BuildBody
ReturnBody(b) == IF b.sn = "" THEN Error ELSE [sn |-> b.sn]

\* ClaimVerifyCommand.BuildBody
VerifyBody(b) == IF b.applyCode = "" THEN Error ELSE [applyCode |-> b.applyCode]

\* BuildBody of the commands.  Those without a rule have a body without a field here
BuildBody(cmd, b) ==
    CASE cmd = "alarm" -> AlarmBody(b)
      [] cmd = "operation_log" -> OperationBody(b)
      [] cmd = "usb_claim" -> ClaimBody(b)
      [] cmd = "usb_return" -> ReturnBody(b)
      [] cmd = "claim_verify" -> VerifyBody(b)
      [] cmd \in {"register", "heartbeat", "info_report", "upgrade_issue"} -> NoBody
      [] OTHER -> Error

\* AllSafeUdiskAlarmSamples: the first reason of a type, with a device and a door where the
\* rules want them
Sample(i) ==
    LET reason == CHOOSE x \in AlarmTypeReasons[Samples[i]] :
                      \A y \in AlarmTypeReasons[Samples[i]] : x <= y IN
    [type |-> Samples[i], reason |-> reason, sn |-> IF reason \in {5, 6} THEN "" ELSE "disk",
     door |-> IF reason \in {5, 6, 29} THEN None ELSE i]

-----------------------------------------------------------------------------
(* Requests                                                                *)

\* Fault: the reason is not checked against the type
FaultyAccepts(want) ==
    LET b == want.body IN
    CASE want.via # "own" -> want.cmd \notin {"upgrade_result"}
      [] want.cmd = "alarm" -> IsSafeUdiskAlarm(b.type) => b.reason # None
      [] OTHER -> TRUE

\* What the handlers of alarms, operation logs and of the three commands about claims look at
\* before they send
AcceptsAlarm(b) ==
    IsSafeUdiskAlarm(b.type) => b.reason # None /\ IsValidReasonForType(b.type, b.reason)

AcceptsOperation(b) ==
    /\ b.operation \in ValidOperations \cup {""}
    /\ b.sn # "" \/ b.operation = "copy"

AcceptsClaim(cmd, b) ==
    /\ cmd \in {"usb_claim", "usb_return"} => b.sn # ""
    /\ cmd \in {"usb_claim", "claim_verify"} => b.applyCode # ""

\* A command has a handler of its own, or goes through sendCommand or the debugging handler,
\* which leave it to the builder
Accepts(want) ==
    LET b == want.body IN
    CASE want.via # "own" -> want.cmd # "unknown"
      [] want.cmd = "alarm" -> AcceptsAlarm(b)
      [] want.cmd = "operation_log" -> AcceptsOperation(b)
      [] want.cmd \in {"claim_verify", "usb_claim", "usb_return"} -> AcceptsClaim(want.cmd, b)
      [] OTHER -> TRUE

\* Fault: the state is not looked at
FaultyIsOnline == conn # None

\* IsOnline
IsOnline == state = "online"

\* A request comes in, is refused or goes on to send
Arrive(r) ==
    /\ r \in cast /\ req[r].pc = "new"
    /\ \E want \in Wants[r] :
          LET refused == ~IsOnline \/ (want.via # "all" /\ ~Accepts(want)) IN
          req' = [req EXCEPT ![r].want = want, ![r].next = 1,
                             ![r].pc = IF refused THEN "done" ELSE "send"]
    /\ UNCHANGED <<busVars, stationVars, noticeVars, wireVars, logVars, budget, rigid>>

\* The command and the parameters to send now: one, or the next sample
Command(r) == IF req[r].want.via = "all" THEN "alarm" ELSE req[r].want.cmd
Params(r) == IF req[r].want.via = "all" THEN Sample(req[r].next) ELSE req[r].want.body
Total(r) == IF req[r].want.via = "all" THEN Len(Samples) ELSE 1

\* What comes after a command: the next one, or the answer
Then(r, rec) == [rec EXCEPT !.next = @ + 1, !.pc = IF rec.next = Total(r) THEN "done" ELSE "send"]

\* SendCommand: the body is built, and the frame written on the connection there is now
SendCommand(r) ==
    LET body == BuildBody(Command(r), Params(r)) IN
    /\ req[r].pc = "send" /\ ~Failed(body) /\ conn # None
    /\ wire' = Append(wire, [conn |-> conn, cmd |-> Command(r), by |-> r])
    /\ frame' = body
    /\ req' = [req EXCEPT ![r].pc = "publish", ![r].sent = @ + 1]
    /\ UNCHANGED <<busVars, stationVars, noticeVars, logVars, budget, rigid>>

\* Fault: an alarm that could not be sent is not counted
FaultySendFails(r) ==
    /\ req[r].pc = "send"
    /\ Failed(BuildBody(Command(r), Params(r))) \/ conn = None \/ ~calm
    /\ req' = [req EXCEPT ![r] = Then(r, @)]
    /\ UNCHANGED <<busVars, stationVars, noticeVars, wireVars, logVars, budget, rigid>>

\* Or it fails: a body that cannot be built, no connection, or one that cannot be written to.
\* alarmAll goes on with the next sample
SendFails(r) ==
    /\ req[r].pc = "send"
    /\ Failed(BuildBody(Command(r), Params(r))) \/ conn = None \/ ~calm
    /\ req' = [req EXCEPT ![r] = Then(r, [req[r] EXCEPT !.failed = @ + 1])]
    /\ UNCHANGED <<busVars, stationVars, noticeVars, wireVars, logVars, budget, rigid>>

\* Fault: with nobody listening there is nothing to tell, and nothing to log
FaultyNotifyMessageSent(r) ==
    /\ req[r].pc = "publish"
    /\ Publish("message_sent", <<"request", r>>)
    /\ req' = [req EXCEPT ![r] = IF subscribers["message_sent"] = <<>> THEN Then(r, @)
                                 ELSE [@ EXCEPT !.pc = "log"]]
    /\ UNCHANGED <<stationVars, noticeVars, wireVars, logVars, budget, rigid>>

\* NotifyMessageSent: the event ...
NotifyMessageSent(r) ==
    /\ req[r].pc = "publish"
    /\ Publish("message_sent", <<"request", r>>)
    /\ req' = [req EXCEPT ![r].pc = "log"]
    /\ UNCHANGED <<stationVars, noticeVars, wireVars, logVars, budget, rigid>>

\* The frame a request wrote last
LastOf(r) == CHOOSE i \in DOMAIN wire :
    wire[i].by = r /\ \A j \in DOMAIN wire : wire[j].by = r => j <= i

\* ... and, when Publish has returned, the entry in the log; that it fails is not looked at
InsertMessageLog(r) ==
    /\ req[r].pc = "log" /\ Returned(<<"request", r>>)
    /\ \/ log' = log \cup {LastOf(r)}
       \/ ~dbWorks /\ UNCHANGED log
    /\ req' = [req EXCEPT ![r] = Then(r, @)]
    /\ UNCHANGED <<busVars, stationVars, noticeVars, wireVars, cleared, budget, rigid>>

\* clearLogs: everything that is in the log by then
ClearMessageLogs ==
    /\ log # {} /\ Spend("clears")
    /\ log' = {} /\ cleared' = cleared \cup log
    /\ UNCHANGED <<busVars, stationVars, noticeVars, wireVars, req, rigid>>

-----------------------------------------------------------------------------
(* Notices                                                                 *)

\* A notice is made when the state has changed.  Its new state is what was set, for Stop, or
\* is read later ("?").  The number is that of the change
Notice(old, new, n) ==
    [old |-> old, new |-> new, pc |-> IF new = "?" THEN "read" ELSE "publish", n |-> n]

\* OnStateChange is called if it is set
Tell(old, new, n) ==
    notices' = IF "watch" \in cast THEN notices \cup {Notice(old, new, n)} ELSE notices

\* SetState
Change(new, n) ==
    /\ state' = new
    /\ IF state = new THEN UNCHANGED notices ELSE Tell(state, "?", n)
    /\ UNCHANGED <<status, told>>

\* notifyStateChange reads the state again, without the lock ...
ReadState(n) ==
    /\ n \in notices /\ n.pc = "read"
    /\ notices' = (notices \ {n}) \cup {[n EXCEPT !.new = state, !.pc = "publish"]}
    /\ UNCHANGED <<busVars, stationVars, status, told, wireVars, logVars, req, budget, rigid>>

\* ... NotifyStationStateChange publishes it ...
PublishState(n) ==
    /\ n \in notices /\ n.pc = "publish"
    /\ Publish("station_state_changed", <<"notice", n.n>>)
    /\ told' = n.new
    /\ notices' = (notices \ {n}) \cup {[n EXCEPT !.pc = "row"]}
    /\ UNCHANGED <<stationVars, status, wireVars, logVars, req, budget, rigid>>

\* ... and then writes it to the station's row
UpdateStationStatus(n) ==
    /\ n \in notices /\ n.pc = "row" /\ Returned(<<"notice", n.n>>)
    /\ \/ status' = n.new
       \/ ~dbWorks /\ UNCHANGED status
    /\ notices' = notices \ {n}
    /\ UNCHANGED <<busVars, stationVars, told, wireVars, logVars, req, budget, rigid>>

-----------------------------------------------------------------------------
(* The station, as far as it matters here                                  *)

\* In a calm behaviour nothing else is under way when the state changes ...
Quiet == notices = {} /\ answers = {} /\ \A r \in Requests : req[r].pc \in {"new", "done"}
MayChange == "station" \in cast /\ Spend("changes") /\ (calm => Quiet)

\* ... and an answer is not late: the station waits for it, on a connection it still has
Awaited == state = "register" /\ dial = "no" /\ conn # None

\* connectAndRegister, of Start or of the reconnect loop
Connect ==
    /\ MayChange /\ dial = "no" /\ state \in {"idle", "reconnect"}
    /\ dial' = "dial" /\ Change("register", budget.changes)
    /\ UNCHANGED <<busVars, conn, awaiting, answers, resends, wireVars, logVars, req, rigid>>

NextConn == 1 + Cardinality({wire[i].conn : i \in DOMAIN wire})

\* The connection is there; handlers can use it ...
Dialled ==
    /\ dial = "dial" /\ NextConn <= MaxConns /\ (calm => Quiet)
    /\ conn' = NextConn /\ dial' = "register"
    /\ UNCHANGED <<busVars, state, awaiting, answers, resends, noticeVars, wireVars, logVars, req,
                   budget, rigid>>

\* sendRegister, on the connection there is now
WriteRegister ==
    /\ conn # None
    /\ wire' = Append(wire, [conn |-> conn, cmd |-> "register", by |-> None])
    /\ awaiting' = TRUE

\* ... before the registration is sent
SendRegister ==
    /\ dial = "register" /\ WriteRegister
    /\ dial' = "no"
    /\ UNCHANGED <<busVars, state, conn, answers, resends, noticeVars, frame, logVars, req, budget,
                   rigid>>

\* No connection, or the registration could not be sent
ConnectFails ==
    /\ MayChange /\ dial # "no"
    /\ dial' = "no" /\ Change("reconnect", budget.changes)
    /\ UNCHANGED <<busVars, conn, awaiting, answers, resends, wireVars, logVars, req, rigid>>

\* The answers to a registration the station tells apart: what has the code of success or
\* cannot be decoded, CodeNotRegistered, CodeOverCapacity, and other codes or an empty body
Codes == {"success", "notRegistered", "overCapacity", "other"}

\* receiveLoop: an answer is told to the bus (and logged, which is left out: log has what was
\* sent) ...
Received(code) ==
    /\ awaiting /\ MayChange /\ (calm => Awaited)
    /\ Publish("message_received", <<"answer", budget.changes>>)
    /\ awaiting' = FALSE
    /\ answers' = answers \cup {[code |-> code, n |-> budget.changes]}
    /\ UNCHANGED <<state, conn, dial, resends, noticeVars, wireVars, logVars, req, rigid>>

\* ... before handleRegisterResponse looks at it.  It makes the station online, whatever has
\* become of it ...
Registered(a) ==
    /\ a \in answers /\ a.code = "success" /\ Returned(<<"answer", a.n>>)
    /\ answers' = answers \ {a} /\ Change("online", a.n)
    /\ UNCHANGED <<busVars, conn, dial, awaiting, resends, wireVars, logVars, req, budget, rigid>>

\* ... or idle, which it stays, with its connection ...
Refused(a) ==
    /\ a \in answers /\ a.code = "overCapacity" /\ Returned(<<"answer", a.n>>)
    /\ answers' = answers \ {a} /\ Change("idle", a.n)
    /\ UNCHANGED <<busVars, conn, dial, awaiting, resends, wireVars, logVars, req, budget, rigid>>

\* ... or has the registration sent once more, or changes nothing
NotRegistered(a) ==
    /\ a \in answers /\ a.code \in {"notRegistered", "other"} /\ Returned(<<"answer", a.n>>)
    /\ answers' = answers \ {a}
    /\ resends' = IF a.code = "notRegistered" THEN resends + 1 ELSE resends
    /\ UNCHANGED <<busVars, state, conn, dial, awaiting, noticeVars, wireVars, logVars, req, budget,
                   rigid>>

\* Five seconds later, on whatever connection there is, if any; that it fails is only logged
ResendRegister ==
    /\ resends > 0 /\ resends' = resends - 1
    /\ WriteRegister \/ UNCHANGED <<wire, awaiting>>
    /\ UNCHANGED <<busVars, state, conn, dial, answers, noticeVars, frame, logVars, req, budget,
                   rigid>>

\* Nothing came in time
RegisterTimeout ==
    /\ MayChange /\ state = "register" /\ dial = "no"
    /\ Change("reconnect", budget.changes)
    /\ UNCHANGED <<busVars, conn, dial, awaiting, answers, resends, wireVars, logVars, req, rigid>>

\* Fault: the change is not told
FaultyHandleDisconnect ==
    /\ MayChange /\ conn # None
    /\ conn' = None /\ awaiting' = FALSE
    /\ state' = "reconnect"
    /\ UNCHANGED <<busVars, dial, answers, resends, noticeVars, wireVars, logVars, req, rigid>>

\* handleDisconnect: told to nobody unless the station was online
HandleDisconnect ==
    /\ MayChange /\ conn # None
    /\ conn' = None /\ awaiting' = FALSE
    /\ state' = "reconnect"
    /\ IF state = "online" THEN Tell(state, "?", budget.changes) ELSE UNCHANGED notices
    /\ UNCHANGED <<busVars, dial, answers, resends, status, told, wireVars, logVars, req, rigid>>

\* Stop: told by a goroutine of its own
Stop ==
    /\ MayChange
    /\ conn' = None /\ state' = "idle" /\ awaiting' = FALSE
    /\ IF state # "idle" THEN Tell(state, "idle", budget.changes) ELSE UNCHANGED notices
    /\ UNCHANGED <<busVars, dial, answers, resends, status, told, wireVars, logVars, req, rigid>>

\* The handlers that start, stop or restart the station tell the state once more themselves,
\* changed or not
HandlerNotice ==
    /\ "watch" \in cast /\ MayChange
    /\ Tell(state, "?", budget.changes)
    /\ UNCHANGED <<busVars, stationVars, status, told, wireVars, logVars, req, rigid>>

\* Events of other stations and of the devices, each published by a goroutine of its own
Others ==
    /\ "others" \in cast /\ Spend("others")
    /\ \E t \in ToSet(WsEventTypes) : Publish(t, <<"others", None>>)
    /\ UNCHANGED <<stationVars, noticeVars, wireVars, logVars, req, rigid>>

-----------------------------------------------------------------------------
Handler(r) ==
    Arrive(r) \/ SendCommand(r) \/ SendFails(r) \/ NotifyMessageSent(r) \/ InsertMessageLog(r)

StationNext ==
    \/ Connect \/ Dialled \/ SendRegister \/ ConnectFails \/ RegisterTimeout
    \/ \E code \in Codes : Received(code)
    \/ \E a \in answers : Registered(a) \/ Refused(a) \/ NotRegistered(a)
    \/ ResendRegister \/ HandleDisconnect \/ Stop \/ HandlerNotice

\* A step of a client, or of a publication, changes nothing but the bus
OnBus ==
    /\ (\E c \in Clients \cap cast : ClientNext(c)) \/ (\E p \in publishing : Send(p))
    /\ UNCHANGED <<stationVars, noticeVars, wireVars, logVars, req, budget, rigid>>

Next ==
    \/ \E r \in Requests : Handler(r)
    \/ ClearMessageLogs
    \/ \E n \in notices : ReadState(n) \/ PublishState(n) \/ UpdateStationStatus(n)
    \/ StationNext
    \/ Others
    \/ OnBus

Spec == Init /\ [][Next]_vars

FairSpec == Spec /\ BusFairness
-----------------------------------------------------------------------------
(* Properties                                                              *)

\* Types of the variables
TypeOK ==
    /\ BusTypeOK
    /\ state \in {"idle", "register", "online", "reconnect"}
    /\ conn \in 0..MaxConns /\ dial \in {"no", "dial", "register"} /\ awaiting \in BOOLEAN
    /\ \A a \in answers : a.code \in Codes
    /\ resends \in Nat
    /\ \A n \in notices : n.pc \in {"read", "publish", "row"} /\ (n.new = "?" <=> n.pc = "read")
    /\ log \cup cleared \subseteq DOMAIN wire
    /\ \A r \in Requests :
          /\ req[r].pc \in {"new", "send", "publish", "log", "done"}
          /\ req[r].sent + req[r].failed \in 0..Len(Samples)

\* The rules of the protocol for bodies that the builders keep ...
ValidBuilt(cmd, body) ==
    CASE cmd = "alarm" ->
            IsSafeUdiskAlarm(body.type) =>
                /\ body.reason \in {5, 6} => body.sn = ""
                /\ body.reason \in {5, 6, 29} => body.door = None
      [] cmd = "operation_log" ->
            /\ body.operation \in ValidOperations
            /\ body.result \in IF body.operation \in {"insert", "remove"} THEN {"success"}
                               ELSE {"success", "fail"}
      [] cmd = "usb_claim" -> body.sn # "" /\ body.applyCode # ""
      [] cmd = "usb_return" -> body.sn # ""
      [] cmd = "claim_verify" -> body.applyCode # ""
      [] OTHER -> TRUE

\* ... and those that only a command's own handler keeps
ValidChecked(cmd, body) ==
    CASE cmd = "alarm" ->
            IsSafeUdiskAlarm(body.type) => IsValidReasonForType(body.type, body.reason)
      [] cmd = "operation_log" -> body.operation # "copy" => body.sn # ""
      [] OTHER -> TRUE

\* A body that was just sent keeps the rules of its builder, by whatever way it came to be sent,
\* and those of the command's own handler if it came through that or is one of the samples.
\* (sendCommand and the debugging handler do not keep the latter; that the result of a claim is
\* "success" or "fail" is a rule nobody keeps)
BodyInv ==
    \A r \in Requests :
        req[r].pc = "publish" /\ LastOf(r) = Len(wire) =>
            /\ ValidBuilt(Command(r), frame)
            /\ req[r].want.via \in {"own", "all"} => ValidChecked(Command(r), frame)

\* If the station does not change under a request, nothing is sent on a connection before the
\* registration on it
RegisteredFirst ==
    calm => \A i \in DOMAIN wire :
        wire[i].by # None => \E j \in 1..(i - 1) : wire[j] = [wire[i] EXCEPT !.cmd = "register",
                                                                              !.by = None]

\* Between writing a frame and its entry in the log
Pending == {LastOf(r) : r \in {q \in Requests : req[q].pc \in {"publish", "log"}}}

\* Every frame that was sent by a request, and no other, is in the log, was, or is about to be,
\* as long as the database works
SentIsLogged ==
    LET sent == {i \in DOMAIN wire : wire[i].by # None} IN
    /\ log \cup cleared \subseteq sent
    /\ dbWorks => sent = log \cup cleared \cup Pending

\* Whatever happens to the station meanwhile, alarmAll accounts for all of its samples, and
\* what it counts as sent was written
SamplesCounted ==
    \A r \in Requests :
        /\ req[r].sent = Cardinality({i \in DOMAIN wire : wire[i].by = r})
        /\ req[r].pc = "done" /\ req[r].want.via = "all" /\ req[r].next > 1
              => req[r].sent + req[r].failed = Len(Samples)

\* What was sent can be told from the log and from the answer to the request
LogInv == TypeOK /\ SentIsLogged /\ SamplesCounted

\* If the changes of a station do not overlap then, once told, the last event and the row show
\* it online if and only if it is
OnlineIsTold ==
    calm /\ "watch" \in cast /\ notices = {} =>
        /\ told = "online" <=> state = "online"
        /\ dbWorks => (status = "online" <=> state = "online")
=============================================================================
