------------------------------- MODULE Station -------------------------------
(***************************************************************************)
(* One simulated station (internal/simulator/station.go): the state of a   *)
(* SimStation and every goroutine that touches it.  The goroutines are     *)
(*   - the callers of Start, Stop, Restart and ReinitWithNewAddr (HTTP     *)
(*     handlers and the hub), and the reconnectLoops: both run             *)
(*     connectAndRegister, so both are agents with a program counter;      *)
(*   - one receiveLoop per dialled connection;                             *)
(*   - heartbeat loops, register-timeout watchers, delayed re-registers    *)
(*     and freshly spawned reconnectLoops, which carry no state of their   *)
(*     own beyond the context they wait on and are therefore counted.      *)
(* A step is what the code does between two points where another           *)
(* goroutine can intervene: one critical section of s.mu, one load of an   *)
(* unlocked field, one blocking call.  The server and the network are the  *)
(* environment: a dial may fail, a reply may take any time or never come,  *)
(* a connection may be closed by the peer at any moment.                   *)
(***************************************************************************)
EXTENDS Naturals, FiniteSets

CONSTANTS
    Loops,      \* reconnectLoop goroutines that have won the guard
    Callers,    \* goroutines calling Start / Stop / Restart
    Ops,        \* which of "start", "stop", "restart" the callers use
    Replies,    \* register replies the server may give
    MaxConns,   \* bound: successful dials
    MaxGens,    \* bound: contexts created
    MaxStops,   \* bound: calls of Stop
    MaxPend,    \* bound: spawned reconnectLoops that have not run yet
    MaxCloses,  \* bound: connections the server closes
    HeartbeatEnabled,   \* the station's configuration flag
    CalmClose,  \* TRUE: the server closes no connection during a registration
    Timely      \* TRUE: timers (5 s and longer) fire only after all prompt work is done

ASSUME StationAssumption ==
    /\ Loops \cap Callers = {}
    /\ IsFiniteSet(Loops)
    /\ Ops \subseteq {"start", "stop", "restart"}
    /\ Replies \subseteq {"ok", "okHeaderId", "undecodable", "notRegistered",
                          "overCapacity", "other"}
    /\ MaxConns \in Nat /\ MaxGens \in Nat \ {0} /\ MaxStops \in Nat
    /\ MaxPend \in Nat \ {0} /\ MaxCloses \in Nat
    /\ HeartbeatEnabled \in BOOLEAN /\ CalmClose \in BOOLEAN /\ Timely \in BOOLEAN

VARIABLES
    \* --- fields of the SimStation struct ---
    state,          \* State
    conn,           \* conn: the number of the current connection, 0 for nil
    devId,          \* DeviceID: the connection whose register was answered, 0 if none
    ctx,            \* ctx: the number of the current context
    cancelled,      \* contexts whose cancel function was called
    reconnecting,   \* the atomic guard of reconnectLoop
    \* --- goroutines ---
    pc,             \* program counter of every agent
    held,           \* the context each waiting reconnectLoop selects on
    rpc, rconn,     \* receiveLoops: program counter, connection being read
    pend,           \* "go s.reconnectLoop()" executed, CompareAndSwap still to come
    watchers,       \* register-timeout goroutines asleep
    expired,        \* watchers that saw StateRegister and will now set StateReconnect
    resends,        \* goroutines sleeping before a second sendRegister
    hbNew,          \* heartbeat loops about to enter their select
    hb,             \* heartbeat loops in select, by the context they wait on
    hbSending,      \* heartbeat loops between IsOnline and sendFrame
    hbFailing,      \* heartbeat loops about to call handleDisconnect
    \* --- sockets ---
    dials,          \* connections established so far
    closedL,        \* closed by the station
    closedR,        \* closed by the server
    req,            \* register requests sent and not answered, by connection
    \* --- process and history ---
    crashed,        \* a goroutine dereferenced a nil conn: the process is gone
    stops           \* calls of Stop so far

structVars == <<state, conn, devId, ctx, cancelled, reconnecting>>
agentVars  == <<pc, held>>
recvVars   == <<rpc, rconn>>
timerVars  == <<watchers, expired, resends>>
hbVars     == <<hbNew, hb, hbSending, hbFailing>>
sockVars   == <<dials, closedL, closedR, req>>
vars == <<structVars, agentVars, recvVars, pend, timerVars, hbVars, sockVars,
          crashed, stops>>

Agents == Loops \cup Callers
Conns  == 1..MaxConns
Gens   == 1..MaxGens

StationState == {"idle", "register", "online", "reconnect"}
AgentPC == {"off", "reinit", "check", "renew", "enter", "dial", "send", "select", "wait", "exit"}
RecvPC  == {"off", "check", "load", "read", "body", "disc",
            "setId", "setOnline", "forceOnline", "forceId"}

Init ==
    /\ state = "idle" /\ conn = 0 /\ devId = 0
    /\ ctx = 1 /\ cancelled = {} /\ reconnecting = FALSE
    /\ pc = [a \in Agents |-> "off"] /\ held = [l \in Loops |-> 1]
    /\ rpc = [c \in Conns |-> "off"] /\ rconn = [c \in Conns |-> 0]
    /\ pend = 0
    /\ watchers = 0 /\ expired = 0 /\ resends = 0
    /\ hbNew = 0 /\ hb = [g \in Gens |-> 0] /\ hbSending = 0 /\ hbFailing = 0
    /\ dials = 0 /\ closedL = {} /\ closedR = {} /\ req = [c \in Conns |-> 0]
    /\ crashed = FALSE /\ stops = 0

\* An operator whose name begins with Faulty is the operation that follows it with
\* a mistake planted in it: no specification uses it, and the property that must
\* catch it is named beside it.

-----------------------------------------------------------------------------
(* Pieces shared by several operations.                                    *)

\* go s.reconnectLoop()
SpawnReconnect == pend < MaxPend /\ pend' = pend + 1

\* The socket is closed and s.conn keeps it (ConnOpen)
FaultyDropConn ==
    /\ closedL' = IF conn = 0 THEN closedL ELSE closedL \cup {conn}
    /\ conn' = conn

\* if s.conn != nil { s.conn.Close(); s.conn = nil }, always under s.mu
DropConn ==
    /\ closedL' = IF conn = 0 THEN closedL ELSE closedL \cup {conn}
    /\ conn' = 0

\* There is a connection to write to or read from
Connected == conn # 0 /\ conn \notin closedL

\* sendFrame fails: no connection, or the write returns an error
MayFailWrite == conn = 0 \/ conn \in closedL \cup closedR

\* A read on x returns an error
Broken(x) == x \in closedL \cup closedR

\* Where an agent continues after connectAndRegister returned nil / an error
Succeeded(a) == IF a \in Loops THEN "exit" ELSE "off"
Failed(a)    == IF a \in Loops THEN "select" ELSE "off"

Goto(a, label) == pc' = [pc EXCEPT ![a] = label]
RGoto(c, label) == rpc' = [rpc EXCEPT ![c] = label]

\* Nothing that proceeds without a timer or the server is left to do
Quiet ==
    /\ pend = 0 /\ expired = 0 /\ hbNew = 0 /\ hbSending = 0 /\ hbFailing = 0
    /\ \A a \in Agents : pc[a] \in {"off", "wait"}
    /\ \A c \in Conns :
          \/ rpc[c] = "off"
          \/ rpc[c] = "read" /\ ~Broken(rconn[c]) /\ req[rconn[c]] = 0

\* A sleep or a ticker may end at any moment, or, when the instance assumes the
\* station prompt, once nothing else can run
TimerFires == Timely => Quiet

-----------------------------------------------------------------------------
(* Start, Stop, Restart, ReinitWithNewAddr.                                *)

\* Contexts that the calls under way will still create: a call starts only while
\* MaxGens leaves room for them
ContextsDue ==
    Cardinality({a \in Callers : pc[a] \in {"reinit", "check", "renew"}})
      + Cardinality({a \in Callers : pc[a] = "reinit"})

\* Start: the state check under the lock, which is released before acting on it
StartCheck(a) ==
    /\ \/ pc[a] = "check"
       \/ pc[a] = "off" /\ "start" \in Ops /\ ctx + ContextsDue < MaxGens
    /\ Goto(a, IF state \in {"idle", "reconnect"} THEN "renew" ELSE "off")
    /\ UNCHANGED <<structVars, held, recvVars, pend, timerVars, hbVars,
                   sockVars, crashed, stops>>

\* Start: a new context (and msgCh), unlocked, then connectAndRegister
StartRenew(a) ==
    /\ pc[a] = "renew"
    /\ ctx < MaxGens
    /\ ctx' = ctx + 1
    /\ Goto(a, "enter")
    /\ UNCHANGED <<state, conn, devId, cancelled, reconnecting, held, recvVars,
                   pend, timerVars, hbVars, sockVars, crashed, stops>>

\* The critical section of Stop
StopBody ==
    /\ stops < MaxStops
    /\ stops' = stops + 1
    /\ cancelled' = cancelled \cup {ctx}
    /\ DropConn
    /\ state' = "idle"
    /\ devId' = 0
    /\ reconnecting' = FALSE

Stop(a) ==
    /\ "stop" \in Ops
    /\ pc[a] = "off"
    /\ StopBody
    /\ UNCHANGED <<ctx, agentVars, recvVars, pend, timerVars, hbVars, dials,
                   closedR, req, crashed>>

\* Restart, and the hub's Stop + ReinitWithNewAddr + Start: the Stop
RestartStop(a) ==
    /\ "restart" \in Ops
    /\ pc[a] = "off"
    /\ ctx + ContextsDue + 1 < MaxGens
    /\ StopBody
    /\ Goto(a, "reinit")
    /\ UNCHANGED <<ctx, held, recvVars, pend, timerVars, hbVars, dials,
                   closedR, req, crashed>>

\* ... the new context, the pause, and then Start with its state check
RestartRenew(a) ==
    /\ pc[a] = "reinit"
    /\ ctx < MaxGens
    /\ ctx' = ctx + 1
    /\ Goto(a, "check")
    /\ UNCHANGED <<state, conn, devId, cancelled, reconnecting, held, recvVars,
                   pend, timerVars, hbVars, sockVars, crashed, stops>>

-----------------------------------------------------------------------------
(* connectAndRegister, run by a Start caller or by a reconnectLoop.        *)

\* s.SetState(StateRegister)
EnterRegister(a) ==
    /\ pc[a] = "enter"
    /\ state' = "register"
    /\ Goto(a, "dial")
    /\ UNCHANGED <<conn, devId, ctx, cancelled, reconnecting, held, recvVars,
                   pend, timerVars, hbVars, sockVars, crashed, stops>>

\* No reconnectLoop for a first dial that fails (Recovers)
FaultyDialFail(a) ==
    /\ pc[a] = "dial"
    /\ state' = "reconnect"
    /\ Goto(a, Failed(a))
    /\ UNCHANGED <<conn, devId, ctx, cancelled, reconnecting, held, recvVars,
                   pend, timerVars, hbVars, sockVars, crashed, stops>>

\* The dial fails: StateReconnect, a new reconnectLoop, an error
DialFail(a) ==
    /\ pc[a] = "dial"
    /\ state' = "reconnect"
    /\ SpawnReconnect
    /\ Goto(a, Failed(a))
    /\ UNCHANGED <<conn, devId, ctx, cancelled, reconnecting, held, recvVars,
                   timerVars, hbVars, sockVars, crashed, stops>>

\* The dial succeeds: s.conn is overwritten, whatever it held stays open, and
\* the receiveLoop of the new connection is spawned
DialOk(a) ==
    /\ pc[a] = "dial"
    /\ dials < MaxConns
    /\ dials' = dials + 1
    /\ conn' = dials + 1
    /\ RGoto(dials + 1, "check")
    /\ Goto(a, "send")
    /\ UNCHANGED <<state, devId, ctx, cancelled, reconnecting, held, rconn, pend,
                   timerVars, hbVars, closedL, closedR, req, crashed, stops>>

\* sendRegister on whatever connection is current; the watcher is spawned and
\* connectAndRegister returns nil
RegisterSent(a) ==
    /\ pc[a] = "send"
    /\ Connected
    /\ req' = [req EXCEPT ![conn] = @ + 1]
    /\ watchers' = watchers + 1
    /\ Goto(a, Succeeded(a))
    /\ UNCHANGED <<structVars, held, recvVars, pend, expired, resends, hbVars,
                   dials, closedL, closedR, crashed, stops>>

\* sendRegister fails: StateReconnect and an error, no reconnectLoop is spawned
RegisterFailed(a) ==
    /\ pc[a] = "send"
    /\ MayFailWrite
    /\ state' = "reconnect"
    /\ Goto(a, Failed(a))
    /\ UNCHANGED <<conn, devId, ctx, cancelled, reconnecting, held, recvVars,
                   pend, timerVars, hbVars, sockVars, crashed, stops>>

\* A watcher wakes up and reads the state ...
WatcherWakes ==
    /\ watchers > 0
    /\ TimerFires
    /\ watchers' = watchers - 1
    /\ expired' = IF state = "register" THEN expired + 1 ELSE expired
    /\ UNCHANGED <<structVars, agentVars, recvVars, pend, resends, hbVars,
                   sockVars, crashed, stops>>

\* ... and, if it read StateRegister, sets StateReconnect and spawns a
\* reconnectLoop, without looking at the state again
WatcherExpires ==
    /\ expired > 0
    /\ expired' = expired - 1
    /\ state' = "reconnect"
    /\ SpawnReconnect
    /\ UNCHANGED <<conn, devId, ctx, cancelled, reconnecting, agentVars, recvVars,
                   watchers, resends, hbVars, sockVars, crashed, stops>>

-----------------------------------------------------------------------------
(* reconnectLoop.                                                          *)

\* Store(true) instead of CompareAndSwap (ReconnectGuard)
FaultyLoopWins(l) ==
    /\ pend > 0 /\ pend' = pend - 1
    /\ reconnecting' = TRUE
    /\ pc[l] = "off"
    /\ Goto(l, "enter")
    /\ UNCHANGED <<state, conn, devId, ctx, cancelled, held, recvVars, timerVars,
                   hbVars, sockVars, crashed, stops>>

\* CompareAndSwap(false, true) succeeds: this goroutine is the loop
LoopWins(l) ==
    /\ pend > 0 /\ pend' = pend - 1
    /\ ~reconnecting
    /\ reconnecting' = TRUE
    /\ pc[l] = "off"
    /\ Goto(l, "enter")
    /\ UNCHANGED <<state, conn, devId, ctx, cancelled, held, recvVars, timerVars,
                   hbVars, sockVars, crashed, stops>>

\* CompareAndSwap fails: the goroutine returns
LoopLoses ==
    /\ pend > 0 /\ pend' = pend - 1
    /\ reconnecting
    /\ UNCHANGED <<structVars, agentVars, recvVars, timerVars, hbVars, sockVars,
                   crashed, stops>>

\* After a failure the loop enters its select, on the context that is current now
LoopSelects(l) ==
    /\ pc[l] = "select"
    /\ held' = [held EXCEPT ![l] = ctx]
    /\ Goto(l, "wait")
    /\ UNCHANGED <<structVars, recvVars, pend, timerVars, hbVars, sockVars,
                   crashed, stops>>

\* The 60 s ticker: another attempt
LoopTick(l) ==
    /\ pc[l] = "wait"
    /\ TimerFires
    /\ Goto(l, "enter")
    /\ UNCHANGED <<structVars, held, recvVars, pend, timerVars, hbVars, sockVars,
                   crashed, stops>>

\* <-s.ctx.Done()
LoopCancelled(l) ==
    /\ pc[l] = "wait"
    /\ held[l] \in cancelled
    /\ Goto(l, "exit")
    /\ UNCHANGED <<structVars, held, recvVars, pend, timerVars, hbVars, sockVars,
                   crashed, stops>>

\* The deferred Store is missing (GuardHeld)
FaultyLoopExit(l) ==
    /\ pc[l] = "exit"
    /\ Goto(l, "off")
    /\ UNCHANGED <<structVars, held, recvVars, pend, timerVars, hbVars,
                   sockVars, crashed, stops>>

\* defer s.reconnecting.Store(false)
LoopExit(l) ==
    /\ pc[l] = "exit"
    /\ reconnecting' = FALSE
    /\ Goto(l, "off")
    /\ UNCHANGED <<state, conn, devId, ctx, cancelled, held, recvVars, pend,
                   timerVars, hbVars, sockVars, crashed, stops>>

-----------------------------------------------------------------------------
(* receiveLoop.  Each iteration loads s.conn anew, so the loop spawned for *)
(* one connection may go on reading another.                               *)

\* <-s.ctx.Done(), s.conn == nil
RecvCheck(c) ==
    /\ rpc[c] = "check"
    /\ RGoto(c, IF ctx \in cancelled \/ conn = 0 THEN "off" ELSE "load")
    /\ UNCHANGED <<structVars, agentVars, rconn, pend, timerVars, hbVars,
                   sockVars, crashed, stops>>

\* s.conn.Read in readExact: conn is loaded again, and may be nil by now
RecvLoad(c) ==
    /\ rpc[c] = "load"
    /\ conn # 0
    /\ rconn' = [rconn EXCEPT ![c] = conn]
    /\ RGoto(c, "read")
    /\ UNCHANGED <<structVars, agentVars, pend, timerVars, hbVars, sockVars,
                   crashed, stops>>

\* A nil conn is dereferenced, before the header or before the body: panic
RecvPanic(c) ==
    /\ rpc[c] \in {"load", "body"}
    /\ conn = 0
    /\ crashed' = TRUE
    /\ UNCHANGED <<structVars, agentVars, recvVars, pend, timerVars, hbVars,
                   sockVars, stops>>

\* receiveLoop returns on a read error without handleDisconnect (CurrentConnRead)
FaultyRecvError(c) ==
    /\ \/ rpc[c] = "read" /\ Broken(rconn[c])
       \/ rpc[c] = "body" /\ (Broken(rconn[c]) \/ conn \in closedR)
    /\ RGoto(c, "off")
    /\ UNCHANGED <<structVars, agentVars, rconn, pend, timerVars, hbVars,
                   sockVars, crashed, stops>>

\* The read of a header or of a body fails: on to handleDisconnect
RecvError(c) ==
    /\ \/ rpc[c] = "read" /\ Broken(rconn[c])
       \/ rpc[c] = "body" /\ (Broken(rconn[c]) \/ conn \in closedR)
    /\ RGoto(c, "disc")
    /\ UNCHANGED <<structVars, agentVars, rconn, pend, timerVars, hbVars,
                   sockVars, crashed, stops>>

\* A frame without effect on the connection state (heartbeat reply, command
\* replies, frames with an invalid header) is read and dispatched
RecvOther(c) ==
    /\ rpc[c] = "read"
    /\ rconn[c] \notin closedL \cup closedR
    /\ RGoto(c, "check")
    /\ UNCHANGED <<structVars, agentVars, rconn, pend, timerVars, hbVars,
                   sockVars, crashed, stops>>

\* The header of a register reply
RecvHeader(c) ==
    /\ rpc[c] = "read"
    /\ rconn[c] \notin closedL
    /\ req[rconn[c]] > 0
    /\ req' = [req EXCEPT ![rconn[c]] = @ - 1]
    /\ RGoto(c, "body")
    /\ UNCHANGED <<structVars, agentVars, rconn, pend, timerVars, hbVars,
                   dials, closedL, closedR, crashed, stops>>

\* Its body, read from the connection that is current by now (bytes of another
\* connection do not decode), and the dispatch of handleRegisterResponse
RecvBody(c) ==
    /\ rpc[c] = "body"
    /\ Connected
    /\ \E r \in IF conn = rconn[c] THEN Replies ELSE {"undecodable"} :
          /\ RGoto(c, CASE r = "ok"          -> "setId"
                         [] r = "okHeaderId"  -> "setOnline"
                         [] r = "undecodable" -> "forceOnline"
                         [] OTHER             -> "check")
          /\ resends' = IF r = "notRegistered" THEN resends + 1 ELSE resends
          /\ state' = IF r = "overCapacity" THEN "idle" ELSE state
    /\ UNCHANGED <<conn, devId, ctx, cancelled, reconnecting, agentVars, rconn,
                   pend, watchers, expired, hbVars, sockVars, crashed, stops>>

\* Code 0: SetDeviceID with the id found in the JSON
ReplySetId(c) ==
    /\ rpc[c] = "setId"
    /\ devId' = rconn[c]
    /\ RGoto(c, "setOnline")
    /\ UNCHANGED <<state, conn, ctx, cancelled, reconnecting, agentVars, rconn,
                   pend, timerVars, hbVars, sockVars, crashed, stops>>

\* The DevID of the frame header, when DeviceID is still 0 and the header has one
HeaderFallback(c) ==
    devId' \in IF devId = 0 THEN {0, rconn[c]} ELSE {devId}

\* No heartbeat for a station without a device id (HeartbeatAlive)
FaultySpawnHeartbeat ==
    hbNew' = IF HeartbeatEnabled /\ devId # 0 THEN hbNew + 1 ELSE hbNew

\* if s.HeartbeatEnabled { go s.StartHeartbeatLoop() }
SpawnHeartbeat == hbNew' = IF HeartbeatEnabled THEN hbNew + 1 ELSE hbNew

\* Code 0, continued: header fallback, StateOnline, heartbeat and info report
ReplySetOnline(c) ==
    /\ rpc[c] = "setOnline"
    /\ HeaderFallback(c)
    /\ state' = "online"
    /\ SpawnHeartbeat
    /\ RGoto(c, "check")
    /\ UNCHANGED <<conn, ctx, cancelled, reconnecting, agentVars, rconn, pend,
                   timerVars, hb, hbSending, hbFailing, sockVars, crashed, stops>>

\* A body that does not decode: StateOnline first ...
ReplyForceOnline(c) ==
    /\ rpc[c] = "forceOnline"
    /\ state' = "online"
    /\ RGoto(c, "forceId")
    /\ UNCHANGED <<conn, devId, ctx, cancelled, reconnecting, agentVars, rconn,
                   pend, timerVars, hbVars, sockVars, crashed, stops>>

\* ... then the id of the header, and the heartbeat
ReplyForceId(c) ==
    /\ rpc[c] = "forceId"
    /\ HeaderFallback(c)
    /\ SpawnHeartbeat
    /\ RGoto(c, "check")
    /\ UNCHANGED <<state, conn, ctx, cancelled, reconnecting, agentVars, rconn,
                   pend, timerVars, hb, hbSending, hbFailing, sockVars, crashed, stops>>

\* The device id outlives its connection (QuietConsistent)
FaultyDisconnectId ==
    /\ DropConn
    /\ state' = "reconnect"
    /\ devId' = devId
    /\ SpawnReconnect

\* No reconnectLoop is started (NotStranded)
FaultyDisconnectSpawn ==
    /\ DropConn
    /\ state' = "reconnect"
    /\ devId' = 0
    /\ pend' = pend

\* The critical section of handleDisconnect and the goroutine it spawns.  It
\* closes the current connection, whichever one the caller saw fail
DisconnectBody ==
    /\ DropConn
    /\ state' = "reconnect"
    /\ devId' = 0
    /\ SpawnReconnect

RecvDisconnect(c) ==
    /\ rpc[c] = "disc"
    /\ DisconnectBody
    /\ RGoto(c, "off")
    /\ UNCHANGED <<ctx, cancelled, reconnecting, agentVars, rconn, timerVars,
                   hbVars, dials, closedR, req, crashed, stops>>

\* Five seconds after code 1000: sendRegister; a failure is only logged
ResendRegister ==
    /\ resends > 0
    /\ TimerFires
    /\ resends' = resends - 1
    /\ \/ Connected /\ req' = [req EXCEPT ![conn] = @ + 1]
       \/ MayFailWrite /\ req' = req
    /\ UNCHANGED <<structVars, agentVars, recvVars, pend, watchers, expired,
                   hbVars, dials, closedL, closedR, crashed, stops>>

-----------------------------------------------------------------------------
(* StartHeartbeatLoop.                                                     *)

\* The select is entered, on the context that is current now
HbSelects ==
    /\ hbNew > 0
    /\ hbNew' = hbNew - 1
    /\ hb' = [hb EXCEPT ![ctx] = @ + 1]
    /\ UNCHANGED <<structVars, agentVars, recvVars, pend, timerVars, hbSending,
                   hbFailing, sockVars, crashed, stops>>

\* The ticker fires and IsOnline is read: go on to send, or return
HbTick(g) ==
    /\ hb[g] > 0
    /\ TimerFires
    /\ hb' = [hb EXCEPT ![g] = @ - 1]
    /\ hbSending' = IF state = "online" THEN hbSending + 1 ELSE hbSending
    /\ UNCHANGED <<structVars, agentVars, recvVars, pend, timerVars, hbNew, hbFailing,
                   sockVars, crashed, stops>>

\* <-s.ctx.Done()
HbCancelled(g) ==
    /\ hb[g] > 0
    /\ g \in cancelled
    /\ hb' = [hb EXCEPT ![g] = @ - 1]
    /\ UNCHANGED <<structVars, agentVars, recvVars, pend, timerVars, hbNew,
                   hbSending, hbFailing, sockVars, crashed, stops>>

\* sendFrame succeeds: back to select
HbSent ==
    /\ hbSending > 0
    /\ Connected
    /\ hbSending' = hbSending - 1
    /\ hbNew' = hbNew + 1
    /\ UNCHANGED <<structVars, agentVars, recvVars, pend, timerVars, hb, hbFailing,
                   sockVars, crashed, stops>>

\* sendFrame fails
HbFails ==
    /\ hbSending > 0
    /\ MayFailWrite
    /\ hbSending' = hbSending - 1
    /\ hbFailing' = hbFailing + 1
    /\ UNCHANGED <<structVars, agentVars, recvVars, pend, timerVars, hbNew, hb,
                   sockVars, crashed, stops>>

HbDisconnect ==
    /\ hbFailing > 0
    /\ hbFailing' = hbFailing - 1
    /\ DisconnectBody
    /\ UNCHANGED <<ctx, cancelled, reconnecting, agentVars, recvVars, timerVars,
                   hbNew, hb, hbSending, dials, closedR, req, crashed, stops>>

-----------------------------------------------------------------------------
(* The server.                                                             *)

\* The peer closes a connection.  With CalmClose it does not do so while the
\* station dials or registers, before the goroutine that registered has returned,
\* or between the IsOnline and the sendFrame of a heartbeat
ServerClose(c) ==
    /\ c <= dials
    /\ c \notin closedR
    /\ Cardinality(closedR) < MaxCloses
    /\ CalmClose => hbSending = 0 /\ \A a \in Agents : pc[a] \in {"off", "wait"}
    /\ closedR' = closedR \cup {c}
    /\ UNCHANGED <<structVars, agentVars, recvVars, pend, timerVars, hbVars,
                   dials, closedL, req, crashed, stops>>

-----------------------------------------------------------------------------
CallerStep(a) ==
    \/ StartCheck(a) \/ StartRenew(a)
    \/ Stop(a) \/ RestartStop(a) \/ RestartRenew(a)

ConnectStep(a) ==
    \/ EnterRegister(a) \/ DialFail(a) \/ DialOk(a)
    \/ RegisterSent(a) \/ RegisterFailed(a)

LoopStep(l) ==
    \/ LoopWins(l) \/ LoopSelects(l) \/ LoopTick(l) \/ LoopCancelled(l) \/ LoopExit(l)

RecvStep(c) ==
    \/ RecvCheck(c) \/ RecvLoad(c) \/ RecvPanic(c) \/ RecvError(c)
    \/ RecvOther(c) \/ RecvHeader(c) \/ RecvBody(c)
    \/ ReplySetId(c) \/ ReplySetOnline(c)
    \/ ReplyForceOnline(c) \/ ReplyForceId(c) \/ RecvDisconnect(c)

TimerStep == WatcherWakes \/ WatcherExpires \/ ResendRegister \/ LoopLoses

HbStep ==
    \/ \E g \in Gens : HbTick(g) \/ HbCancelled(g)
    \/ HbSelects \/ HbSent \/ HbFails \/ HbDisconnect

Next ==
    /\ ~crashed
    /\ \/ \E a \in Callers : CallerStep(a)
       \/ \E a \in Agents : ConnectStep(a)
       \/ \E l \in Loops : LoopStep(l)
       \/ \E c \in Conns : RecvStep(c) \/ ServerClose(c)
       \/ TimerStep
       \/ HbStep

Spec == Init /\ [][Next]_vars

\* What the Go scheduler and the kernel provide: a runnable goroutine runs, a
\* timer fires, data and errors reach a blocked read even when other frames keep
\* arriving, and the server can be reached again and again.  Callers are users:
\* nothing makes them call, but a call they made goes on
Fairness ==
    /\ \A a \in Agents : WF_vars(~crashed /\ ConnectStep(a)) /\ SF_vars(~crashed /\ DialOk(a))
    /\ \A a \in Callers : WF_vars(~crashed /\ (StartRenew(a) \/ RestartRenew(a)))
    /\ \A l \in Loops : /\ WF_vars(~crashed /\ LoopWins(l))
                        /\ WF_vars(~crashed /\ (LoopSelects(l) \/ LoopTick(l) \/ LoopExit(l)))
    /\ \A c \in Conns : /\ WF_vars(~crashed /\ RecvStep(c))
                        /\ SF_vars(~crashed /\ RecvError(c))
                        /\ SF_vars(~crashed /\ RecvHeader(c))
    /\ WF_vars(~crashed /\ LoopLoses) /\ WF_vars(~crashed /\ WatcherExpires)
    /\ WF_vars(~crashed /\ HbSelects) /\ WF_vars(~crashed /\ HbDisconnect)
    /\ WF_vars(~crashed /\ (HbSent \/ HbFails))
    /\ SF_vars(~crashed /\ WatcherWakes)

FairSpec == Spec /\ Fairness

-----------------------------------------------------------------------------
(* Properties.                                                             *)

\* Every variable keeps its type
TypeOK ==
    /\ state \in StationState
    /\ conn \in 0..MaxConns /\ devId \in 0..MaxConns
    /\ ctx \in Gens /\ cancelled \subseteq Gens
    /\ reconnecting \in BOOLEAN
    /\ pc \in [Agents -> AgentPC] /\ held \in [Loops -> Gens]
    /\ rpc \in [Conns -> RecvPC] /\ rconn \in [Conns -> 0..MaxConns]
    /\ pend \in Nat
    /\ watchers \in Nat /\ expired \in Nat /\ resends \in Nat
    /\ hbNew \in Nat /\ hb \in [Gens -> Nat] /\ hbSending \in Nat /\ hbFailing \in Nat
    /\ dials \in 0..MaxConns
    /\ closedL \subseteq Conns /\ closedR \subseteq Conns
    /\ req \in [Conns -> Nat]
    /\ crashed \in BOOLEAN /\ stops \in Nat

\* The reconnectLoops past the CompareAndSwap and not yet past the deferred Store
LiveLoops == {l \in Loops : pc[l] # "off"}

\* The guard of reconnectLoop admits one loop, plus one for every Stop, which
\* resets the guard under the feet of a loop that is still running
ReconnectGuard ==
    Cardinality(LiveLoops) <= stops + (IF reconnecting THEN 1 ELSE 0)

\* The guard is never left locked with no loop inside: that would disable every
\* later reconnect of the station
GuardHeld == reconnecting => LiveLoops # {}

\* The guard of reconnectLoop neither lets loops pile up nor locks everyone out, whatever
\* Start, Stop and the losses do between its CompareAndSwap and its deferred Store: each
\* part needs the other
GuardInv == TypeOK /\ ReconnectGuard /\ GuardHeld

\* s.conn never refers to a socket the station has closed: Stop and
\* handleDisconnect close and clear it in one critical section
ConnOpen == conn # 0 => conn \notin closedL

\* As long as the station was never stopped, the receiveLoop spawned for the current
\* connection is alive and reads that connection and no other, so that its loss is
\* always noticed
CurrentConnRead ==
    conn # 0 /\ stops = 0 =>
        /\ rpc[conn] # "off"
        /\ rpc[conn] \in {"read", "body"} => rconn[conn] = conn

\* connectAndRegister, handleDisconnect and receiveLoop, which share s.conn, agree on it: it is
\* open, and read by the loop that was started for it
SocketInv == ConnOpen /\ CurrentConnRead

\* As long as the station was never stopped, a heartbeat loop runs whenever it is
\* online: the loops that give up when they find the station offline, or that
\* report a failed send, never leave an online station silent
HeartbeatAlive ==
    state = "online" /\ HeartbeatEnabled /\ stops = 0 =>
        \/ \E g \in Gens : hb[g] > 0
        \/ hbNew > 0 \/ hbSending > 0 \/ hbFailing > 0
        \/ \E c \in Conns : rpc[c] = "forceId"

\* Once all prompt work is done, an online station has an open connection and
\* the device id the server assigned on that very connection, and a station
\* waiting to reconnect has neither
QuietConsistent ==
    Quiet => /\ state = "online" => conn # 0 /\ conn \notin closedL /\ devId = conn
             /\ state = "reconnect" => conn = 0 /\ devId = 0

\* handleDisconnect "starts the reconnect loop": once all prompt work is done, a
\* station in StateReconnect has a reconnectLoop waiting for its next attempt,
\* and one in StateRegister a watcher that will notice a missing reply
NotStranded ==
    Quiet => /\ state = "reconnect" => \E l \in Loops : pc[l] = "wait"
             /\ state = "register" => watchers > 0

\* A station at rest is what its state says, and has someone to get it further
RestInv == QuietConsistent /\ NotStranded

\* A station that was started gets online and, the losses being over, stays so
Recovers == (state # "idle") ~> [](state = "online")

\* The session of the station, as seen by the one who started it
Service == INSTANCE StationService WITH session <- state, links <- dials, link <- conn,
                                        id <- devId

\* Started once, with a prompt station and a server that loses connections only at rest,
\* Start, the loops and the losses are the service of StationService: one attempt at a time, on
\* a new connection, online with the id assigned there, and nothing left over from before
ImplementsService == Service!Spec
=============================================================================
