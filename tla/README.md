# A TLA+ verification of the SASOC station simulator

The program in `src/` simulates up to a hundred USB security stations. Each station
keeps a TCP connection to the SASOC platform (or to the echo server shipped with the
simulator), registers, sends heartbeats, reports alarms and device events, reconnects
after a loss and answers the commands of the platform. A web console drives it over
HTTP and watches it over WebSocket.

This directory holds TLA+ models of its parts, the TLC configurations that check them on
small instances, and proofs of the main results for every value of the constants.

    tlc -workers 2 -config Station_calm.cfg MCStation.tla
    tlapm StationProofs.tla

`PROJECT.json` lists, for each definition, the source lines it stands for, the runs,
the planted mistakes that show each property can fail, and the hazards.

## 1. The system

| Component | State | Operations | Made correct by |
|---|---|---|---|
| Station (`simulator/station.go`) | `State`, `conn`, `DeviceID`, `ctx`/`cancel`, the atomic `reconnecting`, one goroutine per loop | `Start`, `Stop`, `Restart`, `ReinitWithNewAddr`, `connectAndRegister`, `reconnectLoop`, `receiveLoop`, `handleDisconnect`, register replies, heartbeat loop | one reconnect loop at a time and never none when one is needed; an online station has an open connection, a reader on it and a heartbeat; Stop stops |
| Upgrade (`station.go` 924-1233, `commands/upgrade.go`, `api/station.go`) | `UpgradeTask` with `IsRunning`, `Version` | accept or refuse CMD108, report CMD109, execute, update version | at most one execution; the version reported is the version reached |
| Cabinet and USB (`simulator/cabinet.go`, `simulator/usb_device.go`, `api/usb_plugin.go`) | slots with status, devices by serial number, database rows | insert, remove, borrow, return, scrap, fault, delete | a slot and its device agree; memory and database agree after a restart |
| Hub (`hub/hub.go`, `api/station.go`, `api/config_api.go`) | map of stations, rows, address counters, platform address | create, batch, start, stop, configure, delete, move to another platform, restore | hub and table have the same stations; a running station can be stopped; the limit; distinct addresses |
| Event bus and WebSocket (`hub/hub.go`, `api/ws.go`) | subscribers, buffered channels, five goroutines per client | publish, subscribe, unsubscribe, forward, deliver | events in the order of their publication, as far as it has one; a client stays subscribed; a client that left leaves nothing |
| Sending by hand (`api/station.go`, `simulator/commands`, `hub/hub.go`) | the requests, the message log | build, check, send, publish, log, clear | valid bodies; what is sent is logged; the last event shows the last state |
| Platform stand-in and frames (`simulator/echo_server.go`, `protocol/`) | connections, registered devices, next id, the byte streams | accept, read, register, close, stop; encode and decode a frame | capacity; what is handled was sent; Stop ends every handler |
| Audit generation (`api/auditgen.go`) | one task per mode, its stop channel, progress | start, stop, run (local, platform), finish | one run sends; counters are true; a run ends |
| Pressure test (`api/pressure.go`) | one manager, its stop channel, counters | start, stop, run, deadline | the same |
| Claim codes (`claimgen/`, `api/claim.go`) | a task, a worker pool, counters | start, cancel, run, life cycle | counters add up; a completed task is complete; a task ends |
| Reading handlers, configuration file, login, database access, desktop shell | none, or one file or table | sequential input and output | not modelled, see section 13 |

**Interaction.** HTTP handlers and the hub call the stations directly; a station calls
back through `OnStateChange` and `OnMessageReceived`, which the hub turns into events on
the bus and rows in the database; the bus feeds WebSocket clients. Stations talk to the
platform or the echo server only through TCP frames. The generators use the stations'
`SendFrame` from goroutines of their own.

**What is hard.** A station has no owner goroutine: HTTP callers, the reconnect loop,
one receive loop per connection, heartbeat loops, register watchers and delayed
re-registrations all change `State`, `conn` and `ctx`. `s.mu` protects single
assignments and not decisions: the code reads, unlocks and acts; `conn` and `ctx` are
also read without it. Timers are not cancelled, goroutines are not joined, and the
network can fail between any two steps. The generators repeat the pattern with channels
that are closed, set to nil and replaced. The individual hazards, each at its line, are
the `hazards` of `PROJECT.json`.

## 2. The modules

| Module | Contents |
|---|---|
| `Station` | the life cycle of one station, its goroutines, the network and the server as environment; its properties |
| `StationService` | the abstract specification of a session: one attempt at a time on a connection of its own, online with the id assigned there, a loss, and again |
| `MCStation` | the values TLC instantiates `Station` with |
| `StationProofs` | theorems about `Station`, proved with TLAPS, among them that it implements `StationService` |
| `Upgrade` | the upgrades of one station: commands of the platform, HTTP requests, executions that share one task |
| `UpgradeService` | the abstract specification: one upgrade at a time, reported in order, installed, then the next |
| `MCUpgrade`, `UpgradeProofs` | its instances; its theorems, among them that `Upgrade` implements `UpgradeService` |
| `Cabinet` | the devices of the hub, the cabinet of one station and the database rows of both, under overlapping HTTP requests and restarts |
| `MCCabinet`, `CabinetProofs` | its instances; its theorems |
| `Registry`, `MCRegistry`, `RegistryProofs` | the stations of the hub, their rows, addresses and the platform's address, under overlapping requests and a restart; its instance; its theorems |
| `StationTable` | the abstract specification of `Registry`: a station has its addresses until it is removed, also in the next process |
| `Generators`, `MCGenerators`, `GeneratorsProofs` | the runs of audit data and of the pressure test, and the requests that start and stop them; its instance; its theorems |
| `Claims`, `MCClaims`, `ClaimsProofs` | the tasks that fetch claim codes and walk them through their life cycle, with their workers; its instance; its theorems |
| `Platform`, `MCPlatform`, `PlatformProofs` | the frames stations send, and the echo server that cuts them out of a byte stream; its instance; its theorems |
| `EventBus` | the bus and its WebSocket clients |
| `Messages`, `MCMessages` | `EventBus` composed with those who feed it: requests that send commands, the station's changes of state, the log and the notices |
| `MessagesProofs` | theorems about both |

`Messages` extends `EventBus`, whose `Publish` is part of its own steps. The other models
share no state, and where one needs another it has what it needs of it in one or two steps:
an upgrade and the cabinet neither read nor change the connection state, and a report or
an event they lose on a closed connection changes nothing in them; `Registry` knows of a
station whether it runs, `Messages` has connections and registrations without the goroutines
behind them, and the generators take a station for online or not at every message.

## 3. Station

### State

`state`, `conn`, `ctx` and `reconnecting` are the fields of `SimStation`. Connections
and contexts are numbered in the order they are made, `conn = 0` is `nil`, and
`cancelled` holds the contexts whose cancel function ran. The field `DeviceID` is
represented by the connection whose registration produced it, because whether the id
belongs to the current registration is what a property can be about; 0 is "no id".

| Goroutine | In the model |
|---|---|
| a caller of `Start`, `Stop`, `Restart` (HTTP handler, hub) | a member of `Callers` with a `pc` |
| a `reconnectLoop` past its CompareAndSwap | a member of `Loops` with a `pc`, and in `held` the context its `select` evaluated |
| `go s.reconnectLoop()` not yet at the CompareAndSwap | counted in `pend` |
| the `receiveLoop` spawned for connection `c` | `rpc[c]`, and in `rconn[c]` the connection its blocked read uses |
| register watchers (`WaitForRegisterResponse`) | `watchers` asleep, `expired` between the read of the state and the write |
| delayed `sendRegister` after code 1000 | `resends` |
| heartbeat loops | `hbNew` before the `select`, `hb[g]` in it on context `g`, `hbSending` before `sendFrame`, `hbFailing` before `handleDisconnect` |

A station's caller and its reconnect loop both run `connectAndRegister`; the actions
`EnterRegister` to `RegisterFailed` are shared by them.

`closedL` and `closedR` are the sockets closed by the station and by the server, `req`
the register requests under way on each of them. `crashed` records that a goroutine
dereferenced a nil `conn`; the process is gone and no action is enabled any more.

### Steps

A step is what the code does between two points at which another goroutine can
intervene: one critical section of `s.mu` (`StopBody`, `DisconnectBody`), one unlocked
load (`RecvLoad`, `LoopSelects`, `HbSelects`), one blocking call (`DialOk`, `RecvHeader`).
Decisions the code takes on a value it read earlier are separate steps, as in
`StartCheck`/`StartRenew`, `WatcherWakes`/`WatcherExpires` and
`ReplySetId`/`ReplySetOnline`. Two details of the code decide most of what follows:

- `receiveLoop` loads `s.conn` anew at every frame and again for the body of the frame. A
  loop spawned for one connection moves over to its successor, a body may be read from a
  connection other than its header's, and a `nil` loaded there is a panic.
- `handleDisconnect` and the failed heartbeat close the connection that is current, and
  not the one they saw fail.

A reply is one of six members of `Replies`: code 0 with the id in the body (`ok`), code 0
with the id in the frame header only or nowhere (`okHeaderId`), a body that does not decode
(`undecodable`, which the code takes for a success), code 1000 (`notRegistered`, which
re-registers after five seconds), 1002 (`overCapacity`), and any other code.
Every other frame is `RecvOther`. The message bodies, the log, the callbacks to the hub
and the contents of the info report are left out: nothing in this module depends on them.

### Bounds

`MaxConns`, `MaxGens`, `MaxStops`, `MaxPend` and `MaxCloses` bound the dials, the
contexts, the calls of Stop, the spawned loops that have not run and the connections the
server closes. A call that creates contexts starts only when `ContextsDue` leaves room for
all of them, so that a bound never stops a caller half-way. `MaxPend` is the one bound
that can hold back a step already begun (a `go` statement); in `Station_calm`, the run with a
liveness property, it is 2 and never reached, because there is never more than one cause
of reconnection at a time. The proofs cover all values.

Deadlock is not checked: a stopped station at rest, a crashed process, and a run that has
used up its bounds all stop rightfully. That the station does not get stuck is stated by
`GuardHeld`, `NotStranded` and `Recovers` instead.

### The two assumptions of the calm runs

`Timely` lets a timer fire only when nothing else can run. The shortest timer of the code
is five seconds, so this says that the station's goroutines get to run within seconds.
`CalmClose` lets the server close connections only while no goroutine is dialling,
registering or about to send a heartbeat. Both are off in `station_restart` and
`station_loss`, whose properties, on the guard, the sockets and the heartbeat, have to hold
unconditionally. They are on in `station_calm`, where the code only works under them: without
`CalmClose` a station can be stranded, a lost connection can be reported online, and a late
failure takes down the connection that replaced the failed one; without `Timely` a
watcher overwrites the reply it waited for (section 11). So `RestInv`, `Recovers` and
`ImplementsService` say nothing of those cases, and the hazards they belong to are listed
without a property.

### Fairness

A goroutine that can run does run: weak fairness for each loop and each caller that is
already in a call, for the receive loops, and for the counted goroutines. A dial that is
attempted again and again succeeds some time (strong fairness of `DialOk`): the server
is reachable, which is what reconnection is for. Data and errors reach a read even if
other frames arrive in between (strong fairness of `RecvHeader` and `RecvError`), and a
sleeping watcher wakes. Nothing makes a user call Start or Stop, a reply be of some kind,
the server close a connection, or a heartbeat fail.

### Runs

| Run | Question | Size |
|---|---|---|
| `station_restart` | with all kinds of replies at all moments, does the guard of the reconnect loop hold when Stop and Restart race two loops? | 2.0 million states |
| `station_loss` | a connection is lost at any moment, also in the middle of a dial, a registration or a heartbeat, and so is the next one: is the socket open and read by its own loop, and is an online station ever without a heartbeat? | 2.8 million |
| `station_calm` | under the two assumptions: is the station consistent at rest, never stranded, and does it recover from every loss? | 4 thousand |

The properties:

- `GuardInv`. `ReconnectGuard`: at most one reconnect loop, plus one for each Stop (which resets the
  guard of a loop that goes on running). `GuardHeld`: the guard is never locked with no
  loop inside, which would switch reconnection off for good.
- `SocketInv`. `ConnOpen`: the current connection is never one the station has closed.
  `CurrentConnRead`: as long as there was no Stop, the current connection is read by
  the loop spawned for it, so a loss is noticed. After a Stop it fails: the old
  loop can survive into the next session and take frames of the new connection. It does not
  say that the socket a second dial replaces is closed, which it is not (section 11).
- `HeartbeatAlive`: an online station that was never stopped has a heartbeat loop. The
  loops end when they meet an offline station, and every registration starts a new one;
  the property is that the two never miss each other, when a loop of the first connection
  is still to see that it ended and the second is online already.
- `RestInv`. `QuietConsistent`, `NotStranded`: at rest, an online station has an open connection
  and the id assigned on that connection, a reconnecting one has a loop waiting, a
  registering one a watcher.
- `ImplementsService`: the refinement of `StationService`, with `state` as the session, `conn` as
  its link, `dials` as the links made so far and `devId` as the id. `RestInv` says what holds
  at rest, this in which steps the four may change meanwhile: an attempt begins with
  nothing left over, each has a connection of its own, the id comes before `StateOnline`
  and from that connection, and a loss takes all at once but never between the two.
- `Recovers`: a started station ends up online and stays so once the losses are over.

Each bound admits the case its property is about: two loops for the guard, three contexts
for a Start after a Restart; in `station_loss` two connections and two losses, so that a
quick reconnection meets the goroutines of the connection before; in `station_calm` two
losses and three connections, so that a recovery is itself lost. `GuardInv`, `SocketInv` and
`HeartbeatAlive` are proved for all instances, see section 9.

## 4. Upgrade

### State and steps

A CMD108 handled by the receive loop, or an HTTP request to `simulateUpgrade`, puts a new
`UpgradeTask` into the station and spawns `ExecuteUpgrade`, which marks it running, reports
its stages (CMD109), completes, installs the version and clears `s.UpgradeTask`. The point
of the model is that the execution does not keep its task: it dereferences `s.UpgradeTask`
again at every use. So each use is a step of its own (`ExecCheck` to `ExecClear`), and
`ExecPanic` is a dereference of `nil`, after which the process is gone. Only the task id
(`id`) and `isSoftware` (`software`) are locals of the execution.

`CommandAccepted` is one critical section, while `simulateUpgrade` calls
`GetUpgradeTask` twice and `SetUpgradeTask` once, each locked by itself: `SimulateCheck`,
`SimulateIsRunning`, `SimulateSet`. In the handler a nil task found by the second call is
caught by the recovery middleware; in the goroutine of an execution nothing catches it.
A report of the same stage is sent any number of times (progress); `shown` is the last
status sent for a task and `results` the completions, with the version each carried.
The sleeps are left out: Stop only makes them shorter.

### Calm behaviours

The variable `calm` is chosen once and for all in the initial state, so that one run covers
both cases. In a calm behaviour a dispatch arrives only when no other dispatch lies between its
decision and the moment its execution sets `IsRunning`: some microseconds in which a
goroutine is not scheduled yet. Nothing in the code keeps a platform out of that window; waiting
for the first CMD109 does not either, because `handleUpgradeIssue` sends that one itself before
it starts the execution. Calm says nothing about dispatches during the rest of an execution,
which arrive at any time and must be refused. In the other behaviours everything may overlap, and
at most `MaxRacing` tasks are created.

### Run

`upgrade`: three tasks, of which two may race, and two HTTP requests. 0.1 million states.

- `ImplementsService`, in calm behaviours: the refinement, with the current task as the active
  upgrade. It fixes the order of reports, that a completion names its own task and version, and
  that the version is installed before another upgrade is accepted.
- `CalmInv`: why. The execution of the current task is the only one, it reports about
  its own task, a request that decides is alone, the reports are as far as the label says.
- `NoPanic`: in calm behaviours no execution meets a nil task.
- `BusyInv`, in all behaviours. `BusyHasExecution`: an `IsRunning` task has an execution past its
  mark, so no interleaving leaves the station refusing upgrades for ever; `Completes` is the
  liveness half, for calm ones, under weak fairness of each execution, which waits only for
  timers and the lock.

In a behaviour that is not calm, acceptance tests `IsRunning`, which the accepted execution sets
later itself: a second command is accepted as well and both executions work on one task.

Three tasks give one upgrade that completes, one that is refused or replaces it, and one
after both; two racing ones are enough for every overlap of a pair. Deadlock is not checked: with the tasks of the bound used up, or after a
panic, everything has rightfully stopped.

## 5. Cabinet

### State

Every HTTP request is a member of `Clients` with a `pc` and the record `req` of what it
knows. `dev` is `usbDevs` of the hub: for each serial number the device object it holds.
Objects have an identity of their own, because a request keeps the pointer it looked up
while another one removes the device and creates it again. `objDoor` and `objStatus` are the fields of an
object; an object that neither the hub nor a request refers to is free for the next
device, as memory is. `slot` holds the serial number in each occupied slot, `usedPorts` the
count that reports to the platform carry, `row` the `sim_usb` rows, `fault` and `faultRow`
the faulty slots in memory and in `cabinet_slot_status`.

### Steps

The hub's lock covers the map and its row together: `AddUsbDevice`, `RemoveUsbDevice` and
`InjectFault` are single steps. Nothing else is locked: looking up a device, `PutUsb`,
`RemoveUsb`, the setters of the device, and the two statements of `updateUsbFault` are
separate steps. `PutUsb` and `RemoveUsb` are three each: the check of the slot, the
slot, and the counter, whose increment is a load (in the step of the slot) and a store.

| Handler | Steps |
|---|---|
| `insertUsb`, `insertUsbSimple`, `batchCreateUsbs`, `insertUsbBySN` of a new device | `CreateLookup`, `PutCheck`, `PutFill`, `PutCount`, `AddUsbDevice` |
| `insertUsbBySN` of a device the hub has | `InsertLookup`, `Place`, `PutCheck`, `PutFill`, `PutCount` |
| `removeUsb`, `removeUsbBySN`, `deleteUsbBySN` | `RemoveLookup`, `TakeCheck`, `TakeClear`, `TakeCount`, `RemoveUsbDevice` |
| `setUsbStatus` | `IssueLookup`, `IssueCheck`, the same three, `SetIssued`; `ScrapLookup`, `SetScrapped`; `SetStatus` |
| `updateUsbFault` | `ConfigLookup`, `ConfigRead`, `ConfigWrite` |
| `injectSlotFault`, `injectBatchFault`, `restoreSlot` | `InjectFault` |
| process start | `Restart`: devices from their rows, a new cabinet, faults from theirs; `RestartDuringInject` with some of the rows of an injection written |

One station has the cabinet; no station is door 0. A device's id and serial number are one
(all but `insertUsb` make them equal). The free door that a batch picks is one of the
doors a request may ask for, and its initial status one of those a creation may choose,
so these requests are more general than the handlers. The `Inserted` flag, names, versions
and the values of the fault settings do not influence anything modelled and are left out.
`DbReliable` FALSE lets any statement fail, which the code logs and ignores.

### The assumption of the careful runs

`Careful` restricts when requests come in, not what they do: no two requests under way
are about one device or one door (`Undisturbed`), only free doors are asked for (`Free`),
and only a device that is out of the cabinet is inserted. This is what a lock around
each handler, the result of `PutUsb` and a check in `insertUsbBySN` would guarantee, and
what one person at the console does. `Agreement` cannot hold without it (section 11).

### Runs

| Run | Question | Size |
|---|---|---|
| `cabinet_careful` | two devices, two doors, two overlapping requests of careful users: do slots and devices agree, and are only received devices issued? | 0.8 million states |
| `cabinet_one` | two devices, one careless request at a time, wrong doors, a failing database, a restart: is `UsedPorts` right? | 1.1 million |
| `cabinet_race` | two careless requests for one device, a restart at any moment: does a restart lose nothing, and is no object replaced? | 1.6 million |

- `CarefulInv`: the inductive form of `Agreement`, that a device no request is changing is in
  the slot it says it is at and in no other.
- `PortsCounted`: at rest, the counter is the number of occupied slots. With two requests
  it loses updates, which the run leaves out and `hazards` lists.
- `PersistenceInv`. `DevicesPersisted`, `FaultsPersisted`: what a restart would restore includes all that the
  memory shows, whatever races. The opposite fails, see section 11.
- `NeverReplaced`: of two requests that both found the device missing, the second is refused.
- `IssuedFromReceived`: the status `CanBeIssued` saw is the status `SetIssued` changes.
  It holds for careful users.

`MaxObjects` is large enough in the passing runs for a creation to find a free object;
`MaxRestarts` is 1 where restarts matter, because a second one starts from a state of the
same form; `MaxCount` only keeps the counter, which drifts under lost updates, from growing: a
request does not come in beyond it. In `cabinet_careful` that bound can be reached with both
requests idle, hence `CHECK_DEADLOCK FALSE` there; in the other two runs a fault can always
be injected.

## 6. Registry

### State and steps

`hub` is the map of stations: for each id, the object registered under it. As in `Cabinet`
objects have an identity of their own, because a handler keeps the pointer it looked up
while another one deletes the station and creates it again. `row` is the table `sim_station`,
`running` the objects whose state is not idle, `starting` those a goroutine is about to
call `Start` of. `AddStation` and `RemoveStation` change map and row under the hub's lock and are
one step each; what a handler looks at before is a step of its own.

| Handler | Steps |
|---|---|
| `createStation` | `CreateCount`, `CreateCheck`, `CreateAdd` |
| `batchCreateStations` | `BatchCount`, `BatchAdd` for each, `BatchEnd` |
| `startStation`, `startAllStations`, `restartStation` | `StartLookup`, `StartAllLookup`, `RestartStation`; then `Start` of each object |
| `stopStation`, `stopAllStations` | `StopLookup`, `StopAllLookup`; then `Stop` of each |
| `updateConfig` of a station | `ConfigSet`, `ConfigWrite` |
| `updateConfig` of the platform | `PlatformSet`, `ReconnectAll` |
| `deleteStation` | `DeleteStop`, `RemoveStation` |
| process start | `Restart` |

`NextIP` and `NextMAC` are the sequential generators with their carries. A station's serial number
is its id, as the handlers make it unless told otherwise; addresses given in a request are not
modelled, nor is a connection that fails: whether a running station is online makes no
difference here. The column `status` is written and never read. Limits and addresses are
parameters, so that two stations exceed a limit and five addresses wrap around.

### Careful users

The variable `careful` is chosen once and for all in the initial state, so that one run
covers both. Careful users ask for one thing at a time, when what they asked for before is
done, and give every batch a prefix of its own (a batch does not look whether its ids are
taken). Users who race are held to one id, a bound on the instance. `AddressInv` and what
`ImplementsTable` says of restarts hold for both.

### Run

`registry`: two requests at a time, three ids, a limit of two stations, two values per octet and
byte, three objects, three addresses handed out per process, a restart. 0.8 million states.

- `Owned`: a station that runs can still be stopped, because it is in the hub.
- `SettingsPersisted`: a restart gives every station the platform address it has, or the
  configured one.
- `AddressInv`: what the generators hand out are addresses, also when they wrap around, and
  different ones up to their period.
- `ImplementsTable`: the refinement of `StationTable`, which has one table from station to addresses
  and counts the processes that ended. Careful users add only where there is none, and single
  stations and batches keep the limit together; a station has its addresses until it is
  removed, also in the next process. With users who race the next process still has
  the same stations: a late `ConfigWrite` does not bring the row of a deleted one back, since it
  is an UPDATE, and two creations of one id leave one row. `Persisted` and `WithinLimit`
  are what this needs of hub, rows and requests; both are proved.

Deadlock is not checked: the addresses of the bound are used up some time.

## 7. Generators, Claims

### Generators

An audit run has a task (`cell`) of its own, all pressure tests share the manager's. What the
model is about is the field `stopCh`: a run reads it again before every `select`, a stop closes the
channel and sets the field to nil. A run that is in the middle of a batch at that moment reads nil
afterwards, waits for nothing but its ticker, and has missed the stop. `stopTask` holds the
manager's lock, `finishTask` does not: `StopFlag`, `StopClose`, `StopNil` and `FinishFlag`,
`FinishClose`, `FinishNil` interleave, and the channel closed is the one read before or the
field's present one, as the compiler likes. A panic ends the process in a generator's
goroutine (`crashed`), and only the request in a handler.

A pressure test waits for a ticker of the interval `time.Second / Frequency` (`Interval`). If
that is 0, because the frequency exceeds the nanoseconds of a second, `NewTicker` panics in
the goroutine of the test (`NewTicker`).

`prompt`, chosen in the initial state, says that a stop finds the run waiting in its `select` and
takes no time, and that no pressure test is asked for a frequency like that. `RunsApart` and
`NoPanic` hold under it, and not without (section 11); `CountInv` and `Ends` hold without it.
`kinds` restricts a behaviour to one kind of
run: the two managers share nothing, and the modes of one manager only its lock.

Run `generators`: two runs, totals and rates given as the numbers that mean the default,
batches of up to two messages, one failure each, a frequency a second has room for and one it
has not; 0.2 million states.

- `RunsApart`: after a stop that found the run waiting the next run is the only one that sends,
  and the counters of a pressure test are its own.
- `NoPanic`: no channel is closed twice, and no ticker refuses its interval.
- `CountInv`: no run sends more than its total; every device claimed and not returned is
  among the errors.
- `Ends`: a run with a total or a duration returns, whether it missed its stop or not. Weak
  fairness of the goroutines and their timers; strong fairness of sending, because a
  run whose stations are offline for ever does not end and need not.

### Claims

A task has workers that take items from an atomic counter until it is cancelled. `task` holds
its status, its counters and what it reported; `platform` is the external side, the items claimed
and not returned there. A worker's step is one request to the platform with its answer: issued,
refused, unanswered (and then done at the platform or not), or the end of the session by
another login. `ReportLoad` and `ReportWrite` are the two halves of the progress update under
the task's mutex. The status is written under `taskMu` by a cancellation (`CancelClose`,
`CancelStatus`) and under the task's mutex at the end (`FinishCheck`, `FinishWrite`).

The parts of a life cycle are given in percent. Nothing refuses a negative share, so `Shares` are
integers; `Quot` is the division of Go, which rounds towards 0.

Run `claims`: two tasks of either kind, two workers, up to two items, shares that add up to 100, to
less and to more, one of them negative; 0.25 million states. Items are independent, so two show
every overlap of two workers.

- `CountInv`. `ClaimsAccounted`: what a claim task took is a code or a failure. `LoansAccounted`:
  what a life cycle task took and was to borrow is borrowed or failed, nothing is both returned
  and failed, and the codes claimed at the platform are those counted as borrowed and not as
  returned, but for failures; also if the task is cancelled, and whatever shares it has. How many
  of the borrowed codes are returned is left open: the shares count the two apart, and the code
  returns all of them (section 11). `PartsFit`: shares that are not negative give parts that fit
  the whole.
- `CompletedIsWhole`: a task that says it is completed has handled every item, if a
  cancellation takes no time (`prompt`).
- `ProgressGrows`: the progress never goes back, although all workers write it.
- `Ends`: every task ends and makes room for the next. Weak fairness of the workers: each
  request to the platform has a timeout.

The login, the validation of forms and the export to a file are not modelled.

## 8. Platform, EventBus, Messages

### Platform

A frame is a header, a number of header bytes, and a body whose length the header gives. The
model keeps the order of the pipeline (compress, encrypt, fill up to a block) and what it
does to the lengths; the length field holds 16 bits and nothing refuses a longer body, so the
rest of one is read as headers: `ReadHeader` skips 48 bytes at a time where it finds no flag.
Checksum and cipher text are represented by the length they belong to. A handler's loop is
`Check`, `ReadHeader`, `ReadBody`, `HandleCommand` or `HandleRegister`; `Accept` and `Enter` are
the two halves of `acceptLoop`, which looks at the flag between `Enter` and the next `Accept`;
`Stop`, `CloseListener` and `StopConnections` are the flag, the listener and the connections of
`Stop`. The answers change nothing in the server and are left out.

One assumption on the data is built into the model: no byte of a body looks like the first of a
header. The code looks at two bytes (`header.go:154-157`). For bodies that fit this does not
matter, since no header is looked for in them. For longer ones it does: a body with those two
bytes where the server reads its next 48 would be taken for a frame and handled. So
`HandledWasSent`, and the theorem about it, hold for bodies without such bytes.

Run `platform`: two connections, room for one, two frames, headers of three bytes, blocks of two
and length fields of four values, encrypted or not (`encrypt`), with bodies that all fit or not
(`fitting`); 0.6 million states.

- `InSync`: if all bodies fit, the server handles what was sent, all of it intact and in order.
- `HandledWasSent`: even if one does not, it handles nothing that was not sent, nothing twice,
  nothing out of order, under the assumption above.
- `CapacityInv`: however connections come and go, no more registered stations are connected than
  the capacity. It counts connections, so it may admit fewer: that there is room for a station that
  is refused is not stated, and not true.
- `StopsAll`: a stop ends every handler, also that of a connection accepted while it runs. Weak
  fairness of the server's goroutines; the stations need do nothing.

### EventBus and Messages

A WebSocket client has a subscription per event type, a goroutine that forwards each to one
channel (`Forward`), a reader (`ReadPump`) and a writer. Every buffer drops what it has no room for.
A subscription is named by a reading of the clock; `distinct` says that no two are alike.

`Publish` of the code holds the lock of the bus for reading, so publications overlap: each makes its
event and then sends it to one subscriber after the other. The model has the beginning (`Publish`)
and a step per subscriber (`Send`) apart, and `publishing` holds those under way. An event is its
type, its number in the order in which publications began, and the numbers of those of its type that
were under way then. `Subscribe` and `Unsubscribe` take the lock for writing and wait until nobody
publishes. `BusFairness`: a publication under way sends on, since it waits for no buffer. A writer
that waits keeps new readers out in the code; in the model publications are bounded, so that
the lock becomes free as well.

`Messages` adds those who publish. A request arrives, checks the station and its body
(`Arrive`), writes the frame on whatever connection there is by then (`SendCommand`), tells
the bus and, when `Publish` has returned, the log (`NotifyMessageSent`, `InsertMessageLog`). A change of the station's state makes a
notice, which reads the state again without the lock (`ReadState`), publishes it and writes
the row. Bodies consist of the fields a rule is about. The station's own frames are neither
published nor logged by the code. An answer to a registration (`Received`) is told to the bus before
it is looked at; then it makes the station online (`Registered`), idle (`Refused`), has the
registration sent once more (`ResendRegister`), or changes nothing.

Further variables chosen in the initial state: `calm`, the station changes only while no request,
notice or answer is under way (`Quiet`), and an answer comes while the station still waits for it on
a connection it has (`Awaited`): late answers, which make a station online that has lost its
connection or was stopped, are for behaviours that are not calm; `dbWorks`; and `cast`, who takes
part. The casts keep the instance small: a
request with every kind of body; two that meet the changes of the station; the notices of
those; two clients; a client with the events of others; a client with a request that sends all
samples. Requests, station and clients share nothing but what the pairs in the casts share.

Run `messages`: buffers of two and one, three changes of the state, three events of others, which
may all overlap; 0.4 million states.

- `InOrder`: a client gets no event of a type after one whose publication began when its own was
  over, and none twice, through both buffers. Events whose publications overlap may come in
  either order, and to two clients in opposite ones: that is what the code does (section 11).
- `StaysSubscribed`: whoever leaves, the others' subscriptions stay. For distinct names.
- `ClientsCleanedUp`: a client that is gone leaves no goroutine and no subscription. Weak
  fairness of its goroutines, without relying on the ping.
- `BodyInv`: the body written keeps the rules of its builder (`ValidBuilt`), by whatever way it
  came: an alarm without a device or a door where its reason has none, an operation and a result
  that exist, the code and serial number of a claim. It keeps those of its own handler
  (`ValidChecked`) only if it came through that, or is one of the samples: the reason belongs to
  the alarm's type, and an operation other than a copy names a device. `sendCommand` and the
  debugging handler do not check these, and nobody checks the result of a claim; so the property is
  about the code's rules and not about all of the protocol's (section 11).
- `RegisteredFirst`: in calm behaviours nothing is sent on a connection before its registration.
- `LogInv`: what a request sent, and nothing else, is in the log, was cleared from it, or is about
  to enter it; `alarmAll` accounts for every sample.
- `OnlineIsTold`: if changes do not overlap, the last event and the row show a station online if
  and only if it is.

## 9. Proofs

### Station

`StationProofs` proves for all values of the constants satisfying
`StationAssumption`, without fairness, and, except for the last two, without `Timely`,
`CalmClose` or any limit on who calls what:

| Theorem | Statement | Inductive invariant |
|---|---|---|
| `TypeCorrect` | `[]TypeOK` | itself |
| `GuardCorrect`, `GuardInvCorrect` | `[](ReconnectGuard /\ GuardHeld)`, `[]GuardInv` | both together with `TypeOK` |
| `ConnOpenCorrect` | `[]ConnOpen` | with `SocketBound`: connection numbers are given out in order, and only given-out ones are closed |
| `CurrentConnReadCorrect` | `[]CurrentConnRead` | with `NeverStopped`: no Stop, no cancelled context |
| `SocketInvCorrect` | `[]SocketInv` | from the two before |
| `HeartbeatAliveCorrect` | `[]HeartbeatAlive` | with `NeverStopped` and `Undialled`: a connection not dialled has no receive loop |
| `RestInvCorrect` | `OneStart` implies `[]RestInv` | `Peaceful`, with `TypeOK` |
| `Implements` | `OneStart` implies the refinement of `StationService` | the same |

*Guard.* `ReconnectGuard` and `GuardHeld` need each other and nothing more. The loop that
wins the CompareAndSwap adds one to the number of live loops and turns the term for the
guard from 0 to 1. A leaving loop removes one of each, or, when the guard was reset under
it, gives back a 1 that was counted for a Stop. Stop takes the 1 away and
adds one to `stops`. `GuardStop` is that step; `LiveLoopsMove` says that
moving inside changes neither. The arithmetic of cardinalities comes from
`FiniteSetTheorems`.

*Sockets.* The only place that closes a socket is `DropConn`, which clears `conn` in the
same critical section; a dial yields a number never used before (`SocketBound`).

*Receiver.* A receive loop ends for a cancelled context, for a nil connection, or after
`handleDisconnect`. Without a Stop the first is impossible (`NeverStopped`), and the
others leave `conn = 0`. `RecvLoad` binds the loop of the current connection to that
connection; another loop may move over to it too, but none replaces it.

*Heartbeat.* A loop leaves the counted places in three ways: it finds the station offline,
its context is cancelled, or it reports a failed send and takes the station offline in
the same step. `state` becomes `online` in two ways, both of which start a loop at once
or leave the receive loop at the label `forceId`, which starts it.

*Rest.* `OneStart` is what the run `station_calm` assumes: one call of `Start`, replies of code 0,
`Timely` and `CalmClose`; the numbers of dials, losses and loops are free. `Peaceful`
then says who is in charge: before the first connection the caller (`Unstarted`); on a
connection, which is the only one that is read (`Linked`), how far its registration is (`Up`); without
one, who will make the next (`Down`): an agent that dials, a loop about to, or one that waits. At most
one agent is under way (`Driven`). `Excluded` lists the steps that cannot be taken under it, among
them the read through a nil `conn` (nobody else clears it there); `RestRegistered` is why the watchers find nothing to
do. The assumption on `Start` is needed: section 11 has what a second call does.

*Service.* Under `Peaceful` an agent about to register or to dial finds no connection, and the one
receive loop there is belongs to the current connection; so each of their steps is one of
`Register`, `Fail`, `Connect`, `Identify`, `Accept` and `Lose` (`ConnectServes`, `ReceiveServes`),
and the steps of everyone else are stutters.

### Upgrade

| Theorem | Statement | Inductive invariant |
|---|---|---|
| `TypeCorrect` | `[]TypeOK` | itself |
| `BusyCorrect`, `BusyInvCorrect` | `[]BusyHasExecution`, `[]BusyInv` | with `Created`: task numbers are given out in order |
| `CalmCorrect` | `[]CalmInv` | `CalmInv` with `TypeOK` |
| `NoPanicCorrect` | `[]NoPanic` | with `CalmInv` |
| `Implements` | the refinement of `UpgradeService` in calm behaviours | with `CalmInv` |

*Busy.* A dispatch makes a new task current, which is not running; a mark runs in an
execution that is then at work; the end of any execution clears the current task. None of
it needs `calm`.

*Calm.* A new task appears only where no other is running (`OneTask`): a command looks at
`IsRunning` under the lock, a request may have looked earlier but is alone until it acts
(`RequestAlone`). Under `CalmInv` the dereferences of the one execution are of its own
task, which gives `NoPanic` and maps each step to one of `Accept`, `Report`, `Complete`,
`Install`, `Release` or a stutter. `InOrder` supplies the guards of those.

### Cabinet

| Theorem | Statement | Inductive invariant |
|---|---|---|
| `TypeCorrect` | `[]TypeOK` | `Typed`: with `RequestsKnown`, a request under way has a device and an object |
| `NeverReplacedCorrect` | `NeverReplaced` | none needed beyond `Typed` |
| `DevicesPersistedCorrect` | `DbReliable` implies `[]DevicesPersisted` | itself, with `Typed` |
| `FaultsPersistedCorrect` | `DbReliable` implies `[]FaultsPersisted` | itself |
| `PersistenceInvCorrect` | `DbReliable` implies `[]PersistenceInv` | from the two before and `TypeCorrect` |
| `CarefulInvCorrect`, `AgreementCorrect` | `Careful` and no restart imply `[]CarefulInv`, `[]Agreement` | `CarefulInv` |
| `IssuedFromReceivedCorrect` | the same imply `IssuedFromReceived` | `CarefulInv` and `Checked` |
| `PortsCountedCorrect` | at most one client implies `[]PortsCounted` | `PortsInv`, with `Typed` |

*Agreement.* While a request changes a device, slot and door number disagree, so the
invariant says for each label what the slots hold for its device (`RequestInv`): nothing
before `PutFill` and after `TakeClear`, the door of the request between `PutFill` and the
end, the door of the object elsewhere. `RequestsApart` keeps requests off each other's
devices, objects and doors. The lemma `StepCareful` reduces every step of a request to two
conditions: the step changes nothing of the others (`Others`), and establishes what its next
label demands (`Own`). `ComingCareful` is the same for a request that comes in.

*Issued.* `Checked`: a request past `IssueCheck` on its way to `SetIssued` has an object that
is received. By `RequestsApart` no other request writes the status of that object, and
`SetStatus` is refused while a request is about the device.

*Ports.* `PortsInv` says of the one request what it owes the count (`Due`): one device more
between the slot and the store of `UsedPorts` on insertion, one less on removal, nothing
elsewhere; and that what it has loaded is still there. The rest is the cardinality
of a set of doors with one more or one less. With two clients a load and a store of
the other fit in between, and the theorem is false.

The assumption on restarts is no artefact: a restart empties the cabinet while the devices
keep their door numbers, and `Agreement` is false from then on.

### Registry

| Theorem | Statement | Inductive invariant |
|---|---|---|
| `TypeCorrect` | `[]TypeOK` | `Matched` |
| `PersistedCorrect` | `[]Persisted` | `Matched`: no object is registered twice, hub and table have the same stations, a request knows what it asked for |
| `OwnedCorrect` | `[]Owned` | `Alone`, with `Matched` |
| `WithinLimitCorrect` | `[]WithinLimit` | the same |
| `SettingsPersistedCorrect` | `[]SettingsPersisted` | `Settled`, with both |
| `AddressInvCorrect` | `[]AddressInv` | `Numbered`, with `Matched` |
| `Implements` | the refinement of `StationTable` | `Promised`, with `Matched`, `Alone` and `Settled` |

All assume `DbReliable`: a restart makes its stations from the rows, and with rows that
were not deleted there may be more of them than objects.

*Matched.* Only `AddStation`, `ConfigWrite`, `RemoveStation` and `Restart` write rows. The first and
third do so with the map, the second keeps what is present, and for the last the map as it
was is a witness that the rows can be restored (`RestoredMatched`).

*Alone.* With careful users, at most one request is under way and nothing is about to be started
meanwhile; so what it has seen stays true (`Fresh`): the id is free, there is room, the
ids of a batch belong to no station that runs. `AddAlone` is the step that adds a station: it
leaves the running ones in the hub and adds at most one to their number. Nothing of
it holds for users who race.

*Settled.* With careful users the object of every station has the platform address of its
row or the configured one, with two exceptions: the station a request is about to write the
row of, and all of them while they are on their way to a new platform. The request about
to write holds the object that is in the hub (`Alone`), so the write repairs the exception.

*Addresses.* `Numbered` is stated with a witness the model does not have: a numbering of
the stations such that that of `i` was the `n[i]`-th to be handed addresses, no
two alike. `IPNext` and `MACNext` show that a step of a generator, whatever it
carries, goes to the next position of the round or from the last to the first; hence
position and number determine each other within a round (`ReachedOnce`). Removing stations
only makes the numbering smaller; adding one extends it by `handed + 1`.

*Table.* `Promised` is what the refinement needs beyond the invariants above: for careful users each
row has the addresses of its station, and the stations a batch has still to add are not
there and differ from each other (an assumption on `BatchIds`, whose ids are numbered by
the code). It is preserved because `ConfigWrite` writes the row from the object the hub has
under the id (`Settled`) and the steps to another platform change nothing but the host
(`AddressesKept`). Then `AddStation` and `RemoveStation` map to `Add` and `Remove`, `Restart`
to `Restart` by `RestartRecorded`, and all else to a stutter. For users who race only
`Matched` is left, which is enough for the same stations.

### Generators

| Theorem | Statement | Inductive invariant |
|---|---|---|
| `TypeCorrect` | `[]TypeOK` | `Counting` |
| `CountInvCorrect` | `[]CountInv` | `Counting`: `TypeOK`, and for every run what it may have counted at its step |
| `NoPanicCorrect` | `[]NoPanic` | `prompt => Apart`, with `Counting` |
| `RunsApartCorrect` | `[]RunsApart` | the same |

*Counting* needs no assumption on stops: a run that missed one counts into the
cell it has, and its numbers bound each other. In the middle of a cycle a run has
something left of its batch, and its errors make up for what it claimed and has not returned yet.

*Apart.* If stops find the run waiting, a run that sends has in its cell the channel it was
started with, open (`OwnChannel`), and its cell is marked running unless the stop
request has it in hand (`Marked`). The one a stop request has in hand waits or
has returned (`StopperApart`), so it does not get to `finishTask`. Therefore a
new run of a kind begins only when the previous one has returned, and nobody closes
a channel that another has closed. `NewTicker` is not reached: a prompt test has an interval.

### Claims

| Theorem | Statement | Inductive invariant |
|---|---|---|
| `TypeCorrect` | `[]TypeOK` | itself |
| `ProgressGrowsCorrect` | `ProgressGrows` | `Basics`: the parts of a task fit (`Shaped`), and what is reported, read and counted are in order (`Clear`) |
| `CompletedIsWholeCorrect` | `[]CompletedIsWhole` | `prompt => Whole(t)`, with `Basics` |
| `CountInvCorrect` | `[]CountInv` | `Summed`, with `Basics` |

*Progress.* One worker at a time holds the mutex, and what it has read lies between what was
reported and what has been counted. Every writer is such a worker, or the end of the task,
which reports after all have returned.

*Completed.* The first worker of a task that was not cancelled leaves only
when no item is left; the manager completes the task when all have left. `prompt` closes the gap
between the two writes of a cancellation, in which a completion could overwrite it.

*Counts.* `Claiming`: the items taken are the codes, the failures, and the workers at their
requests. `Lending` has the same for a life cycle: an item taken that is to be borrowed is
borrowed, failed or asked for, none is counted as returned and failed while a worker is busy with it,
and the codes out at the platform are those borrowed and not returned, but for failures
(`Balance`). No two workers have the same item, because each takes the next. The sums change by
one on two sides of each step; at the end no worker has anything. `PartsFit` is arithmetic: for
natural shares the quotients are natural and their sums within the whole.

### Platform

| Theorem | Statement | Inductive invariant |
|---|---|---|
| `HandledWasSentCorrect` | `[]HandledWasSent` | `TracedAll`, with `Typed` |
| `CapacityInvCorrect` | `[]CapacityInv` | `Admitted` and `Issued`, with those |
| `InSyncCorrect` | `[]InSync` | `AlignedAll`, with `Typed` |

To a connection a step does one of five things: nothing, or one of `Writes`,
`TakesHeader`, `TakesBody`, `Handles` (`Does`), and the invariants of the
stream are proved for these.

*Traced.* Every first byte of a header in the stream, the header in hand and every
command handled come from a frame that was sent, and in the order of the frames; nothing is
said of where the server is. So it holds when a body is too long and the server reads on in the
middle of it.

*Aligned.* If the bodies fit, sizes and a number of skipped bytes exist such that the stream is
the frames that were not handled yet, laid one after the other (`Lays`), and the server
is at the beginning of one, or behind the header of one it has in hand. `PayloadLength`
is what the pipeline does to a length: the receiver's padding is the sender's.

*Capacity.* `Admitted`: until `Stop`, whoever is served is in `connections`, and every
registration looks there. `Issued`: an id is given for a frame that was handled, each of which is
one that was sent (`Traced`), so the ids stay in the range the model has.

All of it rests on the assumption of section 8 on the bytes of bodies.

### EventBus and Messages

| Theorem | Statement | Inductive invariant |
|---|---|---|
| `BusTypeCorrect` | `[](BusTyped /\ PublicationsTyped)` | itself |
| `InOrderCorrect` | `[]InOrder` | `BusOrdered` and `BusListed`, with the types |
| `StaysSubscribedCorrect` | `[]StaysSubscribed` | `BusNamed`, with the types |
| `LogCorrect` | `[]LogInv` | `Accounted` and `Logged`, with the types |
| `RegisteredFirstCorrect` | `[]RegisteredFirst` | `Calm` |
| `OnlineIsToldCorrect` | `[]OnlineIsTold` | `Told` |
| `BodyCorrect` | `[]BodyInv` | `Built` |

The first three are proved of the bus whoever publishes on it and then of `Messages`, whose steps
either begin a publication or leave the bus to its clients and to the publications under way.

*Order.* `BusOrdered`: of two events of a type delivered, in the client's channel or in the
subscription's buffer, the first may precede the second (`Rising`, `Before`); dropping one anywhere
keeps that. Two publications under way may precede each other either way (`Overlapping`), because
the later one noted the earlier when it began. What is still to be sent to a client may come after
all it has (`SentInOrder`). When one is sent, the others still under way overlap with it, and it is
not sent to the client again, because no client is twice on the list of a type (`BusListed`); when
one begins, all that went before have smaller numbers (`Numbered`).

*Subscriptions.* If no two have the same name (`NamesDiffer`), each name a client has is on the list of
its type (`Kept`). Unsubscribing goes by name, so it takes off the client's own.

*Log.* A request's count is the number of its frames on the wire, and one that has still to log has
one (`Accounted`); each frame of a request is in the log, was in it, or is the last of a request
that has still to log it (`Logged`).

*Registered first.* If the station changes only while nothing else is under way, a request that
passed its check finds the station still online, and an online station has registered on its connection:
the one answer under way, if any, finds the station waiting on a connection (`OneAwaited`), and a
change of the state while an answer is looked at is excluded.

*Told.* If changes do not overlap, either no notice is under way and event, row and state agree,
or one is, which has still to read the state or has read the present one.

*Bodies.* What a request goes on with after `Arrive` was accepted there; what it has just written is
the body built from that; and each rule follows from what is accepted and how it is built.

### Left to TLC

`Recovers`, `Completes`, `StopsAll`, `ClientsCleanedUp` and both properties `Ends`, which are
liveness under fairness and out of the prover's reach. Every invariant and every action property
that a run checks has a theorem.

## 10. Plan

Done, in this order: `Station`, `Upgrade`, `Cabinet`, `Registry`, `Generators`, `Claims`, `Platform`,
`EventBus`, `Messages`, each with its proofs. To come:

1. `Station` with two concurrent callers; `Cabinet` with the contents of devices.
2. An abstract specification of the bus as its clients see it, implemented by `EventBus`.

## 11. Observations

The code does several things that its comments or documents do not say, or that look
unintended. Each is a short sequence of steps of the module named; the properties above
are stated around them.

- `Station`: `simulator/station.go:118` says of the guard that it makes sure only one
  reconnectLoop runs at any moment. Stop resets it (line 256) while a loop may still be
  dialling, and the next loop finds it free. `ReconnectGuard` counts one more per Stop.
- `Station`: the loop's `connectAndRegister` has succeeded, its deferred `Store(false)` (line 358) has
  not run; the connection is lost, `handleDisconnect` starts a loop, which loses the
  CompareAndSwap and returns. The station remains in `StateReconnect`, where
  `IMPLEMENTATION.md:79` promises an automatic reconnection every 60 seconds. `CalmClose`
  excludes it.
- `Station`: `Start` accepts a station in `StateReconnect` (line 220), although a reconnect loop may be about
  to dial. Both dial, the second overwrites `conn`, and the loss of the first connection then
  closes the second, possibly between a receive loop's check and its load of `conn` (a panic).
  The socket of the first is never closed by the station (line 312).
- `Station`: the check of `conn` (line 399) and the load that uses it (line 490) are apart: a Stop or
  a heartbeat that fails in between leaves nil, and the process ends. No property denies it.
- `Station`: a heartbeat that failed on one connection reports it when the station may have the
  next, and closes that (line 495). A reply that was read before a loss or a Stop makes the station
  online after it (line 862). A watcher that has read `StateRegister` overwrites the state a reply
  has set since (line 341).
- `Station`: a reconnection within one heartbeat interval leaves the previous heartbeat loop
  running beside the new one (`HbSelects` finds the station online again).
- `Station`: a reconnect loop spawned just before Stop reaches its first
  `connectAndRegister` without looking at the context, and brings the station back.
- `Upgrade`: `station.go:985` announces a check for an upgrade already under way; the check is on
  `IsRunning`, which is set later, so two commands in a row are both accepted.
- `Cabinet`: two devices can be recorded at one door, because the result of `PutUsb` is
  ignored; a removal (`usb_plugin.go:217`) of the one that is not in the slot takes out
  the one that is.
- `Cabinet`: `SetStatus` has no condition on the old status, so a scrapped device can be
  received again, against the life cycle at `api/usb_plugin.go:669`.
- `Cabinet`: the status of a device has no column, so `Restart` makes every device received,
  and the new cabinet is empty while the devices keep their door numbers.
- `Cabinet`: without `Careful`, `SetScrapped` of another request fits between `IssueCheck` and
  `SetIssued`: a scrapped device is issued.
- `Cabinet`: `RemoveUsbDevice` fits between `ConfigRead` and `ConfigWrite`: the row of the
  removed device is inserted again, and the device is back after a restart.
- `Registry`: two requests that both found room exceed the limit; a batch with a prefix used
  before replaces stations that run, and their objects go on out of reach (`Owned`).
- `Registry`: `ReconnectAll` writes no row, so a restart brings the old platform address back;
  `ConfigWrite` empties the column `uuid`, which the comment at `station.go:165` says is kept so
  that the ComputerID does not change; after a restart the sequential addresses start over
  and repeat those of restored stations.
- `Generators`: a stop that comes while a run is busy is missed, against `README.md:120`; a
  pressure test that missed its stop adopts the channel of the next one, counts into its
  counters and, when its time is up, ends it. A stop during the end of an audit run may
  close the channel twice and end the process.
- `Generators`: a pressure test with a frequency above 1000000000 has an interval of 0, for which
  `NewTicker` panics in a goroutine and ends the process (`pressure.go:222-232`).
- `Claims`: without `prompt`, a completion can overwrite a cancellation.
- `Claims`: `lifecycle.go:24-28` and `RELEASE-V3.0.0.md:12` have a share for borrowed and one for
  returned, as states a code is left in. Since `returnedEnd` starts at `borrowedEnd` and is looked at
  for borrowed codes only, every code that is borrowed is also returned, whatever the share of
  returned, unless that is negative. No property asks for it.
- `Claims`: negative shares are accepted (`claim.go:176-206`, `lifecycle.go:83-91`), and with
  them the parts can exceed the whole.
- `Platform`: a body of 64 KiB or more is sent with a length that is not its own, and the
  receiver reads headers in the middle of it; what looks like one there is handled, although
  nobody sent it (`header.go:154-157`, `echo_server.go:119-128`).
- `EventBus`: two publications of one type that overlap reach the clients in any order, one client in
  one and another in the other, and the time in the second may be earlier than in the first:
  `Publish` holds its lock for reading (`hub.go:145-169`). Events of different types may
  change places as well; two subscriptions of the same nanosecond are told apart by nothing.
- `Messages`: a disconnection while registering is told to nobody; overlapping changes can leave
  the last event and the row stale; a command may be written on a new connection before its
  registration.
- `Messages`: `sendCommand` and the debugging handler do not check the reason of an alarm, nor the
  serial number of an operation, which `api/station.go:549-551` and `RELEASE-V3.0.0.md:59` require
  of all but two operations; the command of `USER_GUIDE.md:453` (F-007) calls it `usbSn`,
  so its body has none. The result of a claim,
  success or fail by `usb_claim.go:19`, is checked by nobody.
- Not part of a model: `README.md:128` lists pressure figures among the events of `/ws`, but
  `NotifyPressureMetric` is never called; `buildPhone` of `claimgen` does not always give eleven digits,
  as its comment says.

## 12. Reading the models

An operator whose name begins with `Faulty` is the operation that follows it with a
plausible mistake planted in it. No specification uses these; `PROJECT.json` names for each
the run and the property that reports it. An invariant named `...Inv` joins the parts that
belong together with the type invariant; its parts are definitions of their own, each with
its meaning.

## 13. Not modelled

- Handlers that only read, routing, the format of answers.
- Reading and writing the configuration file, the platform's login and database, text
  encoding: sequential input and output.
- The contents AES, zlib and CRC compute, and the derivation of the key: `Platform` has their
  lengths and order.
- The contents of messages beyond the fields a rule is about; names, times, random choices.
- `main.go`, tray, icons and tools: start-up and desktop integration.
- The web page in `web/dist`.
- Data races as such: an unlocked access is modelled as an atomic load or store at the
  point where the code makes it, or as a choice of the values it may yield (`StopClose`). The Go
  memory model allows more; the fields concerned are single words and pointers, except for
  states and statuses, strings of two words.
