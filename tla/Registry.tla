------------------------------ MODULE Registry ------------------------------
(***************************************************************************)
(* The stations the hub knows: created singly and in batches, started,     *)
(* stopped, moved to another platform, configured and deleted by HTTP      *)
(* requests, kept in the table sim_station and restored from it when the   *)
(* process starts (internal/hub/hub.go, internal/api/station.go,           *)
(* internal/api/config_api.go, internal/model/station.go).                 *)
(*                                                                         *)
(* The map of the hub and the table change together under the hub's lock.  *)
(* The requests look a station up under that lock, release it, and go on   *)
(* with the pointer.  Of a station's own life (module Station) only this   *)
(* is left: whether it runs (its state is not idle), with connections     *)
(* that hold.                                                              *)
(***************************************************************************)
EXTENDS Integers, FiniteSets, Sequences

CONSTANTS
    Ids,         \* station ids; a station is looked up by SN, which is its id here
    BatchIds,    \* the ids, in order, that a batch may ask for
    RaceIds,     \* bound: the ids that users who race ask for
    Hosts,       \* platform addresses
    Clients,     \* HTTP requests served at a time
    Ops,         \* what they ask for
    MaxStations, \* 100
    MaxOctet,    \* 254, the last value of an octet of a sequential IP address
    MaxByte,     \* 255, the last value of a byte of a sequential MAC address
    MaxObjects,  \* station objects; one that nothing refers to is used again
    MaxHanded,   \* bound: addresses handed out by one process
    MaxRestarts, \* bound: restarts of the process
    DbReliable   \* TRUE: every statement of the database succeeds

Objects == 1..MaxObjects

ASSUME RegistryAssumption ==
    /\ IsFiniteSet(Ids) /\ IsFiniteSet(Clients) /\ Ids # {} /\ Hosts # {}
    /\ BatchIds \subseteq Seq(Ids) /\ RaceIds \subseteq Ids
    /\ \A ids \in BatchIds : \A j, k \in DOMAIN ids : ids[j] = ids[k] => j = k
    /\ Ops \subseteq {"create", "batch", "start", "stop", "config", "platform", "delete"}
    /\ MaxStations \in Nat /\ MaxObjects \in Nat /\ MaxHanded \in Nat /\ MaxRestarts \in Nat
    /\ MaxOctet \in Nat \ {0} /\ MaxByte \in Nat
    /\ 0 \notin Hosts
    /\ DbReliable \in BOOLEAN

\* No station, no object
None == 0

VARIABLES
    hub,        \* h.stations: the object of each id
    row,        \* the table sim_station: what it holds of each id
    obj,        \* what each object holds: its addresses, the platform's host, its uuid
    running,    \* objects whose state is not idle
    starting,   \* objects a goroutine is about to call Start of
    lastIP,     \* the two octets that count, and
    lastMAC,    \* the three bytes that count, of the addresses handed out last
    handed,     \* how many this process has handed out
    platform,   \* cfg.Sasoc.Host
    pc,         \* where each request is
    req,        \* what it knows
    restarts,
    careful     \* rigid: TRUE if the users do not disturb each other (see Undisturbed)

tables == <<hub, row, obj>>
lives == <<running, starting>>
addresses == <<lastIP, lastMAC, handed>>
requests == <<pc, req>>
vars == <<tables, lives, addresses, platform, requests, restarts, careful>>

RequestPC == {"off", "check", "add", "batch", "stop", "remove", "write", "reconnect"}
NoRequest == [id |-> None, objs |-> {}, ids |-> <<>>, seen |-> 0, host |-> None]

\* The uuid a station was created with, or the empty string
Own == "own"
Blank == "blank"

FirstIP == <<1, (100 % MaxOctet) + 1>>   \* 192.168.1.100 at MaxOctet = 254
FirstMAC == <<0, 0, 0>>                  \* 00-50-56-C0-00-00

Fields == [ip : (1..MaxOctet) \X (1..MaxOctet),
           mac : (0..MaxByte) \X (0..MaxByte) \X (0..MaxByte),
           host : Hosts \cup {None}, uuid : {Own, Blank}]
NoFields == [ip |-> FirstIP, mac |-> FirstMAC, host |-> None, uuid |-> Blank]
NoRow == [present |-> FALSE, data |-> NoFields]

Init ==
    /\ hub = [i \in Ids |-> None] /\ row = [i \in Ids |-> NoRow]
    /\ obj = [o \in Objects |-> NoFields]
    /\ running = {} /\ starting = {}
    /\ lastIP = FirstIP /\ lastMAC = FirstMAC /\ handed = 0
    /\ platform \in Hosts
    /\ pc = [c \in Clients |-> "off"] /\ req = [c \in Clients |-> NoRequest]
    /\ restarts = 0
    /\ careful \in BOOLEAN

-----------------------------------------------------------------------------
(* The addresses                                                           *)

\* Fault: the last octet goes one too far
FaultyNextIP(a) ==
    IF a[2] <= MaxOctet THEN <<a[1], a[2] + 1>>
    ELSE <<IF a[1] < MaxOctet THEN a[1] + 1 ELSE 1, 1>>

\* GenerateSequentialIP, from the last two octets a
NextIP(a) ==
    IF a[2] < MaxOctet THEN <<a[1], a[2] + 1>>
    ELSE <<IF a[1] < MaxOctet THEN a[1] + 1 ELSE 1, 1>>

\* Fault: the last byte wraps around and nothing is carried
FaultyNextMAC(a) == <<a[1], a[2], IF a[3] < MaxByte THEN a[3] + 1 ELSE 0>>

\* GenerateSequentialMAC, from the last three bytes a
NextMAC(a) ==
    CASE a[3] < MaxByte -> <<a[1], a[2], a[3] + 1>>
      [] a[3] = MaxByte /\ a[2] < MaxByte -> <<a[1], a[2] + 1, 0>>
      [] a[3] = MaxByte /\ a[2] = MaxByte ->
            <<IF a[1] < MaxByte THEN a[1] + 1 ELSE 0, 0, 0>>

-----------------------------------------------------------------------------
(* Stations, rows and requests                                             *)

Known == {i \in Ids : hub[i] # None}
StationCount == Cardinality(Known)
Stations == {hub[i] : i \in Known}
Busy == {c \in Clients : pc[c] # "off"}

\* An object nothing refers to
Unused(o) ==
    /\ \A i \in Ids : hub[i] # o
    /\ o \notin running \cup starting
    /\ \A c \in Clients : o \notin req[c].objs

\* Careful users ask for one thing at a time, when what they asked for before is done
Undisturbed == Busy = {} /\ starting = {}

\* Bound: users who race ask for few ids, and leave the address of the platform as it is
Asked == IF careful THEN Ids ELSE RaceIds
Offered == IF careful THEN Hosts ELSE {platform}

\* A request comes in and goes on at label, knowing r
Request(c, what, label, r) ==
    /\ what \in Ops /\ pc[c] = "off"
    /\ careful => Undisturbed
    /\ pc' = [pc EXCEPT ![c] = label]
    /\ req' = [req EXCEPT ![c] = IF label = "off" THEN NoRequest ELSE r]

\* It goes on to label, or ends and forgets what it knew
Continue(c, label, r) ==
    /\ pc' = [pc EXCEPT ![c] = label]
    /\ req' = [req EXCEPT ![c] = IF label = "off" THEN NoRequest ELSE r]

\* A statement that fails is only logged
Executed(rows) == row' = rows \/ (~DbReliable /\ row' = row)

InsertStation(i, data) == Executed([row EXCEPT ![i] = [present |-> TRUE, data |-> data]])

\* Fault: a row that is not there is inserted
FaultyUpdateStation(i, data) ==
    Executed([row EXCEPT ![i] = [present |-> TRUE, data |-> data]])

\* UPDATE ... WHERE id = i: nothing if there is no such row
UpdateStation(i, data) ==
    Executed([row EXCEPT ![i] = IF @.present THEN [present |-> TRUE, data |-> data] ELSE @])

DeleteRow(i) == Executed([row EXCEPT ![i] = NoRow])

\* NewSimStation and AddStation: a new object takes the place of what the hub has under i,
\* and its row the place of the row, under the hub's lock
AddStation(i, h) ==
    /\ handed < MaxHanded /\ \E o \in Objects : Unused(o)
    /\ lastIP' = NextIP(lastIP) /\ lastMAC' = NextMAC(lastMAC) /\ handed' = handed + 1
    /\ LET data == [ip |-> lastIP', mac |-> lastMAC', host |-> h, uuid |-> Own]
           o == CHOOSE x \in Objects : Unused(x) IN
          /\ obj' = [obj EXCEPT ![o] = data]
          /\ hub' = [hub EXCEPT ![i] = o]
          /\ InsertStation(i, data)

-----------------------------------------------------------------------------
(* Creating: createStation, batchCreateStations                            *)

\* The limit is looked at first ...
CreateCount(c, i) ==
    /\ StationCount < MaxStations
    /\ Request(c, "create", "check", [NoRequest EXCEPT !.id = i])
    /\ UNCHANGED <<tables, lives, addresses, platform, restarts, careful>>

\* Fault: nobody looks whether the id is taken
FaultyCreateCheck(c) ==
    /\ pc[c] = "check"
    /\ Continue(c, "add", req[c])
    /\ UNCHANGED <<tables, lives, addresses, platform, restarts, careful>>

\* ... then whether the id is taken ...
CreateCheck(c) ==
    /\ pc[c] = "check"
    /\ Continue(c, IF hub[req[c].id] = None THEN "add" ELSE "off", req[c])
    /\ UNCHANGED <<tables, lives, addresses, platform, restarts, careful>>

\* ... and the station is added.  The platform's host is the one asked for, or the
\* configured one
CreateAdd(c) ==
    /\ pc[c] = "add"
    /\ \E h \in Offered : AddStation(req[c].id, h)
    /\ Continue(c, "off", NoRequest)
    /\ UNCHANGED <<lives, platform, restarts, careful>>

\* Fault: the batch does not look at how many stations there are
FaultyBatchCount(c, ids, h) ==
    /\ ids \in Seq(Asked)
    /\ careful => \A k \in DOMAIN ids : hub[ids[k]] = None
    /\ Request(c, "batch", "batch", [NoRequest EXCEPT !.ids = ids, !.host = h])
    /\ UNCHANGED <<tables, lives, addresses, platform, restarts, careful>>

\* A batch counts the stations once.  Its ids are prefix-1, prefix-2 ... every time: careful
\* users give every batch a prefix of its own
BatchCount(c, ids, h) ==
    /\ ids \in Seq(Asked)
    /\ careful => \A k \in DOMAIN ids : hub[ids[k]] = None
    /\ Request(c, "batch", "batch", [NoRequest EXCEPT !.ids = ids, !.seen = StationCount,
                                                     !.host = h])
    /\ UNCHANGED <<tables, lives, addresses, platform, restarts, careful>>

\* It adds the next station without looking whether the hub has one under that id; from the
\* limit on the ones that are left are refused
BatchAdd(c) ==
    /\ pc[c] = "batch" /\ req[c].ids # <<>> /\ req[c].seen < MaxStations
    /\ AddStation(Head(req[c].ids), req[c].host)
    /\ Continue(c, "batch", [req[c] EXCEPT !.ids = Tail(@), !.seen = @ + 1])
    /\ UNCHANGED <<lives, platform, restarts, careful>>

BatchEnd(c) ==
    /\ pc[c] = "batch" /\ (req[c].ids = <<>> \/ req[c].seen >= MaxStations)
    /\ Continue(c, "off", NoRequest)
    /\ UNCHANGED <<tables, lives, addresses, platform, restarts, careful>>

-----------------------------------------------------------------------------
(* Starting and stopping: startStation, stationAction, startAllStations,   *)
(* stopStation, restartStation, stopAllStations                            *)

\* The station of i is to be started: the pointer is kept
StartLookup(c, i) ==
    /\ hub[i] # None
    /\ starting' = starting \cup {hub[i]}
    /\ Request(c, "start", "off", NoRequest)
    /\ UNCHANGED <<tables, running, addresses, platform, restarts, careful>>

\* So are all the idle ones, by a goroutine that goes on when the request is answered
StartAllLookup(c) ==
    /\ Stations \ running # {}
    /\ starting' = starting \cup (Stations \ running)
    /\ Request(c, "start", "off", NoRequest)
    /\ UNCHANGED <<tables, running, addresses, platform, restarts, careful>>

\* Start: an idle station goes to register and from there to online or reconnect, a running
\* one is refused
Start(o) ==
    /\ o \in starting
    /\ starting' = starting \ {o}
    /\ running' = running \cup {o}
    /\ UNCHANGED <<tables, addresses, platform, requests, restarts, careful>>

\* The station of i is to be stopped ...
StopLookup(c, i) ==
    /\ hub[i] \in running
    /\ Request(c, "stop", "stop", [NoRequest EXCEPT !.objs = {hub[i]}])
    /\ UNCHANGED <<tables, lives, addresses, platform, restarts, careful>>

\* ... or all that run ...
StopAllLookup(c) ==
    /\ Stations \cap running # {}
    /\ Request(c, "stop", "stop", [NoRequest EXCEPT !.objs = Stations \cap running])
    /\ UNCHANGED <<tables, lives, addresses, platform, restarts, careful>>

\* ... and are, one after the other in any order
Stop(c) ==
    /\ pc[c] = "stop"
    /\ \E o \in req[c].objs :
          /\ running' = running \ {o}
          /\ LET left == req[c].objs \ {o} IN
                Continue(c, IF left = {} THEN "off" ELSE "stop", [req[c] EXCEPT !.objs = left])
    /\ UNCHANGED <<tables, starting, addresses, platform, restarts, careful>>

\* restartStation: a stop, whatever the state, and a start
RestartStation(c, i) ==
    /\ hub[i] # None
    /\ Request(c, "start", "off", NoRequest)
    /\ running' = running \ {hub[i]}
    /\ starting' = starting \cup {hub[i]}
    /\ UNCHANGED <<tables, addresses, platform, restarts, careful>>

\* stationAction asks for one of the three by name
StationAction(c, i) == StartLookup(c, i) \/ StopLookup(c, i) \/ RestartStation(c, i)

-----------------------------------------------------------------------------
(* Configuring: updateConfig of a station, updateConfig of the platform    *)

\* The settings of the station change in memory ...
ConfigSet(c, i, h) ==
    /\ hub[i] # None
    /\ Request(c, "config", "write", [NoRequest EXCEPT !.id = i, !.objs = {hub[i]}])
    /\ obj' = [obj EXCEPT ![hub[i]].host = h]
    /\ UNCHANGED <<hub, row, lives, addresses, platform, restarts, careful>>

\* Fault: the settings stay in memory
FaultyConfigWrite(c) ==
    /\ pc[c] = "write"
    /\ row' = row
    /\ Continue(c, "off", NoRequest)
    /\ UNCHANGED <<hub, obj, lives, addresses, platform, restarts, careful>>

\* Fault: the row is made from the request, which has no addresses
FaultyConfigRow(c) ==
    /\ pc[c] = "write"
    /\ \E o \in req[c].objs : UpdateStation(req[c].id, [NoFields EXCEPT !.host = obj[o].host])
    /\ Continue(c, "off", NoRequest)
    /\ UNCHANGED <<hub, obj, lives, addresses, platform, restarts, careful>>

\* ... and its row, if there still is one (UpdateStation), is made from the station, but
\* without its uuid: the column becomes empty
ConfigWrite(c) ==
    /\ pc[c] = "write"
    /\ \E o \in req[c].objs : UpdateStation(req[c].id, [obj[o] EXCEPT !.uuid = Blank])
    /\ Continue(c, "off", NoRequest)
    /\ UNCHANGED <<hub, obj, lives, addresses, platform, restarts, careful>>

\* The configured address of the platform changes and is saved ...
PlatformSet(c, h) ==
    /\ h # platform
    /\ Request(c, "platform", "reconnect", NoRequest)
    /\ platform' = h
    /\ UNCHANGED <<tables, lives, addresses, restarts, careful>>

\* ... and every station goes over to it under the hub's lock (ReconnectAllStations): the
\* ones that run are stopped and started again by goroutines; no row is written
ReconnectAll(c) ==
    /\ pc[c] = "reconnect"
    /\ running' = running \ Stations
    /\ starting' = starting \cup (Stations \cap running)
    /\ obj' = [o \in Objects |-> IF o \in Stations THEN [obj[o] EXCEPT !.host = platform]
                                                 ELSE obj[o]]
    /\ Continue(c, "off", NoRequest)
    /\ UNCHANGED <<hub, row, addresses, platform, restarts, careful>>

-----------------------------------------------------------------------------
(* Deleting: deleteStation, RemoveStation                                  *)

\* The station looked up is stopped ...
DeleteStop(c, i) ==
    /\ hub[i] # None
    /\ Request(c, "delete", "remove", [NoRequest EXCEPT !.id = i, !.objs = {hub[i]}])
    /\ running' = running \ {hub[i]}
    /\ UNCHANGED <<tables, starting, addresses, platform, restarts, careful>>

\* ... and the station the hub has under its id by now, if it has one, is stopped and
\* removed together with the row
RemoveStation(c) ==
    /\ pc[c] = "remove"
    /\ LET i == req[c].id IN
          IF hub[i] = None THEN UNCHANGED <<hub, row, running>>
          ELSE /\ running' = running \ {hub[i]}
               /\ hub' = [hub EXCEPT ![i] = None]
               /\ DeleteRow(i)
    /\ Continue(c, "off", NoRequest)
    /\ UNCHANGED <<obj, starting, addresses, platform, restarts, careful>>

-----------------------------------------------------------------------------
(* The process                                                             *)

\* model.ListStations: an object for each row there is
RestoredHub ==
    CHOOSE f \in [Ids -> Objects \cup {None}] :
        /\ \A i \in Ids : (f[i] # None) <=> row[i].present
        /\ \A i, j \in Ids : f[i] = f[j] /\ f[i] # None => i = j

\* The process ends, after ShutdownAll or without it, and the next one makes its stations
\* from the rows (RestoreStations), idle.  The addresses start over
Restart ==
    /\ restarts < MaxRestarts
    /\ restarts' = restarts + 1
    /\ running' = {} /\ starting' = {}
    /\ hub' = RestoredHub
    /\ obj' = [o \in Objects |->
                  IF \E i \in Ids : RestoredHub[i] = o
                  THEN row[CHOOSE i \in Ids : RestoredHub[i] = o].data
                  ELSE NoFields]
    /\ lastIP' = FirstIP /\ lastMAC' = FirstMAC /\ handed' = 0
    /\ pc' = [c \in Clients |-> "off"] /\ req' = [c \in Clients |-> NoRequest]
    /\ UNCHANGED <<row, platform, careful>>

Next ==
    \/ \E c \in Clients :
          \/ \E i \in Asked : CreateCount(c, i) \/ DeleteStop(c, i) \/ StationAction(c, i)
          \/ \E i \in Asked, h \in Offered : ConfigSet(c, i, h)
          \/ \E ids \in BatchIds, h \in Offered : BatchCount(c, ids, h)
          \/ \E h \in Offered : PlatformSet(c, h)
          \/ CreateCheck(c) \/ CreateAdd(c) \/ BatchAdd(c) \/ BatchEnd(c)
          \/ StartAllLookup(c) \/ StopAllLookup(c) \/ Stop(c)
          \/ ConfigWrite(c) \/ ReconnectAll(c) \/ RemoveStation(c)
    \/ \E o \in Objects : Start(o)
    \/ Restart

Spec == Init /\ [][Next]_vars
-----------------------------------------------------------------------------
(* Properties                                                              *)

Row == [present : BOOLEAN, data : Fields]

\* Types of the variables: addresses stay within their octets and bytes when they wrap
\* around, and a request only keeps what its kind needs
TypeOK ==
    /\ hub \in [Ids -> Objects \cup {None}]
    /\ row \in [Ids -> Row]
    /\ obj \in [Objects -> Fields]
    /\ running \subseteq Objects /\ starting \subseteq Objects
    /\ lastIP \in (1..MaxOctet) \X (1..MaxOctet)
    /\ lastMAC \in (0..MaxByte) \X (0..MaxByte) \X (0..MaxByte)
    /\ handed \in 0..MaxHanded
    /\ platform \in Hosts
    /\ pc \in [Clients -> RequestPC]
    /\ req \in [Clients -> [id : Ids \cup {None}, objs : SUBSET Objects, ids : Seq(Ids),
                            seen : Nat, host : Hosts \cup {None}]]
    /\ restarts \in 0..MaxRestarts
    /\ careful \in BOOLEAN

\* Whatever requests race, the hub and the table have the same stations, so the next process
\* has them too: a late updateConfig does not bring the row of a deleted station back, and a
\* station that is added over another leaves one row
Persisted == DbReliable => \A i \in Ids : (hub[i] # None) <=> row[i].present

\* With careful users every station that runs, or is about to be started, can still be
\* stopped: it is in the hub.  An object that a new one has replaced, or that was deleted,
\* would go on with its connection and its goroutines, out of everyone's reach
Owned == careful => running \cup starting \subseteq Stations

\* With careful users the limit on the number of stations is kept by single stations and
\* batches alike, although it is checked before the stations are added
WithinLimit == careful => StationCount <= MaxStations

\* With careful users a restart gives every station the platform address it has now, unless
\* that is one ReconnectAllStations moved it to, which no row is told of
SettingsPersisted ==
    careful /\ DbReliable /\ Busy = {} =>
        \A i \in Known : obj[hub[i]].host \in {row[i].data.host, platform}

\* No two stations made by the first process have the same address, until the addresses
\* have wrapped around.  (The next process starts over and gives its new stations the
\* addresses of the stations it restored)
DistinctAddresses ==
    restarts = 0 => \A i, j \in Known : i # j =>
        /\ handed <= MaxOctet * MaxOctet => obj[hub[i]].ip # obj[hub[j]].ip
        /\ handed <= (MaxByte + 1) * (MaxByte + 1) * (MaxByte + 1) =>
              obj[hub[i]].mac # obj[hub[j]].mac

\* The two generators: what they hand out are addresses, also when they wrap around, and no
\* two stations share one
AddressInv == TypeOK /\ DistinctAddresses

\* The addresses there are, and those of each station the hub has
Addresses == [ip : (1..MaxOctet) \X (1..MaxOctet),
              mac : (0..MaxByte) \X (0..MaxByte) \X (0..MaxByte)]
AddressOf == [i \in Known |-> [ip |-> obj[hub[i]].ip, mac |-> obj[hub[i]].mac]]
Table == INSTANCE StationTable WITH table <- AddressOf, process <- restarts

\* The requests, the hub and the rows together are the table of StationTable: stations are added
\* and removed one at a time and within the limit, no other request changes their addresses,
\* and the next process has the same stations at the same addresses
ImplementsTable == Table!Spec
=============================================================================
