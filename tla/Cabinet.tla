------------------------------- MODULE Cabinet -------------------------------
(***************************************************************************)
(* The USB devices of the simulator and the cabinet of one station         *)
(* (internal/simulator/cabinet.go, internal/simulator/usb_device.go,       *)
(* internal/api/usb_plugin.go, internal/api/cabinet.go and the parts of    *)
(* internal/hub/hub.go and internal/model they call), across restarts.     *)
(*                                                                         *)
(* Every HTTP request is a goroutine.  The hub's map of devices and the    *)
(* database row of a device change together under the hub's lock; the      *)
(* fields of a device and the slots of the cabinet are used without any    *)
(* lock.  A request keeps the pointer to the device object it looked up,   *)
(* even when the device has been removed from the hub by then.             *)
(***************************************************************************)
EXTENDS Integers, FiniteSets

CONSTANTS
    MaxUsbs,    \* devices, by their serial number
    Doors,      \* the doors of the cabinet
    OtherDoors, \* door numbers outside the cabinet, 0 (no door) included
    Clients,    \* HTTP requests served at a time
    Ops,        \* what they ask for
    NewStatus,  \* the initial status asked for in a batch
    MaxObjects, \* device objects; one that nothing refers to is used again
    MaxCount,   \* bound: how far from 0 UsedPorts may be when a request comes in
    MaxRestarts,    \* bound: restarts of the process
    DbReliable, \* TRUE: every statement of the database succeeds
    Careful     \* TRUE: the users do not disturb each other (see Undisturbed)

Usbs == 1..MaxUsbs
Objects == 1..MaxObjects
DoorNos == Doors \cup OtherDoors

Status == {"registered", "sent", "received", "issued", "scrapped"}

ASSUME CabinetAssumption ==
    /\ MaxUsbs \in Nat /\ MaxObjects \in Nat /\ MaxUsbs <= MaxObjects
    /\ MaxCount \in Nat /\ MaxRestarts \in Nat
    /\ IsFiniteSet(Doors) /\ Doors \subseteq Nat \ {0} /\ OtherDoors \subseteq Nat
    /\ 0 \in OtherDoors /\ Doors \cap OtherDoors = {}
    /\ Ops \subseteq {"create", "insert", "remove", "issue", "status", "scrap", "config",
                      "fault"}
    /\ NewStatus \subseteq Status
    /\ DbReliable \in BOOLEAN /\ Careful \in BOOLEAN

\* An empty slot, a device the hub does not have
None == 0
\* No row in the database: no door number has this value
NoRow == -1

VARIABLES
    slot,       \* the serial number in each slot, None if it is not Occupied
    usedPorts,  \* UsedPorts
    fault,      \* slots with Fault, and with DoorStatus 4
    dev,        \* usbDevs of the hub: the object of each device
    objDoor,    \* DoorNo of each object
    objStatus,  \* its life cycle status
    row,        \* the sim_usb row of each device: its door number
    faultRow,   \* the cabinet_slot_status rows with status 4
    pc,         \* where each request is
    req,        \* what it knows: its kind, the device, the object it looked up or created,
                \* the door number or the row it read, the UsedPorts it is changing
    restarts

cabinetVars == <<slot, usedPorts>>
objectVars  == <<objDoor, objStatus>>
hubVars     == <<dev, row>>
faultVars   == <<fault, faultRow>>
vars == <<cabinetVars, objectVars, hubVars, faultVars, pc, req, restarts>>

RequestPC == {"off", "place", "put", "fill", "countUp", "add", "check", "take", "clear",
              "countDown", "drop", "issued", "scrapped", "readRow", "writeRow"}

NoRequest == [op |-> "none", usb |-> None, obj |-> None, door |-> 0, seen |-> 0]

Init ==
    /\ slot = [d \in Doors |-> None] /\ usedPorts = 0
    /\ dev = [u \in Usbs |-> None] /\ row = [u \in Usbs |-> NoRow]
    /\ objDoor = [o \in Objects |-> 0] /\ objStatus = [o \in Objects |-> "received"]
    /\ fault = {} /\ faultRow = {}
    /\ pc = [c \in Clients |-> "off"] /\ req = [c \in Clients |-> NoRequest]
    /\ restarts = 0

Busy == {c \in Clients : pc[c] # "off"}

\* An object neither the hub nor a request refers to
Unused(o) == (\A u \in Usbs : dev[u] # o) /\ (\A c \in Clients : req[c].obj # o)

\* What careful users do: one request at a time for a device and for a door ...
Undisturbed(u, d) ==
    \A c \in Busy : req[c].usb # u /\ (d \in Doors => req[c].door # d)

\* ... and only free doors are asked for
Free(d) == d \in Doors => slot[d] = None

\* A request comes in and continues at label, with object o and door number d
Request(c, what, u, o, d, label) ==
    /\ what \in Ops
    /\ pc[c] = "off" /\ usedPorts \in -MaxCount..MaxCount
    /\ Careful => Undisturbed(u, d)
    /\ pc' = [pc EXCEPT ![c] = label]
    /\ req' = [req EXCEPT ![c] = [op |-> what, usb |-> u, obj |-> o, door |-> d, seen |-> 0]]

\* It goes on to label knowing r, or ends and forgets it
Continue(c, label, r) ==
    /\ pc' = [pc EXCEPT ![c] = label]
    /\ req' = [req EXCEPT ![c] = IF label = "off" THEN NoRequest ELSE r]

\* The row of u becomes r, unless the database fails, which is only logged
SetRow(u, r) ==
    \/ row' = [row EXCEPT ![u] = r]
    \/ ~DbReliable /\ row' = row

-----------------------------------------------------------------------------
(* Inserting: insertUsb, insertUsbSimple, batchCreateUsbs, insertUsbBySN.  *)

\* A device the hub does not have: a new object, with its door.  Only the batch chooses
\* the initial status, the others leave it at received
CreateLookup(c, u, d) ==
    /\ dev[u] = None
    /\ Careful => Free(d)
    /\ \E o \in Objects : Unused(o)
    /\ LET o == CHOOSE x \in Objects : Unused(x) IN
          /\ \E s \in NewStatus \cup {"received"} : objStatus' = [objStatus EXCEPT ![o] = s]
          /\ objDoor' = [objDoor EXCEPT ![o] = d]
          /\ Request(c, "create", u, o, d, "put")
    /\ UNCHANGED <<cabinetVars, hubVars, faultVars, restarts>>

\* insertUsbBySN with a device the hub has: the object is put to another door
InsertLookup(c, u, d) ==
    /\ dev[u] # None
    /\ Careful => Free(d) /\ objDoor[dev[u]] \notin Doors
    /\ Request(c, "insert", u, dev[u], d, "place")
    /\ UNCHANGED <<cabinetVars, objectVars, hubVars, faultVars, restarts>>

\* Fault: the device keeps its old door number
FaultyPlace(c) ==
    /\ pc[c] = "place"
    /\ Continue(c, "put", req[c])
    /\ UNCHANGED <<cabinetVars, objectVars, hubVars, faultVars, restarts>>

Place(c) ==
    /\ pc[c] = "place"
    /\ objDoor' = [objDoor EXCEPT ![req[c].obj] = req[c].door]
    /\ Continue(c, "put", req[c])
    /\ UNCHANGED <<cabinetVars, objStatus, hubVars, faultVars, restarts>>

\* Where a request continues after PutUsb, whatever that returned
AfterPut(c) == IF req[c].op = "create" THEN "add" ELSE "off"

\* PutUsb: refused if there is no such slot or it is occupied
PutCheck(c) ==
    /\ pc[c] = "put"
    /\ LET d == req[c].door IN
          Continue(c, IF d \in Doors /\ slot[d] = None THEN "fill" ELSE AfterPut(c), req[c])
    /\ UNCHANGED <<cabinetVars, objectVars, hubVars, faultVars, restarts>>

PutFill(c) ==
    /\ pc[c] = "fill"
    /\ slot' = [slot EXCEPT ![req[c].door] = req[c].usb]
    /\ Continue(c, "countUp", [req[c] EXCEPT !.seen = usedPorts])
    /\ UNCHANGED <<usedPorts, objectVars, hubVars, faultVars, restarts>>

\* UsedPorts++ is a load and a store
PutCount(c) ==
    /\ pc[c] = "countUp"
    /\ usedPorts' = req[c].seen + 1
    /\ Continue(c, AfterPut(c), [req[c] EXCEPT !.seen = 0])
    /\ UNCHANGED <<slot, objectVars, hubVars, faultVars, restarts>>

\* Fault: AddUsbDevice without its own look at the map
FaultyAddUsbDevice(c) ==
    /\ pc[c] = "add"
    /\ dev' = [dev EXCEPT ![req[c].usb] = req[c].obj]
    /\ SetRow(req[c].usb, objDoor[req[c].obj])
    /\ Continue(c, "off", req[c])
    /\ UNCHANGED <<cabinetVars, objectVars, faultVars, restarts>>

\* AddUsbDevice: map and row, or an error if the device is there by now
AddUsbDevice(c) ==
    /\ pc[c] = "add"
    /\ IF dev[req[c].usb] = None
       THEN /\ dev' = [dev EXCEPT ![req[c].usb] = req[c].obj]
            /\ SetRow(req[c].usb, objDoor[req[c].obj])
       ELSE UNCHANGED hubVars
    /\ Continue(c, "off", req[c])
    /\ UNCHANGED <<cabinetVars, objectVars, faultVars, restarts>>

-----------------------------------------------------------------------------
(* Removing: removeUsb, removeUsbBySN, deleteUsbBySN; issuing.             *)

RemoveLookup(c, u) ==
    /\ dev[u] # None
    /\ Request(c, "remove", u, dev[u], 0, "take")
    /\ UNCHANGED <<cabinetVars, objectVars, hubVars, faultVars, restarts>>

\* setUsbStatus "issued": CanBeIssued
IssueLookup(c, u) ==
    /\ dev[u] # None
    /\ Request(c, "issue", u, dev[u], 0, "check")
    /\ UNCHANGED <<cabinetVars, objectVars, hubVars, faultVars, restarts>>

\* Fault: CanBeIssued is not asked
FaultyIssueCheck(c) ==
    /\ pc[c] = "check"
    /\ Continue(c, "take", req[c])
    /\ UNCHANGED <<cabinetVars, objectVars, hubVars, faultVars, restarts>>

IssueCheck(c) ==
    /\ pc[c] = "check"
    /\ Continue(c, IF objStatus[req[c].obj] = "received" THEN "take" ELSE "off", req[c])
    /\ UNCHANGED <<cabinetVars, objectVars, hubVars, faultVars, restarts>>

AfterTake(c) == IF req[c].op = "remove" THEN "drop" ELSE "issued"

\* Fault: RemoveUsb does not look whether the slot is occupied
FaultyTakeCheck(c) ==
    /\ pc[c] = "take"
    /\ LET d == objDoor[req[c].obj] IN
          Continue(c, IF d \in Doors THEN "clear" ELSE AfterTake(c),
                   [req[c] EXCEPT !.door = d])
    /\ UNCHANGED <<cabinetVars, objectVars, hubVars, faultVars, restarts>>

\* RemoveUsb on the door of the object: nothing to do if that slot is empty
TakeCheck(c) ==
    /\ pc[c] = "take"
    /\ LET d == objDoor[req[c].obj] IN
          Continue(c, IF d \in Doors /\ slot[d] # None THEN "clear" ELSE AfterTake(c),
                   [req[c] EXCEPT !.door = d])
    /\ UNCHANGED <<cabinetVars, objectVars, hubVars, faultVars, restarts>>

\* ... and otherwise it is emptied, whatever it holds
TakeClear(c) ==
    /\ pc[c] = "clear"
    /\ slot' = [slot EXCEPT ![req[c].door] = None]
    /\ Continue(c, "countDown", [req[c] EXCEPT !.seen = usedPorts])
    /\ UNCHANGED <<usedPorts, objectVars, hubVars, faultVars, restarts>>

TakeCount(c) ==
    /\ pc[c] = "countDown"
    /\ usedPorts' = req[c].seen - 1
    /\ Continue(c, AfterTake(c), [req[c] EXCEPT !.seen = 0])
    /\ UNCHANGED <<slot, objectVars, hubVars, faultVars, restarts>>

\* Fault: the row goes even if the device in the map is another object by now
FaultyRemoveUsbDevice(c) ==
    /\ pc[c] = "drop"
    /\ dev' = [dev EXCEPT ![req[c].usb] = IF @ = req[c].obj THEN None ELSE @]
    /\ SetRow(req[c].usb, NoRow)
    /\ Continue(c, "off", req[c])
    /\ UNCHANGED <<cabinetVars, objectVars, faultVars, restarts>>

\* RemoveUsbDevice: whichever object the hub has under the name by now
RemoveUsbDevice(c) ==
    /\ pc[c] = "drop"
    /\ IF dev[req[c].usb] # None
       THEN /\ dev' = [dev EXCEPT ![req[c].usb] = None]
            /\ SetRow(req[c].usb, NoRow)
       ELSE UNCHANGED hubVars
    /\ Continue(c, "off", req[c])
    /\ UNCHANGED <<cabinetVars, objectVars, faultVars, restarts>>

\* Fault: the issued device still says it is at its door
FaultySetIssued(c) ==
    /\ pc[c] = "issued"
    /\ objStatus' = [objStatus EXCEPT ![req[c].obj] = "issued"]
    /\ Continue(c, "off", req[c])
    /\ UNCHANGED <<cabinetVars, objDoor, hubVars, faultVars, restarts>>

\* SetIssued, which also forgets the door
SetIssued(c) ==
    /\ pc[c] = "issued"
    /\ objStatus' = [objStatus EXCEPT ![req[c].obj] = "issued"]
    /\ objDoor' = [objDoor EXCEPT ![req[c].obj] = 0]
    /\ Continue(c, "off", req[c])
    /\ UNCHANGED <<cabinetVars, hubVars, faultVars, restarts>>

-----------------------------------------------------------------------------
(* The rest of the life cycle, and the fault settings of a device.         *)

\* setUsbStatus to a status that is not guarded
SetStatus(c, u, s) ==
    /\ "status" \in Ops /\ pc[c] = "off"
    /\ Careful => Undisturbed(u, 0)
    /\ dev[u] # None
    /\ s \in {"registered", "sent", "received"}
    /\ objStatus' = [objStatus EXCEPT ![dev[u]] = s]
    /\ UNCHANGED <<cabinetVars, objDoor, hubVars, faultVars, pc, req, restarts>>

\* setUsbStatus "scrapped": CanBeScrapped, SetScrapped
ScrapLookup(c, u) ==
    /\ dev[u] # None
    /\ objStatus[dev[u]] \in {"received", "issued"}
    /\ Request(c, "scrap", u, dev[u], 0, "scrapped")
    /\ UNCHANGED <<cabinetVars, objectVars, hubVars, faultVars, restarts>>

SetScrapped(c) ==
    /\ pc[c] = "scrapped"
    /\ objStatus' = [objStatus EXCEPT ![req[c].obj] = "scrapped"]
    /\ Continue(c, "off", req[c])
    /\ UNCHANGED <<cabinetVars, objDoor, hubVars, faultVars, restarts>>

\* updateUsbFault: the device is looked up ...
ConfigLookup(c, u) ==
    /\ dev[u] # None
    /\ Request(c, "config", u, dev[u], 0, "readRow")
    /\ UNCHANGED <<cabinetVars, objectVars, hubVars, faultVars, restarts>>

\* What is kept of the row of u: nothing if it is missing or the query fails
RowRead(u) ==
    {IF row[u] = NoRow THEN 0 ELSE row[u]} \cup (IF DbReliable THEN {} ELSE {0})

\* Fault: the row is used although there is none
FaultyConfigRead(c) ==
    /\ pc[c] = "readRow"
    /\ Continue(c, "writeRow", [req[c] EXCEPT !.door = row[req[c].usb]])
    /\ UNCHANGED <<cabinetVars, objectVars, hubVars, faultVars, restarts>>

\* ... its row is read ...
ConfigRead(c) ==
    /\ pc[c] = "readRow"
    /\ \E r \in RowRead(req[c].usb) : Continue(c, "writeRow", [req[c] EXCEPT !.door = r])
    /\ UNCHANGED <<cabinetVars, objectVars, hubVars, faultVars, restarts>>

\* ... and written back with the settings, inserted if it does not exist
ConfigWrite(c) ==
    /\ pc[c] = "writeRow"
    /\ SetRow(req[c].usb, req[c].door)
    /\ Continue(c, "off", req[c])
    /\ UNCHANGED <<cabinetVars, objectVars, dev, faultVars, restarts>>

-----------------------------------------------------------------------------
(* Faults of the cabinet.                                                  *)

\* The status rows of the doors D become faulty or not
SetFaultRow(D, faulty) ==
    \/ faultRow' = IF faulty THEN faultRow \cup D ELSE faultRow \ D
    \/ ~DbReliable /\ \E E \in SUBSET D :
          faultRow' = IF faulty THEN faultRow \cup E ELSE faultRow \ E

\* InjectCabinetSlotFault and InjectCabinetAllSlotsFault, under the hub's lock
InjectFault(D, faulty) ==
    /\ "fault" \in Ops
    /\ fault' = IF faulty THEN fault \cup D ELSE fault \ D
    /\ SetFaultRow(D, faulty)
    /\ UNCHANGED <<cabinetVars, objectVars, hubVars, pc, req, restarts>>

-----------------------------------------------------------------------------
(* The process ends, at any moment, and starts again.                      *)

\* Fault: RestoreCabinetSlotStatuses is not called
FaultyRestartWith(F) ==
    /\ restarts < MaxRestarts
    /\ restarts' = restarts + 1
    /\ slot' = [d \in Doors |-> None] /\ usedPorts' = 0
    /\ dev' = [u \in Usbs |-> IF row[u] = NoRow THEN None ELSE u]
    /\ objDoor' = [o \in Objects |->
                      IF o \in Usbs THEN IF row[o] = NoRow THEN 0 ELSE row[o] ELSE 0]
    /\ objStatus' = [o \in Objects |-> "received"]
    /\ pc' = [c \in Clients |-> "off"] /\ req' = [c \in Clients |-> NoRequest]
    /\ fault' = {} /\ faultRow' = F
    /\ UNCHANGED row

\* RestoreUsbs, RestoreCabinetSlotStatuses, on a database with fault rows F.  The cabinet
\* is a new one
RestartWith(F) ==
    /\ restarts < MaxRestarts
    /\ restarts' = restarts + 1
    /\ slot' = [d \in Doors |-> None] /\ usedPorts' = 0
    /\ dev' = [u \in Usbs |-> IF row[u] = NoRow THEN None ELSE u]
    /\ objDoor' = [o \in Objects |->
                      IF o \in Usbs THEN IF row[o] = NoRow THEN 0 ELSE row[o] ELSE 0]
    /\ objStatus' = [o \in Objects |-> "received"]
    /\ pc' = [c \in Clients |-> "off"] /\ req' = [c \in Clients |-> NoRequest]
    /\ fault' = F /\ faultRow' = F
    /\ UNCHANGED row

\* At rest, or in the middle of the rows of InjectCabinetAllSlotsFault
Restart == RestartWith(faultRow)

RestartDuringInject ==
    /\ "fault" \in Ops
    /\ \E D \in SUBSET Doors : RestartWith(faultRow \cup D) \/ RestartWith(faultRow \ D)

-----------------------------------------------------------------------------
RequestArrives(c) ==
    \E u \in Usbs :
        \/ \E d \in DoorNos : CreateLookup(c, u, d) \/ InsertLookup(c, u, d)
        \/ RemoveLookup(c, u) \/ IssueLookup(c, u) \/ ScrapLookup(c, u) \/ ConfigLookup(c, u)
        \/ \E s \in Status : SetStatus(c, u, s)

RequestGoesOn(c) ==
    \/ Place(c) \/ PutCheck(c) \/ PutFill(c) \/ PutCount(c) \/ AddUsbDevice(c)
    \/ IssueCheck(c) \/ TakeCheck(c) \/ TakeClear(c) \/ TakeCount(c)
    \/ RemoveUsbDevice(c) \/ SetIssued(c) \/ SetScrapped(c)
    \/ ConfigRead(c) \/ ConfigWrite(c)

FaultStep ==
    \E faulty \in BOOLEAN :
        (\E d \in Doors : InjectFault({d}, faulty)) \/ InjectFault(Doors, faulty)

Next ==
    \/ \E c \in Clients : RequestArrives(c) \/ RequestGoesOn(c)
    \/ FaultStep
    \/ Restart \/ RestartDuringInject

Spec == Init /\ [][Next]_vars

-----------------------------------------------------------------------------
(* Properties.                                                             *)

Requests == [op : Ops \cup {"none"}, usb : Usbs \cup {None}, obj : Objects \cup {None},
             door : DoorNos, seen : Int]

TypeOK ==
    /\ slot \in [Doors -> Usbs \cup {None}] /\ usedPorts \in Int
    /\ dev \in [Usbs -> Objects \cup {None}] /\ row \in [Usbs -> DoorNos \cup {NoRow}]
    /\ objDoor \in [Objects -> DoorNos] /\ objStatus \in [Objects -> Status]
    /\ fault \subseteq Doors /\ faultRow \subseteq Doors
    /\ pc \in [Clients -> RequestPC]
    /\ req \in [Clients -> Requests]
    /\ restarts \in 0..MaxRestarts

\* The door a device of the hub says it is at, None if it says none of the cabinet
DoorOf(u) == IF dev[u] # None /\ objDoor[dev[u]] \in Doors THEN objDoor[dev[u]] ELSE None

\* The cabinet and the devices agree: a device that no request is changing is in the slot
\* it says it is at, and in no other.  Two records kept by different handlers without a
\* lock; it holds for users who do not disturb each other, until a restart
Agreement ==
    \A u \in Usbs :
        (\A c \in Busy : req[c].usb # u) =>
            \A d \in Doors : slot[d] = u <=> DoorOf(u) = d

\* Why: a request on a device, and what the slots hold for it at each label ...
HoldsNone(u) == \A d \in Doors : slot[d] # u
HoldsAt(u, e) == \A d \in Doors : slot[d] = u <=> d = e

RequestInv(c) ==
    LET u == req[c].usb
        o == req[c].obj
        d == req[c].door
    IN
    /\ u \in Usbs /\ o \in Objects
    /\ pc[c] \in {"place", "put", "fill"} =>
          HoldsNone(u) /\ Free(d) /\ (pc[c] = "fill" => d \in Doors)
    /\ pc[c] \in {"countUp", "add"} => HoldsAt(u, d)
    /\ pc[c] \in {"put", "fill", "countUp", "add", "clear"} => objDoor[o] = d
    /\ pc[c] = "clear" => d \in Doors /\ HoldsAt(u, d)
    /\ pc[c] \in {"check", "take", "scrapped", "readRow", "writeRow"} => HoldsAt(u, DoorOf(u))
    /\ pc[c] \in {"check", "take", "scrapped", "readRow"} => d = 0
    /\ pc[c] \in {"countDown", "drop", "issued"} => HoldsNone(u) /\ Free(d)
    /\ IF req[c].op = "create"
       THEN /\ pc[c] \in {"put", "fill", "countUp", "add"}
            /\ dev[u] = None /\ \A v \in Usbs : dev[v] # o
       ELSE /\ dev[u] = o
            /\ pc[c] \in {"place", "put", "fill", "countUp"} => req[c].op = "insert"
            /\ pc[c] \in {"check", "take", "clear", "countDown", "drop", "issued"} =>
                  req[c].op \in {"remove", "issue"}
            /\ pc[c] # "add"

\* ... requests that meet neither at a device nor at a door ...
RequestsApart ==
    \A b, c \in Busy :
        b # c =>
            /\ req[b].usb # req[c].usb
            /\ req[b].obj # req[c].obj
            /\ pc[b] # "writeRow" /\ pc[c] # "writeRow" /\ req[b].door \in Doors
                  => req[b].door # req[c].door

\* ... and an object for each device
CarefulInv ==
    /\ Agreement
    /\ \A u, v \in Usbs : dev[u] # None /\ dev[u] = dev[v] => u = v
    /\ \A c \in Busy : RequestInv(c)
    /\ RequestsApart

\* UsedPorts, which the reports to the platform carry, is the number of occupied slots
\* when one request is served at a time
PortsCounted ==
    Busy = {} => usedPorts = Cardinality({d \in Doors : slot[d] # None})

\* A device the hub has is in the database: whatever requests overlap and however often
\* the process restarts, a restart does not lose it (AddUsbDevice, RemoveUsbDevice)
DevicesPersisted == \A u \in Usbs : dev[u] # None => row[u] # NoRow

\* The faults shown are the ones in the database, so that a restart shows them again
FaultsPersisted == fault = faultRow

\* A restart finds every device and every fault again, whatever it interrupts
PersistenceInv == TypeOK /\ DevicesPersisted /\ FaultsPersisted

\* While the process runs, the object the hub has for a device is never replaced by that
\* of a second request that found the device missing: AddUsbDevice looks again
NeverReplaced ==
    [][\A u \in Usbs : restarts' = restarts /\ dev[u] # None /\ dev'[u] # None
                          => dev'[u] = dev[u]]_vars

\* Only a received device is issued (simulator/usb_device.go:153, CanBeIssued): the status
\* checked is still the one when SetIssued changes it
IssuedFromReceived ==
    [][\A o \in Objects :
          ~Unused(o) /\ objStatus[o] # "issued" /\ objStatus'[o] = "issued"
              => objStatus[o] = "received"]_vars
=============================================================================
