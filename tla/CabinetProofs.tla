---------------------------- MODULE CabinetProofs ----------------------------
(***************************************************************************)
(* Proofs about Cabinet, for any number of devices, doors, requests and    *)
(* restarts.                                                               *)
(***************************************************************************)
EXTENDS Cabinet, FiniteSetTheorems, TLAPS

USE CabinetAssumption DEF None, NoRow

\* A request under way is about a device, and has an object
RequestsKnown ==
    \A c \in Clients : pc[c] # "off" => req[c].usb \in Usbs /\ req[c].obj \in Objects

\* The type invariant as it is inductive
Typed == TypeOK /\ RequestsKnown

\* The values of the constants that stand for absence
LEMMA Numbers ==
    /\ Usbs \subseteq Objects /\ None \notin Objects /\ None \notin Usbs
    /\ DoorNos \subseteq Nat /\ 0 \in DoorNos /\ Doors \subseteq DoorNos
    /\ NoRow \notin DoorNos
    /\ 0 \notin Doors
BY DEF Usbs, Objects, DoorNos

\* What a request becomes when it goes on or ends
LEMMA ContinueTyped ==
    ASSUME Typed, NEW c \in Clients, NEW label \in RequestPC, NEW r \in Requests,
           r.usb \in Usbs, r.obj \in Objects, Continue(c, label, r)
    PROVE  pc' \in [Clients -> RequestPC] /\ req' \in [Clients -> Requests] /\ RequestsKnown'
<1>1. NoRequest \in Requests
  BY Numbers DEF NoRequest, Requests
<1>2. pc' \in [Clients -> RequestPC] /\ req' \in [Clients -> Requests]
  BY <1>1 DEF Typed, TypeOK, Continue
<1>3. RequestsKnown'
  <2> SUFFICES ASSUME NEW b \in Clients
               PROVE  (pc[b] # "off" => req[b].usb \in Usbs /\ req[b].obj \in Objects)'
    BY DEF RequestsKnown
  <2>2. CASE b = c
    BY <2>2, Numbers DEF Typed, TypeOK, Continue, NoRequest
  <2>3. CASE b # c
    BY <2>3 DEF Typed, TypeOK, Continue, RequestsKnown
  <2> QED BY <2>2, <2>3
<1> QED BY <1>2, <1>3

\* ... and when it comes in
LEMMA RequestTyped ==
    ASSUME Typed, NEW c \in Clients, NEW what \in Ops, NEW u \in Usbs, NEW o \in Objects,
           NEW d \in DoorNos, NEW label \in RequestPC, Request(c, what, u, o, d, label)
    PROVE  pc' \in [Clients -> RequestPC] /\ req' \in [Clients -> Requests] /\ RequestsKnown'
<1> DEFINE r == [op |-> what, usb |-> u, obj |-> o, door |-> d, seen |-> 0]
<1>1. r \in Requests
  BY DEF Requests
<1>2. pc' \in [Clients -> RequestPC] /\ req' \in [Clients -> Requests]
  BY <1>1 DEF Typed, TypeOK, Request
<1>3. RequestsKnown'
  <2> SUFFICES ASSUME NEW b \in Clients
               PROVE  (pc[b] # "off" => req[b].usb \in Usbs /\ req[b].obj \in Objects)'
    BY DEF RequestsKnown
  <2>2. CASE b = c
    BY <2>2 DEF Typed, TypeOK, Request
  <2>3. CASE b # c
    BY <2>3 DEF Typed, TypeOK, Request, RequestsKnown
  <2> QED BY <2>2, <2>3
<1> QED BY <1>2, <1>3

\* The steps of a request
LEMMA StepTyped ==
    ASSUME Typed, NEW c \in Clients, RequestGoesOn(c)
    PROVE  Typed'
<1> USE Numbers
<1> DEFINE q == req[c]
<1>1. q \in Requests /\ pc[c] \in RequestPC
  BY DEF Typed, TypeOK
<1>2. pc[c] # "off" => q.usb \in Usbs /\ q.obj \in Objects
  BY DEF Typed, RequestsKnown
<1>3. ASSUME NEW d \in DoorNos
      PROVE  [q EXCEPT !.door = d] \in Requests
  BY <1>1 DEF Requests
<1>4. ASSUME NEW n \in Int
      PROVE  [q EXCEPT !.seen = n] \in Requests
  BY <1>1 DEF Requests
<1>5. q.door \in DoorNos /\ q.seen \in Int
  BY <1>1 DEF Requests
<1>6. AfterPut(c) \in RequestPC /\ AfterTake(c) \in RequestPC
  BY DEF AfterPut, AfterTake, RequestPC
<1>7. CASE Place(c)
  <2>1. Continue(c, "put", q)
    BY <1>7 DEF Place
  <2>2. pc[c] # "off"
    BY <1>7 DEF Place
  <2>4. "put" \in RequestPC
    BY <1>6 DEF RequestPC
  <2>5. pc' \in [Clients -> RequestPC] /\ req' \in [Clients -> Requests] /\ RequestsKnown'
    BY <1>1, <1>2, <2>1, <2>2, <2>4, ContinueTyped
  <2> QED BY <1>7, <1>1, <1>2, <1>5, <2>2, <2>5 DEF Typed, TypeOK, Place,
             cabinetVars, objectVars, hubVars, faultVars
<1>8. CASE PutCheck(c)
  <2> DEFINE label == IF q.door \in Doors /\ slot[q.door] = None THEN "fill" ELSE AfterPut(c)
  <2>1. Continue(c, label, q)
    BY <1>8 DEF PutCheck
  <2>2. pc[c] # "off"
    BY <1>8 DEF PutCheck
  <2>4. label \in RequestPC
    BY <1>6 DEF RequestPC
  <2>5. pc' \in [Clients -> RequestPC] /\ req' \in [Clients -> Requests] /\ RequestsKnown'
    BY <1>1, <1>2, <2>1, <2>2, <2>4, ContinueTyped
  <2> QED BY <1>8, <1>1, <1>2, <1>5, <2>2, <2>5 DEF Typed, TypeOK, PutCheck,
             cabinetVars, objectVars, hubVars, faultVars
<1>9. CASE PutFill(c)
  <2> DEFINE r == [q EXCEPT !.seen = usedPorts]
  <2>1. Continue(c, "countUp", r)
    BY <1>9 DEF PutFill
  <2>2. pc[c] # "off"
    BY <1>9 DEF PutFill
  <2>3. r \in Requests /\ r.usb = q.usb /\ r.obj = q.obj
    BY <1>1, <1>2, <1>4, <2>2 DEF Typed, TypeOK, Requests
  <2>4. "countUp" \in RequestPC
    BY <1>6 DEF RequestPC
  <2>5. pc' \in [Clients -> RequestPC] /\ req' \in [Clients -> Requests] /\ RequestsKnown'
    BY <1>1, <1>2, <2>1, <2>2, <2>3, <2>4, ContinueTyped
  <2> QED BY <1>9, <1>1, <1>2, <1>5, <2>2, <2>5 DEF Typed, TypeOK, PutFill,
             cabinetVars, objectVars, hubVars, faultVars
<1>10. CASE PutCount(c)
  <2> DEFINE r == [q EXCEPT !.seen = 0]
  <2>1. Continue(c, AfterPut(c), r)
    BY <1>10 DEF PutCount
  <2>2. pc[c] # "off"
    BY <1>10 DEF PutCount
  <2>3. r \in Requests /\ r.usb = q.usb /\ r.obj = q.obj
    BY <1>1, <1>2, <1>4, <2>2 DEF Typed, TypeOK, Requests
  <2>4. AfterPut(c) \in RequestPC
    BY <1>6 DEF RequestPC
  <2>5. pc' \in [Clients -> RequestPC] /\ req' \in [Clients -> Requests] /\ RequestsKnown'
    BY <1>1, <1>2, <2>1, <2>2, <2>3, <2>4, ContinueTyped
  <2> QED BY <1>10, <1>1, <1>2, <1>5, <2>2, <2>5 DEF Typed, TypeOK, PutCount,
             cabinetVars, objectVars, hubVars, faultVars
<1>11. CASE AddUsbDevice(c)
  <2>1. Continue(c, "off", q)
    BY <1>11 DEF AddUsbDevice
  <2>2. pc[c] # "off"
    BY <1>11 DEF AddUsbDevice
  <2>4. "off" \in RequestPC
    BY <1>6 DEF RequestPC
  <2>5. pc' \in [Clients -> RequestPC] /\ req' \in [Clients -> Requests] /\ RequestsKnown'
    BY <1>1, <1>2, <2>1, <2>2, <2>4, ContinueTyped
  <2> QED BY <1>11, <1>1, <1>2, <1>5, <2>2, <2>5 DEF Typed, TypeOK, AddUsbDevice, SetRow,
             cabinetVars, objectVars, hubVars, faultVars
<1>12. CASE IssueCheck(c)
  <2> DEFINE label == IF objStatus[q.obj] = "received" THEN "take" ELSE "off"
  <2>1. Continue(c, label, q)
    BY <1>12 DEF IssueCheck
  <2>2. pc[c] # "off"
    BY <1>12 DEF IssueCheck
  <2>4. label \in RequestPC
    BY <1>6 DEF RequestPC
  <2>5. pc' \in [Clients -> RequestPC] /\ req' \in [Clients -> Requests] /\ RequestsKnown'
    BY <1>1, <1>2, <2>1, <2>2, <2>4, ContinueTyped
  <2> QED BY <1>12, <1>1, <1>2, <1>5, <2>2, <2>5 DEF Typed, TypeOK, IssueCheck,
             cabinetVars, objectVars, hubVars, faultVars
<1>13. CASE TakeCheck(c)
  <2> DEFINE label == IF objDoor[q.obj] \in Doors /\ slot[objDoor[q.obj]] # None
                     THEN "clear" ELSE AfterTake(c)
  <2> DEFINE r == [q EXCEPT !.door = objDoor[q.obj]]
  <2>1. Continue(c, label, r)
    BY <1>13 DEF TakeCheck
  <2>2. pc[c] # "off"
    BY <1>13 DEF TakeCheck
  <2>3. r \in Requests /\ r.usb = q.usb /\ r.obj = q.obj
    BY <1>1, <1>2, <1>3, <2>2 DEF Typed, TypeOK, Requests
  <2>4. label \in RequestPC
    BY <1>6 DEF RequestPC
  <2>5. pc' \in [Clients -> RequestPC] /\ req' \in [Clients -> Requests] /\ RequestsKnown'
    BY <1>1, <1>2, <2>1, <2>2, <2>3, <2>4, ContinueTyped
  <2> QED BY <1>13, <1>1, <1>2, <1>5, <2>2, <2>5 DEF Typed, TypeOK, TakeCheck,
             cabinetVars, objectVars, hubVars, faultVars
<1>14. CASE TakeClear(c)
  <2> DEFINE r == [q EXCEPT !.seen = usedPorts]
  <2>1. Continue(c, "countDown", r)
    BY <1>14 DEF TakeClear
  <2>2. pc[c] # "off"
    BY <1>14 DEF TakeClear
  <2>3. r \in Requests /\ r.usb = q.usb /\ r.obj = q.obj
    BY <1>1, <1>2, <1>4, <2>2 DEF Typed, TypeOK, Requests
  <2>4. "countDown" \in RequestPC
    BY <1>6 DEF RequestPC
  <2>5. pc' \in [Clients -> RequestPC] /\ req' \in [Clients -> Requests] /\ RequestsKnown'
    BY <1>1, <1>2, <2>1, <2>2, <2>3, <2>4, ContinueTyped
  <2> QED BY <1>14, <1>1, <1>2, <1>5, <2>2, <2>5 DEF Typed, TypeOK, TakeClear,
             cabinetVars, objectVars, hubVars, faultVars
<1>15. CASE TakeCount(c)
  <2> DEFINE r == [q EXCEPT !.seen = 0]
  <2>1. Continue(c, AfterTake(c), r)
    BY <1>15 DEF TakeCount
  <2>2. pc[c] # "off"
    BY <1>15 DEF TakeCount
  <2>3. r \in Requests /\ r.usb = q.usb /\ r.obj = q.obj
    BY <1>1, <1>2, <1>4, <2>2 DEF Typed, TypeOK, Requests
  <2>4. AfterTake(c) \in RequestPC
    BY <1>6 DEF RequestPC
  <2>5. pc' \in [Clients -> RequestPC] /\ req' \in [Clients -> Requests] /\ RequestsKnown'
    BY <1>1, <1>2, <2>1, <2>2, <2>3, <2>4, ContinueTyped
  <2> QED BY <1>15, <1>1, <1>2, <1>5, <2>2, <2>5 DEF Typed, TypeOK, TakeCount,
             cabinetVars, objectVars, hubVars, faultVars
<1>16. CASE RemoveUsbDevice(c)
  <2>1. Continue(c, "off", q)
    BY <1>16 DEF RemoveUsbDevice
  <2>2. pc[c] # "off"
    BY <1>16 DEF RemoveUsbDevice
  <2>4. "off" \in RequestPC
    BY <1>6 DEF RequestPC
  <2>5. pc' \in [Clients -> RequestPC] /\ req' \in [Clients -> Requests] /\ RequestsKnown'
    BY <1>1, <1>2, <2>1, <2>2, <2>4, ContinueTyped
  <2> QED BY <1>16, <1>1, <1>2, <1>5, <2>2, <2>5 DEF Typed, TypeOK, RemoveUsbDevice,
             SetRow,
             cabinetVars, objectVars, hubVars, faultVars
<1>17. CASE SetIssued(c)
  <2>1. Continue(c, "off", q)
    BY <1>17 DEF SetIssued
  <2>2. pc[c] # "off"
    BY <1>17 DEF SetIssued
  <2>4. "off" \in RequestPC
    BY <1>6 DEF RequestPC
  <2>5. pc' \in [Clients -> RequestPC] /\ req' \in [Clients -> Requests] /\ RequestsKnown'
    BY <1>1, <1>2, <2>1, <2>2, <2>4, ContinueTyped
  <2> QED BY <1>17, <1>1, <1>2, <1>5, <2>2, <2>5 DEF Typed, TypeOK, SetIssued, Status,
             cabinetVars, objectVars, hubVars, faultVars
<1>18. CASE SetScrapped(c)
  <2>1. Continue(c, "off", q)
    BY <1>18 DEF SetScrapped
  <2>2. pc[c] # "off"
    BY <1>18 DEF SetScrapped
  <2>4. "off" \in RequestPC
    BY <1>6 DEF RequestPC
  <2>5. pc' \in [Clients -> RequestPC] /\ req' \in [Clients -> Requests] /\ RequestsKnown'
    BY <1>1, <1>2, <2>1, <2>2, <2>4, ContinueTyped
  <2> QED BY <1>18, <1>1, <1>2, <1>5, <2>2, <2>5 DEF Typed, TypeOK, SetScrapped, Status,
             cabinetVars, objectVars, hubVars, faultVars
<1>19. CASE ConfigRead(c)
  <2>2. pc[c] # "off"
    BY <1>19 DEF ConfigRead
  <2>6. PICK d \in RowRead(q.usb) : Continue(c, "writeRow", [q EXCEPT !.door = d])
    BY <1>19 DEF ConfigRead
  <2> DEFINE r == [q EXCEPT !.door = d]
  <2>1. Continue(c, "writeRow", r)
    BY <2>6
  <2>7. d \in DoorNos
    BY <1>1, <1>2, <1>3, <2>2, Numbers DEF Typed, TypeOK, RowRead
  <2>3. r \in Requests /\ r.usb = q.usb /\ r.obj = q.obj
    BY <1>1, <1>2, <1>3, <2>2, <2>7 DEF Typed, TypeOK, Requests
  <2>4. "writeRow" \in RequestPC
    BY <1>6 DEF RequestPC
  <2>5. pc' \in [Clients -> RequestPC] /\ req' \in [Clients -> Requests] /\ RequestsKnown'
    BY <1>1, <1>2, <2>1, <2>2, <2>3, <2>4, ContinueTyped
  <2> QED BY <1>19, <1>1, <1>2, <1>5, <2>2, <2>5 DEF Typed, TypeOK, ConfigRead,
             cabinetVars, objectVars, hubVars, faultVars
<1>20. CASE ConfigWrite(c)
  <2>1. Continue(c, "off", q)
    BY <1>20 DEF ConfigWrite
  <2>2. pc[c] # "off"
    BY <1>20 DEF ConfigWrite
  <2>4. "off" \in RequestPC
    BY <1>6 DEF RequestPC
  <2>5. pc' \in [Clients -> RequestPC] /\ req' \in [Clients -> Requests] /\ RequestsKnown'
    BY <1>1, <1>2, <2>1, <2>2, <2>4, ContinueTyped
  <2> QED BY <1>20, <1>1, <1>2, <1>5, <2>2, <2>5 DEF Typed, TypeOK, ConfigWrite, SetRow,
             cabinetVars, objectVars, hubVars, faultVars
<1> QED BY <1>7, <1>8, <1>9, <1>10, <1>11, <1>12, <1>13, <1>14, <1>15, <1>16, <1>17,
           <1>18, <1>19, <1>20 DEF RequestGoesOn

\* The arrival of a request
LEMMA ArrivalTyped ==
    ASSUME Typed, NEW c \in Clients, RequestArrives(c)
    PROVE  Typed'
<1> USE Numbers
<1>1. ASSUME NEW u \in Usbs, dev[u] # None
      PROVE  dev[u] \in Objects /\ objDoor[dev[u]] \in DoorNos
  BY <1>1 DEF Typed, TypeOK
<1>2. ASSUME NEW u \in Usbs, NEW d \in DoorNos, CreateLookup(c, u, d)
      PROVE  Typed'
  <2> DEFINE o == CHOOSE x \in Objects : Unused(x)
  <2>1. o \in Objects
    BY <1>2 DEF CreateLookup
  <2>2. Request(c, "create", u, o, d, "put") /\ objDoor' = [objDoor EXCEPT ![o] = d]
    BY <1>2 DEF CreateLookup
  <2>3. objStatus' \in [Objects -> Status]
    BY <1>2, <2>1 DEF CreateLookup, Typed, TypeOK, Status
  <2>4. "create" \in Ops /\ "put" \in RequestPC
    BY <2>2 DEF Request, RequestPC
  <2>5. pc' \in [Clients -> RequestPC] /\ req' \in [Clients -> Requests] /\ RequestsKnown'
    BY <2>1, <2>2, <2>4, RequestTyped
  <2>6. objDoor' \in [Objects -> DoorNos]
    BY <2>1, <2>2 DEF Typed, TypeOK
  <2> QED BY <1>2, <2>3, <2>5, <2>6 DEF CreateLookup, Typed, TypeOK, cabinetVars, hubVars,
             faultVars
<1>3. ASSUME NEW u \in Usbs, NEW d \in DoorNos, InsertLookup(c, u, d)
      PROVE  Typed'
  <2>1. dev[u] \in Objects /\ Request(c, "insert", u, dev[u], d, "place")
    BY <1>1, <1>3 DEF InsertLookup
  <2>2. "insert" \in Ops /\ "place" \in RequestPC
    BY <2>1 DEF Request, RequestPC
  <2>3. pc' \in [Clients -> RequestPC] /\ req' \in [Clients -> Requests] /\ RequestsKnown'
    BY <2>1, <2>2, RequestTyped
  <2> QED BY <1>3, <2>3 DEF InsertLookup, Typed, TypeOK, cabinetVars, objectVars,
             hubVars, faultVars
<1>4. ASSUME NEW u \in Usbs, RemoveLookup(c, u)
      PROVE  Typed'
  <2>1. dev[u] \in Objects /\ Request(c, "remove", u, dev[u], 0, "take")
    BY <1>1, <1>4 DEF RemoveLookup
  <2>2. "remove" \in Ops /\ "take" \in RequestPC
    BY <2>1 DEF Request, RequestPC
  <2>3. pc' \in [Clients -> RequestPC] /\ req' \in [Clients -> Requests] /\ RequestsKnown'
    BY <2>1, <2>2, RequestTyped
  <2> QED BY <1>4, <2>3 DEF RemoveLookup, Typed, TypeOK, cabinetVars, objectVars,
             hubVars, faultVars
<1>5. ASSUME NEW u \in Usbs, IssueLookup(c, u)
      PROVE  Typed'
  <2>1. dev[u] \in Objects /\ Request(c, "issue", u, dev[u], 0, "check")
    BY <1>1, <1>5 DEF IssueLookup
  <2>2. "issue" \in Ops /\ "check" \in RequestPC
    BY <2>1 DEF Request, RequestPC
  <2>3. pc' \in [Clients -> RequestPC] /\ req' \in [Clients -> Requests] /\ RequestsKnown'
    BY <2>1, <2>2, RequestTyped
  <2> QED BY <1>5, <2>3 DEF IssueLookup, Typed, TypeOK, cabinetVars, objectVars, hubVars,
             faultVars
<1>6. ASSUME NEW u \in Usbs, ScrapLookup(c, u)
      PROVE  Typed'
  <2>1. dev[u] \in Objects /\ Request(c, "scrap", u, dev[u], 0, "scrapped")
    BY <1>1, <1>6 DEF ScrapLookup
  <2>2. "scrap" \in Ops /\ "scrapped" \in RequestPC
    BY <2>1 DEF Request, RequestPC
  <2>3. pc' \in [Clients -> RequestPC] /\ req' \in [Clients -> Requests] /\ RequestsKnown'
    BY <2>1, <2>2, RequestTyped
  <2> QED BY <1>6, <2>3 DEF ScrapLookup, Typed, TypeOK, cabinetVars, objectVars, hubVars,
             faultVars
<1>7. ASSUME NEW u \in Usbs, ConfigLookup(c, u)
      PROVE  Typed'
  <2>1. dev[u] \in Objects /\ Request(c, "config", u, dev[u], 0, "readRow")
    BY <1>1, <1>7 DEF ConfigLookup
  <2>2. "config" \in Ops /\ "readRow" \in RequestPC
    BY <2>1 DEF Request, RequestPC
  <2>3. pc' \in [Clients -> RequestPC] /\ req' \in [Clients -> Requests] /\ RequestsKnown'
    BY <2>1, <2>2, RequestTyped
  <2> QED BY <1>7, <2>3 DEF ConfigLookup, Typed, TypeOK, cabinetVars, objectVars,
             hubVars, faultVars
<1>8. ASSUME NEW u \in Usbs, NEW s \in Status, SetStatus(c, u, s)
      PROVE  Typed'
  BY <1>1, <1>8 DEF SetStatus, Typed, TypeOK, RequestsKnown, cabinetVars, hubVars,
     faultVars
<1> QED BY <1>2, <1>3, <1>4, <1>5, <1>6, <1>7, <1>8 DEF RequestArrives

\* A restart
LEMMA RestartTyped ==
    ASSUME Typed, NEW F \in SUBSET Doors, RestartWith(F)
    PROVE  Typed'
<1> USE Numbers
<1>1. slot' \in [Doors -> Usbs \cup {None}] /\ usedPorts' \in Int
  BY DEF RestartWith
<1>2. dev' \in [Usbs -> Objects \cup {None}] /\ row' \in [Usbs -> DoorNos \cup {NoRow}]
  BY DEF RestartWith, Typed, TypeOK
<1>3. objDoor' \in [Objects -> DoorNos] /\ objStatus' \in [Objects -> Status]
  <2>1. ASSUME NEW o \in Usbs, row[o] # NoRow
        PROVE  row[o] \in DoorNos
    BY <2>1 DEF Typed, TypeOK
  <2> QED BY <2>1 DEF RestartWith, Status
<1>4. pc' \in [Clients -> RequestPC] /\ req' \in [Clients -> Requests] /\ RequestsKnown'
  BY DEF RestartWith, RequestPC, NoRequest, Requests, RequestsKnown
<1>5. fault' \subseteq Doors /\ faultRow' \subseteq Doors /\ restarts' \in 0..MaxRestarts
  BY DEF RestartWith, Typed, TypeOK
<1> QED BY <1>1, <1>2, <1>3, <1>4, <1>5 DEF Typed, TypeOK

\* The invariant holds
LEMMA TypedInitially == Init => Typed
<1> USE Numbers
<1>1. NoRequest \in Requests /\ "off" \in RequestPC
  BY DEF NoRequest, Requests, RequestPC
<1>2. Init => TypeOK
  BY <1>1 DEF Init, TypeOK, Status
<1> QED BY <1>2 DEF Init, Typed, RequestsKnown

\* ... and every step keeps it
LEMMA TypedNext == Typed /\ [Next]_vars => Typed'
<1> SUFFICES ASSUME Typed, [Next]_vars
             PROVE  Typed'
  OBVIOUS
<1>1. ASSUME NEW c \in Clients, RequestArrives(c)
      PROVE  Typed'
  BY <1>1, ArrivalTyped
<1>2. ASSUME NEW c \in Clients, RequestGoesOn(c)
      PROVE  Typed'
  BY <1>2, StepTyped
<1>3. ASSUME NEW D \in SUBSET Doors, NEW faulty \in BOOLEAN, InjectFault(D, faulty)
      PROVE  Typed'
  <2>1. fault' \subseteq Doors
    BY <1>3 DEF InjectFault, Typed, TypeOK
  <2>2. faultRow' \subseteq Doors
    BY <1>3 DEF InjectFault, SetFaultRow, Typed, TypeOK
  <2> QED BY <1>3, <2>1, <2>2 DEF InjectFault, Typed, TypeOK, RequestsKnown, cabinetVars,
             objectVars, hubVars
<1>4. CASE FaultStep
  BY <1>3, <1>4 DEF FaultStep
<1>5. CASE Restart
  BY <1>5, RestartTyped DEF Restart, Typed, TypeOK
<1>6. CASE RestartDuringInject
  <2>1. PICK D \in SUBSET Doors : RestartWith(faultRow \cup D) \/ RestartWith(faultRow \ D)
    BY <1>6 DEF RestartDuringInject
  <2>2. faultRow \cup D \in SUBSET Doors /\ faultRow \ D \in SUBSET Doors
    BY DEF Typed, TypeOK
  <2> QED BY <2>1, <2>2, RestartTyped
<1>7. CASE UNCHANGED vars
  BY <1>7 DEF Typed, TypeOK, RequestsKnown, vars, cabinetVars, objectVars, hubVars,
     faultVars
<1> QED BY <1>1, <1>2, <1>4, <1>5, <1>6, <1>7 DEF Next

\* TypeOK holds always
THEOREM TypeCorrect == Spec => []TypeOK
<1>1. Typed => TypeOK
  BY DEF Typed
<1> QED BY TypedInitially, TypedNext, <1>1, PTL DEF Spec

-----------------------------------------------------------------------------
(* What a restart finds, when the database does not fail.                  *)

LEMMA Reliable ==
    ASSUME DbReliable, NEW u, NEW r, SetRow(u, r)
    PROVE  row' = [row EXCEPT ![u] = r]
BY DEF SetRow

\* Both devices and faults are kept by every step
LEMMA PersistedNext ==
    ASSUME DbReliable, Typed, DevicesPersisted, FaultsPersisted, [Next]_vars
    PROVE  DevicesPersisted' /\ FaultsPersisted'
<1> USE Numbers
<1>1. ASSUME NEW c \in Clients, RequestArrives(c)
      PROVE  UNCHANGED <<hubVars, faultVars>>
  BY <1>1 DEF RequestArrives, CreateLookup, InsertLookup, RemoveLookup, IssueLookup,
              ScrapLookup, ConfigLookup, SetStatus
<1>2. ASSUME NEW c \in Clients, RequestGoesOn(c)
      PROVE  UNCHANGED faultVars /\ DevicesPersisted'
  <2>1. CASE AddUsbDevice(c)
    <3>1. req[c].obj \in Objects /\ req[c].usb \in Usbs
      BY <2>1 DEF AddUsbDevice, Typed, RequestsKnown
    <3>2. objDoor[req[c].obj] # NoRow
      BY <3>1 DEF Typed, TypeOK
    <3> QED BY <2>1, <3>1, <3>2, Reliable DEF AddUsbDevice, DevicesPersisted, Typed, TypeOK,
               hubVars, faultVars
  <2>2. CASE RemoveUsbDevice(c)
    <3>1. req[c].usb \in Usbs
      BY <2>2 DEF RemoveUsbDevice, Typed, RequestsKnown
    <3> QED BY <2>2, <3>1, Reliable DEF RemoveUsbDevice, DevicesPersisted, Typed, TypeOK,
               hubVars, faultVars
  <2>3. CASE ConfigWrite(c)
    <3>1. req[c].door # NoRow
      BY DEF Typed, TypeOK, Requests
    <3> QED BY <2>3, <3>1, Reliable DEF ConfigWrite, DevicesPersisted, Typed, TypeOK, faultVars
  <2>4. CASE ~(AddUsbDevice(c) \/ RemoveUsbDevice(c) \/ ConfigWrite(c))
    <3>1. UNCHANGED <<hubVars, faultVars>>
      BY <1>2, <2>4 DEF RequestGoesOn, Place, PutCheck, PutFill, PutCount, IssueCheck,
                        TakeCheck, TakeClear, TakeCount, SetIssued, SetScrapped, ConfigRead
    <3> QED BY <3>1 DEF DevicesPersisted, hubVars
  <2> QED BY <2>1, <2>2, <2>3, <2>4
<1>3. CASE FaultStep
  <2>1. PICK D \in SUBSET Doors, faulty \in BOOLEAN : InjectFault(D, faulty)
    BY <1>3 DEF FaultStep
  <2> QED BY <2>1 DEF InjectFault, SetFaultRow, DevicesPersisted, FaultsPersisted, hubVars
<1>4. ASSUME NEW F, RestartWith(F)
      PROVE  DevicesPersisted' /\ FaultsPersisted'
  BY <1>4 DEF RestartWith, DevicesPersisted, FaultsPersisted
<1>5. CASE UNCHANGED vars
  BY <1>5 DEF DevicesPersisted, FaultsPersisted, vars, hubVars, faultVars
<1> QED BY <1>1, <1>2, <1>3, <1>4, <1>5 DEF Next, Restart, RestartDuringInject,
           DevicesPersisted, FaultsPersisted, hubVars, faultVars

\* No device of the hub is missing from the database
THEOREM DevicesPersistedCorrect == ASSUME DbReliable PROVE Spec => []DevicesPersisted
<1>1. Init => DevicesPersisted /\ FaultsPersisted
  BY DEF Init, DevicesPersisted, FaultsPersisted
<1> QED BY <1>1, TypedInitially, TypedNext, PersistedNext, PTL DEF Spec

\* The faults in the database are the ones shown
THEOREM FaultsPersistedCorrect == ASSUME DbReliable PROVE Spec => []FaultsPersisted
<1>1. Init => DevicesPersisted /\ FaultsPersisted
  BY DEF Init, DevicesPersisted, FaultsPersisted
<1> QED BY <1>1, TypedInitially, TypedNext, PersistedNext, PTL DEF Spec

\* So a restart loses nothing
THEOREM PersistenceInvCorrect == ASSUME DbReliable PROVE Spec => []PersistenceInv
BY TypeCorrect, DevicesPersistedCorrect, FaultsPersistedCorrect, PTL DEF PersistenceInv

\* The object of a device is never replaced while the process runs
THEOREM NeverReplacedCorrect == Spec => NeverReplaced
<1> DEFINE Kept == \A u \in Usbs : restarts' = restarts /\ dev[u] # None /\ dev'[u] # None
                                      => dev'[u] = dev[u]
<1>1. Typed /\ [Next]_vars => [Kept]_vars
  <2> SUFFICES ASSUME Typed, [Next]_vars
               PROVE  Kept
    OBVIOUS
  <2>1. ASSUME NEW c \in Clients, RequestArrives(c)
        PROVE  dev' = dev
    BY <2>1 DEF RequestArrives, CreateLookup, InsertLookup, RemoveLookup, IssueLookup,
                ScrapLookup, ConfigLookup, SetStatus, hubVars
  <2>2. ASSUME NEW c \in Clients, RequestGoesOn(c)
        PROVE  Kept
    <3>1. CASE AddUsbDevice(c)
      BY <3>1 DEF AddUsbDevice, Typed, TypeOK, hubVars
    <3>2. CASE RemoveUsbDevice(c)
      BY <3>2 DEF RemoveUsbDevice, Typed, TypeOK, hubVars
    <3>3. CASE ~(AddUsbDevice(c) \/ RemoveUsbDevice(c))
      BY <2>2, <3>3 DEF RequestGoesOn, Place, PutCheck, PutFill, PutCount, IssueCheck,
                        TakeCheck, TakeClear, TakeCount, SetIssued, SetScrapped, ConfigRead,
                        ConfigWrite, hubVars
    <3> QED BY <3>1, <3>2, <3>3
  <2>3. CASE FaultStep
    BY <2>3 DEF FaultStep, InjectFault, hubVars
  <2>4. ASSUME NEW F, RestartWith(F)
        PROVE  restarts' # restarts
    BY <2>4 DEF RestartWith, Typed, TypeOK
  <2>5. CASE UNCHANGED vars
    BY <2>5 DEF vars, hubVars
  <2> QED BY <2>1, <2>2, <2>3, <2>4, <2>5 DEF Next, Restart, RestartDuringInject
<1> QED BY <1>1, TypedInitially, TypedNext, PTL DEF Spec, NeverReplaced

-----------------------------------------------------------------------------
(* Users who do not disturb each other, until the first restart.           *)

\* What a step of one request does: client c, about device u with object o.  Others is what
\* it leaves to the other requests and devices, Own what it must establish itself
Apart(c, u, o) ==
    /\ pc[c] # "off" => req[c].usb = u
    /\ \A b \in Busy \ {c} : req[b].usb # u /\ req[b].obj # o
    /\ \A v \in Usbs : v # u => dev[v] # o

Others(c, u, o) ==
    /\ \A b \in Clients \ {c} : pc'[b] = pc[b] /\ req'[b] = req[b]
    /\ \A v \in Usbs : v # u => dev'[v] = dev[v]
    /\ dev'[u] \in {dev[u], None, o}
    /\ \A x \in Objects : x # o => objDoor'[x] = objDoor[x]
    /\ \A e \in Doors :
          slot'[e] # slot[e] =>
              /\ slot[e] \in {None, u} /\ slot'[e] \in {None, u}
              /\ \A b \in Busy \ {c} : pc[b] # "writeRow" => req[b].door # e

Own(c, u, o) ==
    IF pc'[c] = "off"
    THEN \A e \in Doors : slot'[e] = u <=> DoorOf(u)' = e
    ELSE /\ RequestInv(c)'
         /\ req'[c].usb = u /\ req'[c].obj = o
         /\ pc'[c] # "writeRow" /\ req'[c].door \in Doors =>
               \A b \in Busy \ {c} : pc[b] # "writeRow" => req[b].door # req'[c].door

\* The requests of the others keep their invariant
LEMMA OthersKeep ==
    ASSUME Typed, CarefulInv, NEW c \in Clients, NEW u \in Usbs, NEW o \in Objects,
           Apart(c, u, o), Others(c, u, o), NEW b \in Busy \ {c}
    PROVE  RequestInv(b)'
<1> USE Numbers
<1>1. b \in Clients /\ pc'[b] = pc[b] /\ req'[b] = req[b] /\ RequestInv(b)
  BY DEF Others, CarefulInv, Busy
<1>2. PICK w \in Usbs, x \in Objects, d \in DoorNos :
         w = req[b].usb /\ x = req[b].obj /\ d = req[b].door
  BY <1>1 DEF RequestInv, Typed, TypeOK, Requests
<1>3. w = req'[b].usb /\ x = req'[b].obj /\ d = req'[b].door /\ req'[b].op = req[b].op
  BY <1>1, <1>2
<1>4. w # u /\ x # o
  BY <1>2 DEF Apart
<1>5. \A e \in Doors : slot'[e] = w <=> slot[e] = w
  BY <1>4 DEF Others
<1>6. pc[b] # "writeRow" => (Free(d)' <=> Free(d))
  BY <1>2 DEF Others, Free
<1>7. dev'[w] = dev[w] /\ objDoor'[x] = objDoor[x]
  BY <1>4 DEF Others
<1>8. DoorOf(w)' = DoorOf(w)
  <2>1. dev[w] # None => dev[w] \in Objects /\ dev[w] # o
    BY <1>4 DEF Typed, TypeOK, Apart
  <2>2. dev[w] # None => objDoor'[dev[w]] = objDoor[dev[w]]
    BY <2>1 DEF Others
  <2> QED BY <1>7, <2>2 DEF DoorOf
<1>9. (\A v \in Usbs : dev[v] # x) => \A v \in Usbs : dev'[v] # x
  BY <1>4 DEF Others
<1>10. (HoldsNone(w)' <=> HoldsNone(w)) /\ (HoldsAt(w, d)' <=> HoldsAt(w, d))
  BY <1>5 DEF HoldsNone, HoldsAt
<1>11. HoldsAt(w, DoorOf(w))' <=> HoldsAt(w, DoorOf(w))
  BY <1>5, <1>8 DEF HoldsAt
<1> QED BY <1>1, <1>2, <1>3, <1>6, <1>7, <1>9, <1>10, <1>11 DEF RequestInv

\* A step that leaves the others alone and does its own part keeps the invariant
LEMMA StepCareful ==
    ASSUME Typed, CarefulInv, NEW c \in Clients, NEW u \in Usbs, NEW o \in Objects,
           Apart(c, u, o), Others(c, u, o), Own(c, u, o)
    PROVE  CarefulInv'
<1> USE Numbers
<1>1. \A b \in Clients \ {c} : pc'[b] = pc[b] /\ req'[b] = req[b]
  BY DEF Others
<1>2. Busy' \ {c} = Busy \ {c}
  BY <1>1 DEF Busy
<1>3. Agreement'
  <2> SUFFICES ASSUME NEW v \in Usbs, \A b \in Busy' : req'[b].usb # v, NEW e \in Doors
               PROVE  slot'[e] = v <=> DoorOf(v)' = e
    BY DEF Agreement
  <2>1. CASE v = u
    <3>1. pc'[c] = "off"
      BY <2>1 DEF Own, Busy
    <3> QED BY <2>1, <3>1 DEF Own
  <2>2. CASE v # u
    <3>1. \A b \in Busy : req[b].usb # v
      BY <1>1, <1>2, <2>2 DEF Apart, Busy
    <3>2. slot[e] = v <=> DoorOf(v) = e
      BY <3>1 DEF CarefulInv, Agreement
    <3>3. slot'[e] = v <=> slot[e] = v
      BY <2>2 DEF Others
    <3>4. dev'[v] = dev[v] /\ (dev[v] # None => dev[v] \in Objects /\ dev[v] # o)
      BY <2>2 DEF Others, Apart, Typed, TypeOK
    <3>5. DoorOf(v)' = DoorOf(v)
      BY <3>4 DEF Others, DoorOf
    <3> QED BY <3>2, <3>3, <3>5
  <2> QED BY <2>1, <2>2
<1>4. ASSUME NEW v \in Usbs, NEW w \in Usbs, dev'[v] # None, dev'[v] = dev'[w]
      PROVE  v = w
  <2>1. ASSUME NEW z \in Usbs, z # u, dev'[z] = dev'[u]
        PROVE  dev'[z] = None
    <3>1. dev'[z] = dev[z] /\ dev[z] # o
      BY <2>1 DEF Others, Apart
    <3>2. dev'[u] = dev[u] \/ dev'[u] = None
      BY <2>1, <3>1 DEF Others
    <3> QED BY <2>1, <3>1, <3>2 DEF CarefulInv
  <2>2. v # u /\ w # u => dev'[v] = dev[v] /\ dev'[w] = dev[w]
    BY DEF Others
  <2> QED BY <1>4, <2>1, <2>2 DEF CarefulInv
<1>5. ASSUME NEW b \in Busy'
      PROVE  RequestInv(b)'
  <2>1. CASE b = c
    BY <2>1, <1>5 DEF Own, Busy
  <2>2. CASE b # c
    BY <2>2, <1>2, <1>5, OthersKeep
  <2> QED BY <2>1, <2>2
<1>6. ASSUME NEW a \in Busy', NEW b \in Busy', a # b
      PROVE  /\ req'[a].usb # req'[b].usb /\ req'[a].obj # req'[b].obj
             /\ pc'[a] # "writeRow" /\ pc'[b] # "writeRow" /\ req'[a].door \in Doors
                   => req'[a].door # req'[b].door
  <2>1. CASE a # c /\ b # c
    <3>1. a \in Busy /\ b \in Busy /\ req'[a] = req[a] /\ req'[b] = req[b]
          /\ pc'[a] = pc[a] /\ pc'[b] = pc[b]
      BY <1>1, <1>2, <2>1 DEF Busy
    <3>2. RequestsApart
      BY DEF CarefulInv
    <3> QED BY <1>6, <3>1, <3>2 DEF RequestsApart
  <2>2. ASSUME NEW y \in Busy', NEW z \in Busy', y = c, z # c
        PROVE  /\ z \in Busy \ {c} /\ req'[z] = req[z] /\ pc'[z] = pc[z]
               /\ req'[y].usb = u /\ req'[y].obj = o
               /\ pc'[y] # "writeRow" /\ req'[y].door \in Doors =>
                     (pc[z] # "writeRow" => req[z].door # req'[y].door)
    BY <1>1, <1>2, <2>2 DEF Own, Busy
  <2>3. CASE a = c
    BY <1>6, <2>2, <2>3 DEF Apart
  <2>4. CASE b = c
    BY <1>6, <2>2, <2>4 DEF Apart
  <2> QED BY <2>1, <2>3, <2>4
<1> QED BY <1>3, <1>4, <1>5, <1>6 DEF CarefulInv, RequestsApart

\* A request under way stands apart from the others
LEMMA GoingApart ==
    ASSUME Typed, CarefulInv, NEW c \in Busy, NEW u, NEW o, u = req[c].usb, o = req[c].obj
    PROVE  Apart(c, u, o)
<1>1. RequestInv(c)
  BY DEF CarefulInv
<1>2. \A v \in Usbs : v # u => dev[v] # o
  BY <1>1, Numbers DEF RequestInv, CarefulInv
<1>3. \A b \in Busy \ {c} : req[b].usb # u /\ req[b].obj # o
  BY DEF CarefulInv, RequestsApart
<1> QED BY <1>2, <1>3 DEF Apart

\* The steps of a request
LEMMA GoingCareful ==
    ASSUME Typed, CarefulInv, NEW c \in Clients, RequestGoesOn(c)
    PROVE  CarefulInv'
<1> USE Numbers
<1>1. c \in Busy
  BY DEF Busy, RequestGoesOn, Place, PutCheck, PutFill, PutCount, AddUsbDevice,
     IssueCheck,
         TakeCheck, TakeClear, TakeCount, RemoveUsbDevice, SetIssued, SetScrapped, ConfigRead,
         ConfigWrite
<1>2. PICK u \in Usbs, o \in Objects, d \in DoorNos :
         u = req[c].usb /\ o = req[c].obj /\ d = req[c].door
  BY <1>1 DEF CarefulInv, RequestInv, Typed, TypeOK, Requests
<1>3. Apart(c, u, o)
  BY <1>1, <1>2, GoingApart
<1>4. RequestInv(c)
  BY <1>1 DEF CarefulInv
<1>5. ASSUME NEW label, NEW r, Continue(c, label, r)
      PROVE  /\ \A b \in Clients \ {c} : pc'[b] = pc[b] /\ req'[b] = req[b]
             /\ pc'[c] = label /\ (label # "off" => req'[c] = r)
  BY <1>5 DEF Continue, Typed, TypeOK
<1>6. pc[c] # "writeRow" /\ d \in Doors =>
         \A b \in Busy \ {c} : pc[b] # "writeRow" => req[b].door # d
  BY <1>1, <1>2 DEF CarefulInv, RequestsApart
<1>7. req[c] \in Requests
  BY DEF Typed, TypeOK
<1>8. CASE Place(c)
  <2>1. Others(c, u, o)
    BY <1>2, <1>4, <1>5, <1>6, <1>8 DEF Place, Others, RequestInv, HoldsAt, HoldsNone,
       Free, Typed, TypeOK, cabinetVars, objectVars, hubVars
  <2>2. Own(c, u, o)
    BY <1>2, <1>4, <1>5, <1>6, <1>7, <1>8 DEF Place, Own, RequestInv, HoldsAt, HoldsNone,
       Free, DoorOf, AfterPut, AfterTake, Typed, TypeOK, cabinetVars, objectVars, hubVars
  <2> QED BY <1>3, <2>1, <2>2, StepCareful
<1>9. CASE PutCheck(c)
  <2>1. Others(c, u, o)
    BY <1>2, <1>4, <1>5, <1>6, <1>9 DEF PutCheck, Others, RequestInv, HoldsAt, HoldsNone,
       Free, Typed, TypeOK, cabinetVars, objectVars, hubVars
  <2>2. Own(c, u, o)
    BY <1>2, <1>4, <1>5, <1>6, <1>7, <1>9 DEF PutCheck, Own, RequestInv, HoldsAt,
       HoldsNone, Free, DoorOf, AfterPut, AfterTake, Typed, TypeOK, cabinetVars,
       objectVars, hubVars
  <2> QED BY <1>3, <2>1, <2>2, StepCareful
<1>10. CASE PutFill(c)
  <2>1. Others(c, u, o)
    BY <1>2, <1>4, <1>5, <1>6, <1>10 DEF PutFill, Others, RequestInv, HoldsAt, HoldsNone,
       Free, Typed, TypeOK, cabinetVars, objectVars, hubVars
  <2>2. pc'[c] = "countUp"
    BY <1>2, <1>5, <1>10 DEF PutFill
  <2>3. pc'[c] # "off" => req'[c] = [req[c] EXCEPT !.seen = usedPorts]
    BY <1>2, <1>5, <1>10 DEF PutFill
  <2>4. pc'[c] # "off" => /\ req'[c].usb = u /\ req'[c].obj = o /\ req'[c].op = req[c].op
                          /\ req'[c].door = d
    BY <1>2, <1>7, <2>3 DEF Requests
  <2>5. Own(c, u, o)
    BY <1>2, <1>4, <1>6, <1>10, <2>2, <2>4 DEF PutFill, Own, RequestInv, HoldsAt,
       HoldsNone, Free, DoorOf, AfterPut, AfterTake, Typed, TypeOK, cabinetVars,
       objectVars, hubVars
  <2> QED BY <1>3, <2>1, <2>5, StepCareful
<1>11. CASE PutCount(c)
  <2>1. Others(c, u, o)
    BY <1>2, <1>4, <1>5, <1>6, <1>11 DEF PutCount, Others, RequestInv, HoldsAt,
       HoldsNone, Free, Typed, TypeOK, cabinetVars, objectVars, hubVars
  <2>2. pc'[c] = AfterPut(c)
    BY <1>2, <1>5, <1>11 DEF PutCount
  <2>3. pc'[c] # "off" => req'[c] = [req[c] EXCEPT !.seen = 0]
    BY <1>2, <1>5, <1>11 DEF PutCount
  <2>4. pc'[c] # "off" => /\ req'[c].usb = u /\ req'[c].obj = o /\ req'[c].op = req[c].op
                          /\ req'[c].door = d
    BY <1>2, <1>7, <2>3 DEF Requests
  <2>5. Own(c, u, o)
    BY <1>2, <1>4, <1>6, <1>11, <2>2, <2>4 DEF PutCount, Own, RequestInv, HoldsAt,
       HoldsNone, Free, DoorOf, AfterPut, AfterTake, Typed, TypeOK, cabinetVars,
       objectVars, hubVars
  <2> QED BY <1>3, <2>1, <2>5, StepCareful
<1>12. CASE AddUsbDevice(c)
  <2>1. Others(c, u, o)
    BY <1>2, <1>4, <1>5, <1>6, <1>12 DEF AddUsbDevice, Others, RequestInv, HoldsAt,
       HoldsNone, Free, Typed, TypeOK, cabinetVars, objectVars, hubVars
  <2>2. Own(c, u, o)
    BY <1>2, <1>4, <1>5, <1>6, <1>7, <1>12 DEF AddUsbDevice, Own, RequestInv, HoldsAt,
       HoldsNone, Free, DoorOf, AfterPut, AfterTake, Typed, TypeOK, cabinetVars,
       objectVars, hubVars
  <2> QED BY <1>3, <2>1, <2>2, StepCareful
<1>13. CASE IssueCheck(c)
  <2>1. Others(c, u, o)
    BY <1>2, <1>4, <1>5, <1>6, <1>13 DEF IssueCheck, Others, RequestInv, HoldsAt,
       HoldsNone, Free, Typed, TypeOK, cabinetVars, objectVars, hubVars
  <2>2. pc'[c] = (IF objStatus[req[c].obj] = "received" THEN "take" ELSE "off")
    BY <1>2, <1>5, <1>13 DEF IssueCheck
  <2>3. pc'[c] # "off" => req'[c] = req[c]
    BY <1>2, <1>5, <1>13 DEF IssueCheck
  <2>4. pc'[c] # "off" => /\ req'[c].usb = u /\ req'[c].obj = o /\ req'[c].op = req[c].op
                          /\ req'[c].door = d
    BY <1>2, <1>7, <2>3 DEF Requests
  <2>5. Own(c, u, o)
    BY <1>2, <1>4, <1>6, <1>13, <2>2, <2>4 DEF IssueCheck, Own, RequestInv, HoldsAt,
       HoldsNone, Free, DoorOf, AfterPut, AfterTake, Typed, TypeOK, cabinetVars,
       objectVars, hubVars
  <2> QED BY <1>3, <2>1, <2>5, StepCareful
<1>14. CASE TakeCheck(c)
  <2>1. Others(c, u, o)
    BY <1>2, <1>4, <1>5, <1>6, <1>14 DEF TakeCheck, Others, RequestInv, HoldsAt,
       HoldsNone, Free, Typed, TypeOK, cabinetVars, objectVars, hubVars
  <2>2. pc'[c] = (IF objDoor[o] \in Doors /\ slot[objDoor[o]] # None
                  THEN "clear" ELSE AfterTake(c))
    BY <1>2, <1>5, <1>14 DEF TakeCheck
  <2>3. pc'[c] # "off" => req'[c] = [req[c] EXCEPT !.door = objDoor[o]]
    BY <1>2, <1>5, <1>14 DEF TakeCheck
  <2>4. pc'[c] # "off" => /\ req'[c].usb = u /\ req'[c].obj = o /\ req'[c].op = req[c].op
                          /\ req'[c].door = objDoor[o]
    BY <1>2, <1>7, <2>3 DEF Requests
  <2>5. dev' = dev /\ objDoor' = objDoor /\ slot' = slot
    BY <1>14 DEF TakeCheck, cabinetVars, objectVars, hubVars
  <2>6. dev[u] = o /\ HoldsAt(u, DoorOf(u)) /\ req[c].op \in {"remove", "issue"} /\ o # None
    BY <1>2, <1>4, <1>14 DEF TakeCheck, RequestInv
  <2>7. CASE objDoor[o] \in Doors
    <3>1. DoorOf(u) = objDoor[o] /\ slot[objDoor[o]] = u
      BY <2>6, <2>7 DEF DoorOf, HoldsAt
    <3>2. pc'[c] = "clear"
      BY <2>2, <2>7, <3>1
    <3>3. RequestInv(c)'
      BY <1>2, <2>4, <2>5, <2>6, <2>7, <3>1, <3>2 DEF RequestInv, HoldsAt
    <3>4. ASSUME NEW b \in Busy \ {c}, pc[b] # "writeRow", req[b].door = objDoor[o]
          PROVE  FALSE
      <4>1. RequestInv(b) /\ req[b].usb # u
        BY <1>2, <1>3 DEF CarefulInv, Apart
      <4>2. pc[b] \in RequestPC /\ pc[b] # "off"
        BY DEF Busy, Typed, TypeOK
      <4> QED BY <2>7, <3>1, <3>4, <4>1, <4>2 DEF RequestInv, HoldsAt, Free, RequestPC
    <3>5. Own(c, u, o)
      BY <2>4, <3>2, <3>3, <3>4 DEF Own
    <3> QED BY <1>3, <2>1, <3>5, StepCareful
  <2>8. CASE objDoor[o] \notin Doors
    <3>1. pc'[c] = AfterTake(c) /\ pc'[c] \in {"drop", "issued"}
      BY <2>2, <2>8 DEF AfterTake
    <3>2. HoldsNone(u)
      BY <2>6, <2>8 DEF DoorOf, HoldsAt, HoldsNone
    <3>3. RequestInv(c)'
      BY <1>2, <2>4, <2>5, <2>6, <2>8, <3>1, <3>2 DEF RequestInv, HoldsNone, Free
    <3>4. Own(c, u, o)
      BY <2>4, <2>8, <3>1, <3>3 DEF Own
    <3> QED BY <1>3, <2>1, <3>4, StepCareful
  <2> QED BY <2>7, <2>8
<1>15. CASE TakeClear(c)
  <2>1. Others(c, u, o)
    BY <1>2, <1>4, <1>5, <1>6, <1>15 DEF TakeClear, Others, RequestInv, HoldsAt,
       HoldsNone, Free, Typed, TypeOK, cabinetVars, objectVars, hubVars
  <2>2. pc'[c] = "countDown"
    BY <1>2, <1>5, <1>15 DEF TakeClear
  <2>3. pc'[c] # "off" => req'[c] = [req[c] EXCEPT !.seen = usedPorts]
    BY <1>2, <1>5, <1>15 DEF TakeClear
  <2>4. pc'[c] # "off" => /\ req'[c].usb = u /\ req'[c].obj = o /\ req'[c].op = req[c].op
                          /\ req'[c].door = d
    BY <1>2, <1>7, <2>3 DEF Requests
  <2>5. Own(c, u, o)
    BY <1>2, <1>4, <1>6, <1>15, <2>2, <2>4 DEF TakeClear, Own, RequestInv, HoldsAt,
       HoldsNone, Free, DoorOf, AfterPut, AfterTake, Typed, TypeOK, cabinetVars,
       objectVars, hubVars
  <2> QED BY <1>3, <2>1, <2>5, StepCareful
<1>16. CASE TakeCount(c)
  <2>1. Others(c, u, o)
    BY <1>2, <1>4, <1>5, <1>6, <1>16 DEF TakeCount, Others, RequestInv, HoldsAt,
       HoldsNone, Free, Typed, TypeOK, cabinetVars, objectVars, hubVars
  <2>2. pc'[c] = AfterTake(c)
    BY <1>2, <1>5, <1>16 DEF TakeCount
  <2>3. pc'[c] # "off" => req'[c] = [req[c] EXCEPT !.seen = 0]
    BY <1>2, <1>5, <1>16 DEF TakeCount
  <2>4. pc'[c] # "off" => /\ req'[c].usb = u /\ req'[c].obj = o /\ req'[c].op = req[c].op
                          /\ req'[c].door = d
    BY <1>2, <1>7, <2>3 DEF Requests
  <2>5. Own(c, u, o)
    BY <1>2, <1>4, <1>6, <1>16, <2>2, <2>4 DEF TakeCount, Own, RequestInv, HoldsAt,
       HoldsNone, Free, DoorOf, AfterPut, AfterTake, Typed, TypeOK, cabinetVars,
       objectVars, hubVars
  <2> QED BY <1>3, <2>1, <2>5, StepCareful
<1>17. CASE RemoveUsbDevice(c)
  <2>1. Others(c, u, o)
    BY <1>2, <1>4, <1>5, <1>6, <1>17 DEF RemoveUsbDevice, Others, RequestInv, HoldsAt,
       HoldsNone, Free, Typed, TypeOK, cabinetVars, objectVars, hubVars
  <2>2. Own(c, u, o)
    BY <1>2, <1>4, <1>5, <1>6, <1>7, <1>17 DEF RemoveUsbDevice, Own, RequestInv, HoldsAt,
       HoldsNone, Free, DoorOf, AfterPut, AfterTake, Typed, TypeOK, cabinetVars,
       objectVars, hubVars
  <2> QED BY <1>3, <2>1, <2>2, StepCareful
<1>18. CASE SetIssued(c)
  <2>1. Others(c, u, o)
    BY <1>2, <1>4, <1>5, <1>6, <1>18 DEF SetIssued, Others, RequestInv, HoldsAt,
       HoldsNone, Free, Typed, TypeOK, cabinetVars, objectVars, hubVars
  <2>2. Own(c, u, o)
    BY <1>2, <1>4, <1>5, <1>6, <1>7, <1>18 DEF SetIssued, Own, RequestInv, HoldsAt,
       HoldsNone, Free, DoorOf, AfterPut, AfterTake, Typed, TypeOK, cabinetVars,
       objectVars, hubVars
  <2> QED BY <1>3, <2>1, <2>2, StepCareful
<1>19. CASE SetScrapped(c)
  <2>1. Others(c, u, o)
    BY <1>2, <1>4, <1>5, <1>6, <1>19 DEF SetScrapped, Others, RequestInv, HoldsAt,
       HoldsNone, Free, Typed, TypeOK, cabinetVars, objectVars, hubVars
  <2>2. Own(c, u, o)
    BY <1>2, <1>4, <1>5, <1>6, <1>7, <1>19 DEF SetScrapped, Own, RequestInv, HoldsAt,
       HoldsNone, Free, DoorOf, AfterPut, AfterTake, Typed, TypeOK, cabinetVars,
       objectVars, hubVars
  <2> QED BY <1>3, <2>1, <2>2, StepCareful
<1>20. CASE ConfigRead(c)
  <2>1. Others(c, u, o)
    BY <1>2, <1>4, <1>5, <1>6, <1>20 DEF ConfigRead, Others, RequestInv, HoldsAt,
       HoldsNone, Free, Typed, TypeOK, cabinetVars, objectVars, hubVars
  <2>2. pc'[c] = "writeRow"
    BY <1>2, <1>5, <1>20 DEF ConfigRead
  <2>3. pc'[c] # "off" =>
           \E r \in RowRead(req[c].usb) : req'[c] = [req[c] EXCEPT !.door = r]
    BY <1>2, <1>5, <1>20 DEF ConfigRead
  <2>4. pc'[c] # "off" => /\ req'[c].usb = u /\ req'[c].obj = o /\ req'[c].op = req[c].op
    BY <1>2, <1>7, <2>3 DEF Requests
  <2>5. Own(c, u, o)
    BY <1>2, <1>4, <1>6, <1>20, <2>2, <2>4 DEF ConfigRead, Own, RequestInv, HoldsAt,
       HoldsNone, Free, DoorOf, AfterPut, AfterTake, Typed, TypeOK, cabinetVars,
       objectVars, hubVars
  <2> QED BY <1>3, <2>1, <2>5, StepCareful
<1>21. CASE ConfigWrite(c)
  <2>1. Others(c, u, o)
    BY <1>2, <1>4, <1>5, <1>6, <1>21 DEF ConfigWrite, Others, RequestInv, HoldsAt,
       HoldsNone, Free, Typed, TypeOK, cabinetVars, objectVars, hubVars
  <2>2. Own(c, u, o)
    BY <1>2, <1>4, <1>5, <1>6, <1>7, <1>21 DEF ConfigWrite, Own, RequestInv, HoldsAt,
       HoldsNone, Free, DoorOf, AfterPut, AfterTake, Typed, TypeOK, cabinetVars,
       objectVars, hubVars
  <2> QED BY <1>3, <2>1, <2>2, StepCareful
<1> QED BY <1>8, <1>9, <1>10, <1>11, <1>12, <1>13, <1>14, <1>15, <1>16, <1>17, <1>18,
           <1>19, <1>20, <1>21 DEF RequestGoesOn

\* A request that comes in, on a device of the hub or a new object
LEMMA ComingCareful ==
    ASSUME Typed, CarefulInv, Careful, NEW c \in Clients, NEW what, NEW u \in Usbs,
           NEW o \in Objects, NEW d \in DoorNos, NEW label \in RequestPC \ {"off"},
           Request(c, what, u, o, d, label),
           UNCHANGED <<slot, dev>>, \A x \in Objects : x # o => objDoor'[x] = objDoor[x],
           dev[u] = o \/ (dev[u] = None /\ Unused(o)),
           \/ /\ what = "create" /\ label = "put" /\ dev[u] = None
              /\ objDoor'[o] = d /\ Free(d)
           \/ /\ what = "insert" /\ label = "place" /\ dev[u] = o
              /\ objDoor' = objDoor /\ objDoor[o] \notin Doors /\ Free(d)
           \/ /\ dev[u] = o /\ objDoor' = objDoor /\ d = 0
              /\ \/ what \in {"remove", "issue"} /\ label \in {"check", "take"}
                 \/ what \in {"scrap", "config"} /\ label \in {"scrapped", "readRow"}
    PROVE  CarefulInv'
<1> USE Numbers
<1>1. pc[c] = "off" /\ Undisturbed(u, d)
  BY DEF Request
<1>2. \A b \in Clients \ {c} : pc'[b] = pc[b] /\ req'[b] = req[b]
  BY DEF Request
<1>3. /\ pc'[c] = label /\ req'[c].op = what /\ req'[c].usb = u /\ req'[c].obj = o
      /\ req'[c].door = d
  BY DEF Request, Typed, TypeOK
<1>4. \A v \in Usbs : v # u => dev[v] # o
  BY DEF CarefulInv, Unused
<1>5. ASSUME NEW b \in Busy \ {c}
      PROVE  /\ req[b].usb # u /\ req[b].obj # o
             /\ d \in Doors => req[b].door # d
  <2>1. req[b].usb # u /\ (d \in Doors => req[b].door # d)
    BY <1>1 DEF Undisturbed
  <2>2. RequestInv(b) /\ b \in Clients
    BY DEF CarefulInv, Busy
  <2>3. req[b].obj # o
    BY <1>4, <2>1, <2>2 DEF RequestInv, Unused
  <2> QED BY <2>1, <2>3
<1>6. Apart(c, u, o)
  BY <1>1, <1>4, <1>5 DEF Apart
<1>7. Others(c, u, o)
  BY <1>2 DEF Others
<1>8. \A b \in Busy : req[b].usb # u
  BY <1>1 DEF Undisturbed
<1>9. HoldsAt(u, DoorOf(u))
  BY <1>8 DEF CarefulInv, Agreement, HoldsAt
<1>10. HoldsAt(u, DoorOf(u))'  <=> (\A e \in Doors : slot[e] = u <=> DoorOf(u)' = e)
  BY DEF HoldsAt
<1>11. RequestInv(c)'
  <2>1. CASE dev[u] = None /\ what = "create" /\ label = "put" /\ objDoor'[o] = d /\ Free(d)
    <3>1. HoldsNone(u)
      BY <1>9, <2>1 DEF HoldsAt, HoldsNone, DoorOf
    <3> QED BY <1>3, <1>4, <2>1, <3>1 DEF RequestInv, HoldsNone, Free
  <2>2. CASE /\ what = "insert" /\ label = "place" /\ dev[u] = o
             /\ objDoor[o] \notin Doors /\ Free(d)
    <3>1. HoldsNone(u)
      BY <1>9, <2>2 DEF HoldsAt, HoldsNone, DoorOf
    <3> QED BY <1>3, <2>2, <3>1 DEF RequestInv, HoldsNone, Free
  <2>3. CASE /\ dev[u] = o /\ objDoor' = objDoor /\ d = 0
             /\ \/ what \in {"remove", "issue"} /\ label \in {"check", "take"}
                \/ what \in {"scrap", "config"} /\ label \in {"scrapped", "readRow"}
    <3>1. HoldsAt(u, DoorOf(u))'
      BY <1>9, <2>3 DEF HoldsAt, DoorOf
    <3> QED BY <1>3, <2>3, <3>1 DEF RequestInv
  <2> QED BY <2>1, <2>2, <2>3
<1>12. Own(c, u, o)
  BY <1>3, <1>5, <1>11 DEF Own
<1> QED BY <1>6, <1>7, <1>12, StepCareful

\* What CarefulInv is about, it reads in these variables
LEMMA SameCareful ==
    ASSUME CarefulInv, UNCHANGED <<slot, dev, objDoor, pc, req>>
    PROVE  CarefulInv'
<1>1. ASSUME NEW u
      PROVE  /\ DoorOf(u)' = DoorOf(u) /\ (HoldsNone(u)' <=> HoldsNone(u))
             /\ \A e : HoldsAt(u, e)' <=> HoldsAt(u, e)
  BY DEF DoorOf, HoldsNone, HoldsAt
<1>2. Busy' = Busy
  BY DEF Busy
<1>3. Agreement'
  BY <1>1, <1>2 DEF CarefulInv, Agreement
<1>4. ASSUME NEW c \in Busy
      PROVE  RequestInv(c)'
  <2>1. PICK u, d : u = req[c].usb /\ d = req[c].door
    OBVIOUS
  <2>2. u = req'[c].usb /\ d = req'[c].door /\ (Free(d)' <=> Free(d))
    BY <2>1 DEF Free
  <2>3. HoldsAt(u, DoorOf(u))' <=> HoldsAt(u, DoorOf(u))
    BY <1>1 DEF HoldsAt
  <2>4. /\ HoldsNone(u)' <=> HoldsNone(u)
        /\ HoldsAt(u, d)' <=> HoldsAt(u, d)
    BY <1>1
  <2>5. RequestInv(c)
    BY DEF CarefulInv
  <2> QED BY <2>1, <2>2, <2>3, <2>4, <2>5 DEF RequestInv
<1>5. RequestsApart'
  BY <1>2 DEF CarefulInv, RequestsApart
<1> QED BY <1>2, <1>3, <1>4, <1>5 DEF CarefulInv

\* A request of a careful user comes in: on its own device, and for its own, free door
LEMMA ArrivalCareful ==
    ASSUME Typed, CarefulInv, Careful, NEW c \in Clients, RequestArrives(c)
    PROVE  CarefulInv'
<1> USE Numbers
<1>1. ASSUME NEW u \in Usbs, dev[u] # None
      PROVE  dev[u] \in Objects
  BY <1>1 DEF Typed, TypeOK
<1>2. ASSUME NEW u \in Usbs, NEW d \in DoorNos, CreateLookup(c, u, d)
      PROVE  CarefulInv'
  <2> DEFINE o == CHOOSE x \in Objects : Unused(x)
  <2>1. o \in Objects /\ Unused(o)
    BY <1>2 DEF CreateLookup
  <2>2. /\ Request(c, "create", u, o, d, "put") /\ UNCHANGED <<slot, dev>>
        /\ objDoor' = [objDoor EXCEPT ![o] = d] /\ dev[u] = None /\ Free(d)
    BY <1>2 DEF CreateLookup, cabinetVars, hubVars
  <2>3. objDoor'[o] = d /\ \A x \in Objects : x # o => objDoor'[x] = objDoor[x]
    BY <2>1, <2>2 DEF Typed, TypeOK
  <2>4. "put" \in RequestPC \ {"off"}
    BY DEF RequestPC
  <2> HIDE DEF o
  <2> QED BY <2>1, <2>2, <2>3, <2>4, ComingCareful
<1>3. ASSUME NEW u \in Usbs, NEW d \in DoorNos, InsertLookup(c, u, d)
      PROVE  CarefulInv'
  <2>1. /\ Request(c, "insert", u, dev[u], d, "place") /\ UNCHANGED <<slot, dev, objDoor>>
        /\ dev[u] # None /\ objDoor[dev[u]] \notin Doors /\ Free(d)
    BY <1>3 DEF InsertLookup, cabinetVars, objectVars, hubVars
  <2>2. dev[u] \in Objects /\ "place" \in RequestPC \ {"off"}
    BY <1>1, <2>1 DEF RequestPC
  <2> QED BY <2>1, <2>2, ComingCareful
<1>4. ASSUME NEW u \in Usbs, RemoveLookup(c, u)
      PROVE  CarefulInv'
  <2>1. /\ Request(c, "remove", u, dev[u], 0, "take") /\ UNCHANGED <<slot, dev, objDoor>>
        /\ dev[u] # None
    BY <1>4 DEF RemoveLookup, cabinetVars, objectVars, hubVars
  <2>2. dev[u] \in Objects /\ "take" \in RequestPC \ {"off"}
    BY <1>1, <2>1 DEF RequestPC
  <2> QED BY <2>1, <2>2, ComingCareful
<1>5. ASSUME NEW u \in Usbs, IssueLookup(c, u)
      PROVE  CarefulInv'
  <2>1. /\ Request(c, "issue", u, dev[u], 0, "check") /\ UNCHANGED <<slot, dev, objDoor>>
        /\ dev[u] # None
    BY <1>5 DEF IssueLookup, cabinetVars, objectVars, hubVars
  <2>2. dev[u] \in Objects /\ "check" \in RequestPC \ {"off"}
    BY <1>1, <2>1 DEF RequestPC
  <2> QED BY <2>1, <2>2, ComingCareful
<1>6. ASSUME NEW u \in Usbs, ScrapLookup(c, u)
      PROVE  CarefulInv'
  <2>1. /\ Request(c, "scrap", u, dev[u], 0, "scrapped") /\ UNCHANGED <<slot, dev, objDoor>>
        /\ dev[u] # None
    BY <1>6 DEF ScrapLookup, cabinetVars, objectVars, hubVars
  <2>2. dev[u] \in Objects /\ "scrapped" \in RequestPC \ {"off"}
    BY <1>1, <2>1 DEF RequestPC
  <2> QED BY <2>1, <2>2, ComingCareful
<1>7. ASSUME NEW u \in Usbs, ConfigLookup(c, u)
      PROVE  CarefulInv'
  <2>1. /\ Request(c, "config", u, dev[u], 0, "readRow") /\ UNCHANGED <<slot, dev, objDoor>>
        /\ dev[u] # None
    BY <1>7 DEF ConfigLookup, cabinetVars, objectVars, hubVars
  <2>2. dev[u] \in Objects /\ "readRow" \in RequestPC \ {"off"}
    BY <1>1, <2>1 DEF RequestPC
  <2> QED BY <2>1, <2>2, ComingCareful
<1>8. ASSUME NEW u \in Usbs, NEW s \in Status, SetStatus(c, u, s)
      PROVE  CarefulInv'
  BY <1>8, SameCareful DEF SetStatus, cabinetVars, hubVars
<1> QED BY <1>2, <1>3, <1>4, <1>5, <1>6, <1>7, <1>8 DEF RequestArrives

\* Every step keeps the agreement, except for a restart, which empties the cabinet
LEMMA CarefulNext ==
    ASSUME Careful, MaxRestarts = 0, Typed, CarefulInv, [Next]_vars
    PROVE  CarefulInv'
<1>1. ASSUME NEW F, RestartWith(F)
      PROVE  FALSE
  BY <1>1 DEF RestartWith, Typed, TypeOK
<1>2. CASE FaultStep
  BY <1>2, SameCareful DEF FaultStep, InjectFault, cabinetVars, objectVars, hubVars
<1>3. CASE UNCHANGED vars
  BY <1>3, SameCareful DEF vars, cabinetVars, objectVars, hubVars
<1> QED BY <1>1, <1>2, <1>3, ArrivalCareful, GoingCareful
        DEF Next, Restart, RestartDuringInject

\* At the start the cabinet is empty and there are no devices
LEMMA CarefulInitially == Init => CarefulInv
BY Numbers DEF Init, CarefulInv, Agreement, RequestsApart, Busy, DoorOf

\* Users who do not disturb each other keep apart at every step, until a restart
THEOREM CarefulInvCorrect ==
    ASSUME Careful, MaxRestarts = 0
    PROVE  Spec => []CarefulInv
BY TypedInitially, TypedNext, CarefulInitially, CarefulNext, PTL DEF Spec

\* ... so cabinet and devices agree
THEOREM AgreementCorrect ==
    ASSUME Careful, MaxRestarts = 0
    PROVE  Spec => []Agreement
<1>1. CarefulInv => Agreement
  BY DEF CarefulInv
<1> QED BY <1>1, CarefulInvCorrect, PTL

\* A request to issue has seen its device received, and nothing changes that before SetIssued
Checked ==
    \A c \in Busy :
        /\ pc[c] = "issued" => req[c].op = "issue"
        /\ req[c].op = "issue" /\ pc[c] # "check" => objStatus[req[c].obj] = "received"

\* The status of the objects a request of the others has is left alone
LEMMA CheckedOthers ==
    ASSUME Typed, CarefulInv, Checked, NEW c \in Clients,
           \A b \in Clients \ {c} : pc'[b] = pc[b] /\ req'[b] = req[b],
           \A b \in Busy \ {c} : objStatus'[req[b].obj] = objStatus[req[b].obj],
           c \in Busy' => /\ pc'[c] = "issued" => req'[c].op = "issue"
                          /\ req'[c].op = "issue" /\ pc'[c] # "check"
                                => objStatus'[req'[c].obj] = "received"
    PROVE  Checked'
BY DEF Checked, Busy

\* A step of the life cycle: what becomes issued was received, and Checked goes on
LEMMA CheckedNext ==
    ASSUME Careful, MaxRestarts = 0, Typed, CarefulInv, Checked, [Next]_vars
    PROVE  /\ Checked'
           /\ \A o \in Objects :
                 ~Unused(o) /\ objStatus[o] # "issued" /\ objStatus'[o] = "issued"
                                    => objStatus[o] = "received"
<1> USE Numbers
<1> DEFINE Fine == \A o \in Objects :
                      ~Unused(o) /\ objStatus[o] # "issued" /\ objStatus'[o] = "issued"
                          => objStatus[o] = "received"
<1>1. ASSUME NEW c \in Clients, RequestGoesOn(c)
      PROVE  Checked' /\ Fine
  <2>1. c \in Busy
    BY <1>1 DEF Busy, RequestGoesOn, Place, PutCheck, PutFill, PutCount, AddUsbDevice,
           IssueCheck, TakeCheck, TakeClear, TakeCount, RemoveUsbDevice, SetIssued,
           SetScrapped, ConfigRead, ConfigWrite
  <2>2. PICK o \in Objects : o = req[c].obj
    BY <2>1 DEF CarefulInv, RequestInv
  <2>3. \A b \in Busy \ {c} : req[b].obj # o
    BY <2>1, <2>2 DEF CarefulInv, RequestsApart
  <2>4. ASSUME NEW label, NEW r, Continue(c, label, r)
        PROVE  /\ \A b \in Clients \ {c} : pc'[b] = pc[b] /\ req'[b] = req[b]
               /\ pc'[c] = label /\ (label # "off" => req'[c] = r)
    BY <2>4 DEF Continue, Typed, TypeOK
  <2>5. RequestInv(c) /\ req[c] \in Requests
    BY <2>1 DEF CarefulInv, Typed, TypeOK
  <2>6. pc[c] = "issued" => objStatus[o] = "received"
    BY <2>1, <2>2 DEF Checked
  <2>7. CASE SetIssued(c)
    <3>1. Fine
      BY <2>2, <2>6, <2>7 DEF SetIssued, Typed, TypeOK
    <3>2. c \notin Busy' /\ \A b \in Clients \ {c} : pc'[b] = pc[b] /\ req'[b] = req[b]
      BY <2>4, <2>7 DEF SetIssued, Busy
    <3>3. \A b \in Busy \ {c} : objStatus'[req[b].obj] = objStatus[req[b].obj]
      BY <2>2, <2>3, <2>7 DEF SetIssued, Typed, TypeOK, CarefulInv, RequestInv
    <3> QED BY <3>1, <3>2, <3>3, CheckedOthers
  <2>8. CASE SetScrapped(c)
    <3>1. Fine
      BY <2>2, <2>8 DEF SetScrapped, Typed, TypeOK
    <3>2. c \notin Busy' /\ \A b \in Clients \ {c} : pc'[b] = pc[b] /\ req'[b] = req[b]
      BY <2>4, <2>8 DEF SetScrapped, Busy
    <3>3. \A b \in Busy \ {c} : objStatus'[req[b].obj] = objStatus[req[b].obj]
      BY <2>2, <2>3, <2>8 DEF SetScrapped, Typed, TypeOK, CarefulInv, RequestInv
    <3> QED BY <3>1, <3>2, <3>3, CheckedOthers
  <2>9. CASE ~(SetIssued(c) \/ SetScrapped(c))
    <3>1. objStatus' = objStatus
      BY <1>1, <2>9 DEF RequestGoesOn, Place, PutCheck, PutFill, PutCount, AddUsbDevice,
             IssueCheck, TakeCheck, TakeClear, TakeCount, RemoveUsbDevice, ConfigRead,
             ConfigWrite, objectVars
    <3>2. \A b \in Clients \ {c} : pc'[b] = pc[b] /\ req'[b] = req[b]
      BY <1>1, <2>4, <2>9 DEF RequestGoesOn, Place, PutCheck, PutFill, PutCount,
             AddUsbDevice, IssueCheck, TakeCheck, TakeClear, TakeCount, RemoveUsbDevice,
             ConfigRead, ConfigWrite
    <3> DEFINE Onward ==
          /\ pc'[c] # "off" => req'[c].op = req[c].op /\ req'[c].obj = o
          /\ pc'[c] = "issued" => req[c].op = "issue"
    <3>6. ASSUME ConfigRead(c)
          PROVE  Onward
      <4>1. PICK d \in RowRead(req[c].usb) :
               Continue(c, "writeRow", [req[c] EXCEPT !.door = d])
        BY <3>6 DEF ConfigRead
      <4>2. pc'[c] = "writeRow" /\ req'[c] = [req[c] EXCEPT !.door = d]
        BY <2>4, <4>1
      <4> QED BY <2>2, <2>5, <4>2 DEF Requests
    <3>7. ASSUME ~ConfigRead(c)
          PROVE  Onward
      <4>1. pc'[c] # "off" => req'[c].op = req[c].op /\ req'[c].obj = o
        BY <1>1, <2>2, <2>4, <2>5, <2>9, <3>7 DEF RequestGoesOn, Place, PutCheck, PutFill,
               PutCount, AddUsbDevice, IssueCheck, TakeCheck, TakeClear, TakeCount,
               RemoveUsbDevice, ConfigWrite, Requests
      <4>2. pc'[c] = "issued" => AfterTake(c) = "issued" /\ pc[c] \in {"take", "countDown"}
        BY <1>1, <2>4, <2>9, <3>7 DEF RequestGoesOn, Place, PutCheck, PutFill, PutCount,
               AddUsbDevice, IssueCheck, TakeCheck, TakeClear, TakeCount, RemoveUsbDevice,
               ConfigWrite, AfterPut
      <4>3. pc'[c] = "issued" => req[c].op = "issue"
        BY <2>5, <4>2 DEF AfterTake, RequestInv
      <4> QED BY <4>1, <4>3
    <3>3. pc'[c] # "off" => req'[c].op = req[c].op /\ req'[c].obj = o
      BY <3>6, <3>7
    <3>4. pc'[c] = "issued" => req[c].op = "issue"
      BY <3>6, <3>7
    <3>5. req[c].op = "issue" /\ pc'[c] # "off" /\ pc'[c] # "check" =>
             objStatus[o] = "received"
      <4>1. CASE pc[c] # "check"
        BY <2>1, <2>2, <4>1 DEF Checked
      <4>2. CASE IssueCheck(c)
        BY <2>2, <2>4, <4>2 DEF IssueCheck
      <4>3. CASE pc[c] = "check" /\ ~IssueCheck(c)
        BY <1>1, <4>3 DEF RequestGoesOn, Place, PutCheck, PutFill, PutCount, AddUsbDevice,
               TakeCheck, TakeClear, TakeCount, RemoveUsbDevice, SetIssued, SetScrapped,
               ConfigRead, ConfigWrite
      <4> QED BY <4>1, <4>2, <4>3
    <3> QED BY <3>1, <3>2, <3>3, <3>4, <3>5, CheckedOthers DEF Busy
  <2> QED BY <2>7, <2>8, <2>9
<1>2. ASSUME NEW c \in Clients, RequestArrives(c)
      PROVE  Checked' /\ Fine
  <2>1. ASSUME NEW what, NEW u, NEW o, NEW d, NEW label, Request(c, what, u, o, d, label),
               what = "issue" => label = "check", label # "issued",
               \A b \in Busy : objStatus'[req[b].obj] = objStatus[req[b].obj]
        PROVE  Checked'
    <3>1. \A b \in Clients \ {c} : pc'[b] = pc[b] /\ req'[b] = req[b]
      BY <2>1 DEF Request
    <3>2. pc'[c] = label /\ req'[c].op = what
      BY <2>1 DEF Request, Typed, TypeOK
    <3> QED BY <2>1, <3>1, <3>2, CheckedOthers
  <2>2. ASSUME NEW u \in Usbs, NEW d \in DoorNos, CreateLookup(c, u, d)
        PROVE  Checked' /\ Fine
    <3> DEFINE o == CHOOSE x \in Objects : Unused(x)
    <3>1. /\ o \in Objects /\ Unused(o) /\ Request(c, "create", u, o, d, "put")
          /\ \E s : objStatus' = [objStatus EXCEPT ![o] = s]
      BY <2>2 DEF CreateLookup
    <3> HIDE DEF o
    <3>2. \A x \in Objects : x # o => objStatus'[x] = objStatus[x]
      BY <3>1 DEF Typed, TypeOK
    <3>3. \A b \in Busy : req[b].obj \in Objects /\ req[b].obj # o
      BY <3>1 DEF Unused, CarefulInv, RequestInv, Busy
    <3> QED BY <2>1, <3>1, <3>2, <3>3
  <2>3. ASSUME NEW u \in Usbs, NEW s \in Status, SetStatus(c, u, s)
        PROVE  Checked' /\ Fine
    <3>1. /\ pc' = pc /\ req' = req /\ dev[u] \in Objects /\ s # "issued"
          /\ objStatus' = [objStatus EXCEPT ![dev[u]] = s] /\ Undisturbed(u, 0)
      BY <2>3 DEF SetStatus, Typed, TypeOK
    <3>2. \A x \in Objects : x # dev[u] => objStatus'[x] = objStatus[x]
      BY <3>1 DEF Typed, TypeOK
    <3>3. \A b \in Busy : req[b].obj \in Objects /\ req[b].obj # dev[u]
      <4> SUFFICES ASSUME NEW b \in Busy
                   PROVE  req[b].obj \in Objects /\ req[b].obj # dev[u]
        OBVIOUS
      <4>1. RequestInv(b) /\ req[b].usb # u
        BY <3>1 DEF CarefulInv, Undisturbed
      <4> QED BY <3>1, <4>1 DEF RequestInv, CarefulInv
    <3>4. Checked'
      BY <3>1, <3>2, <3>3 DEF Checked, Busy
    <3>5. Fine
      BY <3>1, <3>2 DEF Typed, TypeOK
    <3> QED BY <3>4, <3>5
  <2>4. ASSUME NEW u \in Usbs,
               \/ \E d \in DoorNos : InsertLookup(c, u, d)
               \/ RemoveLookup(c, u) \/ IssueLookup(c, u) \/ ScrapLookup(c, u)
               \/ ConfigLookup(c, u)
        PROVE  Checked' /\ Fine
    <3>1. objStatus' = objStatus
      BY <2>4 DEF InsertLookup, RemoveLookup, IssueLookup, ScrapLookup, ConfigLookup,
             objectVars
    <3>2. Checked'
      BY <2>1, <2>4, <3>1 DEF InsertLookup, RemoveLookup, IssueLookup, ScrapLookup,
                              ConfigLookup
    <3> QED BY <3>1, <3>2
  <2> QED BY <1>2, <2>2, <2>3, <2>4 DEF RequestArrives
<1>3. ASSUME NEW F, RestartWith(F)
      PROVE  FALSE
  BY <1>3 DEF RestartWith, Typed, TypeOK
<1>4. CASE FaultStep
  BY <1>4 DEF FaultStep, InjectFault, objectVars, Checked, Busy
<1>5. CASE UNCHANGED vars
  BY <1>5 DEF vars, objectVars, Checked, Busy
<1> QED BY <1>1, <1>2, <1>3, <1>4, <1>5 DEF Next, Restart, RestartDuringInject

\* Only received devices are issued, for users who do not disturb each other
THEOREM IssuedFromReceivedCorrect ==
    ASSUME Careful, MaxRestarts = 0
    PROVE  Spec => IssuedFromReceived
<1>1. Init => Checked
  BY DEF Init, Checked, Busy
<1> QED BY <1>1, TypedInitially, TypedNext, CarefulInitially, CarefulNext, CheckedNext, PTL
        DEF Spec, IssuedFromReceived

-----------------------------------------------------------------------------
(* The count of the cabinet.                                               *)

Occupied == {d \in Doors : slot[d] # None}

\* What a request that has changed a slot still has to add to UsedPorts
Due(c) == CASE pc[c] = "countUp" -> 1 [] pc[c] = "countDown" -> -1 [] OTHER -> 0

\* A request about to change a slot has found it as it will leave it to the count, and one
\* about to store UsedPorts has loaded the value it still has
Counted(c) ==
    /\ pc[c] = "fill"  => req[c].door \in Doors /\ slot[req[c].door] = None
    /\ pc[c] = "clear" => req[c].door \in Doors /\ slot[req[c].door] # None
    /\ pc[c] \in {"countUp", "countDown"} => req[c].seen = usedPorts
    /\ Cardinality(Occupied) = usedPorts + Due(c)

PortsInv == PortsCounted /\ \A c \in Clients : Counted(c)

\* There are finitely many slots
LEMMA OccupiedFinite == IsFiniteSet(Occupied) /\ Cardinality(Occupied) \in Int
BY FS_Subset, FS_CardinalityType DEF Occupied

\* A step of the only request there is
LEMMA OnlyCounted ==
    ASSUME NEW c \in Clients, \A b \in Clients : b = c, usedPorts' \in Int, Counted(c)'
    PROVE  PortsInv'
<1>1. Busy' = {} => pc'[c] = "off"
  BY DEF Busy
<1>2. PortsCounted'
  <2> SUFFICES ASSUME Busy' = {}
               PROVE  usedPorts' = Cardinality(Occupied')
    BY DEF PortsCounted, Occupied
  <2> QED BY <1>1 DEF Counted, Due
<1> QED BY <1>2 DEF PortsInv

\* The steps that leave the slots and UsedPorts alone and are not about to change them
LEMMA ElsewhereCounted ==
    ASSUME NEW c \in Clients, \A b \in Clients : b = c, Typed, Counted(c),
           pc[c] \notin {"countUp", "countDown"},
           pc'[c] \notin {"fill", "clear", "countUp", "countDown"},
           UNCHANGED cabinetVars
    PROVE  PortsInv'
<1>1. Occupied' = Occupied /\ usedPorts' = usedPorts /\ usedPorts \in Int
  BY DEF Occupied, cabinetVars, Typed, TypeOK
<1>2. Due(c) = 0 /\ Due(c)' = 0
  BY DEF Due
<1>3. Counted(c)'
  BY <1>1, <1>2 DEF Counted
<1> QED BY <1>1, <1>3, OnlyCounted

\* The only request goes on: it counts each slot it fills or empties
LEMMA GoingCounted ==
    ASSUME NEW c \in Clients, \A b \in Clients : b = c, Typed, PortsInv, RequestGoesOn(c)
    PROVE  PortsInv'
<1> USE Numbers
<1>1. ASSUME NEW label, NEW r, Continue(c, label, r)
      PROVE  pc'[c] = label /\ (label # "off" => req'[c] = r)
  BY <1>1 DEF Continue, Typed, TypeOK
<1>2. Counted(c) /\ usedPorts \in Int /\ req[c] \in Requests
  BY DEF PortsInv, Typed, TypeOK
<1>3. AfterPut(c) \in {"add", "off"} /\ AfterTake(c) \in {"drop", "issued"}
  BY DEF AfterPut, AfterTake
<1>4. /\ \A d \in Doors : slot[d] \in Usbs \cup {None}
      /\ pc[c] # "off" => req[c].usb # None
  BY DEF Typed, TypeOK, RequestsKnown
<1>5. CASE PutCheck(c)
  <2>1. Due(c) = 0 /\ Due(c)' = 0 /\ usedPorts' = usedPorts /\ slot' = slot
    BY <1>1, <1>3, <1>5 DEF PutCheck, Due, cabinetVars
  <2>2. pc'[c] = "fill" => req'[c] = req[c] /\ req[c].door \in Doors
                           /\ slot[req[c].door] = None
    BY <1>1, <1>3, <1>5 DEF PutCheck
  <2>3. pc'[c] \notin {"clear", "countUp", "countDown"}
    BY <1>1, <1>3, <1>5 DEF PutCheck
  <2>4. Counted(c)'
    BY <1>2, <2>1, <2>2, <2>3 DEF Counted, Occupied
  <2> QED BY <1>2, <2>1, <2>4, OnlyCounted
<1>6. CASE PutFill(c)
  <2>1. PICK d \in Doors : d = req[c].door /\ slot[d] = None
    BY <1>2, <1>6 DEF PutFill, Counted
  <2>2. /\ slot' = [slot EXCEPT ![d] = req[c].usb] /\ usedPorts' = usedPorts
        /\ req[c].usb # None
        /\ Continue(c, "countUp", [req[c] EXCEPT !.seen = usedPorts])
    BY <1>4, <1>6, <2>1 DEF PutFill
  <2>3. pc'[c] = "countUp" /\ req'[c].seen = usedPorts
    BY <1>1, <1>2, <2>2 DEF Requests
  <2>4. Occupied' = Occupied \cup {d} /\ d \notin Occupied
    BY <2>1, <2>2 DEF Occupied, Typed, TypeOK
  <2>5. Cardinality(Occupied') = Cardinality(Occupied) + 1
    BY <2>4, OccupiedFinite, FS_AddElement
  <2>6. Due(c) = 0 /\ Due(c)' = 1
    BY <1>6, <2>3 DEF PutFill, Due
  <2>7. Cardinality(Occupied') = usedPorts' + Due(c)'
    BY <1>2, <2>2, <2>5, <2>6 DEF Counted
  <2>8. Counted(c)'
    BY <2>2, <2>3, <2>7 DEF Counted
  <2> QED BY <1>2, <2>2, <2>8, OnlyCounted
<1>7. CASE PutCount(c)
  <2>1. usedPorts' = usedPorts + 1 /\ slot' = slot /\ pc'[c] = AfterPut(c)
    BY <1>1, <1>2, <1>7 DEF PutCount, Counted
  <2>2. Due(c) = 1 /\ Due(c)' = 0
    BY <1>3, <1>7, <2>1 DEF PutCount, Due
  <2>3. Occupied' = Occupied
    BY <2>1 DEF Occupied
  <2>4. Cardinality(Occupied') = usedPorts' + Due(c)'
    BY <1>2, <2>1, <2>2, <2>3 DEF Counted
  <2>5. Counted(c)'
    BY <1>3, <2>1, <2>4 DEF Counted
  <2> QED BY <1>2, <2>1, <2>5, OnlyCounted
<1>8. CASE TakeCheck(c)
  <2> DEFINE d == objDoor[req[c].obj]
  <2>1. Due(c) = 0 /\ Due(c)' = 0 /\ usedPorts' = usedPorts /\ slot' = slot
    BY <1>1, <1>3, <1>8 DEF TakeCheck, Due, cabinetVars
  <2>2. pc'[c] = "clear" => req'[c].door = d /\ d \in Doors /\ slot[d] # None
    BY <1>1, <1>2, <1>3, <1>8 DEF TakeCheck, Requests
  <2>3. pc'[c] \notin {"fill", "countUp", "countDown"}
    BY <1>1, <1>3, <1>8 DEF TakeCheck
  <2>4. Counted(c)'
    BY <1>2, <2>1, <2>2, <2>3 DEF Counted, Occupied
  <2> QED BY <1>2, <2>1, <2>4, OnlyCounted
<1>9. CASE TakeClear(c)
  <2>1. PICK d \in Doors : d = req[c].door /\ slot[d] # None
    BY <1>2, <1>9 DEF TakeClear, Counted
  <2>2. /\ slot' = [slot EXCEPT ![d] = None] /\ usedPorts' = usedPorts
        /\ Continue(c, "countDown", [req[c] EXCEPT !.seen = usedPorts])
    BY <1>9, <2>1 DEF TakeClear
  <2>3. pc'[c] = "countDown" /\ req'[c].seen = usedPorts
    BY <1>1, <1>2, <2>2 DEF Requests
  <2>4. Occupied' = Occupied \ {d} /\ d \in Occupied
    BY <2>1, <2>2 DEF Occupied, Typed, TypeOK
  <2>5. Cardinality(Occupied') = Cardinality(Occupied) - 1
    BY <2>4, OccupiedFinite, FS_RemoveElement
  <2>6. Due(c) = 0 /\ Due(c)' = -1
    BY <1>9, <2>3 DEF TakeClear, Due
  <2>7. Cardinality(Occupied') = usedPorts' + Due(c)'
    BY <1>2, <2>2, <2>5, <2>6 DEF Counted
  <2>8. Counted(c)'
    BY <2>2, <2>3, <2>7 DEF Counted
  <2> QED BY <1>2, <2>2, <2>8, OnlyCounted
<1>10. CASE TakeCount(c)
  <2>1. usedPorts' = usedPorts - 1 /\ slot' = slot /\ pc'[c] = AfterTake(c)
    BY <1>1, <1>2, <1>3, <1>10 DEF TakeCount, Counted
  <2>2. Due(c) = -1 /\ Due(c)' = 0
    BY <1>3, <1>10, <2>1 DEF TakeCount, Due
  <2>3. Occupied' = Occupied
    BY <2>1 DEF Occupied
  <2>4. Cardinality(Occupied') = usedPorts' + Due(c)'
    BY <1>2, <2>1, <2>2, <2>3 DEF Counted
  <2>5. Counted(c)'
    BY <1>3, <2>1, <2>4 DEF Counted
  <2> QED BY <1>2, <2>1, <2>5, OnlyCounted
<1>11. CASE Place(c)
  BY <1>1, <1>2, <1>11, ElsewhereCounted DEF Place
<1>12. CASE AddUsbDevice(c)
  BY <1>1, <1>2, <1>12, ElsewhereCounted DEF AddUsbDevice
<1>13. CASE IssueCheck(c)
  BY <1>1, <1>2, <1>13, ElsewhereCounted DEF IssueCheck
<1>14. CASE RemoveUsbDevice(c)
  BY <1>1, <1>2, <1>14, ElsewhereCounted DEF RemoveUsbDevice
<1>15. CASE SetIssued(c) \/ SetScrapped(c)
  BY <1>1, <1>2, <1>15, ElsewhereCounted DEF SetIssued, SetScrapped
<1>16. CASE ConfigRead(c) \/ ConfigWrite(c)
  <2>1. pc[c] \notin {"countUp", "countDown"} /\ UNCHANGED cabinetVars
    BY <1>16 DEF ConfigRead, ConfigWrite
  <2>2. \E label \in {"writeRow", "off"} : \E r : Continue(c, label, r)
    BY <1>16 DEF ConfigRead, ConfigWrite
  <2>3. pc'[c] \in {"writeRow", "off"}
    BY <1>1, <2>2
  <2> QED BY <1>2, <2>1, <2>3, ElsewhereCounted
<1> QED BY <1>5, <1>6, <1>7, <1>8, <1>9, <1>10, <1>11, <1>12, <1>13, <1>14, <1>15, <1>16
        DEF RequestGoesOn

\* The only request comes in, and has not looked at the cabinet yet
LEMMA ArrivalCounted ==
    ASSUME NEW c \in Clients, \A b \in Clients : b = c, Typed, PortsInv, RequestArrives(c)
    PROVE  PortsInv'
<1>1. Counted(c) /\ pc[c] = "off" /\ UNCHANGED cabinetVars
  BY DEF PortsInv, RequestArrives, CreateLookup, InsertLookup, RemoveLookup, IssueLookup,
     ScrapLookup, ConfigLookup, SetStatus, Request
<1>2. pc'[c] \in {"off", "put", "place", "take", "check", "scrapped", "readRow"}
  BY <1>1 DEF RequestArrives, CreateLookup, InsertLookup, RemoveLookup, IssueLookup,
     ScrapLookup, ConfigLookup, SetStatus, Request, Typed, TypeOK
<1> QED BY <1>1, <1>2, ElsewhereCounted

\* UsedPorts is the number of occupied slots whenever no request is under way, if the
\* requests are served one at a time: PutUsb and RemoveUsb change the slot and the count,
\* and a restart begins with an empty cabinet
THEOREM PortsCountedCorrect ==
    ASSUME \A b, c \in Clients : b = c
    PROVE  Spec => []PortsCounted
<1>1. Init => PortsInv
  <2> SUFFICES ASSUME Init
               PROVE  PortsInv
    OBVIOUS
  <2>1. Occupied = {} /\ usedPorts = 0
    BY DEF Init, Occupied
  <2>2. Cardinality(Occupied) = 0
    BY <2>1, FS_EmptySet
  <2>3. PortsCounted
    BY <2>1, <2>2 DEF PortsCounted, Occupied
  <2>4. ASSUME NEW c \in Clients
        PROVE  Counted(c)
    <3>1. pc[c] = "off" /\ Due(c) = 0
      BY DEF Init, Due
    <3> QED BY <2>1, <2>2, <3>1 DEF Counted
  <2> QED BY <2>3, <2>4 DEF PortsInv
<1>2. Typed /\ PortsInv /\ [Next]_vars => PortsInv'
  <2> SUFFICES ASSUME Typed, PortsInv, [Next]_vars
               PROVE  PortsInv'
    OBVIOUS
  <2>1. ASSUME NEW F, RestartWith(F)
        PROVE  PortsInv'
    <3>1. Occupied' = {} /\ usedPorts' = 0 /\ \A c \in Clients : pc'[c] = "off"
      BY <2>1 DEF RestartWith, Occupied
    <3>2. Cardinality(Occupied') = 0
      BY <3>1, FS_EmptySet
    <3>3. PortsCounted'
      BY <3>1, <3>2 DEF PortsCounted, Occupied
    <3>4. ASSUME NEW c \in Clients
          PROVE  Counted(c)'
      <4>1. Due(c)' = 0
        BY <3>1 DEF Due
      <4> QED BY <3>1, <3>2, <4>1 DEF Counted
    <3> QED BY <3>3, <3>4 DEF PortsInv
  <2>2. ASSUME UNCHANGED <<slot, usedPorts, pc, req>>
        PROVE  PortsInv'
    BY <2>2 DEF PortsInv, PortsCounted, Counted, Due, Occupied, Busy
  <2>3. CASE FaultStep
    BY <2>2, <2>3 DEF FaultStep, InjectFault, cabinetVars
  <2>4. CASE UNCHANGED vars
    BY <2>2, <2>4 DEF vars, cabinetVars
  <2> QED BY <2>1, <2>3, <2>4, ArrivalCounted, GoingCounted
          DEF Next, Restart, RestartDuringInject
<1>3. PortsInv => PortsCounted
  BY DEF PortsInv
<1> QED BY <1>1, <1>2, <1>3, TypedInitially, TypedNext, PTL DEF Spec
=============================================================================
