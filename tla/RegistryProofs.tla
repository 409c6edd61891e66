--------------------------- MODULE RegistryProofs ---------------------------
(* Theorems about Registry, for every number of stations, requests, objects   *)
(* and addresses: the types of its variables, the agreement of the hub with   *)
(* the table, and what careful users can rely on.                             *)
EXTENDS Registry, FiniteSetTheorems, TLAPS

Kept == [id : Ids \cup {None}, objs : SUBSET Objects, ids : Seq(Ids),
         seen : Nat, host : Hosts \cup {None}]
IPs == (1..MaxOctet) \X (1..MaxOctet)
MACs == (0..MaxByte) \X (0..MaxByte) \X (0..MaxByte)

\* What the types need: the constants, and the first addresses and records
LEMMA Numbers ==
    /\ MaxOctet \in Nat \ {0} /\ MaxByte \in Nat /\ MaxHanded \in Nat /\ MaxRestarts \in Nat
    /\ MaxObjects \in Nat /\ MaxStations \in Nat /\ None = 0 /\ None \notin Hosts
    /\ None \notin Objects
BY RegistryAssumption DEF RegistryAssumption, None, Objects

LEMMA FirstTyped ==
    /\ FirstIP \in IPs /\ FirstMAC \in MACs
    /\ NoFields \in Fields /\ NoRow \in Row
    /\ NoRequest \in Kept
<1>1. (100 % MaxOctet) + 1 \in 1..MaxOctet
  BY Numbers
<1>2. FirstIP \in IPs /\ FirstMAC \in MACs
  BY <1>1, Numbers DEF FirstIP, FirstMAC, IPs, MACs
<1>3. NoFields \in Fields
  BY <1>2 DEF NoFields, Fields, IPs, MACs
<1>4. NoRow \in Row
  BY <1>3 DEF NoRow, Row
<1>5. NoRequest \in Kept
  BY DEF NoRequest, Kept
<1> QED BY <1>2, <1>3, <1>4, <1>5

\* The carry of the last octet, and of the one before it
LEMMA NextIPTyped ==
    ASSUME NEW a \in IPs
    PROVE  NextIP(a) \in IPs
BY Numbers DEF NextIP, IPs

\* The same for bytes
LEMMA NextMACTyped ==
    ASSUME NEW a \in MACs
    PROVE  NextMAC(a) \in MACs
<1>1. a[1] \in 0..MaxByte /\ a[2] \in 0..MaxByte /\ a[3] \in 0..MaxByte
  BY DEF MACs
<1>2. CASE a[3] < MaxByte
  BY <1>1, <1>2, Numbers DEF NextMAC, MACs
<1>3. CASE a[3] = MaxByte /\ a[2] < MaxByte
  BY <1>1, <1>3, Numbers DEF NextMAC, MACs
<1>4. CASE a[3] = MaxByte /\ a[2] = MaxByte
  BY <1>1, <1>4, Numbers DEF NextMAC, MACs
<1> QED BY <1>1, <1>2, <1>3, <1>4, Numbers

\* Changing the host or the uuid of a station
LEMMA FieldsChanged ==
    ASSUME NEW d \in Fields, NEW h \in Hosts \cup {None}
    PROVE  [d EXCEPT !.host = h] \in Fields /\ [d EXCEPT !.uuid = Blank] \in Fields
<1>1. Fields = [ip : IPs, mac : MACs, host : Hosts \cup {None}, uuid : {Own, Blank}]
  BY DEF Fields, IPs, MACs
<1> QED BY <1>1

-----------------------------------------------------------------------------
(* The hub and the table                                                   *)

\* A request under way knows what it asked for
Asking(label, r) ==
    /\ label \in {"check", "add", "remove", "write"} => r.id \in Ids
    /\ label = "batch" => r.host \in Hosts

\* No object is registered twice, and hub and table have the same stations
Matched ==
    /\ TypeOK
    /\ \A c \in Clients : Asking(pc[c], req[c])
    /\ \A i, j \in Ids : hub[i] = hub[j] /\ hub[i] # None => i = j
    /\ \A i \in Ids : (hub[i] # None) <=> row[i].present

\* What a request may ask for, and the number of stations it sees
LEMMA AskedTyped == TypeOK => Asked \subseteq Ids /\ Offered \subseteq Hosts
BY RegistryAssumption DEF TypeOK, Asked, Offered, RegistryAssumption

LEMMA CountTyped == StationCount \in Nat /\ IsFiniteSet(Known)
<1>1. IsFiniteSet(Ids) /\ Known \subseteq Ids
  BY RegistryAssumption DEF RegistryAssumption, Known
<1> QED BY <1>1, FS_Subset, FS_CardinalityType DEF StationCount

\* A request that goes on knowing r
LEMMA ContinueTyped ==
    ASSUME Matched, NEW c \in Clients, NEW label \in RequestPC, NEW r \in Kept,
           Asking(label, r), Continue(c, label, r)
    PROVE  /\ pc' \in [Clients -> RequestPC] /\ req' \in [Clients -> Kept]
           /\ \A d \in Clients : Asking(pc'[d], req'[d])
BY FirstTyped DEF Matched, TypeOK, Continue, Kept, Asking

\* A request that comes in knowing r
LEMMA RequestTyped ==
    ASSUME Matched, NEW c \in Clients, NEW label \in RequestPC, NEW r \in Kept, NEW what,
           Asking(label, r), Request(c, what, label, r)
    PROVE  /\ pc' \in [Clients -> RequestPC] /\ req' \in [Clients -> Kept]
           /\ \A d \in Clients : Asking(pc'[d], req'[d])
BY FirstTyped DEF Matched, TypeOK, Request, Kept, Asking

\* A station that is added: a new object under its id, and its row
LEMMA AddMatched ==
    ASSUME DbReliable, Matched, NEW i \in Ids, NEW h \in Hosts, AddStation(i, h)
    PROVE  /\ hub' \in [Ids -> Objects \cup {None}] /\ row' \in [Ids -> Row]
           /\ obj' \in [Objects -> Fields]
           /\ lastIP' \in IPs /\ lastMAC' \in MACs /\ handed' \in 0..MaxHanded
           /\ \A j, k \in Ids : hub'[j] = hub'[k] /\ hub'[j] # None => j = k
           /\ \A j \in Ids : (hub'[j] # None) <=> row'[j].present
<1> DEFINE data == [ip |-> lastIP', mac |-> lastMAC', host |-> h, uuid |-> Own]
           o == CHOOSE x \in Objects : Unused(x)
<1>1. lastIP' \in IPs /\ lastMAC' \in MACs /\ handed' \in 0..MaxHanded
  BY NextIPTyped, NextMACTyped, Numbers DEF AddStation, Matched, TypeOK, IPs, MACs
<1>2. data \in Fields
  BY <1>1 DEF Fields, IPs, MACs
<1>3. o \in Objects /\ \A j \in Ids : hub[j] # o
  BY DEF AddStation, Unused
<1>4. /\ obj' = [obj EXCEPT ![o] = data]
      /\ hub' = [hub EXCEPT ![i] = o]
      /\ row' = [row EXCEPT ![i] = [present |-> TRUE, data |-> data]]
  BY DEF AddStation, InsertStation, Executed
<1>5. [present |-> TRUE, data |-> data] \in Row
  BY <1>2 DEF Row
<1> HIDE DEF data, o
<1>6. /\ hub' \in [Ids -> Objects \cup {None}] /\ row' \in [Ids -> Row]
      /\ obj' \in [Objects -> Fields]
  BY <1>2, <1>3, <1>4, <1>5 DEF Matched, TypeOK
<1>7. \A j, k \in Ids : hub'[j] = hub'[k] /\ hub'[j] # None => j = k
  BY <1>3, <1>4 DEF Matched, TypeOK
<1>8. \A j \in Ids : (hub'[j] # None) <=> row'[j].present
  BY <1>3, <1>4, Numbers DEF Matched, TypeOK
<1> QED BY <1>1, <1>6, <1>7, <1>8

\* The rows can be restored: the objects of the hub as it was would do
LEMMA RestoredMatched ==
    ASSUME Matched
    PROVE  /\ RestoredHub \in [Ids -> Objects \cup {None}]
           /\ \A i \in Ids : (RestoredHub[i] # None) <=> row[i].present
           /\ \A i, j \in Ids : RestoredHub[i] = RestoredHub[j] /\ RestoredHub[i] # None => i = j
<1> DEFINE P(f) == /\ \A i \in Ids : (f[i] # None) <=> row[i].present
                   /\ \A i, j \in Ids : f[i] = f[j] /\ f[i] # None => i = j
<1>1. hub \in [Ids -> Objects \cup {None}] /\ P(hub)
  BY DEF Matched, TypeOK
<1>2. RestoredHub = CHOOSE f \in [Ids -> Objects \cup {None}] : P(f)
  BY DEF RestoredHub
<1> HIDE DEF P
<1>3. RestoredHub \in [Ids -> Objects \cup {None}] /\ P(RestoredHub)
  BY <1>1, <1>2
<1> QED BY <1>3 DEF P

\* Steps that change neither hub nor rows
LEMMA TablesKept ==
    ASSUME Matched, UNCHANGED <<hub, row, addresses, restarts, careful>>,
           obj' \in [Objects -> Fields], running' \subseteq Objects, starting' \subseteq Objects,
           platform' \in Hosts, pc' \in [Clients -> RequestPC], req' \in [Clients -> Kept],
           \A d \in Clients : Asking(pc'[d], req'[d])
    PROVE  Matched'
BY DEF Matched, TypeOK, addresses, Kept, Row, Fields, Asking

\* Steps that change them, leaving both typed and matched
LEMMA TablesMatched ==
    ASSUME Matched, UNCHANGED <<platform, restarts, careful>>,
           running' \subseteq Objects, starting' \subseteq Objects,
           hub' \in [Ids -> Objects \cup {None}], row' \in [Ids -> Row],
           obj' \in [Objects -> Fields],
           lastIP' \in IPs, lastMAC' \in MACs, handed' \in 0..MaxHanded,
           \A j, k \in Ids : hub'[j] = hub'[k] /\ hub'[j] # None => j = k,
           \A j \in Ids : (hub'[j] # None) <=> row'[j].present,
           pc' \in [Clients -> RequestPC], req' \in [Clients -> Kept],
           \A d \in Clients : Asking(pc'[d], req'[d])
    PROVE  Matched'
BY DEF Matched, TypeOK, Kept, Row, Fields, Asking, IPs, MACs

\* Requests that come in
LEMMA ArrivalMatched ==
    ASSUME Matched, NEW c \in Clients,
           \/ \E i \in Asked : CreateCount(c, i) \/ DeleteStop(c, i) \/ StationAction(c, i)
           \/ \E i \in Asked, h \in Offered : ConfigSet(c, i, h)
           \/ \E ids \in BatchIds, h \in Offered : BatchCount(c, ids, h)
           \/ \E h \in Offered : PlatformSet(c, h)
           \/ StartAllLookup(c) \/ StopAllLookup(c)
    PROVE  Matched'
<1>0. Asked \subseteq Ids /\ Offered \subseteq Hosts /\ Stations \subseteq Objects
  <2>1. Asked \subseteq Ids /\ Offered \subseteq Hosts
    BY AskedTyped DEF Matched
  <2>2. Stations \subseteq Objects
    BY DEF Matched, TypeOK, Stations, Known
  <2> QED BY <2>1, <2>2
<1> USE DEF lives, tables
<1>1. ASSUME NEW i \in Asked, CreateCount(c, i) PROVE Matched'
  <2> DEFINE r == [NoRequest EXCEPT !.id = i]
  <2>1. r \in Kept /\ r.id = i
    BY <1>0, <1>1, FirstTyped DEF Kept, NoRequest
  <2>2. Asking("check", r) /\ "check" \in RequestPC
    BY <1>0, <1>1, <2>1 DEF Asking, RequestPC
  <2>3. /\ pc' \in [Clients -> RequestPC] /\ req' \in [Clients -> Kept]
        /\ \A d \in Clients : Asking(pc'[d], req'[d])
    BY <1>1, <2>1, <2>2, RequestTyped DEF CreateCount
  <2> QED BY <1>1, <2>3, TablesKept DEF CreateCount, Matched, TypeOK
<1>2. ASSUME NEW i \in Asked, DeleteStop(c, i) PROVE Matched'
  <2> DEFINE r == [NoRequest EXCEPT !.id = i, !.objs = {hub[i]}]
  <2>1. r \in Kept /\ r.id = i
    BY <1>0, <1>2, FirstTyped DEF Kept, NoRequest, DeleteStop, Matched, TypeOK
  <2>2. Asking("remove", r) /\ "remove" \in RequestPC
    BY <1>0, <1>2, <2>1 DEF Asking, RequestPC
  <2>3. /\ pc' \in [Clients -> RequestPC] /\ req' \in [Clients -> Kept]
        /\ \A d \in Clients : Asking(pc'[d], req'[d])
    BY <1>2, <2>1, <2>2, RequestTyped DEF DeleteStop
  <2> QED BY <1>2, <2>3, TablesKept DEF DeleteStop, Matched, TypeOK
<1>3. ASSUME NEW i \in Asked, StationAction(c, i) PROVE Matched'
  <2>1. NoRequest \in Kept /\ Asking("off", NoRequest) /\ "off" \in RequestPC
    BY FirstTyped DEF Asking, RequestPC
  <2>2. CASE StartLookup(c, i)
    <3>1. /\ pc' \in [Clients -> RequestPC] /\ req' \in [Clients -> Kept]
          /\ \A d \in Clients : Asking(pc'[d], req'[d])
      BY <2>1, <2>2, RequestTyped DEF StartLookup
    <3> QED BY <1>0, <1>3, <2>2, <3>1, TablesKept DEF StartLookup, Matched, TypeOK
  <2>3. CASE StopLookup(c, i)
    <3> DEFINE r == [NoRequest EXCEPT !.objs = {hub[i]}]
    <3>1. r \in Kept /\ Asking("stop", r) /\ "stop" \in RequestPC
      BY <2>3, FirstTyped DEF Kept, NoRequest, Asking, RequestPC, StopLookup, Matched, TypeOK
    <3>2. /\ pc' \in [Clients -> RequestPC] /\ req' \in [Clients -> Kept]
          /\ \A d \in Clients : Asking(pc'[d], req'[d])
      BY <2>3, <3>1, RequestTyped DEF StopLookup
    <3> QED BY <2>3, <3>2, TablesKept DEF StopLookup, Matched, TypeOK
  <2>4. CASE RestartStation(c, i)
    <3>1. /\ pc' \in [Clients -> RequestPC] /\ req' \in [Clients -> Kept]
          /\ \A d \in Clients : Asking(pc'[d], req'[d])
      BY <2>1, <2>4, RequestTyped DEF RestartStation
    <3> QED BY <1>0, <1>3, <2>4, <3>1, TablesKept DEF RestartStation, Matched, TypeOK
  <2> QED BY <1>3, <2>2, <2>3, <2>4 DEF StationAction
<1>4. ASSUME NEW i \in Asked, NEW h \in Offered, ConfigSet(c, i, h) PROVE Matched'
  <2> DEFINE r == [NoRequest EXCEPT !.id = i, !.objs = {hub[i]}]
  <2>1. r \in Kept /\ r.id = i
    BY <1>0, <1>4, FirstTyped DEF Kept, NoRequest, ConfigSet, Matched, TypeOK
  <2>2. Asking("write", r) /\ "write" \in RequestPC
    BY <1>0, <1>4, <2>1 DEF Asking, RequestPC
  <2>3. /\ pc' \in [Clients -> RequestPC] /\ req' \in [Clients -> Kept]
        /\ \A d \in Clients : Asking(pc'[d], req'[d])
    BY <1>4, <2>1, <2>2, RequestTyped DEF ConfigSet
  <2>4. obj' \in [Objects -> Fields]
    <3>1. hub[i] \in Objects /\ h \in Hosts
      BY <1>0, <1>4 DEF ConfigSet, Matched, TypeOK
    <3>2. [obj[hub[i]] EXCEPT !.host = h] \in Fields
      BY <3>1, FieldsChanged DEF Matched, TypeOK
    <3>3. obj' = [obj EXCEPT ![hub[i]] = [@ EXCEPT !.host = h]]
      BY <1>4 DEF ConfigSet
    <3> QED BY <3>1, <3>2, <3>3 DEF Matched, TypeOK
  <2> QED BY <1>4, <2>3, <2>4, TablesKept DEF ConfigSet, Matched, TypeOK
<1>5. ASSUME NEW ids \in BatchIds, NEW h \in Offered, BatchCount(c, ids, h) PROVE Matched'
  <2> DEFINE r == [NoRequest EXCEPT !.ids = ids, !.seen = StationCount, !.host = h]
  <2>1. r \in Kept /\ r.host = h
    <3>1. ids \in Seq(Ids) /\ h \in Hosts
      BY <1>0, <1>5, RegistryAssumption DEF RegistryAssumption
    <3> QED BY <3>1, CountTyped, FirstTyped DEF Kept, NoRequest
  <2>2. Asking("batch", r) /\ "batch" \in RequestPC
    BY <1>0, <1>5, <2>1 DEF Asking, RequestPC
  <2>3. /\ pc' \in [Clients -> RequestPC] /\ req' \in [Clients -> Kept]
        /\ \A d \in Clients : Asking(pc'[d], req'[d])
    BY <1>5, <2>1, <2>2, RequestTyped DEF BatchCount
  <2> QED BY <1>5, <2>3, TablesKept DEF BatchCount, Matched, TypeOK
<1>6. ASSUME NEW h \in Offered, PlatformSet(c, h) PROVE Matched'
  <2>1. NoRequest \in Kept /\ Asking("reconnect", NoRequest) /\ "reconnect" \in RequestPC
    BY FirstTyped DEF Asking, RequestPC
  <2>2. /\ pc' \in [Clients -> RequestPC] /\ req' \in [Clients -> Kept]
        /\ \A d \in Clients : Asking(pc'[d], req'[d])
    BY <1>6, <2>1, RequestTyped DEF PlatformSet
  <2> QED BY <1>0, <1>6, <2>2, TablesKept DEF PlatformSet, Matched, TypeOK
<1>7. ASSUME StartAllLookup(c) PROVE Matched'
  <2>1. NoRequest \in Kept /\ Asking("off", NoRequest) /\ "off" \in RequestPC
    BY FirstTyped DEF Asking, RequestPC
  <2>2. /\ pc' \in [Clients -> RequestPC] /\ req' \in [Clients -> Kept]
        /\ \A d \in Clients : Asking(pc'[d], req'[d])
    BY <1>7, <2>1, RequestTyped DEF StartAllLookup
  <2> QED BY <1>0, <1>7, <2>2, TablesKept DEF StartAllLookup, Matched, TypeOK
<1>8. ASSUME StopAllLookup(c) PROVE Matched'
  <2> DEFINE r == [NoRequest EXCEPT !.objs = Stations \cap running]
  <2>1. r \in Kept /\ Asking("stop", r) /\ "stop" \in RequestPC
    BY <1>0, FirstTyped DEF Kept, NoRequest, Asking, RequestPC
  <2>2. /\ pc' \in [Clients -> RequestPC] /\ req' \in [Clients -> Kept]
        /\ \A d \in Clients : Asking(pc'[d], req'[d])
    BY <1>8, <2>1, RequestTyped DEF StopAllLookup
  <2> QED BY <1>8, <2>2, TablesKept DEF StopAllLookup, Matched, TypeOK
<1> QED BY <1>1, <1>2, <1>3, <1>4, <1>5, <1>6, <1>7, <1>8

\* Requests that go on
LEMMA StepMatched ==
    ASSUME DbReliable, Matched, NEW c \in Clients,
           \/ CreateCheck(c) \/ CreateAdd(c) \/ BatchAdd(c) \/ BatchEnd(c)
           \/ Stop(c) \/ ConfigWrite(c) \/ ReconnectAll(c) \/ RemoveStation(c)
    PROVE  Matched'
<1>0. Stations \subseteq Objects /\ req[c] \in Kept /\ Offered \subseteq Hosts
  <2>1. Stations \subseteq Objects
    BY DEF Matched, TypeOK, Stations, Known
  <2>2. req[c] \in Kept
    BY DEF Matched, TypeOK, Kept
  <2> QED BY <2>1, <2>2, AskedTyped DEF Matched
<1>e. NoRequest \in Kept /\ Asking("off", NoRequest) /\ "off" \in RequestPC
  BY FirstTyped DEF Asking, RequestPC
<1> USE DEF lives, tables
<1>1. CASE CreateCheck(c)
  <2>1. req[c].id \in Ids
    BY <1>1 DEF CreateCheck, Matched, Asking
  <2>2. \A label \in {"add", "off"} : label \in RequestPC /\ Asking(label, req[c])
    BY <2>1 DEF Asking, RequestPC
  <2>3. PICK label \in {"add", "off"} : Continue(c, label, req[c])
    BY <1>1 DEF CreateCheck
  <2>4. /\ pc' \in [Clients -> RequestPC] /\ req' \in [Clients -> Kept]
        /\ \A d \in Clients : Asking(pc'[d], req'[d])
    BY <1>0, <2>2, <2>3, ContinueTyped
  <2> QED BY <1>1, <2>4, TablesKept DEF CreateCheck, Matched, TypeOK
<1>2. CASE CreateAdd(c)
  <2>1. req[c].id \in Ids
    BY <1>2 DEF CreateAdd, Matched, Asking
  <2>2. PICK h \in Hosts : AddStation(req[c].id, h)
    BY <1>0, <1>2 DEF CreateAdd
  <2>3. /\ pc' \in [Clients -> RequestPC] /\ req' \in [Clients -> Kept]
        /\ \A d \in Clients : Asking(pc'[d], req'[d])
    BY <1>e, <1>2, ContinueTyped DEF CreateAdd
  <2>4. /\ hub' \in [Ids -> Objects \cup {None}] /\ row' \in [Ids -> Row]
        /\ obj' \in [Objects -> Fields]
        /\ lastIP' \in IPs /\ lastMAC' \in MACs /\ handed' \in 0..MaxHanded
        /\ \A j, k \in Ids : hub'[j] = hub'[k] /\ hub'[j] # None => j = k
        /\ \A j \in Ids : (hub'[j] # None) <=> row'[j].present
    BY <2>1, <2>2, AddMatched
  <2> QED BY <1>2, <2>3, <2>4, TablesMatched DEF CreateAdd, Matched, TypeOK
<1>3. CASE BatchAdd(c)
  <2>1. req[c].host \in Hosts /\ req[c].ids \in Seq(Ids) /\ req[c].ids # <<>>
    BY <1>0, <1>3 DEF BatchAdd, Matched, Asking, Kept
  <2>2. Head(req[c].ids) \in Ids /\ Tail(req[c].ids) \in Seq(Ids)
    BY <2>1
  <2> DEFINE r == [req[c] EXCEPT !.ids = Tail(@), !.seen = @ + 1]
  <2>3. r \in Kept /\ r.host = req[c].host
    <3>1. req[c].seen + 1 \in Nat
      BY <1>0 DEF Kept
    <3>2. r = [req[c] EXCEPT !.ids = Tail(req[c].ids), !.seen = req[c].seen + 1]
      OBVIOUS
    <3> HIDE DEF r
    <3> QED BY <1>0, <2>2, <3>1, <3>2 DEF Kept
  <2>4. Asking("batch", r) /\ "batch" \in RequestPC
    BY <2>1, <2>3 DEF Asking, RequestPC
  <2>5. /\ pc' \in [Clients -> RequestPC] /\ req' \in [Clients -> Kept]
        /\ \A d \in Clients : Asking(pc'[d], req'[d])
    BY <1>3, <2>3, <2>4, ContinueTyped DEF BatchAdd
  <2>6. /\ hub' \in [Ids -> Objects \cup {None}] /\ row' \in [Ids -> Row]
        /\ obj' \in [Objects -> Fields]
        /\ lastIP' \in IPs /\ lastMAC' \in MACs /\ handed' \in 0..MaxHanded
        /\ \A j, k \in Ids : hub'[j] = hub'[k] /\ hub'[j] # None => j = k
        /\ \A j \in Ids : (hub'[j] # None) <=> row'[j].present
    BY <1>3, <2>1, <2>2, AddMatched DEF BatchAdd
  <2> QED BY <1>3, <2>5, <2>6, TablesMatched DEF BatchAdd, Matched, TypeOK
<1>4. CASE BatchEnd(c)
  <2>1. /\ pc' \in [Clients -> RequestPC] /\ req' \in [Clients -> Kept]
        /\ \A d \in Clients : Asking(pc'[d], req'[d])
    BY <1>e, <1>4, ContinueTyped DEF BatchEnd
  <2> QED BY <1>4, <2>1, TablesKept DEF BatchEnd, Matched, TypeOK
<1>5. CASE Stop(c)
  <2>1. PICK o \in req[c].objs :
          /\ running' = running \ {o}
          /\ Continue(c, IF req[c].objs \ {o} = {} THEN "off" ELSE "stop",
                      [req[c] EXCEPT !.objs = req[c].objs \ {o}])
    BY <1>5 DEF Stop
  <2> DEFINE r == [req[c] EXCEPT !.objs = req[c].objs \ {o}]
  <2>2. r \in Kept
    BY <1>0 DEF Kept
  <2>3. \A label \in {"off", "stop"} : label \in RequestPC /\ Asking(label, r)
    BY DEF Asking, RequestPC
  <2>4. PICK label \in {"off", "stop"} : Continue(c, label, r)
    BY <2>1
  <2> HIDE DEF r
  <2>5. /\ pc' \in [Clients -> RequestPC] /\ req' \in [Clients -> Kept]
        /\ \A d \in Clients : Asking(pc'[d], req'[d])
    BY <2>2, <2>3, <2>4, ContinueTyped
  <2> QED BY <1>5, <2>1, <2>5, TablesKept DEF Stop, Matched, TypeOK
<1>6. CASE ConfigWrite(c)
  <2>1. req[c].id \in Ids /\ req[c].objs \subseteq Objects
    BY <1>0, <1>6 DEF ConfigWrite, Matched, Asking, Kept
  <2>2. PICK o \in Objects : UpdateStation(req[c].id, [obj[o] EXCEPT !.uuid = Blank])
    BY <1>6, <2>1 DEF ConfigWrite
  <2> DEFINE data == [obj[o] EXCEPT !.uuid = Blank]
             i == req[c].id
  <2>3. data \in Fields
    BY Numbers, FieldsChanged DEF Matched, TypeOK
  <2>4. row' = [row EXCEPT ![i] = IF row[i].present THEN [present |-> TRUE, data |-> data]
                                  ELSE row[i]]
    BY <2>2 DEF UpdateStation, Executed
  <2> HIDE DEF data
  <2>5. row' \in [Ids -> Row]
    BY <2>1, <2>3, <2>4 DEF Matched, TypeOK, Row
  <2>6. \A j \in Ids : row'[j].present = row[j].present
    BY <2>1, <2>4 DEF Matched, TypeOK, Row
  <2>7. /\ pc' \in [Clients -> RequestPC] /\ req' \in [Clients -> Kept]
        /\ \A d \in Clients : Asking(pc'[d], req'[d])
    BY <1>e, <1>6, ContinueTyped DEF ConfigWrite
  <2> QED BY <1>6, <2>5, <2>6, <2>7, TablesMatched
          DEF ConfigWrite, Matched, TypeOK, addresses, IPs, MACs
<1>7. CASE ReconnectAll(c)
  <2>1. /\ pc' \in [Clients -> RequestPC] /\ req' \in [Clients -> Kept]
        /\ \A d \in Clients : Asking(pc'[d], req'[d])
    BY <1>e, <1>7, ContinueTyped DEF ReconnectAll
  <2>2. obj' \in [Objects -> Fields]
    <3>1. \A o \in Objects : [obj[o] EXCEPT !.host = platform] \in Fields
      BY FieldsChanged DEF Matched, TypeOK
    <3> QED BY <1>7, <3>1 DEF ReconnectAll, Matched, TypeOK
  <2> QED BY <1>0, <1>7, <2>1, <2>2, TablesKept DEF ReconnectAll, Matched, TypeOK
<1>8. CASE RemoveStation(c)
  <2>1. /\ pc' \in [Clients -> RequestPC] /\ req' \in [Clients -> Kept]
        /\ \A d \in Clients : Asking(pc'[d], req'[d])
    BY <1>e, <1>8, ContinueTyped DEF RemoveStation
  <2>2. running' \subseteq Objects
    BY <1>8 DEF RemoveStation, Matched, TypeOK
  <2> DEFINE i == req[c].id
  <2>3. i \in Ids
    BY <1>8 DEF RemoveStation, Matched, Asking
  <2>4. CASE hub[i] = None
    BY <1>8, <2>1, <2>2, <2>4, TablesKept DEF RemoveStation, Matched, TypeOK
  <2>5. CASE hub[i] # None
    <3>1. hub' = [hub EXCEPT ![i] = None] /\ row' = [row EXCEPT ![i] = NoRow]
      BY <1>8, <2>5 DEF RemoveStation, DeleteRow, Executed
    <3>2. hub' \in [Ids -> Objects \cup {None}] /\ row' \in [Ids -> Row]
      BY <2>3, <3>1, FirstTyped DEF Matched, TypeOK
    <3>3. \A j, k \in Ids : hub'[j] = hub'[k] /\ hub'[j] # None => j = k
      BY <2>3, <3>1 DEF Matched, TypeOK
    <3>4. \A j \in Ids : (hub'[j] # None) <=> row'[j].present
      BY <2>3, <3>1 DEF Matched, TypeOK, NoRow
    <3> QED BY <1>8, <2>1, <2>2, <3>2, <3>3, <3>4, TablesMatched
            DEF RemoveStation, Matched, TypeOK, addresses, IPs, MACs
  <2> QED BY <2>4, <2>5
<1> QED BY <1>1, <1>2, <1>3, <1>4, <1>5, <1>6, <1>7, <1>8

\* A new process, with the stations of its rows
LEMMA RestartMatched ==
    ASSUME Matched, Restart
    PROVE  Matched'
<1>1. /\ hub' \in [Ids -> Objects \cup {None}]
      /\ \A j, k \in Ids : hub'[j] = hub'[k] /\ hub'[j] # None => j = k
      /\ \A j \in Ids : (hub'[j] # None) <=> row'[j].present
  BY RestoredMatched DEF Restart
<1>2. obj' \in [Objects -> Fields]
  <2>1. \A i \in Ids : row[i].data \in Fields
    BY DEF Matched, TypeOK, Row
  <2>2. \A o \in Objects :
          (\E i \in Ids : RestoredHub[i] = o)
             => (CHOOSE i \in Ids : RestoredHub[i] = o) \in Ids
    OBVIOUS
  <2> QED BY <2>1, <2>2, FirstTyped DEF Restart
<1>3. pc' = [d \in Clients |-> "off"] /\ req' = [d \in Clients |-> NoRequest]
  BY DEF Restart
<1>4. /\ pc' \in [Clients -> RequestPC] /\ req' \in [Clients -> Kept]
      /\ \A d \in Clients : Asking(pc'[d], req'[d])
  BY <1>3, FirstTyped DEF RequestPC, Asking
<1>5. /\ row' \in [Ids -> Row]
      /\ running' \subseteq Objects /\ starting' \subseteq Objects
      /\ lastIP' \in IPs /\ lastMAC' \in MACs /\ handed' \in 0..MaxHanded
      /\ platform' \in Hosts /\ restarts' \in 0..MaxRestarts /\ careful' \in BOOLEAN
  BY FirstTyped, Numbers DEF Restart, Matched, TypeOK
<1> QED BY <1>1, <1>2, <1>4, <1>5 DEF Matched, TypeOK, Kept, IPs, MACs

LEMMA MatchedInitially == Init => Matched
<1> SUFFICES ASSUME Init PROVE Matched
  OBVIOUS
<1>1. \A i \in Ids : hub[i] = None /\ ~row[i].present
  BY DEF Init, NoRow
<1>2. TypeOK
  BY FirstTyped, Numbers DEF Init, TypeOK, IPs, MACs, Kept, RequestPC
<1>3. \A c \in Clients : Asking(pc[c], req[c])
  BY DEF Init, Asking
<1> QED BY <1>1, <1>2, <1>3 DEF Matched

LEMMA MatchedNext == ASSUME DbReliable PROVE Matched /\ [Next]_vars => Matched'
<1> SUFFICES ASSUME Matched, [Next]_vars PROVE Matched'
  OBVIOUS
<1>1. ASSUME NEW o \in Objects, Start(o) PROVE Matched'
  BY <1>1, TablesKept DEF Start, Matched, TypeOK, tables, requests, Kept
<1>2. CASE Restart
  BY <1>2, RestartMatched
<1>3. CASE UNCHANGED vars
  BY <1>3 DEF vars, tables, lives, addresses, requests, Matched, TypeOK, Asking
<1>4. CASE Next
  BY <1>1, <1>2, <1>4, ArrivalMatched, StepMatched DEF Next
<1> QED BY <1>3, <1>4

\* Whatever requests race, the variables keep their types: among them that addresses wrap
\* around within their octets and bytes
THEOREM TypeCorrect == ASSUME DbReliable PROVE Spec => []TypeOK
<1>1. Matched => TypeOK
  BY DEF Matched
<1> QED BY <1>1, MatchedInitially, MatchedNext, PTL DEF Spec

\* ... and the hub and the table have the same stations
THEOREM PersistedCorrect == ASSUME DbReliable PROVE Spec => []Persisted
<1>1. Matched => Persisted
  BY DEF Matched, Persisted
<1> QED BY <1>1, MatchedInitially, MatchedNext, PTL DEF Spec

-----------------------------------------------------------------------------
(* Careful users                                                           *)

\* What a request under way has seen is still so
Fresh(c) ==
    /\ pc[c] \in {"check", "add"} => StationCount < MaxStations
    /\ pc[c] = "add" => hub[req[c].id] = None
    /\ pc[c] = "batch" => /\ StationCount <= req[c].seen
                         /\ \A k \in DOMAIN req[c].ids : hub[req[c].ids[k]] \notin running

\* A request is alone, and nothing is about to be started meanwhile
Alone ==
    careful =>
        /\ \A c, d \in Busy : c = d
        /\ Busy # {} => starting = {}
        /\ running \cup starting \subseteq Stations
        /\ StationCount <= MaxStations
        /\ \A c \in Clients : Fresh(c)

\* One station more, at most
LEMMA CountGrows ==
    ASSUME NEW S, NEW T, NEW x, IsFiniteSet(S), T \subseteq S \cup {x}
    PROVE  IsFiniteSet(T) /\ Cardinality(T) <= Cardinality(S) + 1 /\ Cardinality(T) \in Nat
<1>1. /\ IsFiniteSet(S \cup {x})
      /\ Cardinality(S \cup {x}) = IF x \in S THEN Cardinality(S) ELSE Cardinality(S) + 1
  BY FS_AddElement
<1>2. IsFiniteSet(T) /\ Cardinality(T) <= Cardinality(S \cup {x})
  BY <1>1, FS_Subset
<1> QED BY <1>1, <1>2, FS_CardinalityType

\* A request that comes in finds nothing under way
LEMMA ArrivalAlone ==
    ASSUME Matched, Alone, careful, NEW c \in Clients,
           \/ \E i \in Asked : CreateCount(c, i) \/ DeleteStop(c, i) \/ StationAction(c, i)
           \/ \E i \in Asked, h \in Offered : ConfigSet(c, i, h)
           \/ \E ids \in BatchIds, h \in Offered : BatchCount(c, ids, h)
           \/ \E h \in Offered : PlatformSet(c, h)
           \/ StartAllLookup(c) \/ StopAllLookup(c)
    PROVE  Alone'
<1> USE DEF lives, tables
<1>1. Busy = {} /\ starting = {} /\ hub' = hub /\ careful'
  BY DEF CreateCount, DeleteStop, StationAction, StartLookup, StopLookup, RestartStation,
         ConfigSet, BatchCount, PlatformSet, StartAllLookup, StopAllLookup, Request, Undisturbed
<1>2. \A d \in Clients : d # c => pc'[d] = "off"
  <2>1. \A d \in Clients : pc[d] = "off"
    BY <1>1 DEF Busy
  <2>2. \E label \in RequestPC : pc' = [pc EXCEPT ![c] = label]
    BY DEF CreateCount, DeleteStop, StationAction, StartLookup, StopLookup, RestartStation,
           ConfigSet, BatchCount, PlatformSet, StartAllLookup, StopAllLookup, Request, RequestPC
  <2> QED BY <2>1, <2>2 DEF Matched, TypeOK
<1>3. Busy' \subseteq {c}
  BY <1>2 DEF Busy
<1>4. StationCount' = StationCount /\ Stations' = Stations
  BY <1>1 DEF StationCount, Stations, Known
<1>5. (pc'[c] # "off" => starting' = {}) /\ running' \cup starting' \subseteq Stations
  <2>1. running \subseteq Stations /\ \A i \in Ids : hub[i] # None => hub[i] \in Stations
    BY DEF Alone, Stations, Known
  <2>2. Asked \subseteq Ids
    BY AskedTyped DEF Matched
  <2>3. ASSUME NEW i \in Asked, StationAction(c, i)
        PROVE  (pc'[c] # "off" => starting' = {}) /\ running' \cup starting' \subseteq Stations
    BY <1>1, <2>1, <2>2, <2>3
       DEF StationAction, StartLookup, StopLookup, RestartStation, Request, Matched, TypeOK
  <2>4. CASE StartAllLookup(c)
    BY <1>1, <2>1, <2>4 DEF StartAllLookup, Request, Matched, TypeOK
  <2>5. ASSUME \/ \E i \in Asked : CreateCount(c, i) \/ DeleteStop(c, i)
               \/ \E i \in Asked, h \in Offered : ConfigSet(c, i, h)
               \/ \E ids \in BatchIds, h \in Offered : BatchCount(c, ids, h)
               \/ \E h \in Offered : PlatformSet(c, h)
               \/ StopAllLookup(c)
        PROVE  starting' = {} /\ running' \subseteq running
    BY <1>1, <2>5 DEF CreateCount, DeleteStop, ConfigSet, BatchCount, PlatformSet, StopAllLookup
  <2> QED BY <2>1, <2>3, <2>4, <2>5
<1>6. Fresh(c)'
  <2>1. ASSUME NEW i \in Asked, CreateCount(c, i) PROVE Fresh(c)'
    BY <1>4, <2>1 DEF CreateCount, Request, Fresh, Matched, TypeOK
  <2>2. ASSUME NEW ids \in BatchIds, NEW h \in Offered, BatchCount(c, ids, h) PROVE Fresh(c)'
    <3>1. pc'[c] = "batch" /\ req'[c].ids = ids /\ req'[c].seen = StationCount
      BY <2>2 DEF BatchCount, Request, Matched, TypeOK, NoRequest
    <3>2. \A k \in DOMAIN ids : hub[ids[k]] = None
      BY <2>2 DEF BatchCount
    <3>3. None \notin running /\ running' = running
      BY <2>2, Numbers DEF BatchCount, Matched, TypeOK
    <3>4. \A k \in DOMAIN req'[c].ids : hub'[req'[c].ids[k]] \notin running'
      BY <1>1, <3>1, <3>2, <3>3
    <3> QED BY <1>4, <3>1, <3>4, CountTyped DEF Fresh
  <2>3. ASSUME \/ \E i \in Asked : DeleteStop(c, i) \/ StationAction(c, i)
               \/ \E i \in Asked, h \in Offered : ConfigSet(c, i, h)
               \/ \E h \in Offered : PlatformSet(c, h)
               \/ StartAllLookup(c) \/ StopAllLookup(c)
        PROVE  pc'[c] \notin {"check", "add", "batch"}
    BY <2>3 DEF DeleteStop, StationAction, StartLookup, StopLookup, RestartStation, ConfigSet,
                PlatformSet, StartAllLookup, StopAllLookup, Request, Matched, TypeOK
  <2> QED BY <2>1, <2>2, <2>3 DEF Fresh
<1>7. \A d \in Clients : Fresh(d)'
  BY <1>2, <1>6 DEF Fresh
<1>8. StationCount <= MaxStations
  BY DEF Alone
<1> QED BY <1>1, <1>3, <1>4, <1>5, <1>7, <1>8 DEF Alone, Busy

\* A station that is added replaces none that runs, and there is room for it
LEMMA AddAlone ==
    ASSUME Matched, Alone, NEW i \in Ids, NEW h \in Hosts, AddStation(i, h),
           hub[i] \notin running, running \subseteq Stations
    PROVE  /\ running \subseteq Stations'
           /\ StationCount' <= StationCount + 1 /\ StationCount' \in Nat
           /\ \A j \in Ids : hub[j] \notin running => hub'[j] \notin running
<1>1. PICK o \in Objects : Unused(o) /\ hub' = [hub EXCEPT ![i] = o]
  BY DEF AddStation
<1>2. o \notin running /\ o # None
  BY <1>1, Numbers DEF Unused
<1>3. \A j \in Ids : hub'[j] = IF j = i THEN o ELSE hub[j]
  BY <1>1 DEF Matched, TypeOK
<1>4. running \subseteq Stations'
  <2> SUFFICES ASSUME NEW x \in running PROVE x \in Stations'
    OBVIOUS
  <2>1. PICK j \in Known : x = hub[j]
    BY DEF Stations
  <2>2. j # i /\ j \in Ids /\ hub'[j] = x /\ x # None
    BY <1>3, <2>1 DEF Known
  <2> QED BY <2>2 DEF Stations, Known
<1>5. Known' \subseteq Known \cup {i}
  BY <1>3 DEF Known
<1>6. StationCount' <= StationCount + 1 /\ StationCount' \in Nat
  BY <1>5, CountTyped, CountGrows DEF StationCount
<1> QED BY <1>2, <1>3, <1>4, <1>6

\* What a request's step has to see to
LEMMA StepAlone ==
    ASSUME Matched, Alone, careful, careful', NEW c \in Clients, pc[c] # "off",
           NEW label \in RequestPC, NEW r, Continue(c, label, r),
           running' \cup starting' \subseteq Stations', StationCount' <= MaxStations,
           label # "off" => starting' = {}, Fresh(c)'
    PROVE  Alone'
<1>1. \A d \in Clients : d # c => pc[d] = "off"
  BY DEF Alone, Busy
<1>2. \A d \in Clients : pc'[d] = IF d = c THEN label ELSE "off"
  BY <1>1 DEF Continue, Matched, TypeOK
<1>3. \A d \in Clients : Fresh(d)'
  BY <1>2 DEF Fresh
<1> QED BY <1>2, <1>3 DEF Alone, Busy

\* Requests that go on
LEMMA StepsAlone ==
    ASSUME DbReliable, Matched, Alone, careful, NEW c \in Clients,
           \/ CreateCheck(c) \/ CreateAdd(c) \/ BatchAdd(c) \/ BatchEnd(c)
           \/ Stop(c) \/ ConfigWrite(c) \/ ReconnectAll(c) \/ RemoveStation(c)
    PROVE  Alone'
<1> USE DEF lives, tables
<1>0. /\ pc[c] # "off" /\ starting = {} /\ running \subseteq Stations
      /\ StationCount <= MaxStations /\ StationCount \in Nat /\ MaxStations \in Nat
      /\ Fresh(c) /\ careful' /\ Offered \subseteq Hosts /\ req[c] \in Kept
  <2>1. pc[c] # "off" /\ careful'
    BY DEF CreateCheck, CreateAdd, BatchAdd, BatchEnd, Stop, ConfigWrite, ReconnectAll,
           RemoveStation
  <2>2. starting = {} /\ running \subseteq Stations /\ StationCount <= MaxStations /\ Fresh(c)
    BY <2>1 DEF Alone, Busy
  <2>3. req[c] \in Kept
    BY DEF Matched, TypeOK, Kept
  <2> QED BY <2>1, <2>2, <2>3, CountTyped, Numbers, AskedTyped DEF Matched
<1>s. hub' = hub => Stations' = Stations /\ StationCount' = StationCount
  BY DEF Stations, StationCount, Known
<1>1. CASE CreateCheck(c)
  <2>1. PICK label \in {"add", "off"} :
          Continue(c, label, req[c]) /\ (label = "add" => hub[req[c].id] = None)
    BY <1>1 DEF CreateCheck
  <2>2. label \in RequestPC
    BY DEF RequestPC
  <2>3. pc'[c] = label /\ (label = "add" => req'[c] = req[c]) /\ hub' = hub
    BY <1>1, <2>1 DEF CreateCheck, Continue, Matched, TypeOK
  <2>4. StationCount < MaxStations
    BY <1>0, <1>1 DEF CreateCheck, Fresh
  <2>5. Fresh(c)'
    BY <1>s, <2>1, <2>3, <2>4 DEF Fresh
  <2> QED BY <1>0, <1>1, <1>s, <2>1, <2>2, <2>5, StepAlone DEF CreateCheck
<1>2. CASE CreateAdd(c)
  <2>1. PICK h \in Hosts : AddStation(req[c].id, h)
    BY <1>0, <1>2 DEF CreateAdd
  <2>2. /\ req[c].id \in Ids /\ hub[req[c].id] \notin running
        /\ StationCount < MaxStations
    BY <1>0, <1>2, Numbers DEF CreateAdd, Matched, TypeOK, Asking, Fresh
  <2>3. running \subseteq Stations' /\ StationCount' <= StationCount + 1 /\ StationCount' \in Nat
    BY <1>0, <2>1, <2>2, AddAlone
  <2>4. StationCount' <= MaxStations
    BY <1>0, <2>2, <2>3
  <2>5. pc'[c] = "off" /\ "off" \in RequestPC
    BY <1>2 DEF CreateAdd, Continue, Matched, TypeOK, RequestPC
  <2>6. Fresh(c)'
    BY <2>5 DEF Fresh
  <2> QED BY <1>0, <1>2, <2>3, <2>4, <2>5, <2>6, StepAlone DEF CreateAdd
<1>3. CASE BatchAdd(c)
  <2> DEFINE ids == req[c].ids
             r == [req[c] EXCEPT !.ids = Tail(@), !.seen = @ + 1]
  <2>1. /\ ids \in Seq(Ids) /\ ids # <<>> /\ req[c].host \in Hosts /\ req[c].seen \in Nat
        /\ req[c].seen < MaxStations /\ StationCount <= req[c].seen
        /\ \A k \in DOMAIN ids : hub[ids[k]] \notin running
    BY <1>0, <1>3 DEF BatchAdd, Matched, Asking, Fresh, Kept
  <2>2. /\ Head(ids) \in Ids /\ hub[Head(ids)] \notin running
        /\ \A k \in DOMAIN Tail(ids) : Tail(ids)[k] \in Ids /\ hub[Tail(ids)[k]] \notin running
    <3>1. Head(ids) = ids[1] /\ 1 \in DOMAIN ids
      BY <2>1
    <3>2. \A k \in DOMAIN Tail(ids) : k + 1 \in DOMAIN ids /\ Tail(ids)[k] = ids[k + 1]
      BY <2>1
    <3>3. \A k \in DOMAIN ids : ids[k] \in Ids
      BY <2>1
    <3> QED BY <2>1, <3>1, <3>2, <3>3
  <2>3. AddStation(Head(ids), req[c].host)
    BY <1>3 DEF BatchAdd
  <2>4. /\ running \subseteq Stations'
        /\ StationCount' <= StationCount + 1 /\ StationCount' \in Nat
        /\ \A j \in Ids : hub[j] \notin running => hub'[j] \notin running
    BY <1>0, <2>1, <2>2, <2>3, AddAlone
  <2>5. StationCount' <= MaxStations /\ StationCount' <= req[c].seen + 1
    BY <1>0, <2>1, <2>4
  <2>6. r.ids = Tail(ids) /\ r.seen = req[c].seen + 1
    BY <1>0 DEF Kept
  <2>7. Continue(c, "batch", r) /\ running' = running /\ starting' = starting
    BY <1>3 DEF BatchAdd
  <2> HIDE DEF r
  <2>8. pc'[c] = "batch" /\ req'[c] = r /\ "batch" \in RequestPC
    BY <2>7 DEF Continue, Matched, TypeOK, RequestPC
  <2>9. Fresh(c)'
    BY <2>2, <2>4, <2>5, <2>6, <2>7, <2>8 DEF Fresh
  <2> QED BY <1>0, <2>4, <2>5, <2>7, <2>8, <2>9, StepAlone
<1>4. CASE BatchEnd(c)
  <2>1. pc'[c] = "off" /\ "off" \in RequestPC
    BY <1>4 DEF BatchEnd, Continue, Matched, TypeOK, RequestPC
  <2>2. Fresh(c)'
    BY <2>1 DEF Fresh
  <2> QED BY <1>0, <1>4, <1>s, <2>1, <2>2, StepAlone DEF BatchEnd
<1>5. CASE Stop(c)
  <2>1. PICK o \in req[c].objs :
          /\ running' = running \ {o}
          /\ Continue(c, IF req[c].objs \ {o} = {} THEN "off" ELSE "stop",
                      [req[c] EXCEPT !.objs = req[c].objs \ {o}])
    BY <1>5 DEF Stop
  <2>2. PICK label \in {"off", "stop"} :
          Continue(c, label, [req[c] EXCEPT !.objs = req[c].objs \ {o}])
    BY <2>1
  <2>3. pc'[c] = label /\ label \in RequestPC
    BY <2>2 DEF Continue, Matched, TypeOK, RequestPC
  <2>4. Fresh(c)'
    BY <2>3 DEF Fresh
  <2> QED BY <1>0, <1>5, <1>s, <2>1, <2>2, <2>3, <2>4, StepAlone DEF Stop
<1>6. CASE ConfigWrite(c)
  <2>1. pc'[c] = "off" /\ "off" \in RequestPC
    BY <1>6 DEF ConfigWrite, Continue, Matched, TypeOK, RequestPC
  <2>2. Fresh(c)'
    BY <2>1 DEF Fresh
  <2> QED BY <1>0, <1>6, <1>s, <2>1, <2>2, StepAlone DEF ConfigWrite
<1>7. CASE ReconnectAll(c)
  <2>1. pc'[c] = "off" /\ "off" \in RequestPC
    BY <1>7 DEF ReconnectAll, Continue, Matched, TypeOK, RequestPC
  <2>2. Fresh(c)'
    BY <2>1 DEF Fresh
  <2> QED BY <1>0, <1>7, <1>s, <2>1, <2>2, StepAlone DEF ReconnectAll
<1>8. CASE RemoveStation(c)
  <2>1. pc'[c] = "off" /\ "off" \in RequestPC
    BY <1>8 DEF RemoveStation, Continue, Matched, TypeOK, RequestPC
  <2>2. Fresh(c)'
    BY <2>1 DEF Fresh
  <2> DEFINE i == req[c].id
  <2>3. i \in Ids
    BY <1>8 DEF RemoveStation, Matched, Asking
  <2>4. CASE hub[i] = None
    BY <1>0, <1>8, <1>s, <2>1, <2>2, <2>4, StepAlone DEF RemoveStation
  <2>5. CASE hub[i] # None
    <3>1. running' = running \ {hub[i]} /\ \A j \in Ids : hub'[j] = IF j = i THEN None ELSE hub[j]
      BY <1>8, <2>3, <2>5 DEF RemoveStation, Matched, TypeOK
    <3>2. running' \subseteq Stations'
      <4> SUFFICES ASSUME NEW x \in running' PROVE x \in Stations'
        OBVIOUS
      <4>1. PICK j \in Known : x = hub[j]
        BY <1>0, <3>1 DEF Stations
      <4>2. j \in Ids /\ j # i /\ hub'[j] = x /\ x # None
        BY <3>1, <4>1 DEF Known
      <4> QED BY <4>2 DEF Stations, Known
    <3>3. Known' \subseteq Known \cup {i}
      BY <3>1 DEF Known
    <3>4. StationCount' <= StationCount
      <4>1. Known' \subseteq Known
        BY <3>1 DEF Known
      <4> QED BY <4>1, CountTyped, FS_Subset DEF StationCount
    <3>5. StationCount' <= MaxStations
      <4>1. StationCount' \in Nat
        BY <3>3, CountTyped, CountGrows DEF StationCount
      <4> QED BY <1>0, <3>4, <4>1
    <3>6. Continue(c, "off", NoRequest) /\ starting' = {}
      BY <1>0, <1>8 DEF RemoveStation
    <3> QED BY <1>0, <2>1, <2>2, <3>2, <3>5, <3>6, StepAlone
  <2> QED BY <2>4, <2>5
<1> QED BY <1>1, <1>2, <1>3, <1>4, <1>5, <1>6, <1>7, <1>8

LEMMA AloneInitially == Init => Alone
<1> SUFFICES ASSUME Init PROVE Alone
  OBVIOUS
<1>1. Busy = {} /\ running = {} /\ starting = {}
  BY DEF Init, Busy
<1>2. Known = {}
  BY DEF Init, Known
<1>3. StationCount <= MaxStations
  BY <1>2, FS_EmptySet, Numbers DEF StationCount
<1>4. \A c \in Clients : Fresh(c)
  BY DEF Init, Fresh
<1> QED BY <1>1, <1>3, <1>4 DEF Alone

LEMMA AloneNext == ASSUME DbReliable PROVE Matched /\ Alone /\ [Next]_vars => Alone'
<1> SUFFICES ASSUME Matched, Alone, careful, [Next]_vars PROVE Alone'
  <2>1. ASSUME Matched, ~careful, [Next]_vars PROVE ~careful'
    BY <2>1 DEF Next, vars, CreateCount, DeleteStop, StationAction, StartLookup, StopLookup,
          RestartStation, ConfigSet, BatchCount, PlatformSet, CreateCheck, CreateAdd, BatchAdd,
          BatchEnd, StartAllLookup, StopAllLookup, Stop, ConfigWrite, ReconnectAll,
          RemoveStation, Start, Restart
  <2>2. ~careful' => Alone'
    BY DEF Alone
  <2> QED BY <2>1, <2>2
<1>1. ASSUME NEW o \in Objects, Start(o) PROVE Alone'
  <2>1. hub' = hub /\ pc' = pc /\ req' = req /\ careful' = careful
    BY <1>1 DEF Start, tables, requests
  <2>2. Stations' = Stations /\ StationCount' = StationCount /\ Busy' = Busy
    BY <2>1 DEF Stations, StationCount, Known, Busy
  <2>3. Busy = {}
    BY <1>1 DEF Start, Alone
  <2>4. \A c \in Clients : Fresh(c)'
    BY <2>1, <2>3 DEF Busy, Fresh
  <2>5. running' \cup starting' \subseteq Stations
    BY <1>1 DEF Start, Alone
  <2> QED BY <2>2, <2>3, <2>4, <2>5 DEF Alone
<1>2. CASE Restart
  <2>1. Known' = Known
    BY <1>2, RestoredMatched DEF Restart, Known, Matched
  <2>2. running' = {} /\ starting' = {} /\ Busy' = {} /\ \A c \in Clients : Fresh(c)'
    BY <1>2 DEF Restart, Busy, Fresh
  <2>3. StationCount' = StationCount
    BY <2>1 DEF StationCount
  <2> QED BY <2>2, <2>3 DEF Alone
<1>3. CASE UNCHANGED vars
  BY <1>3 DEF vars, tables, lives, addresses, requests, Alone, Busy, Stations, StationCount,
              Known, Fresh
<1>4. CASE Next
  BY <1>1, <1>2, <1>4, ArrivalAlone, StepsAlone DEF Next
<1> QED BY <1>3, <1>4

\* Careful users never lose a station that runs: it is in the hub, where it can be stopped
THEOREM OwnedCorrect == ASSUME DbReliable PROVE Spec => []Owned
<1>1. Alone => Owned
  BY DEF Alone, Owned
<1> QED BY <1>1, MatchedInitially, MatchedNext, AloneInitially, AloneNext, PTL DEF Spec

\* ... and stay within the limit, whatever it is
THEOREM WithinLimitCorrect == ASSUME DbReliable PROVE Spec => []WithinLimit
<1>1. Alone => WithinLimit
  BY DEF Alone, WithinLimit
<1> QED BY <1>1, MatchedInitially, MatchedNext, AloneInitially, AloneNext, PTL DEF Spec

-----------------------------------------------------------------------------
(* The settings of careful users                                           *)

\* The station of i has the platform address of its row, or the configured one
Told(i) == obj[hub[i]].host \in {row[i].data.host, platform}

\* Every station is, except the one whose row is about to be written, and unless all are
\* about to go over to a new platform
Settled ==
    careful =>
        /\ \A c \in Clients : pc[c] = "write" =>
              hub[req[c].id] # None /\ req[c].objs = {hub[req[c].id]}
        /\ (\A c \in Clients : pc[c] # "reconnect") =>
              \A i \in Known : (\A c \in Clients : pc[c] = "write" => req[c].id # i) => Told(i)

\* After a step of the only request under way it is at label, knowing r, and the others
\* are off
LEMMA Lone ==
    ASSUME Matched, NEW c \in Clients, \A d \in Busy : d = c,
           NEW label, NEW r,
           Continue(c, label, r) \/ \E what : Request(c, what, label, r)
    PROVE  /\ \A d \in Clients : d # c => pc[d] = "off" /\ pc'[d] = "off"
           /\ pc'[c] = label /\ (label # "off" => req'[c] = r)
<1>1. /\ pc' = [pc EXCEPT ![c] = label]
      /\ req' = [req EXCEPT ![c] = IF label = "off" THEN NoRequest ELSE r]
  BY DEF Continue, Request
<1>2. \A d \in Clients : d # c => pc[d] = "off"
  BY DEF Busy
<1> QED BY <1>1, <1>2 DEF Matched, TypeOK

\* A step of the only request under way that is not the saving of a platform's address, and
\* does not end in it: the stations are as told before
LEMMA LoneSettled ==
    ASSUME Matched, NEW c \in Clients, \A d \in Clients : d # c => pc'[d] = "off",
           pc'[c] \notin {"write", "reconnect"},
           \A i \in Known' : Told(i)'
    PROVE  Settled'
BY DEF Settled

\* Nothing that matters changes
LEMMA SameSettled ==
    ASSUME Matched, Settled, careful, NEW c \in Clients, \A d \in Busy : d = c,
           NEW label, NEW r,
           Continue(c, label, r) \/ \E what : Request(c, what, label, r),
           pc[c] \notin {"write", "reconnect"}, label \notin {"write", "reconnect"},
           UNCHANGED <<hub, row, obj, platform>>
    PROVE  Settled'
<1>1. /\ \A d \in Clients : d # c => pc[d] = "off" /\ pc'[d] = "off"
      /\ pc'[c] = label
  BY Lone
<1>2. \A d \in Clients : pc[d] \notin {"write", "reconnect"}
  BY <1>1
<1>3. \A i \in Known : Told(i)
  BY <1>2 DEF Settled
<1>4. \A i \in Known' : Told(i)'
  BY <1>3 DEF Known, Told
<1> QED BY <1>1, <1>4, LoneSettled

\* A station that is added is in its row, and nothing changes for the others
LEMMA AddTold ==
    ASSUME DbReliable, Matched, NEW i \in Ids, NEW h \in Hosts, AddStation(i, h),
           platform' = platform, \A j \in Known : Told(j)
    PROVE  \A j \in Known' : Told(j)'
<1> DEFINE data == [ip |-> lastIP', mac |-> lastMAC', host |-> h, uuid |-> Own]
           o == CHOOSE x \in Objects : Unused(x)
<1>1. o \in Objects /\ \A j \in Ids : hub[j] # o
  BY DEF AddStation, Unused
<1>2. /\ obj' = [obj EXCEPT ![o] = data]
      /\ hub' = [hub EXCEPT ![i] = o]
      /\ row' = [row EXCEPT ![i] = [present |-> TRUE, data |-> data]]
  BY DEF AddStation, InsertStation, Executed
<1> HIDE DEF data, o
<1> SUFFICES ASSUME NEW j \in Known'
             PROVE  Told(j)'
  OBVIOUS
<1>3. j \in Ids
  BY DEF Known
<1>4. CASE j = i
  BY <1>1, <1>2, <1>4 DEF Told, Matched, TypeOK
<1>5. CASE j # i
  <2>1. hub'[j] = hub[j] /\ row'[j] = row[j] /\ j \in Known
    BY <1>2, <1>3, <1>5 DEF Matched, TypeOK, Known
  <2>2. obj'[hub[j]] = obj[hub[j]]
    BY <1>1, <1>2, <2>1 DEF Matched, TypeOK, Known
  <2>3. Told(j)
    BY <2>1
  <2> QED BY <2>1, <2>2, <2>3 DEF Told
<1> QED BY <1>4, <1>5

\* Requests that come in
LEMMA ArrivalSettled ==
    ASSUME Matched, Alone, Settled, careful, NEW c \in Clients,
           \/ \E i \in Asked : CreateCount(c, i) \/ DeleteStop(c, i) \/ StationAction(c, i)
           \/ \E i \in Asked, h \in Offered : ConfigSet(c, i, h)
           \/ \E ids \in BatchIds, h \in Offered : BatchCount(c, ids, h)
           \/ \E h \in Offered : PlatformSet(c, h)
           \/ StartAllLookup(c) \/ StopAllLookup(c)
    PROVE  Settled'
<1> USE DEF tables
<1>1. Busy = {} /\ pc[c] = "off"
  BY DEF CreateCount, DeleteStop, StationAction, StartLookup, StopLookup, RestartStation,
         ConfigSet, BatchCount, PlatformSet, StartAllLookup, StopAllLookup, Request, Undisturbed
<1>2. \A i \in Known : Told(i)
  <2>1. \A d \in Clients : pc[d] = "off"
    BY <1>1 DEF Busy
  <2> QED BY <2>1 DEF Settled
<1>3. ASSUME NEW i \in Asked, NEW h \in Offered, ConfigSet(c, i, h)
      PROVE  Settled'
  <2>0. PICK r : r = [NoRequest EXCEPT !.id = i, !.objs = {hub[i]}]
    OBVIOUS
  <2>1. /\ hub[i] # None /\ Request(c, "config", "write", r) /\ i \in Ids
        /\ obj' = [obj EXCEPT ![hub[i]].host = h] /\ UNCHANGED <<hub, row, platform>>
    BY <1>3, <2>0, AskedTyped DEF ConfigSet, Matched
  <2>2. r.id = i /\ r.objs = {hub[i]}
    BY <2>0 DEF NoRequest
  <2>3. /\ \A d \in Clients : d # c => pc'[d] = "off"
        /\ pc'[c] = "write" /\ req'[c] = r
    <3>1. /\ \A d \in Clients : d # c => pc'[d] = "off"
          /\ pc'[c] = "write" /\ ("write" # "off" => req'[c] = r)
      BY <1>1, <2>1, Lone
    <3> QED BY <3>1
  <2>4. ASSUME NEW j \in Known', j # i
        PROVE  Told(j)'
    <3>1. j \in Known /\ hub[j] # hub[i]
      BY <2>1, <2>4 DEF Known, Matched
    <3>2. obj'[hub[j]] = obj[hub[j]]
      BY <2>1, <3>1 DEF Matched, TypeOK, Known
    <3> QED BY <1>2, <2>1, <3>1, <3>2 DEF Told
  <2> QED BY <2>1, <2>2, <2>3, <2>4 DEF Settled
<1>4. ASSUME NEW h \in Offered, PlatformSet(c, h)
      PROVE  Settled'
  <2>1. Request(c, "platform", "reconnect", NoRequest)
    BY <1>4 DEF PlatformSet
  <2>2. (\A d \in Clients : d # c => pc'[d] = "off") /\ pc'[c] = "reconnect"
    BY <1>1, <2>1, Lone
  <2> QED BY <2>2 DEF Settled
<1>5. ASSUME \/ \E i \in Asked : CreateCount(c, i) \/ DeleteStop(c, i) \/ StationAction(c, i)
             \/ \E ids \in BatchIds, h \in Offered : BatchCount(c, ids, h)
             \/ StartAllLookup(c) \/ StopAllLookup(c)
      PROVE  Settled'
  <2>1. \E what, r : \E label \in {"check", "remove", "off", "stop", "batch"} :
           Request(c, what, label, r)
    BY <1>5 DEF CreateCount, DeleteStop, StationAction, StartLookup, StopLookup,
       RestartStation, BatchCount, StartAllLookup, StopAllLookup
  <2>2. UNCHANGED <<hub, row, obj, platform>>
    BY <1>5 DEF CreateCount, DeleteStop, StationAction, StartLookup, StopLookup,
       RestartStation, BatchCount, StartAllLookup, StopAllLookup
  <2> QED BY <1>1, <2>1, <2>2, SameSettled
<1> QED BY <1>3, <1>4, <1>5

\* Requests that go on
LEMMA StepsSettled ==
    ASSUME DbReliable, Matched, Alone, Settled, careful, NEW c \in Clients,
           \/ CreateCheck(c) \/ CreateAdd(c) \/ BatchAdd(c) \/ BatchEnd(c)
           \/ Stop(c) \/ ConfigWrite(c) \/ ReconnectAll(c) \/ RemoveStation(c)
    PROVE  Settled'
<1> USE DEF tables
<1>1. pc[c] # "off" /\ \A d \in Busy : d = c
  <2>1. pc[c] # "off"
    BY DEF CreateCheck, CreateAdd, BatchAdd, BatchEnd, Stop, ConfigWrite, ReconnectAll,
           RemoveStation
  <2> QED BY <2>1 DEF Alone, Busy
<1>2. ASSUME pc[c] \notin {"write", "reconnect"}
      PROVE  \A i \in Known : Told(i)
  <2>1. \A d \in Clients : pc[d] \notin {"write", "reconnect"}
    BY <1>1, <1>2 DEF Busy
  <2> QED BY <2>1 DEF Settled
<1>3. CASE CreateCheck(c) \/ BatchEnd(c) \/ Stop(c)
  <2>1. pc[c] \notin {"write", "reconnect"} /\ UNCHANGED <<hub, row, obj, platform>>
    BY <1>3 DEF CreateCheck, BatchEnd, Stop
  <2>2. \E r : \E label \in {"add", "off", "stop"} : Continue(c, label, r)
    BY <1>3 DEF CreateCheck, BatchEnd, Stop
  <2> QED BY <1>1, <2>1, <2>2, SameSettled
<1>4. CASE CreateAdd(c) \/ BatchAdd(c)
  <2>1. PICK i \in Ids, h \in Hosts : AddStation(i, h)
    <3>1. CASE CreateAdd(c)
      BY <3>1, AskedTyped DEF CreateAdd, Matched, Asking
    <3>2. CASE BatchAdd(c)
      <4>1. req[c].ids \in Seq(Ids) /\ req[c].ids # <<>> /\ req[c].host \in Hosts
        BY <3>2 DEF BatchAdd, Matched, TypeOK, Asking
      <4>2. Head(req[c].ids) \in Ids
        BY <4>1
      <4> QED BY <3>2, <4>1, <4>2 DEF BatchAdd
    <3> QED BY <1>4, <3>1, <3>2
  <2>2. pc[c] \notin {"write", "reconnect"} /\ platform' = platform
    BY <1>4 DEF CreateAdd, BatchAdd
  <2>3. \E r : \E label \in {"batch", "off"} : Continue(c, label, r)
    BY <1>4 DEF CreateAdd, BatchAdd
  <2>4. (\A d \in Clients : d # c => pc'[d] = "off") /\ pc'[c] \in {"batch", "off"}
    BY <1>1, <2>3, Lone
  <2>5. \A j \in Known : Told(j)
    BY <1>2, <2>2
  <2>6. \A j \in Known' : Told(j)'
    BY <2>1, <2>2, <2>5, AddTold
  <2> QED BY <2>4, <2>6, LoneSettled
<1>5. CASE ConfigWrite(c)
  <2> PICK i : i = req[c].id
    OBVIOUS
  <2>1. /\ pc[c] = "write" /\ hub[i] # None /\ req[c].objs = {hub[i]} /\ i \in Ids
        /\ Continue(c, "off", NoRequest) /\ UNCHANGED <<hub, obj, platform>>
    BY <1>5 DEF ConfigWrite, Settled, Matched, Asking
  <2>2. (\A d \in Clients : d # c => pc[d] = "off" /\ pc'[d] = "off") /\ pc'[c] = "off"
    BY <1>1, <2>1, Lone
  <2>3. UpdateStation(i, [obj[hub[i]] EXCEPT !.uuid = Blank])
    BY <1>5, <2>1 DEF ConfigWrite
  <2>4. /\ row'[i].data = [obj[hub[i]] EXCEPT !.uuid = Blank]
        /\ \A j \in Ids : j # i => row'[j] = row[j]
    <3>1. row[i].present /\ row \in [Ids -> Row]
      BY <2>1 DEF Matched, TypeOK
    <3>2. row' = [row EXCEPT ![i] = [present |-> TRUE,
                                     data |-> [obj[hub[i]] EXCEPT !.uuid = Blank]]]
      BY <2>1, <2>3, <3>1 DEF UpdateStation, Executed
    <3> QED BY <2>1, <3>1, <3>2
  <2>5. Told(i)'
    <3>1. obj[hub[i]] \in Fields
      BY <2>1 DEF Matched, TypeOK
    <3>2. [obj[hub[i]] EXCEPT !.uuid = Blank].host = obj[hub[i]].host
      BY <3>1 DEF Fields
    <3>3. obj'[hub'[i]].host = row'[i].data.host
      BY <2>1, <2>4, <3>2
    <3> QED BY <3>3 DEF Told
  <2>6. ASSUME NEW j \in Known', j # i
        PROVE  Told(j)'
    <3>1. j \in Known /\ j \in Ids
      BY <2>1 DEF Known
    <3>2. \A d \in Clients : pc[d] # "reconnect" /\ (pc[d] = "write" => req[d].id # j)
      BY <2>1, <2>2, <2>6
    <3>3. Told(j)
      BY <3>1, <3>2 DEF Settled
    <3> QED BY <2>1, <2>4, <2>6, <3>1, <3>3 DEF Told
  <2> QED BY <2>2, <2>5, <2>6, LoneSettled
<1>6. CASE ReconnectAll(c)
  <2>1. Continue(c, "off", NoRequest) /\ UNCHANGED <<hub, platform>>
    BY <1>6 DEF ReconnectAll
  <2>2. (\A d \in Clients : d # c => pc'[d] = "off") /\ pc'[c] = "off"
    BY <1>1, <2>1, Lone
  <2>3. ASSUME NEW j \in Known'
        PROVE  Told(j)'
    <3>1. PICK o : o = hub[j]
      OBVIOUS
    <3>2. o \in Stations /\ o \in Objects /\ hub'[j] = o
      BY <2>1, <3>1 DEF Known, Stations, Matched, TypeOK
    <3>3. obj'[o] = [obj[o] EXCEPT !.host = platform]
      BY <1>6, <3>2 DEF ReconnectAll
    <3>4. obj'[o].host = platform
      BY <3>2, <3>3 DEF Matched, TypeOK, Fields
    <3> QED BY <2>1, <3>2, <3>4 DEF Told
  <2> QED BY <2>2, <2>3, LoneSettled
<1>7. CASE RemoveStation(c)
  <2> DEFINE i == req[c].id
  <2>1. /\ Continue(c, "off", NoRequest) /\ UNCHANGED <<obj, platform>> /\ i \in Ids
        /\ pc[c] \notin {"write", "reconnect"}
    BY <1>7 DEF RemoveStation, Matched, Asking
  <2>2. (\A d \in Clients : d # c => pc'[d] = "off") /\ pc'[c] = "off"
    BY <1>1, <2>1, Lone
  <2>3. \A j \in Known' : j \in Known /\ hub'[j] = hub[j] /\ row'[j] = row[j]
    <3>1. CASE hub[i] = None
      BY <1>7, <3>1 DEF RemoveStation, Known
    <3>2. CASE hub[i] # None
      <4>1. hub' = [hub EXCEPT ![i] = None] /\ row' = [row EXCEPT ![i] = NoRow]
        BY <1>7, <3>2 DEF RemoveStation, DeleteRow, Executed
      <4> QED BY <2>1, <4>1 DEF Known, Matched, TypeOK
    <3> QED BY <3>1, <3>2
  <2>4. \A j \in Known' : Told(j)'
    BY <1>2, <2>1, <2>3 DEF Told
  <2> QED BY <2>2, <2>4, LoneSettled
<1> QED BY <1>3, <1>4, <1>5, <1>6, <1>7

\* A new process makes its stations from the rows
LEMMA RestartSettled ==
    ASSUME Matched, Restart
    PROVE  Settled'
<1>1. \A i \in Known' : Told(i)'
  <2> SUFFICES ASSUME NEW i \in Known'
               PROVE  Told(i)'
    OBVIOUS
  <2>1. PICK f : f = RestoredHub
    OBVIOUS
  <2>2. /\ f \in [Ids -> Objects \cup {None}]
        /\ \A j, k \in Ids : f[j] = f[k] /\ f[j] # None => j = k
    BY <2>1, RestoredMatched
  <2>3. /\ hub' = f /\ row' = row
        /\ obj' = [o \in Objects |->
                      IF \E j \in Ids : f[j] = o
                      THEN row[CHOOSE j \in Ids : f[j] = o].data ELSE NoFields]
    BY <2>1 DEF Restart
  <2>4. i \in Ids /\ f[i] # None /\ f[i] \in Objects
    BY <2>2, <2>3 DEF Known
  <2>5. (CHOOSE j \in Ids : f[j] = f[i]) = i
    BY <2>2, <2>4
  <2>6. obj'[f[i]] = row[i].data
    BY <2>3, <2>4, <2>5
  <2> QED BY <2>3, <2>6 DEF Told
<1>2. \A c \in Clients : pc'[c] = "off"
  BY DEF Restart
<1> QED BY <1>1, <1>2 DEF Settled

LEMMA SettledNext ==
    ASSUME DbReliable PROVE Matched /\ Alone /\ Settled /\ [Next]_vars => Settled'
<1> SUFFICES ASSUME Matched, Alone, Settled, careful, [Next]_vars PROVE Settled'
  <2>1. ASSUME Matched, ~careful, [Next]_vars PROVE ~careful'
    BY <2>1 DEF Next, vars, CreateCount, DeleteStop, StationAction, StartLookup, StopLookup,
          RestartStation, ConfigSet, BatchCount, PlatformSet, CreateCheck, CreateAdd, BatchAdd,
          BatchEnd, StartAllLookup, StopAllLookup, Stop, ConfigWrite, ReconnectAll,
          RemoveStation, Start, Restart
  <2>2. ~careful' => Settled'
    BY DEF Settled
  <2> QED BY <2>1, <2>2
<1>1. ASSUME UNCHANGED <<hub, row, obj, platform, pc, req, careful>>
      PROVE  Settled'
  BY <1>1 DEF Settled, Told, Known
<1>2. ASSUME NEW o \in Objects, Start(o) PROVE Settled'
  BY <1>1, <1>2 DEF Start, tables, requests
<1>3. CASE UNCHANGED vars
  BY <1>1, <1>3 DEF vars, tables, requests
<1>4. CASE Next
  BY <1>2, <1>4, ArrivalSettled, StepsSettled, RestartSettled DEF Next
<1> QED BY <1>3, <1>4

\* When a careful user's request is done, the rows have the platform address of every station,
\* so a restart gives it back, unless it is the configured one: updateConfig writes the row of
\* the object it changed, and only ReconnectAllStations writes none
THEOREM SettingsPersistedCorrect == ASSUME DbReliable PROVE Spec => []SettingsPersisted
<1>1. Init => Settled
  BY DEF Init, Settled, Known
<1>2. Settled => SettingsPersisted
  <2> SUFFICES ASSUME Settled, careful, Busy = {}
               PROVE  \A i \in Known : Told(i)
    BY DEF SettingsPersisted, Told
  <2>1. \A c \in Clients : pc[c] = "off"
    BY DEF Busy
  <2> QED BY <2>1 DEF Settled
<1> QED BY <1>1, <1>2, MatchedInitially, MatchedNext, AloneInitially, AloneNext, SettledNext,
           PTL DEF Spec

-----------------------------------------------------------------------------
(* The addresses                                                           *)

\* How many there are, and the position of each: the generators go round
IPCount == MaxOctet * MaxOctet
IPPos(a) == (a[1] - 1) * MaxOctet + (a[2] - 1)
MACCount == (MaxByte + 1) * (MaxByte + 1) * (MaxByte + 1)
MACPos(a) == (a[1] * (MaxByte + 1) + a[2]) * (MaxByte + 1) + a[3]

\* Handed out at position p of a round of N, n positions from the first, at most one round
Reached(n, p, first, N) == n <= N => first + n = p \/ first + n = p + N

IPReached(n, a) == Reached(n, IPPos(a), IPPos(FirstIP), IPCount)
MACReached(n, a) == Reached(n, MACPos(a), MACPos(FirstMAC), MACCount)

\* One position further, or back at the start of the round
LEMMA ReachedNext ==
    ASSUME NEW N \in Nat, NEW first \in 0..N - 1, NEW n \in Nat, NEW p \in Int, NEW q \in Int,
           q = p + 1 \/ (p = N - 1 /\ q = 0), Reached(n, p, first, N)
    PROVE  Reached(n + 1, q, first, N)
BY DEF Reached

\* Within a round every position is reached once
LEMMA ReachedOnce ==
    ASSUME NEW N \in Nat, NEW first \in Int, NEW p \in Int, NEW n \in 1..N, NEW m \in 1..N,
           Reached(n, p, first, N), Reached(m, p, first, N)
    PROVE  n = m
BY DEF Reached

\* The arithmetic of a carry
LEMMA Carry ==
    ASSUME NEW x \in Int, NEW b \in Int
    PROVE  (x + 1) * b = x * b + b /\ x * b \in Int
OBVIOUS

LEMMA FirstIPPos == IPCount \in Nat /\ IPPos(FirstIP) \in 0..IPCount - 1
<1>1. PICK M \in Nat \ {0} : M = MaxOctet
  BY Numbers
<1>2. PICK r \in 0..M - 1 : r = 100 % M
  BY <1>1
<1>3. FirstIP = <<1, r + 1>>
  BY <1>1, <1>2 DEF FirstIP
<1>4. IPPos(FirstIP) = (1 - 1) * M + ((r + 1) - 1)
  BY <1>1, <1>3 DEF IPPos
<1>5. (1 - 1) * M = 0
  BY <1>1
<1>6. IPPos(FirstIP) = r
  BY <1>2, <1>4, <1>5
<1>7. M * M \in Nat /\ M <= M * M
  <2>1. (M - 1) * M \in Nat
    BY <1>1
  <2>2. M * M = (M - 1) * M + M
    BY <1>1, Carry
  <2> QED BY <1>1, <2>1, <2>2
<1> QED BY <1>1, <1>2, <1>6, <1>7 DEF IPCount

LEMMA FirstMACPos == MACCount \in Nat /\ MACPos(FirstMAC) \in 0..MACCount - 1
<1>1. PICK B \in Nat \ {0} : B = MaxByte + 1
  BY Numbers
<1>2. MACPos(FirstMAC) = (0 * B + 0) * B + 0
  BY <1>1 DEF MACPos, FirstMAC
<1>3. MACPos(FirstMAC) = 0
  BY <1>1, <1>2
<1>4. B * B \in Nat /\ B * B >= 1
  BY <1>1
<1>5. PICK C \in Nat : C = B * B /\ C >= 1
  BY <1>4
<1>6. C * B \in Nat /\ C * B >= 1
  BY <1>1, <1>5
<1>7. MACCount = C * B
  BY <1>1, <1>5 DEF MACCount
<1> QED BY <1>3, <1>6, <1>7

\* The sequential IP address: the last octet carries into the one before it
LEMMA IPNext ==
    ASSUME NEW a \in IPs, NEW n \in Nat, IPReached(n, a)
    PROVE  IPReached(n + 1, NextIP(a))
<1>1. PICK M \in Nat \ {0} : M = MaxOctet
  BY Numbers
<1>2. PICK x \in 1..M, y \in 1..M : a = <<x, y>>
  BY <1>1 DEF IPs
<1>3. IPPos(a) = (x - 1) * M + (y - 1) /\ (x - 1) * M \in Int
  BY <1>1, <1>2 DEF IPPos
<1>4. x * M = (x - 1) * M + M
  BY <1>1, <1>2, Carry
<1>5. ASSUME NEW u \in Int, NEW v \in Int, NextIP(a) = <<u, v>>
      PROVE  IPPos(NextIP(a)) = (u - 1) * M + (v - 1)
  BY <1>1, <1>5 DEF IPPos
<1>6. /\ IPPos(NextIP(a)) \in Int
      /\ \/ IPPos(NextIP(a)) = IPPos(a) + 1
         \/ IPPos(a) = IPCount - 1 /\ IPPos(NextIP(a)) = 0
  <2>1. CASE y < M
    <3>1. NextIP(a) = <<x, y + 1>>
      BY <1>1, <1>2, <2>1 DEF NextIP
    <3>2. IPPos(NextIP(a)) = (x - 1) * M + (y + 1 - 1)
      BY <1>2, <1>5, <3>1
    <3> QED BY <1>2, <1>3, <3>2
  <2>2. CASE y = M /\ x < M
    <3>1. NextIP(a) = <<x + 1, 1>>
      BY <1>1, <1>2, <2>2 DEF NextIP
    <3>2. IPPos(NextIP(a)) = (x + 1 - 1) * M + (1 - 1)
      BY <1>2, <1>5, <3>1
    <3>3. IPPos(NextIP(a)) = x * M
      BY <1>1, <1>2, <3>2
    <3> QED BY <1>1, <1>3, <1>4, <2>2, <3>3
  <2>3. CASE y = M /\ x = M
    <3>1. NextIP(a) = <<1, 1>>
      BY <1>1, <1>2, <2>3 DEF NextIP
    <3>2. IPPos(NextIP(a)) = (1 - 1) * M + (1 - 1)
      BY <1>5, <3>1
    <3>3. IPPos(NextIP(a)) = 0
      BY <1>1, <3>2
    <3>4. IPCount = x * M
      BY <1>1, <2>3 DEF IPCount
    <3> QED BY <1>1, <1>3, <1>4, <2>3, <3>3, <3>4
  <2> QED BY <1>1, <1>2, <2>1, <2>2, <2>3
<1>7. IPPos(a) \in Int
  BY <1>1, <1>2, <1>3
<1> QED BY <1>6, <1>7, FirstIPPos, ReachedNext DEF IPReached

\* The sequential MAC address: two carries
LEMMA MACNext ==
    ASSUME NEW a \in MACs, NEW n \in Nat, MACReached(n, a)
    PROVE  MACReached(n + 1, NextMAC(a))
<1>1. PICK B \in Nat \ {0} : B = MaxByte + 1 /\ MaxByte = B - 1
  BY Numbers
<1>2. PICK x \in 0..B - 1, y \in 0..B - 1, z \in 0..B - 1 : a = <<x, y, z>>
  BY <1>1 DEF MACs
<1>3. PICK w \in Int : w = x * B + y
  BY <1>1, <1>2
<1>4. MACPos(a) = w * B + z /\ w * B \in Int
  BY <1>1, <1>2, <1>3 DEF MACPos
<1>5. (w + 1) * B = w * B + B
  BY <1>1, <1>3, Carry
<1>6. (x + 1) * B = x * B + B
  BY <1>1, <1>2, Carry
<1>7. ASSUME NEW t \in Int, NEW u \in Int, NEW v \in Int, NextMAC(a) = <<t, u, v>>
      PROVE  MACPos(NextMAC(a)) = (t * B + u) * B + v
  BY <1>1, <1>7 DEF MACPos
<1>8. /\ MACPos(NextMAC(a)) \in Int
      /\ \/ MACPos(NextMAC(a)) = MACPos(a) + 1
         \/ MACPos(a) = MACCount - 1 /\ MACPos(NextMAC(a)) = 0
  <2>1. CASE z < B - 1
    <3>1. NextMAC(a) = <<x, y, z + 1>>
      BY <1>1, <1>2, <2>1 DEF NextMAC
    <3>2. MACPos(NextMAC(a)) = w * B + (z + 1)
      BY <1>2, <1>3, <1>7, <3>1
    <3> QED BY <1>2, <1>4, <3>2
  <2>2. CASE z = B - 1 /\ y < B - 1
    <3>1. NextMAC(a) = <<x, y + 1, 0>>
      BY <1>1, <1>2, <2>2 DEF NextMAC
    <3>2. x * B + (y + 1) = w + 1
      BY <1>1, <1>2, <1>3
    <3>3. MACPos(NextMAC(a)) = (x * B + (y + 1)) * B + 0
      BY <1>2, <1>7, <3>1
    <3>4. MACPos(NextMAC(a)) = (w + 1) * B + 0
      BY <3>2, <3>3
    <3> QED BY <1>1, <1>4, <1>5, <2>2, <3>4
  <2>3. CASE z = B - 1 /\ y = B - 1 /\ x < B - 1
    <3>1. NextMAC(a) = <<x + 1, 0, 0>>
      BY <1>1, <1>2, <2>3 DEF NextMAC
    <3>2. (x + 1) * B + 0 = w + 1
      BY <1>1, <1>2, <1>3, <1>6, <2>3
    <3>3. MACPos(NextMAC(a)) = ((x + 1) * B + 0) * B + 0
      BY <1>2, <1>7, <3>1
    <3>4. MACPos(NextMAC(a)) = (w + 1) * B + 0
      BY <3>2, <3>3
    <3> QED BY <1>1, <1>4, <1>5, <2>3, <3>4
  <2>4. CASE z = B - 1 /\ y = B - 1 /\ x = B - 1
    <3>1. NextMAC(a) = <<0, 0, 0>>
      BY <1>1, <1>2, <2>4 DEF NextMAC
    <3>2. MACPos(NextMAC(a)) = (0 * B + 0) * B + 0
      BY <1>7, <3>1
    <3>3. MACPos(NextMAC(a)) = 0
      BY <1>1, <3>2
    <3>4. B * B = w + 1
      BY <1>1, <1>2, <1>3, <1>6, <2>4
    <3>5. MACCount = (B * B) * B
      BY <1>1 DEF MACCount
    <3>6. MACCount = (w + 1) * B
      BY <3>4, <3>5
    <3> QED BY <1>1, <1>4, <1>5, <2>4, <3>3, <3>6
  <2> QED BY <1>1, <1>2, <2>1, <2>2, <2>3, <2>4
<1>9. MACPos(a) \in Int
  BY <1>1, <1>2, <1>4
<1> QED BY <1>8, <1>9, FirstMACPos, ReachedNext DEF MACReached

\* The stations of the first process were made one after the other: that of i was the
\* n[i]-th to be handed its addresses
Numbering(n) ==
    /\ n \in [Ids -> Nat]
    /\ \A i \in Known : /\ n[i] \in 1..handed
                        /\ IPReached(n[i], obj[hub[i]].ip) /\ MACReached(n[i], obj[hub[i]].mac)
    /\ \A i, j \in Known : n[i] = n[j] => i = j

Numbered ==
    restarts = 0 =>
        /\ IPReached(handed, lastIP) /\ MACReached(handed, lastMAC)
        /\ \E n : Numbering(n)

\* Steps that leave what is numbered alone
LEMMA SameNumbered ==
    ASSUME Numbered, UNCHANGED <<addresses, restarts>>, Known' \subseteq Known,
           \A i \in Known' : /\ obj'[hub'[i]].ip = obj[hub[i]].ip
                             /\ obj'[hub'[i]].mac = obj[hub[i]].mac
    PROVE  Numbered'
<1> SUFFICES ASSUME restarts = 0
             PROVE  /\ IPReached(handed, lastIP) /\ MACReached(handed, lastMAC)
                    /\ \E n : Numbering(n)'
  BY DEF Numbered, addresses
<1>1. PICK n : Numbering(n)
  BY DEF Numbered
<1>2. ASSUME NEW i \in Known'
      PROVE  /\ n[i] \in 1..handed'
             /\ IPReached(n[i], obj'[hub'[i]].ip) /\ MACReached(n[i], obj'[hub'[i]].mac)
  BY <1>1 DEF Numbering, addresses
<1>3. Numbering(n)'
  BY <1>1, <1>2 DEF Numbering
<1> QED BY <1>3 DEF Numbered

\* A new station is handed the next addresses
LEMMA AddNumbered ==
    ASSUME Matched, Numbered, NEW i \in Ids, NEW h \in Hosts, AddStation(i, h),
           restarts' = restarts
    PROVE  Numbered'
<1> DEFINE data == [ip |-> lastIP', mac |-> lastMAC', host |-> h, uuid |-> Own]
           o == CHOOSE x \in Objects : Unused(x)
<1>1. o \in Objects /\ \A j \in Ids : hub[j] # o
  BY DEF AddStation, Unused
<1>2. /\ obj' = [obj EXCEPT ![o] = data] /\ hub' = [hub EXCEPT ![i] = o]
      /\ lastIP' = NextIP(lastIP) /\ lastMAC' = NextMAC(lastMAC) /\ handed' = handed + 1
      /\ data.ip = lastIP' /\ data.mac = lastMAC'
  BY DEF AddStation
<1> HIDE DEF data, o
<1> SUFFICES ASSUME restarts = 0
             PROVE  /\ IPReached(handed', lastIP') /\ MACReached(handed', lastMAC')
                    /\ \E n : Numbering(n)'
  BY DEF Numbered
<1>3. handed \in Nat /\ lastIP \in IPs /\ lastMAC \in MACs
  BY Numbers DEF Matched, TypeOK, IPs, MACs
<1>4. IPReached(handed', lastIP') /\ MACReached(handed', lastMAC')
  BY <1>2, <1>3, IPNext, MACNext DEF Numbered
<1>5. PICK n : Numbering(n)
  BY DEF Numbered
<1>6. PICK m : m = [n EXCEPT ![i] = handed + 1]
  OBVIOUS
<1>7. m \in [Ids -> Nat] /\ m[i] = handed + 1 /\ \A j \in Ids : j # i => m[j] = n[j]
  BY <1>3, <1>5, <1>6 DEF Numbering
<1>8. hub'[i] = o /\ obj'[o] = data
  BY <1>1, <1>2 DEF Matched, TypeOK
<1>9. ASSUME NEW j \in Known', j # i
      PROVE  j \in Known /\ j \in Ids /\ hub'[j] = hub[j] /\ obj'[hub[j]] = obj[hub[j]]
  <2>1. j \in Known /\ j \in Ids /\ hub'[j] = hub[j]
    BY <1>2, <1>9 DEF Known, Matched, TypeOK
  <2>2. hub[j] \in Objects /\ hub[j] # o
    BY <1>1, <2>1 DEF Known, Matched, TypeOK
  <2> QED BY <1>2, <2>1, <2>2 DEF Matched, TypeOK
<1>10. ASSUME NEW j \in Known'
       PROVE  /\ m[j] \in 1..handed'
              /\ IPReached(m[j], obj'[hub'[j]].ip) /\ MACReached(m[j], obj'[hub'[j]].mac)
  <2>1. CASE j = i
    BY <1>2, <1>3, <1>4, <1>7, <1>8, <2>1
  <2>2. CASE j # i
    <3>1. /\ n[j] \in 1..handed
          /\ IPReached(n[j], obj[hub[j]].ip) /\ MACReached(n[j], obj[hub[j]].mac)
      BY <1>5, <1>9, <2>2 DEF Numbering
    <3>2. m[j] = n[j] /\ hub'[j] = hub[j] /\ obj'[hub[j]] = obj[hub[j]]
      BY <1>7, <1>9, <2>2
    <3>3. n[j] \in 1..handed'
      BY <1>2, <1>3, <3>1
    <3> QED BY <3>1, <3>2, <3>3
  <2> QED BY <2>1, <2>2
<1>11. ASSUME NEW j \in Known', NEW k \in Known', m[j] = m[k]
       PROVE  j = k
  <2>1. ASSUME NEW l \in Known', l # i
        PROVE  m[l] # m[i]
    <3>1. m[l] = n[l] /\ n[l] \in 1..handed
      BY <1>5, <1>7, <1>9, <2>1 DEF Numbering
    <3> QED BY <1>3, <1>7, <3>1
  <2>2. CASE j = i \/ k = i
    BY <1>11, <2>1, <2>2
  <2>3. CASE j # i /\ k # i
    <3>1. m[j] = n[j] /\ m[k] = n[k] /\ j \in Known /\ k \in Known
      BY <1>7, <1>9, <2>3
    <3> QED BY <1>5, <1>11, <3>1 DEF Numbering
  <2> QED BY <2>2, <2>3
<1>12. Numbering(m)'
  BY <1>7, <1>10, <1>11 DEF Numbering
<1> QED BY <1>4, <1>12

LEMMA NumberedNext == Matched /\ Numbered /\ [Next]_vars => Numbered'
<1> SUFFICES ASSUME Matched, Numbered, [Next]_vars PROVE Numbered'
  OBVIOUS
<1>1. ASSUME UNCHANGED <<hub, obj, addresses, restarts>>
      PROVE  Numbered'
  BY <1>1, SameNumbered DEF Known
<1>2. ASSUME NEW c \in Clients,
             \/ \E i \in Asked : CreateCount(c, i) \/ DeleteStop(c, i) \/ StationAction(c, i)
             \/ \E ids \in BatchIds, h \in Offered : BatchCount(c, ids, h)
             \/ \E h \in Offered : PlatformSet(c, h)
             \/ CreateCheck(c) \/ BatchEnd(c) \/ ConfigWrite(c)
             \/ StartAllLookup(c) \/ StopAllLookup(c) \/ Stop(c)
      PROVE  Numbered'
  BY <1>1, <1>2 DEF CreateCount, DeleteStop, StationAction, StartLookup, StopLookup,
     RestartStation, BatchCount, PlatformSet, CreateCheck, BatchEnd, ConfigWrite,
     StartAllLookup, StopAllLookup, Stop, tables
<1>3. ASSUME NEW c \in Clients, CreateAdd(c) \/ BatchAdd(c)
      PROVE  Numbered'
  <2>1. PICK i \in Ids, h \in Hosts : AddStation(i, h)
    <3>1. CASE CreateAdd(c)
      BY <3>1, AskedTyped DEF CreateAdd, Matched, Asking
    <3>2. CASE BatchAdd(c)
      <4>1. req[c].ids \in Seq(Ids) /\ req[c].ids # <<>> /\ req[c].host \in Hosts
        BY <3>2 DEF BatchAdd, Matched, TypeOK, Asking
      <4>2. Head(req[c].ids) \in Ids
        BY <4>1
      <4> QED BY <3>2, <4>1, <4>2 DEF BatchAdd
    <3> QED BY <1>3, <3>1, <3>2
  <2>2. restarts' = restarts
    BY <1>3 DEF CreateAdd, BatchAdd
  <2> QED BY <2>1, <2>2, AddNumbered
<1>4. ASSUME NEW c \in Clients, NEW i \in Asked, NEW h \in Offered, ConfigSet(c, i, h)
      PROVE  Numbered'
  <2>1. UNCHANGED <<hub, addresses, restarts>> /\ obj' = [obj EXCEPT ![hub[i]].host = h]
    BY <1>4 DEF ConfigSet
  <2>2. Known' = Known
    BY <2>1 DEF Known
  <2>3. ASSUME NEW o \in Objects
        PROVE  obj'[o].ip = obj[o].ip /\ obj'[o].mac = obj[o].mac
    <3>1. obj'[o] = obj[o] \/ obj'[o] = [obj[o] EXCEPT !.host = h]
      BY <2>1 DEF Matched, TypeOK
    <3> QED BY <3>1 DEF Matched, TypeOK, Fields
  <2>4. \A j \in Known' : obj'[hub'[j]].ip = obj[hub[j]].ip /\ obj'[hub'[j]].mac = obj[hub[j]].mac
    BY <2>1, <2>2, <2>3 DEF Known, Matched, TypeOK
  <2> QED BY <2>1, <2>2, <2>4, SameNumbered
<1>5. ASSUME NEW c \in Clients, ReconnectAll(c)
      PROVE  Numbered'
  <2>1. UNCHANGED <<hub, addresses, restarts>>
    BY <1>5 DEF ReconnectAll
  <2>2. Known' = Known
    BY <2>1 DEF Known
  <2>3. ASSUME NEW o \in Objects
        PROVE  obj'[o].ip = obj[o].ip /\ obj'[o].mac = obj[o].mac
    <3>1. obj'[o] = obj[o] \/ obj'[o] = [obj[o] EXCEPT !.host = platform]
      BY <1>5 DEF ReconnectAll
    <3> QED BY <3>1 DEF Matched, TypeOK, Fields
  <2>4. \A j \in Known' : obj'[hub'[j]].ip = obj[hub[j]].ip /\ obj'[hub'[j]].mac = obj[hub[j]].mac
    BY <2>1, <2>2, <2>3 DEF Known, Matched, TypeOK
  <2> QED BY <2>1, <2>2, <2>4, SameNumbered
<1>6. ASSUME NEW c \in Clients, RemoveStation(c)
      PROVE  Numbered'
  <2>1. UNCHANGED <<obj, addresses, restarts>> /\ req[c].id \in Ids
    BY <1>6 DEF RemoveStation, Matched, Asking
  <2>2. hub' = hub \/ hub' = [hub EXCEPT ![req[c].id] = None]
    BY <1>6 DEF RemoveStation
  <2>3. \A j \in Known' : j \in Known /\ hub'[j] = hub[j]
    BY <2>1, <2>2 DEF Known, Matched, TypeOK
  <2> QED BY <2>1, <2>3, SameNumbered
<1>7. ASSUME NEW o \in Objects, Start(o)
      PROVE  Numbered'
  BY <1>1, <1>7 DEF Start, tables
<1>8. CASE Restart
  BY <1>8 DEF Restart, Numbered, Matched, TypeOK
<1>9. CASE UNCHANGED vars
  BY <1>1, <1>9 DEF vars, tables
<1> QED BY <1>2, <1>3, <1>4, <1>5, <1>6, <1>7, <1>8, <1>9 DEF Next

\* The addresses are addresses, and no two stations made by the first process share one
\* before the generators have been round: GenerateSequentialIP and GenerateSequentialMAC
\* reach every value once in a round, whatever stations come and go meanwhile
THEOREM AddressInvCorrect == ASSUME DbReliable PROVE Spec => []AddressInv
<1>1. Init => Numbered
  <2> SUFFICES ASSUME Init
               PROVE  Numbered
    OBVIOUS
  <2>1. Known = {} /\ handed = 0 /\ lastIP = FirstIP /\ lastMAC = FirstMAC
    BY DEF Init, Known
  <2>2. IPReached(handed, lastIP) /\ MACReached(handed, lastMAC)
    BY <2>1, FirstIPPos, FirstMACPos DEF IPReached, MACReached, Reached
  <2>3. Numbering([i \in Ids |-> 0])
    BY <2>1 DEF Numbering
  <2> QED BY <2>2, <2>3 DEF Numbered
<1>2. Matched /\ Numbered => AddressInv
  <2> SUFFICES ASSUME Matched, Numbered, restarts = 0,
                      NEW i \in Known, NEW j \in Known, i # j
               PROVE  /\ handed <= IPCount => obj[hub[i]].ip # obj[hub[j]].ip
                      /\ handed <= MACCount => obj[hub[i]].mac # obj[hub[j]].mac
    BY DEF AddressInv, DistinctAddresses, IPCount, MACCount, Matched
  <2>1. PICK n : Numbering(n)
    BY DEF Numbered
  <2>2. n[i] \in 1..handed /\ n[j] \in 1..handed /\ n[i] # n[j] /\ handed \in Nat
    BY <2>1, Numbers DEF Numbering, Matched, TypeOK
  <2>3. obj[hub[i]] \in Fields /\ obj[hub[j]] \in Fields
    BY DEF Known, Matched, TypeOK
  <2>4. ASSUME handed <= IPCount, obj[hub[i]].ip = obj[hub[j]].ip
        PROVE  FALSE
    <3>1. PICK p \in Int : p = IPPos(obj[hub[i]].ip)
      <4>1. obj[hub[i]].ip \in IPs
        BY <2>3 DEF Fields, IPs
      <4> QED BY <4>1, Numbers DEF IPPos, IPs
    <3>2. /\ Reached(n[i], p, IPPos(FirstIP), IPCount)
          /\ Reached(n[j], p, IPPos(FirstIP), IPCount)
      BY <2>1, <2>4, <3>1 DEF Numbering, IPReached
    <3>3. PICK N \in Nat, first \in Int : N = IPCount /\ first = IPPos(FirstIP)
      BY FirstIPPos
    <3>4. n[i] \in 1..N /\ n[j] \in 1..N
      BY <2>2, <2>4, <3>3
    <3>5. Reached(n[i], p, first, N) /\ Reached(n[j], p, first, N)
      BY <3>2, <3>3
    <3>6. n[i] = n[j]
      BY ONLY <3>4, <3>5, p \in Int, N \in Nat, first \in Int, ReachedOnce
    <3> QED BY <2>2, <3>6
  <2>5. ASSUME handed <= MACCount, obj[hub[i]].mac = obj[hub[j]].mac
        PROVE  FALSE
    <3>1. PICK p \in Int : p = MACPos(obj[hub[i]].mac)
      <4>1. obj[hub[i]].mac \in MACs
        BY <2>3 DEF Fields, MACs
      <4> QED BY <4>1, Numbers DEF MACPos, MACs
    <3>2. /\ Reached(n[i], p, MACPos(FirstMAC), MACCount)
          /\ Reached(n[j], p, MACPos(FirstMAC), MACCount)
      BY <2>1, <2>5, <3>1 DEF Numbering, MACReached
    <3>3. PICK N \in Nat, first \in Int : N = MACCount /\ first = MACPos(FirstMAC)
      BY FirstMACPos
    <3>4. n[i] \in 1..N /\ n[j] \in 1..N
      BY <2>2, <2>5, <3>3
    <3>5. Reached(n[i], p, first, N) /\ Reached(n[j], p, first, N)
      BY <3>2, <3>3
    <3>6. n[i] = n[j]
      BY ONLY <3>4, <3>5, p \in Int, N \in Nat, first \in Int, ReachedOnce
    <3> QED BY <2>2, <3>6
  <2> QED BY <2>4, <2>5
<1> QED BY <1>1, <1>2, MatchedInitially, MatchedNext, NumberedNext, PTL DEF Spec

-----------------------------------------------------------------------------
(* The table the users see                                                 *)

\* The row of i has the addresses of the station the hub has there
Recorded(i) == /\ row[i].data.ip = obj[hub[i]].ip
               /\ row[i].data.mac = obj[hub[i]].mac

\* For careful users every row has, and a batch under way asks for stations that are not there yet,
\* each once
Promised ==
    careful =>
        /\ \A c \in Clients : pc[c] = "batch" =>
              \A j, k \in DOMAIN req[c].ids :
                  /\ hub[req[c].ids[k]] = None
                  /\ req[c].ids[j] = req[c].ids[k] => j = k
        /\ \A i \in Known : Recorded(i)

\* The addresses of a station that is added are in its row, and nothing changes for the others
LEMMA AddRecorded ==
    ASSUME DbReliable, Matched, NEW i \in Ids, NEW h \in Hosts, AddStation(i, h)
    PROVE  /\ Known' = Known \cup {i}
           /\ hub'[i] # None /\ hub'[i] \in Objects
           /\ Recorded(i)'
           /\ \A j \in Ids \ {i} : hub'[j] = hub[j] /\ row'[j] = row[j]
           /\ \A j \in Known \ {i} : obj'[hub[j]] = obj[hub[j]]
<1> DEFINE data == [ip |-> lastIP', mac |-> lastMAC', host |-> h, uuid |-> Own]
           o == CHOOSE x \in Objects : Unused(x)
<1>1. o \in Objects /\ \A j \in Ids : hub[j] # o
  BY DEF AddStation, Unused
<1>2. /\ obj' = [obj EXCEPT ![o] = data]
      /\ hub' = [hub EXCEPT ![i] = o]
      /\ row' = [row EXCEPT ![i] = [present |-> TRUE, data |-> data]]
  BY DEF AddStation, InsertStation, Executed
<1> HIDE DEF data, o
<1>3. hub'[i] = o /\ o # None /\ \A j \in Ids \ {i} : hub'[j] = hub[j] /\ row'[j] = row[j]
  BY <1>1, <1>2, Numbers DEF Matched, TypeOK
<1>4. row'[i].data = data /\ obj'[o] = data
  BY <1>1, <1>2 DEF Matched, TypeOK
<1>5. \A j \in Known \ {i} : obj'[hub[j]] = obj[hub[j]]
  BY <1>1, <1>2 DEF Matched, TypeOK, Known
<1>6. Known' = Known \cup {i}
  BY <1>3 DEF Known
<1> QED BY <1>1, <1>3, <1>4, <1>5, <1>6 DEF Recorded

\* Addresses stay what they are where hub, rows and addresses do
LEMMA SameRecorded ==
    ASSUME \A i \in Known : Recorded(i),
           \A i \in Known' : /\ i \in Known /\ hub'[i] = hub[i] /\ row'[i] = row[i]
                              /\ obj'[hub[i]].ip = obj[hub[i]].ip
                              /\ obj'[hub[i]].mac = obj[hub[i]].mac
    PROVE  \A i \in Known' : Recorded(i)'
BY DEF Recorded

\* Other platforms do not change addresses
LEMMA HostChanged ==
    ASSUME NEW f \in Fields, NEW h
    PROVE  /\ [f EXCEPT !.host = h].ip = f.ip /\ [f EXCEPT !.host = h].mac = f.mac
           /\ [f EXCEPT !.uuid = Blank].ip = f.ip /\ [f EXCEPT !.uuid = Blank].mac = f.mac
BY DEF Fields

\* The two requests that change the platform of stations change nothing else of them
LEMMA AddressesKept ==
    ASSUME Matched, NEW c \in Clients,
           (\E i \in Asked, h \in Offered : ConfigSet(c, i, h)) \/ ReconnectAll(c)
    PROVE  /\ hub' = hub /\ row' = row
           /\ \A o \in Objects : obj'[o].ip = obj[o].ip /\ obj'[o].mac = obj[o].mac
<1>1. \A o \in Objects : obj[o] \in Fields
  BY DEF Matched, TypeOK
<1>2. ASSUME NEW i \in Asked, NEW h \in Offered, ConfigSet(c, i, h)
      PROVE  /\ hub' = hub /\ row' = row
             /\ \A o \in Objects : obj'[o].ip = obj[o].ip /\ obj'[o].mac = obj[o].mac
  <2>1. /\ hub' = hub /\ row' = row
        /\ obj' = [obj EXCEPT ![hub[i]] = [obj[hub[i]] EXCEPT !.host = h]]
    BY <1>2 DEF ConfigSet
  <2>2. \A o \in Objects : obj'[o] \in {obj[o], [obj[o] EXCEPT !.host = h]}
    BY <2>1 DEF Matched, TypeOK
  <2> QED BY <1>1, <2>1, <2>2, HostChanged
<1>3. ASSUME ReconnectAll(c)
      PROVE  /\ hub' = hub /\ row' = row
             /\ \A o \in Objects : obj'[o].ip = obj[o].ip /\ obj'[o].mac = obj[o].mac
  <2>1. /\ hub' = hub /\ row' = row
        /\ \A o \in Objects : obj'[o] \in {obj[o], [obj[o] EXCEPT !.host = platform]}
    BY <1>3 DEF ReconnectAll
  <2>2. PICK h : h = platform
    OBVIOUS
  <2>3. ASSUME NEW o \in Objects
        PROVE  obj'[o].ip = obj[o].ip /\ obj'[o].mac = obj[o].mac
    <3>1. PICK f : f = obj[o]
      OBVIOUS
    <3>2. f \in Fields /\ obj'[o] \in {f, [f EXCEPT !.host = h]}
      BY <1>1, <2>1, <2>2, <3>1
    <3> QED BY <3>1, <3>2 DEF Fields
  <2> QED BY <2>1, <2>3
<1> QED BY <1>2, <1>3

\* Requests that come in
LEMMA ArrivalPromised ==
    ASSUME Matched, Alone, Promised, careful, NEW c \in Clients,
           \/ \E i \in Asked : CreateCount(c, i) \/ DeleteStop(c, i) \/ StationAction(c, i)
           \/ \E i \in Asked, h \in Offered : ConfigSet(c, i, h)
           \/ \E ids \in BatchIds, h \in Offered : BatchCount(c, ids, h)
           \/ \E h \in Offered : PlatformSet(c, h)
           \/ StartAllLookup(c) \/ StopAllLookup(c)
    PROVE  Promised'
<1> USE DEF tables
<1>1. Busy = {} /\ pc[c] = "off" /\ \A d \in Busy : d = c
  BY DEF CreateCount, DeleteStop, StationAction, StartLookup, StopLookup, RestartStation,
         ConfigSet, BatchCount, PlatformSet, StartAllLookup, StopAllLookup, Request, Undisturbed
<1>2. \A i \in Known : Recorded(i)
  BY DEF Promised
<1>3. ASSUME NEW ids \in BatchIds, NEW h \in Offered, BatchCount(c, ids, h)
      PROVE  Promised'
  <2>0. PICK r : r = [NoRequest EXCEPT !.ids = ids, !.seen = StationCount, !.host = h]
    OBVIOUS
  <2>1. /\ Request(c, "batch", "batch", r) /\ UNCHANGED <<hub, row, obj>>
        /\ \A k \in DOMAIN ids : hub[ids[k]] = None
    BY <1>3, <2>0 DEF BatchCount
  <2>2. r.ids = ids
    BY <2>0 DEF NoRequest
  <2>3. /\ \A d \in Clients : d # c => pc'[d] = "off"
        /\ pc'[c] = "batch" /\ req'[c] = r
    <3>1. /\ \A d \in Clients : d # c => pc'[d] = "off"
          /\ pc'[c] = "batch" /\ ("batch" # "off" => req'[c] = r)
      BY <1>1, <2>1, Lone
    <3> QED BY <3>1
  <2>4. \A j, k \in DOMAIN ids : ids[j] = ids[k] => j = k
    BY RegistryAssumption DEF RegistryAssumption
  <2>5. \A i \in Known' : Recorded(i)'
    BY <1>2, <2>1 DEF Known, Recorded
  <2> QED BY <2>1, <2>2, <2>3, <2>4, <2>5 DEF Promised
<1>4. ASSUME \/ \E i \in Asked : CreateCount(c, i) \/ DeleteStop(c, i) \/ StationAction(c, i)
             \/ \E i \in Asked, h \in Offered : ConfigSet(c, i, h)
             \/ \E h \in Offered : PlatformSet(c, h)
             \/ StartAllLookup(c) \/ StopAllLookup(c)
      PROVE  Promised'
  <2>1. \E what, r : \E label \in {"check", "remove", "off", "stop", "write", "reconnect"} :
           Request(c, what, label, r)
    BY <1>4 DEF CreateCount, DeleteStop, StationAction, StartLookup, StopLookup,
       RestartStation, ConfigSet, PlatformSet, StartAllLookup, StopAllLookup
  <2>2. \A d \in Clients : pc'[d] # "batch"
    <3>1. PICK what, r : \E label \in {"check", "remove", "off", "stop", "write", "reconnect"} :
             Request(c, what, label, r)
      BY <2>1
    <3>2. PICK label \in {"check", "remove", "off", "stop", "write", "reconnect"} :
             Request(c, what, label, r)
      BY <3>1
    <3>3. (\A d \in Clients : d # c => pc'[d] = "off") /\ pc'[c] = label
      BY <1>1, <3>2, Lone
    <3> QED BY <3>2, <3>3
  <2>3. /\ hub' = hub /\ row' = row
        /\ \A o \in Objects : obj'[o].ip = obj[o].ip /\ obj'[o].mac = obj[o].mac
    <3>1. CASE \E i \in Asked, h \in Offered : ConfigSet(c, i, h)
      BY <3>1, AddressesKept
    <3>2. CASE ~\E i \in Asked, h \in Offered : ConfigSet(c, i, h)
      <4>1. UNCHANGED <<hub, row, obj>>
        BY <1>4, <3>2 DEF CreateCount, DeleteStop, StationAction, StartLookup, StopLookup,
           RestartStation, PlatformSet, StartAllLookup, StopAllLookup
      <4> QED BY <4>1
    <3> QED BY <3>1, <3>2
  <2>4. \A i \in Known' : Recorded(i)'
    <3>1. \A i \in Known' : i \in Known /\ hub[i] \in Objects
      BY <2>3 DEF Known, Matched, TypeOK
    <3> QED BY <1>2, <2>3, <3>1, SameRecorded
  <2> QED BY <2>2, <2>4 DEF Promised
<1> QED BY <1>3, <1>4

\* Requests that go on
LEMMA StepsPromised ==
    ASSUME DbReliable, Matched, Alone, Settled, Promised, careful, NEW c \in Clients,
           \/ CreateCheck(c) \/ CreateAdd(c) \/ BatchAdd(c) \/ BatchEnd(c)
           \/ Stop(c) \/ ConfigWrite(c) \/ ReconnectAll(c) \/ RemoveStation(c)
    PROVE  Promised'
<1> USE DEF tables
<1>1. pc[c] # "off" /\ \A d \in Busy : d = c
  <2>1. pc[c] # "off"
    BY DEF CreateCheck, CreateAdd, BatchAdd, BatchEnd, Stop, ConfigWrite, ReconnectAll,
           RemoveStation
  <2> QED BY <2>1 DEF Alone, Busy
<1>2. \A i \in Known : Recorded(i) /\ hub[i] \in Objects
  BY DEF Promised, Known, Matched, TypeOK
<1>3. CASE CreateAdd(c)
  <2>1. PICK h \in Hosts : AddStation(req[c].id, h)
    BY <1>3, AskedTyped DEF CreateAdd, Matched
  <2>2. req[c].id \in Ids /\ Continue(c, "off", NoRequest)
    BY <1>3 DEF CreateAdd, Matched, Asking
  <2>3. \A d \in Clients : pc'[d] # "batch"
    <3>1. (\A d \in Clients : d # c => pc'[d] = "off") /\ pc'[c] = "off"
      BY <1>1, <2>2, Lone
    <3> QED BY <3>1
  <2>4. \A j \in Known' : Recorded(j)'
    BY <1>2, <2>1, <2>2, AddRecorded DEF Recorded, Known
  <2> QED BY <2>3, <2>4 DEF Promised
<1>4. CASE BatchAdd(c)
  <2> DEFINE ids == req[c].ids
  <2>0. PICK r : r = [req[c] EXCEPT !.ids = Tail(@), !.seen = @ + 1]
    OBVIOUS
  <2>1. /\ pc[c] = "batch" /\ ids \in Seq(Ids) /\ ids # <<>> /\ req[c] \in Kept
        /\ AddStation(Head(ids), req[c].host) /\ req[c].host \in Hosts
        /\ Continue(c, "batch", r)
    BY <1>4, <2>0 DEF BatchAdd, Matched, TypeOK, Asking, Kept
  <2>2. r.ids = Tail(ids)
    BY <2>0, <2>1 DEF Kept
  <2>3. /\ \A d \in Clients : d # c => pc'[d] = "off"
        /\ pc'[c] = "batch" /\ req'[c] = r
    <3>1. /\ \A d \in Clients : d # c => pc'[d] = "off"
          /\ pc'[c] = "batch" /\ ("batch" # "off" => req'[c] = r)
      BY <1>1, <2>1, Lone
    <3> QED BY <3>1
  <2>4. \A j, k \in DOMAIN ids : hub[ids[k]] = None /\ (ids[j] = ids[k] => j = k)
    BY <2>1 DEF Promised
  <2>5. Head(ids) \in Ids /\ Head(ids) = ids[1] /\ 1 \in DOMAIN ids
    BY <2>1
  <2>6. \A k \in DOMAIN Tail(ids) :
            Tail(ids)[k] = ids[k + 1] /\ k + 1 \in DOMAIN ids /\ k \in Nat /\ k # 0
    BY <2>1
  <2>7. \A k \in DOMAIN Tail(ids) : Tail(ids)[k] \in Ids \ {Head(ids)}
    BY <2>1, <2>4, <2>5, <2>6
  <2>8. /\ \A j \in Ids \ {Head(ids)} : hub'[j] = hub[j]
        /\ \A j \in Known' : Recorded(j)'
    BY <1>2, <2>1, <2>5, AddRecorded DEF Recorded, Known
  <2>9. \A j, k \in DOMAIN Tail(ids) :
            hub'[Tail(ids)[k]] = None /\ (Tail(ids)[j] = Tail(ids)[k] => j = k)
    BY <2>4, <2>6, <2>7, <2>8
  <2>10. ASSUME NEW d \in Clients, pc'[d] = "batch"
         PROVE  d = c /\ req'[d].ids = Tail(ids)
    BY <2>2, <2>3, <2>10
  <2> HIDE DEF ids
  <2>11. ASSUME NEW d \in Clients, pc'[d] = "batch", NEW j \in DOMAIN req'[d].ids,
                NEW k \in DOMAIN req'[d].ids
         PROVE  hub'[req'[d].ids[k]] = None /\ (req'[d].ids[j] = req'[d].ids[k] => j = k)
    BY <2>9, <2>10, <2>11
  <2> QED BY <2>8, <2>11 DEF Promised
<1>5. CASE ConfigWrite(c)
  <2> PICK i : i = req[c].id
    OBVIOUS
  <2>1. /\ pc[c] = "write" /\ hub[i] # None /\ req[c].objs = {hub[i]} /\ i \in Ids
        /\ Continue(c, "off", NoRequest) /\ UNCHANGED <<hub, obj>>
    BY <1>5 DEF ConfigWrite, Settled, Matched, Asking
  <2>2. \A d \in Clients : pc'[d] # "batch"
    <3>1. (\A d \in Clients : d # c => pc'[d] = "off") /\ pc'[c] = "off"
      BY <1>1, <2>1, Lone
    <3> QED BY <3>1
  <2>3. row[i].present /\ row \in [Ids -> Row] /\ obj[hub[i]] \in Fields
    BY <2>1 DEF Matched, TypeOK
  <2>4. row' = [row EXCEPT ![i] = [present |-> TRUE,
                                   data |-> [obj[hub[i]] EXCEPT !.uuid = Blank]]]
    BY <1>5, <2>1, <2>3 DEF ConfigWrite, UpdateStation, Executed
  <2>5. /\ row'[i].data = [obj[hub[i]] EXCEPT !.uuid = Blank]
        /\ \A j \in Ids \ {i} : row'[j] = row[j]
    BY <2>1, <2>3, <2>4
  <2>6. Recorded(i)'
    BY <2>1, <2>3, <2>5, HostChanged DEF Recorded
  <2>7. ASSUME NEW j \in Known', j # i
        PROVE  Recorded(j)'
    <3>1. j \in Known /\ j \in Ids \ {i}
      BY <2>1, <2>7 DEF Known
    <3>2. Recorded(j) /\ row'[j] = row[j]
      BY <1>2, <2>5, <3>1
    <3> QED BY <2>1, <3>2 DEF Recorded
  <2> QED BY <2>2, <2>6, <2>7 DEF Promised
<1>6. CASE RemoveStation(c)
  <2> DEFINE i == req[c].id
  <2>1. Continue(c, "off", NoRequest) /\ obj' = obj /\ i \in Ids
    BY <1>6 DEF RemoveStation, Matched, Asking
  <2>2. \A d \in Clients : pc'[d] # "batch"
    <3>1. (\A d \in Clients : d # c => pc'[d] = "off") /\ pc'[c] = "off"
      BY <1>1, <2>1, Lone
    <3> QED BY <3>1
  <2>3. \A j \in Known' : j \in Known /\ hub'[j] = hub[j] /\ row'[j] = row[j]
    <3>1. CASE hub[i] = None
      BY <1>6, <3>1 DEF RemoveStation, Known
    <3>2. CASE hub[i] # None
      <4>1. hub' = [hub EXCEPT ![i] = None] /\ row' = [row EXCEPT ![i] = NoRow]
        BY <1>6, <3>2 DEF RemoveStation, DeleteRow, Executed
      <4> QED BY <2>1, <4>1 DEF Known, Matched, TypeOK
    <3> QED BY <3>1, <3>2
  <2>4. \A j \in Known' : Recorded(j)'
    BY <1>2, <2>1, <2>3, SameRecorded
  <2> QED BY <2>2, <2>4 DEF Promised
<1>7. CASE CreateCheck(c) \/ BatchEnd(c) \/ Stop(c) \/ ReconnectAll(c)
  <2>1. \E r : \E label \in {"add", "off", "stop"} : Continue(c, label, r)
    BY <1>7 DEF CreateCheck, BatchEnd, Stop, ReconnectAll
  <2>2. \A d \in Clients : pc'[d] # "batch"
    <3>1. PICK r : \E label \in {"add", "off", "stop"} : Continue(c, label, r)
      BY <2>1
    <3>2. PICK label \in {"add", "off", "stop"} : Continue(c, label, r)
      BY <3>1
    <3>3. (\A d \in Clients : d # c => pc'[d] = "off") /\ pc'[c] = label
      BY <1>1, <3>2, Lone
    <3> QED BY <3>2, <3>3
  <2>3. /\ hub' = hub /\ row' = row
        /\ \A o \in Objects : obj'[o].ip = obj[o].ip /\ obj'[o].mac = obj[o].mac
    <3>1. CASE ReconnectAll(c)
      BY <3>1, AddressesKept
    <3>2. CASE ~ReconnectAll(c)
      <4>1. UNCHANGED <<hub, row, obj>>
        BY <1>7, <3>2 DEF CreateCheck, BatchEnd, Stop
      <4> QED BY <4>1
    <3> QED BY <3>1, <3>2
  <2>4. \A i \in Known' : Recorded(i)'
    <3>1. \A i \in Known' : i \in Known
      BY <2>3 DEF Known
    <3> QED BY <1>2, <2>3, <3>1, SameRecorded
  <2> QED BY <2>2, <2>4 DEF Promised
<1> QED BY <1>3, <1>4, <1>5, <1>6, <1>7

\* The stations the next process makes are those of the rows
LEMMA RestartRecorded ==
    ASSUME Matched, Restart
    PROVE  /\ Known' = Known
           /\ \A i \in Known : obj'[hub'[i]] = row[i].data /\ row'[i] = row[i]
<1>1. PICK f : f = RestoredHub
  OBVIOUS
<1>2. /\ f \in [Ids -> Objects \cup {None}]
      /\ \A i \in Ids : (f[i] # None) <=> row[i].present
      /\ \A j, k \in Ids : f[j] = f[k] /\ f[j] # None => j = k
  BY <1>1, RestoredMatched
<1>3. /\ hub' = f /\ row' = row
      /\ obj' = [o \in Objects |->
                    IF \E j \in Ids : f[j] = o
                    THEN row[CHOOSE j \in Ids : f[j] = o].data ELSE NoFields]
  BY <1>1 DEF Restart
<1>4. Known' = Known
  BY <1>2, <1>3 DEF Known, Matched
<1>5. ASSUME NEW i \in Known
      PROVE  obj'[hub'[i]] = row[i].data
  <2>1. i \in Ids /\ f[i] # None /\ f[i] \in Objects
    BY <1>2, <1>5 DEF Known, Matched
  <2>2. (CHOOSE j \in Ids : f[j] = f[i]) = i
    BY <1>2, <2>1
  <2> QED BY <1>3, <2>1, <2>2
<1> QED BY <1>3, <1>4, <1>5

LEMMA PromisedNext ==
    ASSUME DbReliable PROVE Matched /\ Alone /\ Settled /\ Promised /\ [Next]_vars => Promised'
<1> SUFFICES ASSUME Matched, Alone, Settled, Promised, careful, [Next]_vars PROVE Promised'
  <2>1. ASSUME Matched, ~careful, [Next]_vars PROVE ~careful'
    BY <2>1 DEF Next, vars, CreateCount, DeleteStop, StationAction, StartLookup, StopLookup,
          RestartStation, ConfigSet, BatchCount, PlatformSet, CreateCheck, CreateAdd, BatchAdd,
          BatchEnd, StartAllLookup, StopAllLookup, Stop, ConfigWrite, ReconnectAll,
          RemoveStation, Start, Restart
  <2>2. ~careful' => Promised'
    BY DEF Promised
  <2> QED BY <2>1, <2>2
<1>1. ASSUME UNCHANGED <<hub, row, obj, pc, req, careful>>
      PROVE  Promised'
  BY <1>1 DEF Promised, Recorded, Known
<1>2. ASSUME NEW o \in Objects, Start(o) PROVE Promised'
  BY <1>1, <1>2 DEF Start, tables, requests
<1>3. CASE UNCHANGED vars
  BY <1>1, <1>3 DEF vars, tables, requests
<1>4. CASE Restart
  <2>1. \A c \in Clients : pc'[c] = "off"
    BY <1>4 DEF Restart
  <2> QED BY <1>4, <2>1, RestartRecorded DEF Promised, Recorded
<1>5. CASE Next
  BY <1>2, <1>4, <1>5, ArrivalPromised, StepsPromised DEF Next
<1> QED BY <1>3, <1>5

\* What the table looks like
LEMMA TableOf ==
    /\ DOMAIN AddressOf = Known
    /\ \A i \in Known : AddressOf[i] = [ip |-> obj[hub[i]].ip, mac |-> obj[hub[i]].mac]
    /\ DOMAIN AddressOf' = Known'
    /\ \A i \in Known' : AddressOf'[i] = [ip |-> obj'[hub'[i]].ip, mac |-> obj'[hub'[i]].mac]
BY DEF AddressOf

\* A step that leaves hub and addresses alone leaves the table alone
LEMMA SameTable ==
    ASSUME Known' = Known,
           \A i \in Known : /\ obj'[hub'[i]].ip = obj[hub[i]].ip
                             /\ obj'[hub'[i]].mac = obj[hub[i]].mac
    PROVE  AddressOf' = AddressOf
BY DEF AddressOf

\* A station that is added
LEMMA AddServes ==
    ASSUME DbReliable, Matched, Matched', NEW i \in Ids, NEW h \in Hosts, AddStation(i, h),
           careful => hub[i] = None /\ StationCount < MaxStations,
           UNCHANGED <<restarts, careful>>
    PROVE  Table!Next
<1>1. /\ Known' = Known \cup {i}
      /\ \A j \in Known \ {i} : hub'[j] = hub[j] /\ obj'[hub[j]] = obj[hub[j]]
  BY AddRecorded DEF Known
<1>2. AddressOf'[i] \in Addresses
  <2>1. hub'[i] \in Objects /\ obj'[hub'[i]] \in Fields
    BY AddRecorded DEF Matched, TypeOK
  <2>2. AddressOf'[i] = [ip |-> obj'[hub'[i]].ip, mac |-> obj'[hub'[i]].mac]
    BY <1>1, TableOf
  <2> QED BY <2>1, <2>2 DEF Fields, Addresses
<1>3. \A j \in Known \ {i} : AddressOf'[j] = AddressOf[j]
  BY <1>1, TableOf
<1>4. careful => i \notin Known /\ Cardinality(Known) < MaxStations
  BY DEF Known, StationCount
<1>5. DOMAIN AddressOf = Known /\ DOMAIN AddressOf' = Known'
  BY TableOf
<1>6. DOMAIN AddressOf' = DOMAIN AddressOf \cup {i}
  BY <1>1, <1>5
<1>7. \A j \in DOMAIN AddressOf \ {i} : AddressOf'[j] = AddressOf[j]
  BY <1>3, <1>5
<1>8. careful => i \notin DOMAIN AddressOf /\ Cardinality(DOMAIN AddressOf) < MaxStations
  BY <1>4, <1>5
<1>9. Table!Cardinality(DOMAIN AddressOf) = Cardinality(DOMAIN AddressOf)
  BY DEF Cardinality, Table!Cardinality
<1>10. Table!Add(i)
  BY <1>2, <1>6, <1>7, <1>8, <1>9 DEF Table!Add
<1> QED BY <1>10 DEF Table!Next

\* Every step of requests, goroutines and processes is a step of the table or leaves it alone
LEMMA TableNext ==
    ASSUME DbReliable
    PROVE  Matched /\ Matched' /\ Alone /\ Promised /\ [Next]_vars => [Table!Next]_(Table!vars)
<1> SUFFICES ASSUME Matched, Matched', Alone, Promised, [Next]_vars
             PROVE  Table!Next \/ UNCHANGED Table!vars
  OBVIOUS
<1>1. ASSUME UNCHANGED <<hub, restarts, careful>>,
             \A o \in Objects : obj'[o].ip = obj[o].ip /\ obj'[o].mac = obj[o].mac
      PROVE  UNCHANGED Table!vars
  <2>1. Known' = Known /\ \A i \in Known : hub[i] \in Objects
    BY <1>1 DEF Known, Matched, TypeOK
  <2> QED BY <1>1, <2>1, SameTable DEF Table!vars
<1>2. ASSUME UNCHANGED <<hub, obj, restarts, careful>>
      PROVE  UNCHANGED Table!vars
  BY <1>1, <1>2
<1>3. ASSUME NEW c \in Clients,
             \/ \E i \in Asked : CreateCount(c, i) \/ DeleteStop(c, i) \/ StationAction(c, i)
             \/ \E ids \in BatchIds, h \in Offered : BatchCount(c, ids, h)
             \/ \E h \in Offered : PlatformSet(c, h)
             \/ StartAllLookup(c) \/ StopAllLookup(c)
             \/ CreateCheck(c) \/ BatchEnd(c) \/ Stop(c) \/ ConfigWrite(c)
      PROVE  UNCHANGED Table!vars
  <2>1. UNCHANGED <<hub, obj, restarts, careful>>
    BY <1>3 DEF tables, CreateCount, DeleteStop, StationAction, StartLookup, StopLookup,
       RestartStation, BatchCount, PlatformSet, StartAllLookup, StopAllLookup, CreateCheck,
       BatchEnd, Stop, ConfigWrite
  <2> QED BY <1>2, <2>1
<1>4. ASSUME NEW c \in Clients,
             (\E i \in Asked, h \in Offered : ConfigSet(c, i, h)) \/ ReconnectAll(c)
      PROVE  UNCHANGED Table!vars
  <2>1. UNCHANGED <<restarts, careful>>
    BY <1>4 DEF ConfigSet, ReconnectAll
  <2> QED BY <1>1, <1>4, <2>1, AddressesKept
<1>5. ASSUME NEW c \in Clients, CreateAdd(c)
      PROVE  Table!Next
  <2>1. PICK h \in Hosts : AddStation(req[c].id, h)
    BY <1>5, AskedTyped DEF CreateAdd, Matched
  <2>2. req[c].id \in Ids /\ UNCHANGED <<restarts, careful>>
    BY <1>5 DEF CreateAdd, Matched, Asking
  <2>3. careful => hub[req[c].id] = None /\ StationCount < MaxStations
    BY <1>5 DEF Alone, Fresh, CreateAdd
  <2> QED BY <2>1, <2>2, <2>3, AddServes
<1>6. ASSUME NEW c \in Clients, BatchAdd(c)
      PROVE  Table!Next
  <2>1. /\ pc[c] = "batch" /\ req[c].ids \in Seq(Ids) /\ req[c].ids # <<>>
        /\ AddStation(Head(req[c].ids), req[c].host) /\ req[c].host \in Hosts
        /\ req[c].seen < MaxStations /\ req[c].seen \in Nat /\ UNCHANGED <<restarts, careful>>
    BY <1>6 DEF BatchAdd, Matched, TypeOK, Asking
  <2>2. Head(req[c].ids) = req[c].ids[1] /\ 1 \in DOMAIN req[c].ids /\ Head(req[c].ids) \in Ids
    BY <2>1
  <2>3. careful => hub[Head(req[c].ids)] = None
    BY <2>1, <2>2 DEF Promised
  <2>4. careful => StationCount < MaxStations
    BY <2>1, CountTyped, Numbers DEF Alone, Fresh
  <2> QED BY <2>1, <2>2, <2>3, <2>4, AddServes
<1>7. ASSUME NEW c \in Clients, RemoveStation(c)
      PROVE  Table!Next \/ UNCHANGED Table!vars
  <2> PICK i : i = req[c].id
    OBVIOUS
  <2>1. i \in Ids /\ UNCHANGED <<obj, restarts, careful>>
    BY <1>7 DEF RemoveStation, Matched, Asking
  <2>2. CASE hub[i] = None
    BY <1>2, <1>7, <2>1, <2>2 DEF RemoveStation
  <2>3. CASE hub[i] # None
    <3>1. \A j \in Ids : hub'[j] = IF j = i THEN None ELSE hub[j]
      BY <1>7, <2>1, <2>3 DEF RemoveStation, Matched, TypeOK
    <3>2. Known' = Known \ {i} /\ i \in Known /\ \A j \in Known' : hub'[j] = hub[j]
      BY <2>1, <2>3, <3>1 DEF Known
    <3>3. \A j \in Known' : AddressOf'[j] = AddressOf[j]
      BY <2>1, <3>2, TableOf
    <3>4. Table!Remove(i)
      BY <2>1, <3>2, <3>3, TableOf DEF Table!Remove
    <3> QED BY <2>1, <3>4 DEF Table!Next
  <2> QED BY <2>2, <2>3
<1>8. ASSUME Restart
      PROVE  Table!Next
  <2>1. restarts' = restarts + 1 /\ careful' = careful
    BY <1>8 DEF Restart
  <2>2. careful => AddressOf' = AddressOf
    BY <1>8, RestartRecorded, SameTable DEF Promised, Recorded
  <2>3. Table!Restart
    BY <1>8, <2>1, <2>2, RestartRecorded, TableOf DEF Table!Restart
  <2> QED BY <2>3 DEF Table!Next
<1>9. ASSUME NEW o \in Objects, Start(o)
      PROVE  UNCHANGED Table!vars
  BY <1>2, <1>9 DEF Start, tables
<1>10. CASE UNCHANGED vars
  BY <1>2, <1>10 DEF vars, tables
<1> QED BY <1>3, <1>4, <1>5, <1>6, <1>7, <1>8, <1>9, <1>10 DEF Next

\* The hub and its table of rows keep the promise of StationTable: stations come and go one at a
\* time, careful users stay within the limit and find each station at the addresses it was
\* given until it is removed, in this process and in the next; and whoever races, the next
\* process has the stations of this one
THEOREM Implements == ASSUME DbReliable PROVE Spec => ImplementsTable
<1>1. Init => Table!Init
  <2> SUFFICES ASSUME Init PROVE Table!Init
    OBVIOUS
  <2>1. Known = {}
    BY DEF Init, Known
  <2>2. AddressOf = Table!NoTable
    BY <2>1 DEF AddressOf, Table!NoTable
  <2> QED BY <2>2 DEF Init, Table!Init
<1>2. Init => Settled /\ Promised
  BY DEF Init, Settled, Promised, Known
<1>3. Spec => [](Matched /\ Alone /\ Settled /\ Promised)
  BY <1>2, MatchedInitially, MatchedNext, AloneInitially, AloneNext, SettledNext, PromisedNext,
     PTL DEF Spec
<1> QED BY <1>1, <1>3, TableNext, PTL DEF Spec, ImplementsTable, Table!Spec
=============================================================================
