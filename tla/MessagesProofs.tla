--------------------------- MODULE MessagesProofs ---------------------------
(***************************************************************************)
(* Proofs about Messages and the event bus it is built on, for any number  *)
(* of clients, requests and events, and buffers of any size.  First what   *)
(* holds of the bus whoever publishes on it, then the messages.            *)
(***************************************************************************)
EXTENDS Messages, SequenceTheorems, FiniteSetTheorems, TLAPS

-----------------------------------------------------------------------------
(* Sequences                                                               *)

\* What the operators on sequences do to the places in them
LEMMA AppendPlaces ==
    ASSUME NEW S, NEW s \in Seq(S), NEW e \in S
    PROVE  /\ Append(s, e) \in Seq(S) /\ Len(Append(s, e)) = Len(s) + 1 /\ Len(s) \in Nat
           /\ DOMAIN s = 1..Len(s) /\ DOMAIN Append(s, e) = 1..(Len(s) + 1)
           /\ \A i \in DOMAIN s : Append(s, e)[i] = s[i]
           /\ Append(s, e)[Len(s) + 1] = e
BY AppendProperties, LenProperties

LEMMA TailPlaces ==
    ASSUME NEW S, NEW s \in Seq(S), s # <<>>
    PROVE  /\ Head(s) \in S /\ Head(s) = s[1] /\ Tail(s) \in Seq(S)
           /\ Len(s) \in Nat \ {0} /\ Len(Tail(s)) = Len(s) - 1
           /\ DOMAIN s = 1..Len(s) /\ DOMAIN Tail(s) = 1..(Len(s) - 1) /\ 1 \in DOMAIN s
           /\ \A i \in DOMAIN Tail(s) : i + 1 \in DOMAIN s /\ Tail(s)[i] = s[i + 1]
<1>1. Len(s) \in Nat \ {0} /\ DOMAIN s = 1..Len(s) /\ Head(s) = s[1]
  BY EmptySeq, LenProperties
<1>2. Tail(s) \in Seq(S) /\ Len(Tail(s)) = Len(s) - 1 /\ Head(s) \in S
  BY HeadTailProperties
<1>3. DOMAIN Tail(s) = 1..(Len(s) - 1)
  BY <1>2, LenProperties
<1>4. \A i \in 1..(Len(s) - 1) : Tail(s)[i] = s[i + 1]
  BY <1>2, HeadTailProperties
<1> QED BY <1>1, <1>2, <1>3, <1>4

LEMMA RemovePlaces ==
    ASSUME NEW S, NEW s \in Seq(S), NEW i \in DOMAIN s
    PROVE  /\ RemoveAt(s, i) \in Seq(S) /\ DOMAIN RemoveAt(s, i) = 1..(Len(s) - 1)
           /\ DOMAIN s = 1..Len(s) /\ Len(s) \in Nat
           /\ \A j \in 1..(Len(s) - 1) : RemoveAt(s, i)[j] = IF j < i THEN s[j] ELSE s[j + 1]
<1> DEFINE front == SubSeq(s, 1, i - 1)
           back == SubSeq(s, i + 1, Len(s))
<1>1. Len(s) \in Nat /\ DOMAIN s = 1..Len(s) /\ i \in 1..Len(s) /\ i - 1 \in Int /\ i + 1 \in Int
  BY LenProperties
<1>2. \A j \in 1..Len(s) : s[j] \in S
  BY ElementOfSeq
<1>3. /\ front \in Seq(S) /\ Len(front) = i - 1
      /\ \A j \in 1..(i - 1) : front[j] = s[j]
  <2>1. \A j \in 1..(i - 1) : s[j] \in S
    BY <1>1, <1>2
  <2>2. /\ front \in Seq(S)
        /\ Len(front) = IF 1 <= i - 1 THEN (i - 1) - 1 + 1 ELSE 0
        /\ \A j \in 1..((i - 1) - 1 + 1) : front[j] = s[1 + j - 1]
    BY <1>1, <2>1, SubSeqProperties
  <2> HIDE DEF front
  <2> QED BY <1>1, <2>2
<1>4. /\ back \in Seq(S) /\ Len(back) = Len(s) - i
      /\ \A j \in 1..(Len(s) - i) : back[j] = s[i + j]
  <2>1. \A j \in (i + 1)..Len(s) : s[j] \in S
    BY <1>1, <1>2
  <2>2. /\ back \in Seq(S)
        /\ Len(back) = IF i + 1 <= Len(s) THEN Len(s) - (i + 1) + 1 ELSE 0
        /\ \A j \in 1..(Len(s) - (i + 1) + 1) : back[j] = s[(i + 1) + j - 1]
    BY <1>1, <2>1, SubSeqProperties
  <2> HIDE DEF back
  <2>3. \A j \in 1..(Len(s) - i) : (i + 1) + j - 1 = i + j
    BY <1>1
  <2> QED BY <1>1, <2>2, <2>3
<1>5. RemoveAt(s, i) = front \o back
  BY DEF RemoveAt
<1> HIDE DEF front, back
<1>6. /\ front \o back \in Seq(S) /\ Len(front \o back) = Len(s) - 1
      /\ \A j \in 1..(Len(s) - 1) :
            (front \o back)[j] = IF j <= i - 1 THEN front[j] ELSE back[j - (i - 1)]
  <2>1. /\ front \o back \in Seq(S) /\ Len(front \o back) = Len(front) + Len(back)
        /\ \A j \in 1..(Len(front) + Len(back)) : (front \o back)[j] =
              IF j <= Len(front) THEN front[j] ELSE back[j - Len(front)]
    BY <1>3, <1>4, ConcatProperties
  <2>2. Len(front) = i - 1 /\ Len(front) + Len(back) = Len(s) - 1
    BY <1>1, <1>3, <1>4
  <2> QED BY <2>1, <2>2
<1>7. DOMAIN (front \o back) = 1..(Len(s) - 1)
  BY <1>6, LenProperties
<1>8. ASSUME NEW j \in 1..(Len(s) - 1)
      PROVE  (front \o back)[j] = IF j < i THEN s[j] ELSE s[j + 1]
  <2>1. CASE j < i
    <3>1. j <= i - 1 /\ j \in 1..(i - 1)
      BY <1>1, <1>8, <2>1
    <3> QED BY <1>3, <1>6, <1>8, <2>1, <3>1
  <2>2. CASE ~(j < i)
    <3>1. ~(j <= i - 1) /\ j - (i - 1) \in 1..(Len(s) - i) /\ i + (j - (i - 1)) = j + 1
      BY <1>1, <1>8, <2>2
    <3> QED BY <1>4, <1>6, <1>8, <2>2, <3>1
  <2> QED BY <2>1, <2>2
<1> QED BY <1>1, <1>5, <1>6, <1>7, <1>8

\* A set of numbers has a smallest one
LEMMA Smallest ==
    ASSUME NEW S \in SUBSET Nat, S # {}
    PROVE  \E x \in S : \A y \in S : x <= y
<1> DEFINE Below == {p \in Nat \X Nat : p[1] < p[2]}
<1>1. IsWellFoundedOn(Below, Nat)
  BY NatLessThanWellFounded DEF OpToRel
<1>2. PICK x \in S : \A y \in S : <<y, x>> \notin Below
  <2> HIDE DEF Below
  <2> QED BY <1>1, WFMin
<1>3. \A y \in S : ~(y < x)
  BY <1>2
<1> QED BY <1>3

\* Whatever is removed, the others are still there
LEMMA RemoveKeeps ==
    ASSUME NEW S, NEW s \in Seq(S), NEW i \in DOMAIN s, NEW p \in DOMAIN s, p # i
    PROVE  \E q \in DOMAIN RemoveAt(s, i) : RemoveAt(s, i)[q] = s[p]
<1> DEFINE t == RemoveAt(s, i)
<1>1. /\ DOMAIN t = 1..(Len(s) - 1) /\ p \in 1..Len(s) /\ i \in 1..Len(s) /\ Len(s) \in Nat
      /\ \A j \in 1..(Len(s) - 1) : t[j] = IF j < i THEN s[j] ELSE s[j + 1]
  BY RemovePlaces
<1> HIDE DEF t
<1>2. CASE p < i
  <2>1. p \in DOMAIN t /\ t[p] = s[p]
    BY <1>1, <1>2
  <2> QED BY <2>1 DEF t
<1>3. CASE p > i
  <2>1. p - 1 \in DOMAIN t /\ ~(p - 1 < i) /\ (p - 1) + 1 = p
    BY <1>1, <1>3
  <2>2. t[p - 1] = s[p]
    BY <1>1, <2>1
  <2> QED BY <2>1, <2>2 DEF t
<1> QED BY <1>1, <1>2, <1>3

-----------------------------------------------------------------------------
(* Order                                                                   *)

\* Within a type, events are in an order they may come in
Rising(s) ==
    \A i, j \in DOMAIN s : i < j /\ s[i].type = s[j].type => MayPrecede(s[i], s[j])

\* Everything of its type in s may come before e
Prior(s, e) == \A i \in DOMAIN s : s[i].type = e.type => MayPrecede(s[i], e)

\* And everything in s before everything in u
Before(s, u) == \A i \in DOMAIN u : Prior(s, u[i])

LEMMA RisingAppend ==
    ASSUME NEW s \in Seq(Event), NEW e \in Event, Rising(s), Prior(s, e)
    PROVE  Rising(Append(s, e))
BY AppendPlaces DEF Rising, Prior

LEMMA RisingTail ==
    ASSUME NEW s \in Seq(Event), s # <<>>, Rising(s)
    PROVE  /\ Rising(Tail(s))
           /\ \A i \in DOMAIN Tail(s) :
                 Tail(s)[i].type = Head(s).type => MayPrecede(Head(s), Tail(s)[i])
BY TailPlaces DEF Rising

LEMMA PriorAppend ==
    ASSUME NEW s \in Seq(Event), NEW e \in Event, NEW d \in Event,
           Prior(s, d), e.type = d.type => MayPrecede(e, d)
    PROVE  Prior(Append(s, e), d)
BY AppendPlaces DEF Prior

LEMMA PriorTail ==
    ASSUME NEW s \in Seq(Event), s # <<>>, NEW d, Prior(s, d)
    PROVE  Prior(Tail(s), d)
BY TailPlaces DEF Prior

-----------------------------------------------------------------------------
(* The bus                                                                 *)

Subscription == [client : Clients, id : Clock]
Pump == [pc : {"none", "subscribe", "welcome", "loop", "unsubscribe", "gone"},
         ids : Seq(Clock), peer : BOOLEAN, reading : BOOLEAN]

\* Types, and the size of the buffers
BusTyped ==
    /\ published \in [EventTypes -> Nat]
    /\ subscribers \in [EventTypes -> Seq(Subscription)]
    /\ ch \in [Clients -> [EventTypes -> Seq(Event)]]
    /\ quit \in [Clients -> SUBSET EventTypes] /\ forwarders \in [Clients -> SUBSET EventTypes]
    /\ eventCh \in [Clients -> Seq(Event)] /\ delivered \in [Clients -> Seq(Event)]
    /\ pump \in [Clients -> Pump] /\ distinct \in BOOLEAN
    /\ \A c \in Clients :
          /\ Len(pump[c].ids) <= Len(WsEventTypes) /\ Len(eventCh[c]) <= ChanSize
          /\ pump[c].pc = "none" => Len(pump[c].ids) = 0
          /\ \A t \in EventTypes : Len(ch[c][t]) <= BufferSize

\* A publication holds an event that has its number, and has a subscription to send it to
Publication(p) ==
    /\ p.event \in Event /\ p.event.n <= published[p.event.type]
    /\ p.next \in DOMAIN subscribers[p.event.type]

PublicationsTyped == \A p \in publishing : Publication(p)

\* Every event of s has been numbered
Numbered(s) == \A i \in DOMAIN s : s[i].n <= published[s[i].type]

\* On the way from the bus to the client events of a type keep an order they may come in ...
Ordered(c) ==
    /\ Rising(delivered[c]) /\ Rising(eventCh[c]) /\ Before(delivered[c], eventCh[c])
    /\ Numbered(delivered[c]) /\ Numbered(eventCh[c])
    /\ \A t \in EventTypes :
          /\ \A i \in DOMAIN ch[c][t] : ch[c][t][i].type = t
          /\ Rising(ch[c][t]) /\ Before(delivered[c], ch[c][t]) /\ Before(eventCh[c], ch[c][t])
          /\ Numbered(ch[c][t])

\* ... e may come after all of them ...
Awaits(c, e) ==
    Prior(delivered[c], e) /\ Prior(eventCh[c], e) /\ Prior(ch[c][e.type], e)

\* ... as those may that are still to be sent to the client ...
SentInOrder ==
    \A p \in publishing : \A i \in DOMAIN subscribers[p.event.type] :
        i >= p.next => Awaits(subscribers[p.event.type][i].client, p.event)

\* ... and publications under way may come in any order
Overlapping ==
    \A p, q \in publishing :
        p # q /\ p.event.type = q.event.type => MayPrecede(p.event, q.event)

BusOrdered == (\A c \in Clients : Ordered(c)) /\ SentInOrder /\ Overlapping

\* No client is on the list of a type twice, and on that of a type it has still to subscribe to
\* it is not at all
ListedOnce ==
    \A t \in EventTypes : \A i, j \in DOMAIN subscribers[t] :
        subscribers[t][i].client = subscribers[t][j].client => i = j

ListedLater ==
    \A t \in EventTypes : \A i \in DOMAIN subscribers[t] :
        LET c == subscribers[t][i].client IN
        /\ pump[c].pc # "none"
        /\ pump[c].pc = "subscribe" => \E k \in 1..Len(pump[c].ids) : WsEventTypes[k] = t

BusListed == ListedOnce /\ ListedLater

\* A client's step, the beginning of a publication, or one of its steps
BusStep ==
    \/ \E c \in Clients : ClientNext(c)
    \/ \E t \in EventTypes : \E by : Publish(t, by)
    \/ \E p \in publishing : Send(p)

LEMMA BusNumbers ==
    /\ WsEventTypes \in Seq(EventTypes) /\ Len(WsEventTypes) \in Nat
    /\ DOMAIN WsEventTypes = 1..Len(WsEventTypes)
    /\ \A i \in 1..Len(WsEventTypes) : WsEventTypes[i] \in EventTypes
    /\ \A i, j \in 1..Len(WsEventTypes) : WsEventTypes[i] = WsEventTypes[j] => i = j
    /\ BufferSize \in Nat \ {0} /\ ChanSize \in Nat \ {0} /\ Clock \subseteq Nat
    /\ ToSet(WsEventTypes) \subseteq EventTypes
BY EventBusAssumption, LenProperties, ElementOfSeq DEF EventBusAssumption, IsInjective, ToSet

\* The subscription that is found has the name that is looked for
LEMMA FoundNamed ==
    ASSUME BusTyped, NEW t \in EventTypes, NEW id
    PROVE  /\ Found(t, id) \in Nat
           /\ Found(t, id) # 0 => /\ Found(t, id) \in DOMAIN subscribers[t]
                                 /\ subscribers[t][Found(t, id)].id = id
           /\ Named(t, id) # {} => Found(t, id) # 0
<1>1. subscribers[t] \in Seq(Subscription)
  BY DEF BusTyped
<1>2. Named(t, id) \subseteq Nat \ {0}
  BY <1>1, LenProperties DEF Named
<1>3. CASE Named(t, id) = {}
  BY <1>3 DEF Found
<1>4. CASE Named(t, id) # {}
  <2>1. \E i \in Named(t, id) : \A j \in Named(t, id) : i <= j
    BY <1>2, <1>4, Smallest
  <2>2. Found(t, id) \in Named(t, id)
    BY <1>4, <2>1 DEF Found
  <2> QED BY <1>2, <2>2 DEF Named
<1> QED BY <1>3, <1>4

\* Subscriptions are those of clients
LEMMA ListTyped ==
    ASSUME BusTyped, NEW t \in EventTypes
    PROVE  /\ subscribers[t] \in Seq(Subscription) /\ Len(subscribers[t]) \in Nat
           /\ DOMAIN subscribers[t] = 1..Len(subscribers[t])
           /\ \A i \in DOMAIN subscribers[t] : subscribers[t][i].client \in Clients
<1>1. subscribers[t] \in Seq(Subscription)
  BY DEF BusTyped
<1>2. DOMAIN subscribers[t] = 1..Len(subscribers[t]) /\ Len(subscribers[t]) \in Nat
  BY <1>1, LenProperties
<1>3. \A i \in DOMAIN subscribers[t] : subscribers[t][i] \in Subscription
  BY <1>1, <1>2, ElementOfSeq
<1>4. \A i \in DOMAIN subscribers[t] : subscribers[t][i].client \in Clients
  BY <1>3 DEF Subscription
<1> QED BY <1>1, <1>2, <1>4

\* The event of a new publication
LEMMA NewEvent ==
    ASSUME BusTyped, PublicationsTyped, NEW t \in EventTypes, NEW by, Publish(t, by)
    PROVE  \E e \in Event :
              /\ e.type = t /\ e.n = published[t] + 1
              /\ \A p \in publishing : p.event.type = t => p.event.n \in e.during
              /\ published' = [published EXCEPT ![t] = @ + 1] /\ published[t] \in Nat
              /\ \/ publishing' = publishing
                 \/ /\ publishing' = publishing \cup {[by |-> by, event |-> e, next |-> 1]}
                    /\ subscribers[t] # <<>>
              /\ UNCHANGED bus
<1> DEFINE during == {p.event.n : p \in {q \in publishing : q.event.type = t}}
           e == [type |-> t, n |-> published[t] + 1, during |-> during]
<1>1. published \in [EventTypes -> Nat]
  BY DEF BusTyped
<1>2. \A p \in publishing : p.event.n \in Nat
  BY DEF PublicationsTyped, Publication, Event
<1>3. during \subseteq Nat /\ \A p \in publishing : p.event.type = t => p.event.n \in during
  BY <1>2
<1>4. /\ published' = [published EXCEPT ![t] = @ + 1] /\ UNCHANGED bus
      /\ publishing' = IF subscribers[t] = <<>> THEN publishing
                       ELSE publishing \cup {[by |-> by, event |-> e, next |-> 1]}
  BY DEF Publish
<1> HIDE DEF during
<1>5. e \in Event /\ e.type = t /\ e.n = published[t] + 1 /\ e.during = during
  BY <1>1, <1>3 DEF Event
<1> HIDE DEF e
<1> QED BY <1>1, <1>3, <1>4, <1>5

LEMMA PublishTyped ==
    ASSUME BusTyped, PublicationsTyped, NEW t \in EventTypes, NEW by, Publish(t, by)
    PROVE  BusTyped' /\ PublicationsTyped'
<1>1. PICK e \in Event :
         /\ e.type = t /\ e.n = published[t] + 1
         /\ published' = [published EXCEPT ![t] = @ + 1] /\ published[t] \in Nat
         /\ \/ publishing' = publishing
            \/ /\ publishing' = publishing \cup {[by |-> by, event |-> e, next |-> 1]}
               /\ subscribers[t] # <<>>
         /\ UNCHANGED bus
  BY NewEvent
<1>2. BusTyped'
  BY <1>1 DEF BusTyped, bus
<1>3. ASSUME NEW p \in publishing PROVE Publication(p)'
  <2>1. /\ Publication(p) /\ p.event.type \in EventTypes /\ p.event.n \in Nat
        /\ published[p.event.type] \in Nat
    BY DEF PublicationsTyped, Publication, Event, BusTyped
  <2>2. published[p.event.type] <= published'[p.event.type] /\ published'[p.event.type] \in Nat
    BY <1>1, <2>1 DEF BusTyped
  <2>3. subscribers' = subscribers
    BY <1>1 DEF bus
  <2> QED BY <2>1, <2>2, <2>3 DEF Publication
<1>4. ASSUME subscribers[t] # <<>>
      PROVE  Publication([by |-> by, event |-> e, next |-> 1])'
  <2>1. 1 \in DOMAIN subscribers[t]
    BY <1>4, EmptySeq, LenProperties DEF BusTyped
  <2>2. published'[t] = published[t] + 1 /\ subscribers' = subscribers
    BY <1>1 DEF BusTyped, bus
  <2> QED BY <1>1, <2>1, <2>2 DEF Publication
<1> QED BY <1>1, <1>2, <1>3, <1>4 DEF PublicationsTyped

\* What sending an event to the next subscription does
LEMMA SendStep ==
    ASSUME BusTyped, PublicationsTyped, NEW p \in publishing, Send(p)
    PROVE  \E t \in EventTypes, c \in Clients, e \in Event :
              /\ e = p.event /\ t = e.type /\ p.next \in DOMAIN subscribers[t]
              /\ c = subscribers[t][p.next].client
              /\ \/ ch' = ch
                 \/ /\ Len(ch[c][t]) < BufferSize
                    /\ ch' = [ch EXCEPT ![c] = [ch[c] EXCEPT ![t] = Append(ch[c][t], e)]]
              /\ publishing' = (publishing \ {p}) \cup
                     IF p.next = Len(subscribers[t]) THEN {}
                     ELSE {[by |-> p.by, event |-> e, next |-> p.next + 1]}
              /\ UNCHANGED <<published, subscribers, quit, forwarders, eventCh, pump, delivered,
                             distinct>>
<1>1. p.event \in Event /\ p.event.type \in EventTypes
      /\ p.next \in DOMAIN subscribers[p.event.type]
  BY DEF PublicationsTyped, Publication, Event
<1>2. subscribers[p.event.type] \in Seq(Subscription)
  BY <1>1 DEF BusTyped
<1>3. subscribers[p.event.type][p.next] \in Subscription
  BY <1>1, <1>2, ElementOfSeq, LenProperties
<1>4. subscribers[p.event.type][p.next].client \in Clients
  BY <1>3 DEF Subscription
<1> QED BY <1>1, <1>4 DEF Send, BusTyped

LEMMA SendTyped ==
    ASSUME BusTyped, PublicationsTyped, NEW p \in publishing, Send(p)
    PROVE  BusTyped' /\ PublicationsTyped'
<1>1. PICK t \in EventTypes, c \in Clients, e \in Event :
         /\ e = p.event /\ t = e.type /\ p.next \in DOMAIN subscribers[t]
         /\ \/ ch' = ch
            \/ /\ Len(ch[c][t]) < BufferSize
               /\ ch' = [ch EXCEPT ![c] = [ch[c] EXCEPT ![t] = Append(ch[c][t], e)]]
         /\ publishing' = (publishing \ {p}) \cup
                IF p.next = Len(subscribers[t]) THEN {}
                ELSE {[by |-> p.by, event |-> e, next |-> p.next + 1]}
         /\ UNCHANGED <<published, subscribers, quit, forwarders, eventCh, pump, delivered,
                        distinct>>
  BY SendStep
<1>2. /\ Append(ch[c][t], e) \in Seq(Event)
      /\ Len(Append(ch[c][t], e)) = Len(ch[c][t]) + 1 /\ Len(ch[c][t]) \in Nat
  BY AppendPlaces DEF BusTyped
<1>3. Len(ch[c][t]) < BufferSize => Len(ch[c][t]) + 1 <= BufferSize
  BY <1>2, BusNumbers
<1>4. /\ ch' \in [Clients -> [EventTypes -> Seq(Event)]]
      /\ \A d \in Clients : \A u \in EventTypes : Len(ch'[d][u]) <= BufferSize
  <2>1. CASE ch' = ch
    BY <2>1 DEF BusTyped
  <2>2. PICK l : l = Append(ch[c][t], e)
    OBVIOUS
  <2>3. CASE Len(ch[c][t]) < BufferSize /\ ch' = [ch EXCEPT ![c] = [ch[c] EXCEPT ![t] = l]]
    <3>1. l \in Seq(Event) /\ Len(l) <= BufferSize
      BY <1>2, <1>3, <2>2, <2>3
    <3> QED BY <2>3, <3>1 DEF BusTyped
  <2> QED BY <1>1, <2>1, <2>2, <2>3
<1>5. BusTyped'
  BY <1>1, <1>4 DEF BusTyped
<1>6. \A q \in publishing : Publication(q)'
  BY <1>1 DEF PublicationsTyped, Publication
<1>7. p.next # Len(subscribers[t]) =>
         Publication([by |-> p.by, event |-> e, next |-> p.next + 1])'
  <2>1. subscribers[t] \in Seq(Subscription)
    BY DEF BusTyped
  <2>2. DOMAIN subscribers[t] = 1..Len(subscribers[t]) /\ Len(subscribers[t]) \in Nat
    BY <2>1, LenProperties
  <2>3. p.next # Len(subscribers[t]) => p.next + 1 \in DOMAIN subscribers[t]
    BY <1>1, <2>2
  <2>4. e.n <= published[t]
    BY <1>1 DEF PublicationsTyped, Publication
  <2> QED BY <1>1, <2>3, <2>4 DEF Publication
<1>8. PublicationsTyped'
  BY <1>1, <1>6, <1>7 DEF PublicationsTyped
<1> QED BY <1>5, <1>8

\* While something is being published nobody is put on a list or taken off
LEMMA ClientLeaves ==
    ASSUME NEW c \in Clients, ClientNext(c)
    PROVE  /\ UNCHANGED <<published, publishing>>
           /\ publishing = {} \/ UNCHANGED subscribers
BY DEF ClientNext, Serving, Writing, Upgrade, PeerGone, Subscribe, StartPumps, ReadPump, Welcome,
       Deliver, Done, Unsubscribe, CloseConn, Ping, Forward, ForwarderEnds

\* A step that subscribes to nothing and ends no subscription moves the client's pump on
LEMMA PumpMoves ==
    ASSUME BusTyped, NEW c \in Clients,
           Upgrade(c) \/ PeerGone(c) \/ ReadPump(c) \/ Welcome(c) \/ Ping(c) \/ Done(c)
             \/ CloseConn(c) \/ StartPumps(c) \/ Deliver(c)
    PROVE  /\ pump' \in [Clients -> Pump] /\ pump'[c].ids = pump[c].ids
           /\ \A d \in Clients : d # c => pump'[d] = pump[d]
           /\ \/ pump'[c].pc = pump[c].pc
              \/ pump'[c].pc = "subscribe" /\ pump[c].pc = "none"
              \/ /\ pump'[c].pc = "welcome" /\ pump[c].pc = "subscribe" /\ StartPumps(c)
                 /\ Len(pump[c].ids) = Len(WsEventTypes)
              \/ pump'[c].pc = "loop" /\ pump[c].pc = "welcome"
              \/ pump'[c].pc = "unsubscribe" /\ pump[c].pc \in {"welcome", "loop"}
              \/ pump'[c].pc = "gone" /\ pump[c].ids = <<>>
           /\ UNCHANGED <<published, subscribers, ch, quit, distinct>>
<1>0. pump[c] \in Pump /\ pump \in [Clients -> Pump]
  BY DEF BusTyped
<1>1. ASSUME NEW pc \in {"loop", "unsubscribe", "gone"}, pump' = [pump EXCEPT ![c].pc = pc]
      PROVE  /\ pump' \in [Clients -> Pump] /\ pump'[c].ids = pump[c].ids
             /\ pump'[c].pc = pc /\ \A d \in Clients : d # c => pump'[d] = pump[d]
  BY <1>0, <1>1 DEF Pump
<1>2. CASE Upgrade(c)
  BY <1>0, <1>2 DEF Upgrade, Pump
<1>3. CASE PeerGone(c)
  BY <1>0, <1>3 DEF PeerGone, Pump
<1>4. CASE ReadPump(c)
  BY <1>0, <1>4 DEF ReadPump, Pump
<1>5. CASE StartPumps(c)
  BY <1>0, <1>5 DEF StartPumps, Pump
<1>6. CASE Welcome(c)
  <2>1. PICK pc \in {"loop", "unsubscribe"} : pump' = [pump EXCEPT ![c].pc = pc]
    BY <1>6 DEF Welcome
  <2> QED BY <1>1, <1>6, <2>1 DEF Welcome
<1>7. CASE Ping(c) \/ Done(c)
  BY <1>1, <1>7 DEF Ping, Done
<1>8. CASE CloseConn(c)
  BY <1>1, <1>8 DEF CloseConn
<1>9. CASE Deliver(c)
  <2>1. \/ pump' = pump
        \/ pump' = [pump EXCEPT ![c].pc = "unsubscribe"]
    BY <1>9 DEF Deliver
  <2> QED BY <1>0, <1>1, <1>9, <2>1 DEF Deliver
<1> QED BY <1>2, <1>3, <1>4, <1>5, <1>6, <1>7, <1>8, <1>9

LEMMA ClientTyped ==
    ASSUME BusTyped, NEW c \in Clients, ClientNext(c)
    PROVE  BusTyped'
<1>0. /\ pump[c] \in Pump /\ pump \in [Clients -> Pump]
      /\ pump[c].ids \in Seq(Clock) /\ Len(pump[c].ids) \in Nat
      /\ Len(pump[c].ids) <= Len(WsEventTypes) /\ (pump[c].pc = "none" => Len(pump[c].ids) = 0)
  BY LenProperties DEF BusTyped, Pump
<1>1. ASSUME Upgrade(c) \/ PeerGone(c) \/ ReadPump(c) \/ Welcome(c) \/ Ping(c) \/ Done(c)
             \/ CloseConn(c) \/ StartPumps(c)
      PROVE  BusTyped'
  <2>1. /\ UNCHANGED <<published, subscribers, ch, quit, eventCh, delivered, distinct>>
        /\ forwarders' \in [Clients -> SUBSET EventTypes]
    <3>1. CASE StartPumps(c)
      BY <3>1, BusNumbers DEF StartPumps, BusTyped
    <3>2. CASE ~StartPumps(c)
      BY <1>1, <3>2 DEF Upgrade, PeerGone, ReadPump, Welcome, Ping, Done, CloseConn, BusTyped
    <3> QED BY <3>1, <3>2
  <2> QED BY <1>1, <2>1, PumpMoves DEF BusTyped
\* One name more, or one less
<1>2. ASSUME NEW ids \in Seq(Clock), Len(ids) <= Len(WsEventTypes),
             pump[c].pc # "none",
             pump' = [pump EXCEPT ![c].ids = ids],
             UNCHANGED <<published, ch, forwarders, eventCh, delivered, distinct>>,
             subscribers' \in [EventTypes -> Seq(Subscription)],
             quit' \in [Clients -> SUBSET EventTypes]
      PROVE  BusTyped'
  <2>1. /\ pump' \in [Clients -> Pump] /\ pump'[c].ids = ids /\ pump'[c].pc = pump[c].pc
        /\ \A d \in Clients : d # c => pump'[d] = pump[d]
    BY <1>0, <1>2 DEF Pump
  <2> QED BY <1>2, <2>1 DEF BusTyped
<1>3. CASE Subscribe(c)
  <2> DEFINE k == Len(pump[c].ids) + 1
             t == WsEventTypes[k]
  <2>1. PICK id \in Clock :
           /\ subscribers' = [subscribers EXCEPT ![t] = Append(@, [client |-> c, id |-> id])]
           /\ pump' = [pump EXCEPT ![c].ids = Append(@, id)]
    BY <1>3 DEF Subscribe
  <2>2. /\ k \in 1..Len(WsEventTypes) /\ t \in EventTypes /\ pump[c].pc # "none"
        /\ UNCHANGED <<published, ch, quit, forwarders, eventCh, delivered, distinct>>
    BY <1>3, BusNumbers DEF Subscribe
  <2>3. [client |-> c, id |-> id] \in Subscription
    BY DEF Subscription
  <2>4. Append(subscribers[t], [client |-> c, id |-> id]) \in Seq(Subscription)
    BY <2>2, <2>3, AppendPlaces DEF BusTyped
  <2>5. subscribers' \in [EventTypes -> Seq(Subscription)]
    BY <2>1, <2>2, <2>4 DEF BusTyped
  <2>6. Append(pump[c].ids, id) \in Seq(Clock) /\ Len(Append(pump[c].ids, id)) = k
    BY <1>0, AppendPlaces
  <2>7. Len(Append(pump[c].ids, id)) <= Len(WsEventTypes)
    BY <2>2, <2>6, BusNumbers
  <2>8. quit' \in [Clients -> SUBSET EventTypes]
    BY <2>2 DEF BusTyped
  <2> QED BY <1>2, <2>1, <2>2, <2>5, <2>6, <2>7, <2>8
<1>4. CASE Unsubscribe(c)
  <2> DEFINE t == WsEventTypes[Len(WsEventTypes) - Len(pump[c].ids) + 1]
             i == Found(t, Head(pump[c].ids))
  <2>1. /\ pump[c].ids # <<>> /\ pump[c].pc = "unsubscribe"
        /\ pump' = [pump EXCEPT ![c].ids = Tail(@)]
        /\ \/ i = 0 /\ UNCHANGED <<quit, subscribers>>
           \/ /\ i # 0
              /\ quit' = [quit EXCEPT ![subscribers[t][i].client] = @ \cup {t}]
              /\ subscribers' = [subscribers EXCEPT ![t] = RemoveAt(@, i)]
        /\ UNCHANGED <<published, ch, forwarders, eventCh, delivered, distinct>>
    BY <1>4 DEF Unsubscribe
  <2>2. /\ Tail(pump[c].ids) \in Seq(Clock) /\ Len(Tail(pump[c].ids)) <= Len(WsEventTypes)
        /\ Len(pump[c].ids) \in Nat \ {0}
    <3>1. /\ Tail(pump[c].ids) \in Seq(Clock) /\ Len(pump[c].ids) \in Nat \ {0}
          /\ Len(Tail(pump[c].ids)) = Len(pump[c].ids) - 1
      BY <1>0, <2>1, TailPlaces
    <3> QED BY <1>0, <3>1, BusNumbers
  <2>3. t \in EventTypes
    <3>1. Len(WsEventTypes) - Len(pump[c].ids) + 1 \in 1..Len(WsEventTypes)
      BY <1>0, <2>2, BusNumbers
    <3> QED BY <3>1, BusNumbers
  <2> HIDE DEF t
  <2>4. i # 0 => i \in DOMAIN subscribers[t]
    BY <2>3, FoundNamed
  <2> HIDE DEF i
  <2>5. /\ subscribers' \in [EventTypes -> Seq(Subscription)]
        /\ quit' \in [Clients -> SUBSET EventTypes]
    <3>1. CASE i = 0
      BY <2>1, <3>1 DEF BusTyped
    <3>2. CASE i # 0
      <4>1. RemoveAt(subscribers[t], i) \in Seq(Subscription)
        BY <2>3, <2>4, <3>2, RemovePlaces DEF BusTyped
      <4>2. subscribers' \in [EventTypes -> Seq(Subscription)]
        BY <2>1, <2>3, <3>2, <4>1 DEF BusTyped
      <4>3. quit' \in [Clients -> SUBSET EventTypes]
        <5>1. subscribers[t] \in Seq(Subscription)
          BY <2>3 DEF BusTyped
        <5>2. subscribers[t][i] \in Subscription
          BY <2>4, <3>2, <5>1, ElementOfSeq, LenProperties
        <5>3. subscribers[t][i].client \in Clients
          BY <5>2 DEF Subscription
        <5>4. quit' = [quit EXCEPT ![subscribers[t][i].client] = @ \cup {t}]
          BY <2>1, <3>2
        <5> QED BY <2>3, <5>3, <5>4 DEF BusTyped
      <4> QED BY <4>2, <4>3
    <3> QED BY <3>1, <3>2
  <2> QED BY <1>2, <2>1, <2>2, <2>5
<1>5. CASE Deliver(c)
  <2>1. /\ eventCh[c] # <<>> /\ eventCh[c] \in Seq(Event) /\ delivered[c] \in Seq(Event)
        /\ pump[c].pc = "loop"
        /\ UNCHANGED <<published, subscribers, ch, quit, forwarders, distinct>>
    BY <1>5 DEF Deliver, BusTyped
  <2>2. /\ Tail(eventCh[c]) \in Seq(Event) /\ Len(Tail(eventCh[c])) <= Len(eventCh[c])
        /\ Head(eventCh[c]) \in Event
    BY <2>1, TailPlaces
  <2>3. Len(Tail(eventCh[c])) <= ChanSize
    BY <2>1, <2>2, TailPlaces, BusNumbers DEF BusTyped
  <2>4. Append(delivered[c], Head(eventCh[c])) \in Seq(Event)
    BY <2>1, <2>2, AppendPlaces
  <2>5. delivered' \in [Clients -> Seq(Event)]
    BY <1>5, <2>4 DEF Deliver, BusTyped
  <2>6. /\ eventCh' \in [Clients -> Seq(Event)]
        /\ \A d \in Clients : Len(eventCh'[d]) <= ChanSize
    BY <1>5, <2>2, <2>3 DEF Deliver, BusTyped
  <2>7. /\ pump' \in [Clients -> Pump] /\ \A d \in Clients : pump'[d].ids = pump[d].ids
        /\ \A d \in Clients : pump'[d].pc = "none" => pump[d].pc = "none"
    BY <1>5, PumpMoves
  <2> QED BY <2>1, <2>5, <2>6, <2>7 DEF BusTyped
<1>6. ASSUME NEW t \in EventTypes, Forward(c, t) PROVE BusTyped'
  <2>1. /\ ch[c][t] # <<>> /\ ch[c][t] \in Seq(Event) /\ eventCh[c] \in Seq(Event)
        /\ ch' = [ch EXCEPT ![c] = [ch[c] EXCEPT ![t] = Tail(ch[c][t])]]
        /\ UNCHANGED <<published, subscribers, quit, forwarders, pump, delivered, distinct>>
    BY <1>6 DEF Forward, BusTyped
  <2>2. /\ Tail(ch[c][t]) \in Seq(Event) /\ Len(Tail(ch[c][t])) <= BufferSize
        /\ Head(ch[c][t]) \in Event
    BY <2>1, TailPlaces, BusNumbers DEF BusTyped
  <2>3. /\ ch' \in [Clients -> [EventTypes -> Seq(Event)]]
        /\ \A d \in Clients : \A u \in EventTypes : Len(ch'[d][u]) <= BufferSize
    BY <2>1, <2>2 DEF BusTyped
  <2>4. /\ eventCh' \in [Clients -> Seq(Event)]
        /\ \A d \in Clients : Len(eventCh'[d]) <= ChanSize
    <3> DEFINE e == IF Len(eventCh[c]) < ChanSize THEN Append(eventCh[c], Head(ch[c][t]))
                    ELSE eventCh[c]
    <3>1. eventCh' = [eventCh EXCEPT ![c] = e]
      BY <1>6 DEF Forward
    <3>2. e \in Seq(Event) /\ Len(e) <= ChanSize
      BY <2>1, <2>2, AppendPlaces, BusNumbers DEF BusTyped
    <3> HIDE DEF e
    <3> QED BY <3>1, <3>2 DEF BusTyped
  <2> QED BY <2>1, <2>3, <2>4 DEF BusTyped
<1>7. ASSUME NEW t \in EventTypes, ForwarderEnds(c, t) PROVE BusTyped'
  BY <1>7 DEF ForwarderEnds, BusTyped
<1> QED BY <1>1, <1>3, <1>4, <1>5, <1>6, <1>7 DEF ClientNext, Serving, Writing

\* A new publication comes after all that are on their way, and overlaps with those under way
LEMMA PublishOrdered ==
    ASSUME BusTyped, PublicationsTyped, BusOrdered, NEW t \in EventTypes, NEW by, Publish(t, by)
    PROVE  BusOrdered'
<1>1. PICK e \in Event :
         /\ e.type = t /\ e.n = published[t] + 1
         /\ \A p \in publishing : p.event.type = t => p.event.n \in e.during
         /\ published' = [published EXCEPT ![t] = @ + 1] /\ published[t] \in Nat
         /\ \/ publishing' = publishing
            \/ /\ publishing' = publishing \cup {[by |-> by, event |-> e, next |-> 1]}
               /\ subscribers[t] # <<>>
         /\ UNCHANGED bus
  BY NewEvent
<1> DEFINE new == [by |-> by, event |-> e, next |-> 1]
<1>2. \A u \in EventTypes :
         published'[u] \in Nat /\ published[u] \in Nat /\ published[u] <= published'[u]
  BY <1>1 DEF BusTyped
<1>3. ASSUME NEW s \in Seq(Event), Numbered(s)
      PROVE  Numbered(s)' /\ Prior(s, e)
  <2>1. ASSUME NEW i \in DOMAIN s
        PROVE  /\ s[i].n <= published'[s[i].type]
               /\ s[i].type = t => s[i].n < e.n /\ s[i].n # e.n
    <3>1. s[i] \in Event
      BY LenProperties, ElementOfSeq
    <3>2. s[i].type \in EventTypes /\ s[i].n \in Nat /\ s[i].n <= published[s[i].type]
      BY <1>3, <3>1 DEF Event, Numbered
    <3> QED BY <1>1, <1>2, <3>2
  <2> QED BY <1>1, <2>1 DEF Numbered, Prior, MayPrecede
<1>4. ASSUME NEW c \in Clients PROVE Ordered(c)' /\ Awaits(c, e)
  <2>1. Ordered(c) /\ delivered[c] \in Seq(Event) /\ eventCh[c] \in Seq(Event)
        /\ \A u \in EventTypes : ch[c][u] \in Seq(Event)
    BY DEF BusOrdered, BusTyped
  <2>2. /\ Numbered(delivered[c])' /\ Numbered(eventCh[c])'
        /\ \A u \in EventTypes : Numbered(ch[c][u])'
    BY <1>1, <1>3, <2>1 DEF Ordered, bus, Numbered
  <2>3. Prior(delivered[c], e) /\ Prior(eventCh[c], e) /\ Prior(ch[c][t], e)
    BY <1>3, <2>1 DEF Ordered
  <2> QED BY <1>1, <2>1, <2>2, <2>3 DEF Ordered, Awaits, bus
<1>5. \A d, f : Awaits(d, f)' <=> Awaits(d, f)
  BY <1>1 DEF Awaits, bus
<1>6. \A i \in DOMAIN subscribers[t] : subscribers[t][i].client \in Clients
  BY ListTyped
<1>7. SentInOrder'
  <2>1. new.event = e /\ new.event.type = t /\ UNCHANGED subscribers
    BY <1>1 DEF bus
  <2> SUFFICES ASSUME NEW p \in publishing', NEW i \in DOMAIN subscribers[p.event.type], i >= p.next
               PROVE  Awaits(subscribers[p.event.type][i].client, p.event)
    BY <1>5, <2>1 DEF SentInOrder
  <2>2. CASE p \in publishing
    BY <2>2 DEF BusOrdered, SentInOrder
  <2>3. CASE p = new
    <3> HIDE DEF new
    <3> QED BY <1>4, <1>6, <2>1, <2>3
  <2> QED BY <1>1, <2>2, <2>3
<1>8. Overlapping'
  <2>1. new.event = e
    OBVIOUS
  <2>2. ASSUME NEW p \in publishing, p.event.type = t
        PROVE  MayPrecede(p.event, e) /\ MayPrecede(e, p.event)
    <3>1. Publication(p)
      BY DEF PublicationsTyped
    <3>2. p.event.n \in Nat /\ p.event.n <= published[t]
      BY <2>2, <3>1 DEF Publication, Event
    <3> QED BY <1>1, <2>2, <3>2 DEF MayPrecede
  <2>3. publishing' = publishing \/ publishing' = publishing \cup {new}
    BY <1>1
  <2> HIDE DEF new
  <2> QED BY <1>1, <2>1, <2>2, <2>3 DEF BusOrdered, Overlapping
<1> QED BY <1>4, <1>7, <1>8 DEF BusOrdered

\* What is sent goes behind all that are on their way to the client, which is not sent it again
LEMMA SendOrdered ==
    ASSUME BusTyped, PublicationsTyped, BusOrdered, ListedOnce, NEW p \in publishing, Send(p)
    PROVE  BusOrdered'
<1>1. PICK t \in EventTypes, c \in Clients, e \in Event :
         /\ e = p.event /\ t = e.type /\ p.next \in DOMAIN subscribers[t]
         /\ c = subscribers[t][p.next].client
         /\ \/ ch' = ch
            \/ /\ Len(ch[c][t]) < BufferSize
               /\ ch' = [ch EXCEPT ![c] = [ch[c] EXCEPT ![t] = Append(ch[c][t], e)]]
         /\ publishing' = (publishing \ {p}) \cup
                IF p.next = Len(subscribers[t]) THEN {}
                ELSE {[by |-> p.by, event |-> e, next |-> p.next + 1]}
         /\ UNCHANGED <<published, subscribers, quit, forwarders, eventCh, pump, delivered,
                        distinct>>
  BY SendStep
<1> DEFINE rest == [by |-> p.by, event |-> e, next |-> p.next + 1]
<1>2. /\ \A d \in Clients : \A u \in EventTypes : (d # c \/ u # t) => ch'[d][u] = ch[d][u]
      /\ ch'[c][t] = ch[c][t] \/ ch'[c][t] = Append(ch[c][t], e)
      /\ \A d \in Clients : \A u \in EventTypes : ch[d][u] \in Seq(Event)
      /\ \A d \in Clients : delivered[d] \in Seq(Event) /\ eventCh[d] \in Seq(Event)
  <2>1. PICK l : l = Append(ch[c][t], e)
    OBVIOUS
  <2>2. ch' = ch \/ ch' = [ch EXCEPT ![c] = [ch[c] EXCEPT ![t] = l]]
    BY <1>1, <2>1
  <2>3. /\ \A d \in Clients : \A u \in EventTypes : (d # c \/ u # t) => ch'[d][u] = ch[d][u]
        /\ ch'[c][t] = ch[c][t] \/ ch'[c][t] = l
    BY <2>2 DEF BusTyped
  <2> QED BY <2>1, <2>3 DEF BusTyped
<1>3. \A u \in EventTypes : \A i \in DOMAIN subscribers[u] : subscribers[u][i].client \in Clients
  BY ListTyped
<1>4. DOMAIN subscribers[t] \subseteq Int /\ p.next \in Int
  <2>1. DOMAIN subscribers[t] = 1..Len(subscribers[t]) /\ Len(subscribers[t]) \in Nat
    BY ListTyped
  <2>2. p.next \in DOMAIN subscribers[t]
    BY <1>1
  <2> QED BY <2>1, <2>2
<1>5. Awaits(c, e)
  <2>1. p.event = e /\ e.type = t /\ p.next \in DOMAIN subscribers[t]
        /\ subscribers[t][p.next].client = c
    BY <1>1
  <2>2. p.next >= p.next
    BY <1>4
  <2> QED BY <2>1, <2>2 DEF BusOrdered, SentInOrder
<1>6. e.n <= published[t]
  BY <1>1 DEF PublicationsTyped, Publication
<1>7. ASSUME NEW d \in Clients PROVE Ordered(d)'
  <2>1. Ordered(d)
    BY DEF BusOrdered
  <2>2. ASSUME NEW u \in EventTypes
        PROVE  /\ \A i \in DOMAIN ch'[d][u] : ch'[d][u][i].type = u
               /\ Rising(ch'[d][u]) /\ Before(delivered[d], ch'[d][u])
               /\ Before(eventCh[d], ch'[d][u]) /\ Numbered(ch'[d][u])
    <3>1. CASE ch'[d][u] = ch[d][u]
      BY <2>1, <3>1 DEF Ordered
    <3>2. CASE d = c /\ u = t /\ ch'[d][u] = Append(ch[c][t], e)
      <4>1. /\ Rising(ch[c][t]) /\ Prior(ch[c][t], e) /\ Prior(delivered[c], e)
            /\ Prior(eventCh[c], e)
            /\ Before(delivered[c], ch[c][t]) /\ Before(eventCh[c], ch[c][t]) /\ Numbered(ch[c][t])
            /\ \A i \in DOMAIN ch[c][t] : ch[c][t][i].type = t
        <5>1. e.type = t
          BY <1>1
        <5>2. Prior(ch[c][t], e) /\ Prior(delivered[c], e) /\ Prior(eventCh[c], e)
          BY <1>5, <5>1 DEF Awaits
        <5>3. Ordered(c)
          BY <2>1, <3>2
        <5> QED BY <5>2, <5>3 DEF Ordered
      <4>2. Rising(Append(ch[c][t], e))
        BY <1>2, <4>1, RisingAppend
      <4>3. /\ Before(delivered[c], Append(ch[c][t], e)) /\ Before(eventCh[c], Append(ch[c][t], e))
            /\ \A i \in DOMAIN Append(ch[c][t], e) : Append(ch[c][t], e)[i].type = t
            /\ Numbered(Append(ch[c][t], e))
        <5> DEFINE l == ch[c][t]
        <5>1. /\ DOMAIN Append(l, e) = 1..(Len(l) + 1) /\ DOMAIN l = 1..Len(l) /\ Len(l) \in Nat
              /\ \A i \in DOMAIN l : Append(l, e)[i] = l[i]
              /\ Append(l, e)[Len(l) + 1] = e
          BY <1>2, AppendPlaces
        <5> HIDE DEF l
        <5>2. \A i \in DOMAIN Append(l, e) : i \in DOMAIN l \/ i = Len(l) + 1
          BY <5>1
        <5>3. e.type = t
          BY <1>1
        <5>4. /\ Prior(delivered[c], e) /\ Prior(eventCh[c], e) /\ Before(delivered[c], l)
              /\ Before(eventCh[c], l) /\ Numbered(l) /\ \A i \in DOMAIN l : l[i].type = t
          BY <4>1 DEF l
        <5>5. Before(delivered[c], Append(l, e)) /\ Before(eventCh[c], Append(l, e))
          BY <5>1, <5>2, <5>4 DEF Before
        <5>6. /\ \A i \in DOMAIN Append(l, e) : Append(l, e)[i].type = t
              /\ Numbered(Append(l, e))
          BY <1>6, <5>1, <5>2, <5>3, <5>4 DEF Numbered
        <5> QED BY <5>5, <5>6 DEF l
      <4> QED BY <3>2, <4>2, <4>3
    <3> QED BY <1>2, <3>1, <3>2
  <2> QED BY <1>1, <2>1, <2>2 DEF Ordered, Numbered
<1>8. ASSUME NEW d \in Clients, NEW f \in Event, Awaits(d, f),
             d = c /\ f.type = t => MayPrecede(e, f)
      PROVE  Awaits(d, f)'
  <2>1. f.type \in EventTypes
    BY DEF Event
  <2>2. Prior(ch'[d][f.type], f)
    <3>1. CASE ch'[d][f.type] = ch[d][f.type]
      BY <1>8, <3>1 DEF Awaits
    <3>2. CASE d = c /\ f.type = t /\ ch'[d][f.type] = Append(ch[c][t], e)
      BY <1>2, <1>8, <3>2, PriorAppend DEF Awaits
    <3> QED BY <1>2, <2>1, <3>1, <3>2
  <2> QED BY <1>1, <1>8, <2>2 DEF Awaits
<1>9. rest.event = e /\ rest.next = p.next + 1
  OBVIOUS
<1> HIDE DEF rest
<1>10. \A q \in publishing' : (q \in publishing /\ q # p) \/ q = rest
  BY <1>1 DEF rest
<1>11. ASSUME NEW q \in publishing', NEW i \in DOMAIN subscribers[q.event.type], i >= q.next
       PROVE  Awaits(subscribers[q.event.type][i].client, q.event)'
  <2>1. CASE q \in publishing /\ q # p
    <3>1. q.event \in Event /\ q.event.type \in EventTypes
      BY <2>1 DEF PublicationsTyped, Publication, Event
    <3>2. Awaits(subscribers[q.event.type][i].client, q.event)
      BY <1>11, <2>1 DEF BusOrdered, SentInOrder
    <3>3. q.event.type = t => MayPrecede(e, q.event)
      BY <1>1, <2>1 DEF BusOrdered, Overlapping
    <3>4. PICK d \in Clients : d = subscribers[q.event.type][i].client
      BY <1>3, <3>1
    <3>5. Awaits(d, q.event)'
      BY <1>8, <3>1, <3>2, <3>3, <3>4
    <3>6. subscribers' = subscribers
      BY <1>1
    <3> QED BY <3>4, <3>5, <3>6
  <2>2. CASE q = rest
    <3>0. q.event = e /\ q.event.type = t /\ q.next = p.next + 1
      BY <1>1, <1>9, <2>2
    <3>1. i # p.next /\ i >= p.next /\ i \in DOMAIN subscribers[t]
      BY <1>4, <1>11, <3>0
    <3>2. PICK d \in Clients : d = subscribers[t][i].client
      BY <1>3, <3>1
    <3>3. d # c
      BY <1>1, <3>1, <3>2 DEF ListedOnce
    <3>4. Awaits(d, e)
      BY <1>1, <3>1, <3>2 DEF BusOrdered, SentInOrder
    <3>5. Awaits(d, e)'
      BY <1>8, <3>3, <3>4
    <3>6. subscribers' = subscribers
      BY <1>1
    <3>7. q.event = e /\ q.event.type = t
      BY <1>1, <1>9, <2>2
    <3> QED BY <3>2, <3>5, <3>6, <3>7
  <2> QED BY <1>10, <2>1, <2>2
<1>12. SentInOrder'
  <2>1. subscribers' = subscribers
    BY <1>1
  <2> QED BY <1>11, <2>1 DEF SentInOrder
<1>13. Overlapping'
  <2>1. ASSUME NEW q \in publishing, q # p, q.event.type = e.type
        PROVE  MayPrecede(q.event, e) /\ MayPrecede(e, q.event)
    BY <1>1, <2>1 DEF BusOrdered, Overlapping
  <2>2. \A q, r \in publishing :
           q # r /\ q.event.type = r.event.type => MayPrecede(q.event, r.event)
    BY DEF BusOrdered, Overlapping
  <2> QED BY <1>9, <1>10, <2>1, <2>2 DEF Overlapping
<1> QED BY <1>7, <1>12, <1>13 DEF BusOrdered

\* A forwarder moves an event from the front of a buffer behind the others of the channel, and
\* what is written comes from the front of that
LEMMA ClientOrdered ==
    ASSUME BusTyped, PublicationsTyped, BusOrdered, NEW c \in Clients, ClientNext(c)
    PROVE  BusOrdered'
<1>0. /\ Ordered(c) /\ delivered[c] \in Seq(Event) /\ eventCh[c] \in Seq(Event)
      /\ \A u \in EventTypes : ch[c][u] \in Seq(Event)
      /\ UNCHANGED <<published, publishing>> /\ (publishing = {} \/ UNCHANGED subscribers)
  BY ClientLeaves DEF BusOrdered, BusTyped
\* It is enough to look at the events on their way to the client
<1>1. ASSUME Ordered(c)', \A f \in Event : Awaits(c, f) => Awaits(c, f)',
             \A d \in Clients : d # c => /\ delivered'[d] = delivered[d] /\ ch'[d] = ch[d]
                                         /\ eventCh'[d] = eventCh[d]
      PROVE  BusOrdered'
  <2>1. ASSUME NEW d \in Clients PROVE Ordered(d)'
    <3>1. CASE d = c
      BY <1>1, <3>1
    <3>2. CASE d # c
      <4>1. Ordered(d) /\ delivered'[d] = delivered[d] /\ ch'[d] = ch[d] /\ eventCh'[d] = eventCh[d]
        BY <1>1, <3>2 DEF BusOrdered
      <4> QED BY <1>0, <4>1 DEF Ordered, Numbered
    <3> QED BY <3>1, <3>2
  <2>2. \A d \in Clients : \A f \in Event : Awaits(d, f) => Awaits(d, f)'
    BY <1>1 DEF Awaits
  <2>3. SentInOrder'
    <3>1. CASE publishing = {}
      BY <1>0, <3>1 DEF SentInOrder
    <3>2. CASE publishing # {}
      <4>0. subscribers' = subscribers /\ publishing' = publishing
        BY <1>0, <3>2
      <4>1. ASSUME NEW p \in publishing, NEW i \in DOMAIN subscribers[p.event.type], i >= p.next
            PROVE  Awaits(subscribers[p.event.type][i].client, p.event)'
        <5>1. p.event \in Event /\ p.event.type \in EventTypes
          BY DEF PublicationsTyped, Publication, Event
        <5>3. subscribers[p.event.type][i].client \in Clients
          BY <5>1, ListTyped
        <5>4. PICK d \in Clients : d = subscribers[p.event.type][i].client
          BY <5>3
        <5>5. Awaits(d, p.event)
          BY <4>1, <5>4 DEF BusOrdered, SentInOrder
        <5>6. Awaits(d, p.event)'
          BY <2>2, <5>1, <5>5
        <5> QED BY <4>0, <5>4, <5>6
      <4> QED BY <4>0, <4>1 DEF SentInOrder
    <3> QED BY <3>1, <3>2
  <2>4. Overlapping'
    BY <1>0 DEF BusOrdered, Overlapping
  <2> QED BY <2>1, <2>3, <2>4 DEF BusOrdered
<1>2. CASE UNCHANGED <<ch, eventCh, delivered>>
  <2>1. Ordered(c)' /\ \A f \in Event : Awaits(c, f) => Awaits(c, f)'
    BY <1>0, <1>2 DEF Ordered, Numbered, Awaits
  <2> QED BY <1>1, <1>2, <2>1
<1>3. CASE Deliver(c)
  <2> DEFINE s == eventCh[c]
             q == delivered'[c]
  <2>1. /\ s # <<>> /\ s \in Seq(Event) /\ UNCHANGED ch
        /\ eventCh' = [eventCh EXCEPT ![c] = Tail(s)]
        /\ \/ delivered' = delivered
           \/ delivered' = [delivered EXCEPT ![c] = Append(delivered[c], Head(s))]
    BY <1>0, <1>3 DEF Deliver, BusTyped
  <2>2. /\ \A d \in Clients : d # c => delivered'[d] = delivered[d] /\ eventCh'[d] = eventCh[d]
        /\ eventCh'[c] = Tail(s) /\ q \in {delivered[c], Append(delivered[c], Head(s))}
    BY <2>1 DEF BusTyped
  <2>3. /\ Head(s) \in Event /\ Head(s) = s[1] /\ 1 \in DOMAIN s
        /\ \A i \in DOMAIN Tail(s) : Tail(s)[i] = s[i + 1] /\ i + 1 \in DOMAIN s
    BY <2>1, TailPlaces
  <2>4. /\ Rising(Tail(s)) /\ Before(delivered[c], Tail(s)) /\ Numbered(Tail(s))
        /\ \A i \in DOMAIN Tail(s) :
              Tail(s)[i].type = Head(s).type => MayPrecede(Head(s), Tail(s)[i])
        /\ \A u \in EventTypes : Before(Tail(s), ch[c][u])
    BY <1>0, <2>1, <2>3, RisingTail, PriorTail DEF Ordered, Before, Numbered
  <2>5. Prior(delivered[c], Head(s)) /\ Head(s).n <= published[Head(s).type]
    BY <1>0, <2>3 DEF Ordered, Before, Numbered
  <2>6. ASSUME NEW f \in Event, Prior(delivered[c], f), Prior(s, f)
        PROVE  Prior(q, f) /\ Prior(Tail(s), f)
    <3>1. Head(s).type = f.type => MayPrecede(Head(s), f)
      BY <2>3, <2>6 DEF Prior
    <3>2. Prior(Append(delivered[c], Head(s)), f)
      BY <1>0, <2>3, <2>6, <3>1, PriorAppend
    <3> QED BY <2>1, <2>2, <2>6, <3>2, PriorTail
  <2>7. Rising(q) /\ Numbered(q)
    <3>1. Rising(q)
      BY <1>0, <2>2, <2>3, <2>5, RisingAppend DEF Ordered
    <3>2. Numbered(Append(delivered[c], Head(s)))
      BY <1>0, <2>3, <2>5, AppendPlaces DEF Ordered, Numbered
    <3> QED BY <1>0, <2>2, <3>1, <3>2 DEF Ordered
  <2>8. Before(q, Tail(s))
    <3>1. ASSUME NEW i \in DOMAIN Tail(s) PROVE Prior(q, Tail(s)[i])
      <4>0. Tail(s) \in Seq(Event)
        BY <2>1, TailPlaces
      <4>1. Tail(s)[i] \in Event
        BY <4>0, LenProperties, ElementOfSeq
      <4>2. Prior(delivered[c], Tail(s)[i])
        BY <2>4 DEF Before
      <4>3. Head(s).type = Tail(s)[i].type => MayPrecede(Head(s), Tail(s)[i])
        BY <2>4
      <4>4. Prior(Append(delivered[c], Head(s)), Tail(s)[i])
        BY <1>0, <2>3, <4>1, <4>2, <4>3, PriorAppend
      <4> QED BY <2>2, <4>2, <4>4
    <3> QED BY <3>1 DEF Before
  <2>9. ASSUME NEW u \in EventTypes PROVE Before(q, ch[c][u])
    <3>1. Before(s, ch[c][u]) /\ Before(delivered[c], ch[c][u])
      BY <1>0, <2>9 DEF Ordered
    <3>2. ASSUME NEW i \in DOMAIN ch[c][u] PROVE Prior(q, ch[c][u][i])
      <4>1. ch[c][u][i] \in Event
        BY <1>0, LenProperties, ElementOfSeq
      <4>2. Prior(s, ch[c][u][i]) /\ Prior(delivered[c], ch[c][u][i])
        BY <3>1 DEF Before
      <4> QED BY <2>6, <4>1, <4>2
    <3> QED BY <3>2 DEF Before
  <2>10. \A f \in Event : Awaits(c, f) => Awaits(c, f)'
    BY <2>1, <2>2, <2>6 DEF Awaits
  <2> HIDE DEF q
  <2>11. Ordered(c)'
    <3>1. delivered'[c] = q /\ eventCh'[c] = Tail(s) /\ ch' = ch /\ published' = published
      BY <1>0, <2>1, <2>2 DEF q
    <3>2. /\ Rising(q) /\ Rising(Tail(s)) /\ Before(q, Tail(s)) /\ Numbered(q) /\ Numbered(Tail(s))
          /\ \A u \in EventTypes :
                /\ \A i \in DOMAIN ch[c][u] : ch[c][u][i].type = u
                /\ Rising(ch[c][u]) /\ Before(q, ch[c][u]) /\ Before(Tail(s), ch[c][u])
                /\ Numbered(ch[c][u])
      BY <1>0, <2>4, <2>7, <2>8, <2>9 DEF Ordered
    <3> HIDE DEF s
    <3> QED BY <3>1, <3>2 DEF Ordered, Numbered
  <2> QED BY <1>1, <2>1, <2>2, <2>10, <2>11
<1>4. ASSUME NEW t \in EventTypes, Forward(c, t) PROVE BusOrdered'
  <2> DEFINE s == ch[c][t]
             q == Append(eventCh[c], Head(s))
  <2>1. /\ s # <<>> /\ s \in Seq(Event) /\ UNCHANGED <<published, delivered>>
        /\ ch' = [ch EXCEPT ![c] = [ch[c] EXCEPT ![t] = Tail(s)]]
        /\ \/ eventCh' = eventCh
           \/ eventCh' = [eventCh EXCEPT ![c] = Append(eventCh[c], Head(s))]
    BY <1>0, <1>4 DEF Forward, BusTyped
  <2>2. /\ \A d \in Clients : d # c => ch'[d] = ch[d] /\ eventCh'[d] = eventCh[d]
        /\ \A u \in EventTypes : ch'[c][u] = IF u = t THEN Tail(s) ELSE ch[c][u]
        /\ eventCh'[c] = eventCh[c] \/ eventCh'[c] = q
    BY <2>1 DEF BusTyped
  <2>3. /\ Head(s) \in Event /\ Head(s) = s[1] /\ 1 \in DOMAIN s /\ Head(s).type = t
        /\ Head(s).n <= published[t] /\ Tail(s) \in Seq(Event)
    BY <1>0, <2>1, TailPlaces DEF Ordered, Numbered
  <2>4. ASSUME NEW u \in EventTypes
        PROVE  /\ \A i \in DOMAIN ch'[c][u] : ch'[c][u][i].type = u
               /\ Rising(ch'[c][u]) /\ Before(delivered[c], ch'[c][u])
               /\ Before(eventCh[c], ch'[c][u]) /\ Numbered(ch'[c][u])
               /\ \A i \in DOMAIN ch'[c][u] :
                     ch'[c][u][i].type = t => MayPrecede(Head(s), ch'[c][u][i])
    <3>1. CASE u # t
      BY <1>0, <2>2, <2>4, <3>1 DEF Ordered
    <3>2. CASE u = t
      <4>1. /\ \A i \in DOMAIN Tail(s) : Tail(s)[i] = s[i + 1] /\ i + 1 \in DOMAIN s
            /\ Rising(Tail(s))
            /\ \A i \in DOMAIN Tail(s) : Tail(s)[i].type = t => MayPrecede(Head(s), Tail(s)[i])
        BY <1>0, <2>1, <2>3, TailPlaces, RisingTail DEF Ordered
      <4>2. Before(delivered[c], Tail(s)) /\ Before(eventCh[c], Tail(s)) /\ Numbered(Tail(s))
        BY <1>0, <4>1 DEF Ordered, Before, Numbered
      <4>3. \A i \in DOMAIN Tail(s) : Tail(s)[i].type = t
        BY <1>0, <4>1 DEF Ordered
      <4> QED BY <2>2, <3>2, <4>1, <4>2, <4>3
    <3> QED BY <3>1, <3>2
  <2>5. /\ Rising(q) /\ Before(delivered[c], q) /\ Numbered(q)
        /\ \A u \in EventTypes : Before(q, ch'[c][u])
    <3>1. Prior(eventCh[c], Head(s)) /\ Prior(delivered[c], Head(s))
      BY <1>0, <2>3 DEF Ordered, Before
    <3>2. Rising(q) /\ Before(delivered[c], q) /\ Numbered(q)
      BY <1>0, <2>3, <3>1, RisingAppend, AppendPlaces DEF Ordered, Before, Numbered
    <3>3. ASSUME NEW u \in EventTypes PROVE Before(q, ch'[c][u])
      <4>1. ASSUME NEW i \in DOMAIN ch'[c][u] PROVE Prior(q, ch'[c][u][i])
        <5>0. ch'[c][u] \in Seq(Event)
          BY <1>0, <2>2, <2>3
        <5>1. ch'[c][u][i] \in Event
          BY <5>0, LenProperties, ElementOfSeq
        <5>2. Prior(eventCh[c], ch'[c][u][i])
          BY <2>4, <4>1 DEF Before
        <5>3. Head(s).type = ch'[c][u][i].type => MayPrecede(Head(s), ch'[c][u][i])
          BY <2>3, <2>4
        <5> QED BY <1>0, <2>3, <5>1, <5>2, <5>3, PriorAppend
      <4> QED BY <4>1 DEF Before
    <3> QED BY <3>2, <3>3
  <2>6. ASSUME NEW f \in Event, Awaits(c, f) PROVE Awaits(c, f)'
    <3>0. f.type \in EventTypes
      BY DEF Event
    <3>1. Prior(eventCh[c], f) /\ Prior(delivered[c], f) /\ Prior(ch[c][f.type], f)
      BY <2>6 DEF Awaits
    <3>2. Head(s).type = f.type => MayPrecede(Head(s), f)
      BY <2>3, <3>1 DEF Prior
    <3>3. Prior(q, f)
      BY <1>0, <2>3, <3>1, <3>2, PriorAppend
    <3>4. Prior(ch'[c][f.type], f)
      BY <2>1, <2>2, <3>0, <3>1, PriorTail
    <3> QED BY <2>1, <2>2, <3>1, <3>3, <3>4 DEF Awaits
  <2> HIDE DEF q
  <2>7. Ordered(c)'
    <3>1. /\ Rising(eventCh'[c]) /\ Before(delivered[c], eventCh'[c]) /\ Numbered(eventCh'[c])
          /\ \A u \in EventTypes : Before(eventCh'[c], ch'[c][u])
      BY <1>0, <2>2, <2>4, <2>5 DEF Ordered
    <3>2. Rising(delivered[c]) /\ Numbered(delivered[c])
      BY <1>0 DEF Ordered
    <3> HIDE DEF s
    <3> QED BY <2>1, <2>4, <3>1, <3>2 DEF Ordered, Numbered
  <2> QED BY <1>1, <2>1, <2>2, <2>6, <2>7
<1> QED BY <1>2, <1>3, <1>4 DEF ClientNext, Serving, Writing, Upgrade, PeerGone, Subscribe,
       StartPumps, ReadPump, Welcome, Done, Unsubscribe, CloseConn, Ping, ForwarderEnds

-----------------------------------------------------------------------------
(* Subscriptions                                                           *)

\* A subscription of the client under that name is on the list of the type
Present(c, t, id) == \E p \in DOMAIN subscribers[t] : subscribers[t][p] = [client |-> c, id |-> id]

\* The place in wsEventTypes of the i-th name a client has: it ends its subscriptions in the
\* order it made them
Place(c, i) ==
    IF pump[c].pc = "unsubscribe" THEN Len(WsEventTypes) - Len(pump[c].ids) + i ELSE i

\* Every name a client has is that of a subscription of its own
Kept(c) ==
    /\ pump[c].pc \in {"welcome", "loop"} =>
          Len(pump[c].ids) = Len(WsEventTypes) /\ ToSet(WsEventTypes) \subseteq forwarders[c]
    /\ pump[c].pc \notin {"unsubscribe", "gone"} => quit[c] = {}
    /\ \A i \in 1..Len(pump[c].ids) : Present(c, WsEventTypes[Place(c, i)], pump[c].ids[i])

\* No two subscriptions to a type have the same name
NamesDiffer ==
    \A t \in EventTypes : \A p, q \in DOMAIN subscribers[t] :
        subscribers[t][p].id = subscribers[t][q].id => p = q

BusNamed == distinct => NamesDiffer /\ \A c \in Clients : Kept(c)

LEMMA PlaceInList ==
    ASSUME BusTyped, NEW c \in Clients, NEW i \in 1..Len(pump[c].ids)
    PROVE  Place(c, i) \in 1..Len(WsEventTypes) /\ WsEventTypes[Place(c, i)] \in EventTypes
<1>1. Len(pump[c].ids) \in Nat /\ Len(pump[c].ids) <= Len(WsEventTypes) /\ i \in Nat /\ i >= 1
      /\ i <= Len(pump[c].ids) /\ Len(WsEventTypes) \in Nat
  BY LenProperties, BusNumbers DEF BusTyped, Pump
<1>2. Place(c, i) \in 1..Len(WsEventTypes)
  BY <1>1 DEF Place
<1> QED BY <1>2, BusNumbers

\* With the clock showing no time twice a client takes itself off the list, and nobody else
LEMMA ClientNamed ==
    ASSUME BusTyped, BusNamed, NEW c \in Clients, ClientNext(c)
    PROVE  BusNamed'
<1> SUFFICES ASSUME distinct PROVE NamesDiffer' /\ \A d \in Clients : Kept(d)'
  <2>1. distinct' = distinct
    BY DEF ClientNext, Serving, Writing, Upgrade, PeerGone, Subscribe, StartPumps, ReadPump,
       Welcome, Deliver, Done, Unsubscribe, CloseConn, Ping, Forward, ForwarderEnds
  <2> QED BY <2>1 DEF BusNamed
<1>0. /\ pump \in [Clients -> Pump] /\ pump[c].ids \in Seq(Clock) /\ Len(pump[c].ids) \in Nat
      /\ Len(pump[c].ids) <= Len(WsEventTypes) /\ (pump[c].pc = "none" => Len(pump[c].ids) = 0)
      /\ NamesDiffer /\ \A d \in Clients : Kept(d)
      /\ pump[c].pc \in {"none", "subscribe", "welcome", "loop", "unsubscribe", "gone"}
  BY LenProperties DEF BusTyped, BusNamed, Pump
\* Steps that are not about subscriptions
<1>1. ASSUME Upgrade(c) \/ PeerGone(c) \/ ReadPump(c) \/ Welcome(c) \/ Ping(c) \/ Done(c)
             \/ CloseConn(c) \/ StartPumps(c) \/ Deliver(c)
      PROVE  NamesDiffer' /\ \A d \in Clients : Kept(d)'
  <2>1. /\ pump'[c].ids = pump[c].ids /\ UNCHANGED <<subscribers, quit>>
        /\ \A d \in Clients : d # c => pump'[d] = pump[d]
    BY <1>1, PumpMoves
  <2>2. NamesDiffer'
    BY <1>0, <2>1 DEF NamesDiffer
  <2>3. /\ \A d \in Clients : d # c => forwarders'[d] = forwarders[d]
        /\ StartPumps(c) => ToSet(WsEventTypes) \subseteq forwarders'[c] /\ pump[c].pc = "subscribe"
        /\ ~StartPumps(c) => forwarders'[c] = forwarders[c]
    BY <1>1 DEF Upgrade, PeerGone, ReadPump, Welcome, Ping, Done, CloseConn, StartPumps,
                Deliver, BusTyped
  <2>4. ASSUME NEW d \in Clients, d # c PROVE Kept(d)'
    <3>1. Kept(d) /\ pump'[d] = pump[d] /\ quit'[d] = quit[d] /\ forwarders'[d] = forwarders[d]
      BY <1>0, <2>1, <2>3, <2>4
    <3> QED BY <2>1, <3>1 DEF Kept, Present, Place
  <2>5. Kept(c)'
    <3>1. Kept(c) /\ quit'[c] = quit[c]
      BY <1>0, <2>1
    <3>2. ASSUME NEW i \in 1..Len(pump[c].ids) PROVE Place(c, i)' = Place(c, i)
      <4>1. pump[c].ids # <<>>
        BY <1>0, <3>2, EmptySeq
      <4>2. pump'[c].pc = "unsubscribe" /\ pump[c].pc # "unsubscribe"
               => Len(pump[c].ids) = Len(WsEventTypes)
        BY <1>1, <3>1, PumpMoves DEF Kept
      <4>3. pump[c].pc = "unsubscribe" => pump'[c].pc = "unsubscribe"
        BY <1>1, <4>1, PumpMoves
      <4>4. Len(WsEventTypes) \in Nat /\ i \in Int
        BY <1>0, <3>2, BusNumbers
      <4>5. CASE pump'[c].pc = "unsubscribe" /\ pump[c].pc # "unsubscribe"
        BY <2>1, <4>2, <4>4, <4>5 DEF Place
      <4>6. CASE pump'[c].pc = "unsubscribe" <=> pump[c].pc = "unsubscribe"
        BY <2>1, <4>6 DEF Place
      <4> QED BY <4>3, <4>5, <4>6
    <3>3. pump'[c].pc \in {"welcome", "loop"} => /\ Len(pump[c].ids) = Len(WsEventTypes)
                                               /\ ToSet(WsEventTypes) \subseteq forwarders'[c]
      BY <1>1, <2>3, <3>1, PumpMoves DEF Kept, StartPumps
    <3>4. pump'[c].pc \notin {"unsubscribe", "gone"} => quit[c] = {}
      BY <1>0, <1>1, <2>3, <3>1, PumpMoves DEF Kept
    <3> QED BY <2>1, <3>1, <3>2, <3>3, <3>4 DEF Kept, Present
  <2> QED BY <2>2, <2>4, <2>5
<1>2. CASE Subscribe(c)
  <2>0. PICK k \in 1..Len(WsEventTypes), t \in EventTypes :
           k = Len(pump[c].ids) + 1 /\ t = WsEventTypes[k]
    BY <1>2, BusNumbers DEF Subscribe
  <2>1. PICK id \in Clock :
           /\ \A i \in DOMAIN subscribers[t] : subscribers[t][i].id # id
           /\ subscribers' = [subscribers EXCEPT ![t] = Append(@, [client |-> c, id |-> id])]
           /\ pump' = [pump EXCEPT ![c].ids = Append(@, id)]
    BY <1>2, <2>0 DEF Subscribe
  <2>2. /\ pump[c].pc = "subscribe"
        /\ UNCHANGED <<quit, forwarders>>
    BY <1>2 DEF Subscribe
  <2> DEFINE e == [client |-> c, id |-> id]
             l == subscribers[t]
  <2>3. e \in Subscription /\ l \in Seq(Subscription)
    BY <2>2 DEF Subscription, BusTyped
  <2>4. /\ DOMAIN Append(l, e) = 1..(Len(l) + 1) /\ DOMAIN l = 1..Len(l) /\ Len(l) \in Nat
        /\ \A i \in DOMAIN l : Append(l, e)[i] = l[i]
        /\ Append(l, e)[Len(l) + 1] = e /\ Len(l) + 1 \in DOMAIN Append(l, e)
        /\ DOMAIN l \subseteq DOMAIN Append(l, e)
    BY <2>3, AppendPlaces
  <2>5. \A u \in EventTypes : subscribers'[u] = IF u = t THEN Append(l, e) ELSE subscribers[u]
    BY <2>1, <2>2 DEF BusTyped
  <2>6. /\ pump'[c].ids = Append(pump[c].ids, id) /\ pump'[c].pc = "subscribe"
        /\ \A d \in Clients : d # c => pump'[d] = pump[d]
    BY <1>0, <2>1, <2>2 DEF Pump
  <2>7. /\ Len(Append(pump[c].ids, id)) = k /\ Append(pump[c].ids, id)[k] = id
        /\ \A i \in 1..Len(pump[c].ids) : Append(pump[c].ids, id)[i] = pump[c].ids[i]
    BY <1>0, <2>0, AppendPlaces, LenProperties
  <2>8. e.id = id
    OBVIOUS
  <2> HIDE DEF e, l
  <2>9. NamesDiffer'
    <3>1. \A i, j \in DOMAIN l : l[i].id = l[j].id => i = j
      BY <1>0, <2>2 DEF NamesDiffer, l
    <3>2. \A i \in DOMAIN l : l[i].id # id
      BY <2>1 DEF l
    <3>3. \A i \in DOMAIN Append(l, e) : i \in DOMAIN l \/ i = Len(l) + 1
      BY <2>4
    <3>4. \A i, j \in DOMAIN Append(l, e) : Append(l, e)[i].id = Append(l, e)[j].id => i = j
      BY <2>4, <2>8, <3>1, <3>2, <3>3
    <3> QED BY <1>0, <2>5, <3>4 DEF NamesDiffer
  <2>10. ASSUME NEW d \in Clients, NEW u \in EventTypes, NEW n, Present(d, u, n)
         PROVE  Present(d, u, n)'
    BY <2>4, <2>5, <2>10 DEF Present, l
  <2>11. Present(c, t, id)'
    BY <2>2, <2>4, <2>5 DEF Present, e
  <2>12. ASSUME NEW d \in Clients, d # c PROVE Kept(d)'
    <3>1. Kept(d) /\ pump'[d] = pump[d] /\ Len(pump[d].ids) \in Nat
          /\ Len(pump[d].ids) <= Len(WsEventTypes)
      BY <1>0, <2>6, <2>12, LenProperties DEF BusTyped, Pump
    <3>2. \A i \in 1..Len(pump[d].ids) : WsEventTypes[Place(d, i)] \in EventTypes
      BY PlaceInList
    <3>3. ASSUME NEW i \in 1..Len(pump[d].ids) PROVE Place(d, i)' = Place(d, i)
      BY <3>1 DEF Place
    <3>4. \A i \in 1..Len(pump[d].ids) : Present(d, WsEventTypes[Place(d, i)], pump[d].ids[i])'
      BY <2>10, <3>1, <3>2, <3>3 DEF Kept
    <3> QED BY <2>2, <3>1, <3>4 DEF Kept
  <2>13. Kept(c)'
    <3>1. \A i \in 1..k : Place(c, i)' = i /\ (i < k => Place(c, i) = i)
      BY <1>0, <2>0, <2>2, <2>6 DEF Place
    <3>2. ASSUME NEW i \in 1..k PROVE Present(c, WsEventTypes[Place(c, i)], pump[c].ids[i])'
      <4>1. CASE i < k
        <5>1. i \in 1..Len(pump[c].ids) /\ WsEventTypes[i] \in EventTypes
          BY <1>0, <2>0, <3>2, <4>1, BusNumbers
        <5>2. Present(c, WsEventTypes[i], pump[c].ids[i])
          BY <1>0, <3>1, <4>1, <5>1 DEF Kept
        <5>3. pump'[c].ids[i] = pump[c].ids[i]
          BY <2>6, <2>7, <5>1
        <5> QED BY <2>10, <3>1, <5>1, <5>2, <5>3
      <4>2. CASE i = k
        BY <2>0, <2>6, <2>7, <2>11, <3>1, <4>2
      <4> QED BY <2>2, <3>2, <4>1, <4>2
    <3>3. quit[c] = {}
      BY <1>0, <2>2 DEF Kept
    <3> QED BY <2>2, <2>6, <2>7, <3>2, <3>3 DEF Kept
  <2> QED BY <2>9, <2>12, <2>13
<1>3. CASE Unsubscribe(c)
  <2>0. /\ pump[c].ids # <<>> /\ pump[c].pc = "unsubscribe"
        /\ pump' = [pump EXCEPT ![c].ids = Tail(@)] /\ UNCHANGED forwarders
    BY <1>3 DEF Unsubscribe
  <2>1. /\ Head(pump[c].ids) = pump[c].ids[1] /\ Len(pump[c].ids) \in Nat \ {0}
        /\ Head(pump[c].ids) \in Clock
        /\ Len(Tail(pump[c].ids)) = Len(pump[c].ids) - 1
        /\ \A j \in 1..(Len(pump[c].ids) - 1) : Tail(pump[c].ids)[j] = pump[c].ids[j + 1]
    BY <1>0, <2>0, TailPlaces
  <2>2. PICK k \in 1..Len(WsEventTypes), t \in EventTypes, id \in Clock :
           /\ k = Len(WsEventTypes) - Len(pump[c].ids) + 1 /\ t = WsEventTypes[k]
           /\ id = Head(pump[c].ids)
    <3>1. Len(WsEventTypes) - Len(pump[c].ids) + 1 \in 1..Len(WsEventTypes)
      BY <1>0, <2>1, BusNumbers
    <3>2. WsEventTypes[Len(WsEventTypes) - Len(pump[c].ids) + 1] \in EventTypes
      BY <3>1, BusNumbers
    <3> QED BY <2>1, <3>1, <3>2, Zenon
  <2>3. PICK i \in Nat : i = Found(t, id)
    BY FoundNamed
  <2>4. PICK p \in DOMAIN subscribers[t] : subscribers[t][p] = [client |-> c, id |-> id]
    <3>1. Place(c, 1) = k /\ 1 \in 1..Len(pump[c].ids)
      BY <2>0, <2>1, <2>2, BusNumbers DEF Place
    <3>2. Present(c, WsEventTypes[Place(c, 1)], pump[c].ids[1])
      BY <1>0, <3>1 DEF Kept
    <3>3. Present(c, t, id)
      BY <2>1, <2>2, <3>1, <3>2
    <3> QED BY <3>3 DEF Present
  <2>5. i # 0 /\ i \in DOMAIN subscribers[t] /\ subscribers[t][i].id = id
    <3>1. Named(t, id) # {}
      BY <2>4 DEF Named
    <3> QED BY <2>3, <3>1, FoundNamed
  <2>6. i = p
    BY <1>0, <2>4, <2>5 DEF NamesDiffer
  <2>7. /\ quit' = [quit EXCEPT ![c] = @ \cup {t}]
        /\ subscribers' = [subscribers EXCEPT ![t] = RemoveAt(@, i)]
    <3>1. /\ quit' = [quit EXCEPT ![subscribers[t][i].client] = @ \cup {t}]
          /\ subscribers' = [subscribers EXCEPT ![t] = RemoveAt(@, i)]
      <4> DEFINE u == WsEventTypes[Len(WsEventTypes) - Len(pump[c].ids) + 1]
                 j == Found(u, Head(pump[c].ids))
      <4>1. IF j = 0 THEN UNCHANGED <<quit, subscribers>>
            ELSE /\ quit' = [quit EXCEPT ![subscribers[u][j].client] = @ \cup {u}]
                 /\ subscribers' = [subscribers EXCEPT ![u] = RemoveAt(@, j)]
        BY <1>3 DEF Unsubscribe
      <4>2. u = t /\ j = i
        BY <2>2, <2>3
      <4> HIDE DEF u, j
      <4> QED BY <2>5, <4>1, <4>2
    <3>2. subscribers[t][i].client = c
      BY <2>4, <2>6
    <3> QED BY <3>1, <3>2
  <2>8. /\ \A d \in Clients : d # c => quit'[d] = quit[d]
        /\ \A u \in EventTypes : subscribers'[u] = IF u = t THEN RemoveAt(subscribers[t], i)
                                                   ELSE subscribers[u]
        /\ subscribers[t] \in Seq(Subscription)
    BY <2>7 DEF BusTyped
  <2>9. NamesDiffer'
    <3> DEFINE l == subscribers[t]
               m == RemoveAt(l, i)
               old(j) == IF j < i THEN j ELSE j + 1
    <3>1. /\ DOMAIN m = 1..(Len(l) - 1) /\ DOMAIN l = 1..Len(l) /\ Len(l) \in Nat
          /\ \A j \in DOMAIN m : m[j] = l[old(j)]
      BY <2>5, <2>8, RemovePlaces
    <3> HIDE DEF m
    <3>2. \A j \in DOMAIN m : old(j) \in DOMAIN l
      BY <2>3, <3>1
    <3>3. \A j, q \in DOMAIN m : old(j) = old(q) => j = q
      BY <2>3, <3>1
    <3>4. \A j, q \in DOMAIN l : l[j].id = l[q].id => j = q
      BY <1>0 DEF NamesDiffer
    <3> HIDE DEF l, old
    <3>5. \A j, q \in DOMAIN m : m[j].id = m[q].id => j = q
      BY <3>1, <3>2, <3>3, <3>4
    <3>6. subscribers'[t] = m /\ \A u \in EventTypes : u # t => subscribers'[u] = subscribers[u]
      BY <2>8 DEF m, l
    <3>7. ASSUME NEW u \in EventTypes
          PROVE  \A j, q \in DOMAIN subscribers'[u] :
                     subscribers'[u][j].id = subscribers'[u][q].id => j = q
      BY <1>0, <3>5, <3>6, <3>7 DEF NamesDiffer
    <3> QED BY <3>7 DEF NamesDiffer
  <2>10. ASSUME NEW d \in Clients, NEW u \in EventTypes, NEW n, Present(d, u, n),
                d # c \/ u # t
         PROVE  Present(d, u, n)'
    <3>1. CASE u # t
      BY <2>8, <2>10, <3>1 DEF Present
    <3>2. CASE u = t
      <4>1. PICK q \in DOMAIN subscribers[t] : subscribers[t][q] = [client |-> d, id |-> n]
        BY <2>10, <3>2 DEF Present
      <4>2. q # i
        BY <2>4, <2>6, <2>10, <3>2, <4>1
      <4>3. PICK j \in DOMAIN RemoveAt(subscribers[t], i) :
               RemoveAt(subscribers[t], i)[j] = subscribers[t][q]
        BY <2>5, <2>8, <4>2, RemoveKeeps
      <4> QED BY <2>8, <3>2, <4>1, <4>3 DEF Present
    <3> QED BY <3>1, <3>2
  <2>11. ASSUME NEW d \in Clients, d # c PROVE Kept(d)'
    <3>1. Kept(d) /\ pump'[d] = pump[d] /\ Len(pump[d].ids) \in Nat
          /\ Len(pump[d].ids) <= Len(WsEventTypes)
      BY <1>0, <2>0, <2>11, LenProperties DEF BusTyped, Pump
    <3>2. \A j \in 1..Len(pump[d].ids) : WsEventTypes[Place(d, j)] \in EventTypes
      BY PlaceInList
    <3>3. ASSUME NEW j \in 1..Len(pump[d].ids) PROVE Place(d, j)' = Place(d, j)
      BY <3>1 DEF Place
    <3>4. \A j \in 1..Len(pump[d].ids) : Present(d, WsEventTypes[Place(d, j)], pump[d].ids[j])'
      BY <2>10, <2>11, <3>1, <3>2, <3>3 DEF Kept
    <3> QED BY <2>0, <2>8, <2>11, <3>1, <3>4 DEF Kept
  <2>12. Kept(c)'
    <3>1. pump'[c].ids = Tail(pump[c].ids) /\ pump'[c].pc = "unsubscribe"
      BY <1>0, <2>0 DEF Pump
    <3>2. ASSUME NEW j \in 1..(Len(pump[c].ids) - 1)
          PROVE  Present(c, WsEventTypes[Place(c, j)], pump[c].ids[j])'
      <4>1. /\ Place(c, j)' = k + j /\ Place(c, j + 1) = k + j /\ j + 1 \in 1..Len(pump[c].ids)
            /\ k + j \in 1..Len(WsEventTypes) /\ k + j # k
        <5>1. /\ j \in Nat \ {0} /\ j <= Len(pump[c].ids) - 1 /\ Len(pump[c].ids) \in Nat
              /\ Len(WsEventTypes) \in Nat /\ Len(pump[c].ids) <= Len(WsEventTypes)
          BY <1>0, <2>1, <3>2, BusNumbers
        <5>2. k = Len(WsEventTypes) - Len(pump[c].ids) + 1 /\ k \in Nat
          BY <2>2
        <5>3. Place(c, j)' = Len(WsEventTypes) - (Len(pump[c].ids) - 1) + j
          BY <2>1, <3>1 DEF Place
        <5>4. Place(c, j + 1) = Len(WsEventTypes) - Len(pump[c].ids) + (j + 1)
          BY <2>0 DEF Place
        <5>5. /\ Len(WsEventTypes) - (Len(pump[c].ids) - 1) + j = k + j
              /\ Len(WsEventTypes) - Len(pump[c].ids) + (j + 1) = k + j
          BY <5>1, <5>2
        <5>6. j + 1 \in 1..Len(pump[c].ids) /\ k + j \in 1..Len(WsEventTypes) /\ k + j # k
          BY <5>1, <5>2
        <5> QED BY <5>3, <5>4, <5>5, <5>6
      <4>2. Present(c, WsEventTypes[k + j], pump[c].ids[j + 1])
        BY <1>0, <4>1 DEF Kept
      <4>3. WsEventTypes[k + j] \in EventTypes /\ WsEventTypes[k + j] # t
        BY <2>2, <4>1, BusNumbers
      <4>4. pump'[c].ids[j] = pump[c].ids[j + 1]
        BY <2>1, <3>1, <3>2
      <4>5. PICK n : n = pump[c].ids[j + 1]
        OBVIOUS
      <4>6. Present(c, WsEventTypes[k + j], n)'
        BY <2>10, <4>2, <4>3, <4>5
      <4> QED BY <4>1, <4>4, <4>5, <4>6 DEF Present
    <3> QED BY <2>1, <3>1, <3>2 DEF Kept
  <2> QED BY <2>9, <2>11, <2>12
<1>4. ASSUME NEW t \in EventTypes, Forward(c, t)
      PROVE  NamesDiffer' /\ \A d \in Clients : Kept(d)'
  BY <1>0, <1>4 DEF Forward, NamesDiffer, Kept, Present, Place
<1>5. ASSUME NEW t \in EventTypes, ForwarderEnds(c, t)
      PROVE  NamesDiffer' /\ \A d \in Clients : Kept(d)'
  <2>1. UNCHANGED <<pump, subscribers, quit>> /\ pump[c].pc \in {"unsubscribe", "gone"}
    BY <1>0, <1>5 DEF ForwarderEnds, Kept
  <2>2. \A d \in Clients : d # c => forwarders'[d] = forwarders[d]
    BY <1>5 DEF ForwarderEnds, BusTyped
  <2>3. ASSUME NEW d \in Clients PROVE Kept(d)'
    <3>1. Kept(d) /\ (d = c \/ forwarders'[d] = forwarders[d])
      BY <1>0, <2>2
    <3> QED BY <2>1, <3>1 DEF Kept, Present, Place
  <2> QED BY <1>0, <2>1, <2>3 DEF NamesDiffer
<1> QED BY <1>1, <1>2, <1>3, <1>4, <1>5 DEF ClientNext, Serving, Writing

LEMMA NamesUnchanged ==
    ASSUME UNCHANGED <<subscribers, pump, quit, forwarders, distinct>>, BusNamed
    PROVE  BusNamed'
<1>1. NamesDiffer => NamesDiffer'
  BY DEF NamesDiffer
<1>2. ASSUME NEW c \in Clients, Kept(c) PROVE Kept(c)'
  BY <1>2 DEF Kept, Present, Place
<1> QED BY <1>1, <1>2 DEF BusNamed

LEMMA PublishNamed ==
    ASSUME BusNamed, (\E t \in EventTypes : \E by : Publish(t, by)) \/ \E p \in publishing : Send(p)
    PROVE  BusNamed'
<1>1. UNCHANGED <<subscribers, pump, quit, forwarders, distinct>>
  BY DEF Publish, Send, bus
<1> QED BY <1>1, NamesUnchanged

\* What a publication under way has to send, and to whom, is not changed by a client
LEMMA ClientPublications ==
    ASSUME PublicationsTyped, NEW c \in Clients, ClientNext(c)
    PROVE  PublicationsTyped'
<1>1. UNCHANGED <<published, publishing>> /\ (publishing = {} \/ UNCHANGED subscribers)
  BY ClientLeaves
<1> QED BY <1>1 DEF PublicationsTyped, Publication

\* A client subscribes to each type once
LEMMA ClientListed ==
    ASSUME BusTyped, BusListed, NEW c \in Clients, ClientNext(c)
    PROVE  BusListed'
<1>0. /\ pump \in [Clients -> Pump] /\ pump[c].ids \in Seq(Clock) /\ Len(pump[c].ids) \in Nat
      /\ \A t \in EventTypes : subscribers[t] \in Seq(Subscription)
  BY LenProperties DEF BusTyped, Pump
<1>1. ASSUME Upgrade(c) \/ PeerGone(c) \/ ReadPump(c) \/ Welcome(c) \/ Ping(c) \/ Done(c)
             \/ CloseConn(c) \/ StartPumps(c) \/ Deliver(c)
      PROVE  BusListed'
  <2>1. /\ pump'[c].ids = pump[c].ids /\ UNCHANGED subscribers
        /\ \A d \in Clients : d # c => pump'[d] = pump[d]
        /\ pump'[c].pc = pump[c].pc \/ pump'[c].pc # "none"
        /\ pump'[c].pc = "subscribe" => pump[c].pc \in {"subscribe", "none"}
    BY <1>1, PumpMoves
  <2>2. ListedOnce'
    BY <2>1 DEF BusListed, ListedOnce
  <2>3. ASSUME NEW t \in EventTypes, NEW i \in DOMAIN subscribers[t],
               NEW d \in Clients, d = subscribers[t][i].client
        PROVE  /\ pump'[d].pc # "none"
               /\ pump'[d].pc = "subscribe" => \E k \in 1..Len(pump'[d].ids) : WsEventTypes[k] = t
    <3>1. /\ pump[d].pc # "none"
          /\ pump[d].pc = "subscribe" => \E k \in 1..Len(pump[d].ids) : WsEventTypes[k] = t
      BY <2>3 DEF BusListed, ListedLater
    <3>2. CASE d # c
      BY <2>1, <3>1, <3>2
    <3>3. CASE d = c
      BY <2>1, <3>1, <3>3
    <3> QED BY <3>2, <3>3
  <2>4. \A t \in EventTypes : \A i \in DOMAIN subscribers[t] : subscribers[t][i].client \in Clients
    BY ListTyped
  <2>5. ListedLater'
    BY <2>1, <2>3, <2>4 DEF ListedLater
  <2> QED BY <2>2, <2>5 DEF BusListed
<1>2. CASE Subscribe(c)
  <2>0. PICK k \in 1..Len(WsEventTypes), t \in EventTypes :
           k = Len(pump[c].ids) + 1 /\ t = WsEventTypes[k]
    BY <1>2, BusNumbers DEF Subscribe
  <2>1. PICK id \in Clock :
           /\ subscribers' = [subscribers EXCEPT ![t] = Append(@, [client |-> c, id |-> id])]
           /\ pump' = [pump EXCEPT ![c].ids = Append(@, id)]
    BY <1>2, <2>0 DEF Subscribe
  <2> DEFINE e == [client |-> c, id |-> id]
             l == subscribers[t]
  <2>2. e \in Subscription /\ l \in Seq(Subscription) /\ e.client = c
    BY <1>0 DEF Subscription
  <2>3. /\ DOMAIN Append(l, e) = 1..(Len(l) + 1) /\ DOMAIN l = 1..Len(l) /\ Len(l) \in Nat
        /\ \A i \in DOMAIN l : Append(l, e)[i] = l[i]
        /\ Append(l, e)[Len(l) + 1] = e
    BY <2>2, AppendPlaces
  <2>4. \A u \in EventTypes : subscribers'[u] = IF u = t THEN Append(l, e) ELSE subscribers[u]
    BY <2>1 DEF BusTyped
  <2>5. /\ pump'[c].ids = Append(pump[c].ids, id) /\ pump'[c].pc = "subscribe"
        /\ pump[c].pc = "subscribe" /\ Len(pump'[c].ids) = k
        /\ \A d \in Clients : d # c => pump'[d] = pump[d]
    <3>1. Len(Append(pump[c].ids, id)) = k
      BY <1>0, <2>0, AppendPlaces
    <3>2. pump[c].pc = "subscribe"
      BY <1>2 DEF Subscribe
    <3> QED BY <1>0, <2>1, <3>1, <3>2 DEF Pump
  <2>6. \A i \in DOMAIN l : l[i].client # c
    <3> SUFFICES ASSUME NEW i \in DOMAIN l, l[i].client = c PROVE FALSE
      OBVIOUS
    <3>1. PICK j \in 1..Len(pump[c].ids) : WsEventTypes[j] = t
      BY <2>5 DEF BusListed, ListedLater
    <3>2. j \in 1..Len(WsEventTypes) /\ j # k
      BY <1>0, <2>0, BusNumbers
    <3> QED BY <2>0, <3>1, <3>2, BusNumbers
  <2>7. ListedOnce'
    <3>1. \A i, j \in DOMAIN l : l[i].client = l[j].client => i = j
      BY DEF BusListed, ListedOnce
    <3> HIDE DEF e, l
    <3>2. \A i \in DOMAIN Append(l, e) : i \in DOMAIN l \/ i = Len(l) + 1
      BY <2>3
    <3>3. \A i, j \in DOMAIN Append(l, e) :
             Append(l, e)[i].client = Append(l, e)[j].client => i = j
      BY <2>2, <2>3, <2>6, <3>1, <3>2
    <3> QED BY <2>4, <3>3 DEF BusListed, ListedOnce
  <2>8. ASSUME NEW u \in EventTypes, NEW i \in DOMAIN subscribers'[u],
               NEW d, d = subscribers'[u][i].client
        PROVE  /\ pump'[d].pc # "none"
               /\ pump'[d].pc = "subscribe" => \E j \in 1..Len(pump'[d].ids) : WsEventTypes[j] = u
    <3>1. CASE i \in DOMAIN subscribers[u] /\ subscribers'[u][i] = subscribers[u][i]
      <4>1. /\ pump[d].pc # "none"
            /\ pump[d].pc = "subscribe" => \E j \in 1..Len(pump[d].ids) : WsEventTypes[j] = u
        BY <2>8, <3>1 DEF BusListed, ListedLater
      <4>2. d \in Clients
        BY <2>8, <3>1, ListTyped
      <4>3. CASE d # c
        BY <2>5, <4>1, <4>2, <4>3
      <4>4. CASE d = c
        <5>1. PICK j \in 1..Len(pump[c].ids) : WsEventTypes[j] = u
          BY <2>5, <4>1, <4>4
        <5>2. j \in 1..Len(pump'[c].ids)
          BY <1>0, <2>0, <2>5
        <5> QED BY <2>5, <4>4, <5>1, <5>2
      <4> QED BY <4>3, <4>4
    <3>2. CASE u = t /\ d = c
      BY <2>0, <2>5, <3>2
    <3>3. CASE u # t
      BY <2>4, <2>8, <3>1, <3>3
    <3>4. CASE u = t
      <4>1. (i \in DOMAIN l /\ subscribers'[u][i] = l[i]) \/ subscribers'[u][i] = e
        <5> HIDE DEF e, l
        <5>1. subscribers'[u] = Append(l, e)
          BY <2>4, <3>4
        <5>2. i \in 1..(Len(l) + 1)
          BY <2>3, <5>1
        <5>3. i \in DOMAIN l \/ i = Len(l) + 1
          BY <2>3, <5>2
        <5> QED BY <2>3, <5>1, <5>3
      <4>2. subscribers'[u][i] = e => d = c
        BY <2>2, <2>8
      <4> QED BY <3>1, <3>2, <3>4, <4>1, <4>2
    <3> QED BY <3>3, <3>4
  <2> QED BY <2>7, <2>8 DEF BusListed, ListedLater
<1>3. CASE Unsubscribe(c)
  <2>1. /\ pump[c].pc = "unsubscribe" /\ pump' = [pump EXCEPT ![c].ids = Tail(@)]
    BY <1>3 DEF Unsubscribe
  <2>2. /\ pump'[c].pc = "unsubscribe" /\ \A d \in Clients : d # c => pump'[d] = pump[d]
    BY <1>0, <2>1 DEF Pump
  \* What is left of a list are entries of it, each at most once
  <2>3. ASSUME NEW u \in EventTypes
        PROVE  /\ \A i \in DOMAIN subscribers'[u] :
                     \E p \in DOMAIN subscribers[u] : subscribers'[u][i] = subscribers[u][p]
               /\ \A i, j \in DOMAIN subscribers'[u] :
                     subscribers'[u][i].client = subscribers'[u][j].client => i = j
    <3>0. \A p, q \in DOMAIN subscribers[u] :
             subscribers[u][p].client = subscribers[u][q].client => p = q
      BY DEF BusListed, ListedOnce
    <3>1. CASE subscribers'[u] = subscribers[u]
      BY <3>0, <3>1
    <3>2. ASSUME NEW i \in DOMAIN subscribers[u], subscribers'[u] = RemoveAt(subscribers[u], i)
          PROVE  /\ \A j \in DOMAIN subscribers'[u] :
                       \E p \in DOMAIN subscribers[u] : subscribers'[u][j] = subscribers[u][p]
                 /\ \A j, m \in DOMAIN subscribers'[u] :
                       subscribers'[u][j].client = subscribers'[u][m].client => j = m
      <4> DEFINE l == subscribers[u]
                 r == RemoveAt(l, i)
      <4>1. /\ DOMAIN r = 1..(Len(l) - 1) /\ DOMAIN l = 1..Len(l) /\ Len(l) \in Nat
            /\ \A j \in 1..(Len(l) - 1) : r[j] = IF j < i THEN l[j] ELSE l[j + 1]
        BY <1>0, RemovePlaces
      <4> HIDE DEF l, r
      <4>2. \A j \in DOMAIN r : \E p \in DOMAIN l : r[j] = l[p] /\ p = IF j < i THEN j ELSE j + 1
        BY <4>1
      <4>3. ASSUME NEW j \in DOMAIN r, NEW m \in DOMAIN r, r[j].client = r[m].client PROVE j = m
        <5>1. PICK p \in DOMAIN l : r[j] = l[p] /\ p = IF j < i THEN j ELSE j + 1
          BY <4>2
        <5>2. PICK q \in DOMAIN l : r[m] = l[q] /\ q = IF m < i THEN m ELSE m + 1
          BY <4>2
        <5>3. p = q
          BY <3>0, <4>3, <5>1, <5>2 DEF l
        <5> QED BY <4>1, <5>1, <5>2, <5>3 DEF l
      <4> QED BY <3>2, <4>2, <4>3 DEF l, r
    <3>3. \/ subscribers'[u] = subscribers[u]
          \/ \E i \in DOMAIN subscribers[u] : subscribers'[u] = RemoveAt(subscribers[u], i)
      <4> DEFINE t == WsEventTypes[Len(WsEventTypes) - Len(pump[c].ids) + 1]
                 i == Found(t, Head(pump[c].ids))
      <4>1. \/ UNCHANGED subscribers
            \/ i # 0 /\ subscribers' = [subscribers EXCEPT ![t] = RemoveAt(@, i)]
        BY <1>3 DEF Unsubscribe
      <4>2. u = t /\ i # 0 => i \in DOMAIN subscribers[u]
        BY FoundNamed
      <4> HIDE DEF t, i
      <4> QED BY <4>1, <4>2 DEF BusTyped
    <3> QED BY <3>1, <3>2, <3>3
  <2>4. ListedOnce'
    BY <2>3 DEF ListedOnce
  <2>5. ASSUME NEW u \in EventTypes, NEW i \in DOMAIN subscribers'[u],
               NEW d, d = subscribers'[u][i].client
        PROVE  /\ pump'[d].pc # "none"
               /\ pump'[d].pc = "subscribe" => \E k \in 1..Len(pump'[d].ids) : WsEventTypes[k] = u
    <3>1. PICK p \in DOMAIN subscribers[u] : subscribers'[u][i] = subscribers[u][p]
      BY <2>3
    <3>2. /\ pump[d].pc # "none" /\ d \in Clients
          /\ pump[d].pc = "subscribe" => \E k \in 1..Len(pump[d].ids) : WsEventTypes[k] = u
      BY <2>5, <3>1, ListTyped DEF BusListed, ListedLater
    <3> QED BY <2>2, <3>2
  <2> QED BY <2>4, <2>5 DEF BusListed, ListedLater
<1>4. ASSUME NEW t \in EventTypes, Forward(c, t) \/ ForwarderEnds(c, t) PROVE BusListed'
  BY <1>4 DEF Forward, ForwarderEnds, BusListed, ListedOnce, ListedLater
<1> QED BY <1>1, <1>2, <1>3, <1>4 DEF ClientNext, Serving, Writing

LEMMA PublishListed ==
    ASSUME BusListed,
           (\E t \in EventTypes : \E by : Publish(t, by)) \/ \E p \in publishing : Send(p)
    PROVE  BusListed'
<1>1. UNCHANGED <<subscribers, pump>>
  BY DEF Publish, Send, bus
<1> QED BY <1>1 DEF BusListed, ListedOnce, ListedLater

\* What a step keeps of the bus
LEMMA BusKept ==
    ASSUME BusStep, BusTyped, PublicationsTyped
    PROVE  /\ (BusTyped /\ PublicationsTyped)'
           /\ BusListed => BusListed'
           /\ BusListed /\ BusOrdered => BusOrdered'
           /\ BusNamed => BusNamed'
<1>1. ASSUME NEW c \in Clients, ClientNext(c)
      PROVE  /\ (BusTyped /\ PublicationsTyped)' /\ (BusListed => BusListed')
             /\ (BusOrdered => BusOrdered') /\ (BusNamed => BusNamed')
  BY <1>1, ClientTyped, ClientPublications, ClientListed, ClientOrdered, ClientNamed
<1>2. ASSUME NEW t \in EventTypes, NEW by, Publish(t, by)
      PROVE  (BusTyped /\ PublicationsTyped)' /\ (BusOrdered => BusOrdered')
  BY <1>2, PublishTyped, PublishOrdered
<1>3. ASSUME NEW p \in publishing, Send(p)
      PROVE  (BusTyped /\ PublicationsTyped)' /\ (BusListed /\ BusOrdered => BusOrdered')
  BY <1>3, SendTyped, SendOrdered DEF BusListed
<1>4. ASSUME (\E t \in EventTypes : \E by : Publish(t, by)) \/ \E p \in publishing : Send(p)
      PROVE  (BusListed => BusListed') /\ (BusNamed => BusNamed')
  BY <1>4, PublishListed, PublishNamed
<1> QED BY <1>1, <1>2, <1>3, <1>4 DEF BusStep

LEMMA BusUnchanged ==
    ASSUME UNCHANGED busVars
    PROVE  /\ BusTyped /\ PublicationsTyped => (BusTyped /\ PublicationsTyped)'
           /\ BusListed => BusListed'
           /\ BusOrdered => BusOrdered'
           /\ BusNamed => BusNamed'
<1>1. BusTyped /\ PublicationsTyped => (BusTyped /\ PublicationsTyped)'
  BY DEF busVars, bus, BusTyped, PublicationsTyped, Publication
<1>2. BusListed => BusListed'
  BY DEF busVars, bus, BusListed, ListedOnce, ListedLater
<1>3. BusOrdered => BusOrdered'
  BY DEF busVars, bus, BusOrdered, Ordered, Numbered, SentInOrder, Awaits, Overlapping
<1>4. BusNamed => BusNamed'
  BY NamesUnchanged DEF busVars, bus
<1> QED BY <1>1, <1>2, <1>3, <1>4

LEMMA BusBegins ==
    ASSUME BusInit
    PROVE  BusTyped /\ PublicationsTyped /\ BusListed /\ BusOrdered /\ BusNamed
<1>1. Len(<<>>) = 0 /\ (DOMAIN <<>>) = {} /\ \A S : <<>> \in Seq(S)
  BY EmptySeq
<1>2. BusTyped
  BY <1>1, BusNumbers DEF BusInit, BusTyped, Pump, NoPump
<1>3. PublicationsTyped /\ SentInOrder /\ Overlapping
  BY DEF BusInit, PublicationsTyped, SentInOrder, Overlapping
<1>4. BusListed
  BY <1>1 DEF BusInit, BusListed, ListedOnce, ListedLater
<1>5. BusOrdered
  BY <1>1, <1>3 DEF BusInit, BusOrdered, Ordered, Numbered, Rising, Prior, Before
<1>6. BusNamed
  <2>1. NamesDiffer
    BY <1>1 DEF BusInit, NamesDiffer
  <2>2. ASSUME NEW c \in Clients PROVE Kept(c)
    <3>1. /\ pump[c].pc = "none" /\ Len(pump[c].ids) = 0 /\ quit[c] = {}
      BY <1>1 DEF BusInit, NoPump
    <3> QED BY <3>1 DEF Kept
  <2> QED BY <2>1, <2>2 DEF BusNamed
<1> QED BY <1>2, <1>3, <1>4, <1>5, <1>6

\* Whatever happens, on the bus it is a client's step, or one of a publication, or nothing
LEMMA BusSteps ==
    ASSUME [Next]_vars
    PROVE  UNCHANGED busVars \/ BusStep
<1>1. ASSUME NEW r \in Requests, Handler(r) PROVE UNCHANGED busVars \/ BusStep
  <2>1. "message_sent" \in EventTypes
    BY MessagesAssumption DEF MessagesAssumption
  <2>2. NotifyMessageSent(r) => BusStep
    BY <2>1 DEF NotifyMessageSent, BusStep
  <2> QED BY <1>1, <2>2 DEF Handler, Arrive, SendCommand, SendFails, InsertMessageLog
<1>2. CASE ClearMessageLogs
  BY <1>2 DEF ClearMessageLogs
<1>3. ASSUME NEW n \in notices, ReadState(n) \/ PublishState(n) \/ UpdateStationStatus(n)
      PROVE  UNCHANGED busVars \/ BusStep
  <2>1. "station_state_changed" \in EventTypes
    BY MessagesAssumption DEF MessagesAssumption
  <2>2. PublishState(n) => BusStep
    BY <2>1 DEF PublishState, BusStep
  <2> QED BY <1>3, <2>2 DEF ReadState, UpdateStationStatus
<1>4. ASSUME NEW code, Received(code) PROVE BusStep
  <2>1. "message_received" \in EventTypes
    BY MessagesAssumption DEF MessagesAssumption
  <2> QED BY <1>4, <2>1 DEF Received, BusStep
<1>5. CASE StationNext /\ ~\E code \in Codes : Received(code)
  <2>1. ASSUME NEW a \in answers, Registered(a) \/ Refused(a) \/ NotRegistered(a)
        PROVE  UNCHANGED busVars
    BY <2>1 DEF Registered, Refused, NotRegistered
  <2>2. ASSUME Connect \/ Dialled \/ SendRegister \/ ConnectFails \/ RegisterTimeout
               \/ ResendRegister \/ HandleDisconnect \/ Stop \/ HandlerNotice
        PROVE  UNCHANGED busVars
    BY <2>2 DEF Connect, Dialled, SendRegister, ConnectFails, RegisterTimeout, ResendRegister,
                HandleDisconnect, Stop, HandlerNotice
  <2> QED BY <1>5, <2>1, <2>2 DEF StationNext
<1>6. CASE Others
  BY <1>6, BusNumbers DEF Others, BusStep
<1>7. CASE OnBus
  BY <1>7 DEF OnBus, BusStep
<1>8. CASE UNCHANGED vars
  BY <1>8 DEF vars
<1> QED BY <1>1, <1>2, <1>3, <1>4, <1>5, <1>6, <1>7, <1>8 DEF Next

\* The buffers of the bus stay within their bounds and hold events, publications under way have
\* a subscription to send to, and what the clients' goroutines are at is what they can be at
\* (EventBus.BusTypeOK), whatever is sent
THEOREM BusTypeCorrect == Spec => [](BusTyped /\ PublicationsTyped)
<1>1. Init => BusTyped /\ PublicationsTyped
  BY BusBegins DEF Init
<1>2. BusTyped /\ PublicationsTyped /\ [Next]_vars => (BusTyped /\ PublicationsTyped)'
  BY BusSteps, BusUnchanged, BusKept
<1> QED BY <1>1, <1>2, PTL DEF Spec

\* A client gets no event of a type after one whose publication began when its own had ended,
\* and none twice, through the buffer of its subscription and its own channel, whoever publishes
\* at the same time and whichever events are dropped
THEOREM InOrderCorrect == Spec => []InOrder
<1> DEFINE Inv == BusTyped /\ PublicationsTyped /\ BusListed /\ BusOrdered
<1>1. Init => Inv
  BY BusBegins DEF Init
<1>2. Inv /\ [Next]_vars => Inv'
  BY BusSteps, BusUnchanged, BusKept
<1>3. Inv => InOrder
  BY DEF BusOrdered, Ordered, Rising, InOrder
<1> HIDE DEF Inv
<1> QED BY <1>1, <1>2, <1>3, PTL DEF Spec

\* As long as the clock gives each subscription a name of its own, a client whose goroutines run
\* is on the list of each type and its forwarders run: those who leave take only themselves off
THEOREM StaysSubscribedCorrect == Spec => []StaysSubscribed
<1>1. Init => BusTyped /\ PublicationsTyped /\ BusNamed
  BY BusBegins DEF Init
<1>2. BusTyped /\ PublicationsTyped /\ BusNamed /\ [Next]_vars
         => (BusTyped /\ PublicationsTyped /\ BusNamed)'
  BY BusSteps, BusUnchanged, BusKept
<1>3. BusTyped /\ BusNamed => StaysSubscribed
  <2> SUFFICES ASSUME BusTyped, BusNamed, distinct, NEW c \in Clients,
                      pump[c].pc \in {"welcome", "loop"}, NEW t \in ToSet(WsEventTypes)
               PROVE  Subscribed(c, t) /\ t \in forwarders[c]
    BY DEF StaysSubscribed
  <2>1. Kept(c) /\ Len(pump[c].ids) = Len(WsEventTypes) /\ t \in forwarders[c]
    BY DEF BusNamed, Kept
  <2>2. PICK i \in 1..Len(WsEventTypes) : t = WsEventTypes[i]
    BY BusNumbers DEF ToSet
  <2>3. Present(c, WsEventTypes[Place(c, i)], pump[c].ids[i]) /\ Place(c, i) = i
    BY <2>1 DEF Kept, Place
  <2> QED BY <2>1, <2>2, <2>3 DEF Present, Subscribed
<1> QED BY <1>1, <1>2, <1>3, PTL DEF Spec

-----------------------------------------------------------------------------
(* Messages                                                                *)

States == {"idle", "register", "online", "reconnect"}
Wanted == UNION {Wants[r] : r \in Requests}
Commands == {"register", "alarm"} \cup {want.cmd : want \in Wanted}
Frames == [conn : 0..MaxConns, cmd : Commands, by : Requests \cup {None}]
Request == [pc : {"new", "send", "publish", "log", "done"}, want : Wanted \cup {NoReq.want},
            next : Nat, sent : Nat, failed : Nat]
Notices == [old : States, new : States \cup {"?"}, pc : {"read", "publish", "row"}, n : Nat]

\* Types of everything but the bus
Typed ==
    /\ state \in States /\ status \in States /\ told \in States
    /\ conn \in 0..MaxConns /\ dial \in {"no", "dial", "register"} /\ awaiting \in BOOLEAN
    /\ answers \subseteq [code : Codes, n : Nat] /\ resends \in Nat
    /\ wire \in Seq(Frames)
    /\ notices \subseteq Notices /\ \A n \in notices : n.new = "?" <=> n.pc = "read"
    /\ budget \in [{"changes", "others", "clears"} -> Nat]
    /\ req \in [Requests -> Request]
    /\ \A r \in Requests : req[r].pc # "new" => req[r].want \in Wanted

\* The number of commands of a request, and of those it is done with
Counted(r) ==
    LET done == req[r].sent + req[r].failed IN
    CASE req[r].pc = "new" -> req[r].next = 0 /\ done = 0
      [] req[r].pc = "send" -> req[r].next \in 1..Total(r) /\ done = req[r].next - 1
      [] req[r].pc \in {"publish", "log"} -> req[r].next \in 1..Total(r) /\ done = req[r].next
      [] OTHER -> req[r].next \in {1, Total(r) + 1} /\ done = req[r].next - 1

\* What a handler's step does to its request, and to what there is besides
Arrives(r, q) ==
    /\ req[r].pc = "new" /\ q.pc \in {"send", "done"} /\ q.want \in Wants[r]
    /\ q.next = 1 /\ q.sent = req[r].sent /\ q.failed = req[r].failed
    /\ q.pc = "send" => state = "online" /\ (q.want.via # "all" => Accepts(q.want))
    /\ UNCHANGED <<wire, frame, log, cleared>>

Sends(r, q) ==
    /\ req[r].pc = "send" /\ q.pc = "publish" /\ q.want = req[r].want
    /\ q.next = req[r].next /\ q.sent = req[r].sent + 1 /\ q.failed = req[r].failed
    /\ conn # None /\ wire' = Append(wire, [conn |-> conn, cmd |-> Command(r), by |-> r])
    /\ frame' = BuildBody(Command(r), Params(r)) /\ ~Failed(BuildBody(Command(r), Params(r)))
    /\ UNCHANGED <<log, cleared>>

GoesOn(r, q) ==
    /\ q.next = req[r].next + 1 /\ q.want = req[r].want /\ q.sent = req[r].sent
    /\ q.pc = IF req[r].next = Total(r) THEN "done" ELSE "send"
    /\ UNCHANGED <<wire, frame, cleared>>

Fails(r, q) == req[r].pc = "send" /\ GoesOn(r, q) /\ q.failed = req[r].failed + 1 /\ UNCHANGED log

Publishes(r, q) ==
    /\ req[r].pc = "publish" /\ q.pc = "log" /\ q.want = req[r].want
    /\ q.next = req[r].next /\ q.sent = req[r].sent /\ q.failed = req[r].failed
    /\ UNCHANGED <<wire, frame, log, cleared>>

Logs(r, q) ==
    /\ req[r].pc = "log" /\ GoesOn(r, q) /\ q.failed = req[r].failed
    /\ \/ log' = log \cup {LastOf(r)}
       \/ ~dbWorks /\ UNCHANGED log

Moves(r, q) ==
    /\ req' = [req EXCEPT ![r] = q] /\ UNCHANGED <<stationVars, noticeVars, budget, rigid>>
    /\ Arrives(r, q) \/ Sends(r, q) \/ Fails(r, q) \/ Publishes(r, q) \/ Logs(r, q)

LEMMA TotalIs == \A r \in Requests : Total(r) \in 1..Len(Samples) /\ Len(Samples) \in Nat \ {0}
<1>1. Len(Samples) \in Nat \ {0}
  BY MessagesAssumption, EmptySeq, LenProperties DEF MessagesAssumption
<1> QED BY <1>1 DEF Total

LEMMA HandlerMoves ==
    ASSUME Typed, NEW r \in Requests, Handler(r)
    PROVE  \E q \in Request : Moves(r, q)
<1>0. req \in [Requests -> Request] /\ req[r] \in Request
  BY DEF Typed
<1>1. CASE Arrive(r)
  <2>1. PICK want \in Wants[r] :
           LET refused == ~IsOnline \/ (want.via # "all" /\ ~Accepts(want)) IN
           req' = [req EXCEPT ![r].want = want, ![r].next = 1,
                              ![r].pc = IF refused THEN "done" ELSE "send"]
    BY <1>1 DEF Arrive
  <2> DEFINE refused == ~IsOnline \/ (want.via # "all" /\ ~Accepts(want))
             q == [req[r] EXCEPT !.want = want, !.next = 1,
                                 !.pc = IF refused THEN "done" ELSE "send"]
  <2>2. req' = [req EXCEPT ![r] = q] /\ want \in Wanted
    BY <2>1, <1>0 DEF Wanted
  <2>3. q \in Request
    BY <1>0, <2>2 DEF Request
  <2>4. /\ q.want = want /\ q.next = 1 /\ q.pc \in {"send", "done"}
        /\ q.sent = req[r].sent /\ q.failed = req[r].failed /\ (q.pc = "send" => ~refused)
    BY <1>0 DEF Request
  <2> HIDE DEF q
  <2>5. Arrives(r, q)
    BY <1>1, <2>4 DEF Arrive, Arrives, IsOnline, wireVars, logVars
  <2> QED BY <1>1, <2>2, <2>3, <2>5 DEF Arrive, Moves
<1>2. CASE SendCommand(r)
  <2> DEFINE q == [req[r] EXCEPT !.pc = "publish", !.sent = @ + 1]
  <2>1. req' = [req EXCEPT ![r] = q]
    BY <1>0, <1>2 DEF SendCommand, Request
  <2>2. q \in Request /\ q.pc = "publish" /\ q.want = req[r].want /\ q.next = req[r].next
        /\ q.sent = req[r].sent + 1 /\ q.failed = req[r].failed
    <3>1. req[r].sent + 1 \in Nat
      BY <1>0 DEF Request
    <3> QED BY <1>0, <3>1 DEF Request
  <2> HIDE DEF q
  <2>3. Sends(r, q)
    BY <1>2, <2>2 DEF SendCommand, Sends, logVars
  <2> QED BY <1>2, <2>1, <2>2, <2>3 DEF SendCommand, Moves
<1>3. ASSUME NEW rec \in Request, rec.next = req[r].next, rec.want = req[r].want,
             rec.sent = req[r].sent, req' = [req EXCEPT ![r] = Then(r, rec)],
             UNCHANGED <<wire, frame, cleared>>
      PROVE  /\ Then(r, rec) \in Request /\ GoesOn(r, Then(r, rec))
             /\ Then(r, rec).failed = rec.failed
  <2>1. rec.next + 1 \in Nat
    BY <1>3 DEF Request
  <2> DEFINE pc == IF rec.next = Total(r) THEN "done" ELSE "send"
             q == [rec EXCEPT !.next = rec.next + 1, !.pc = pc]
  <2>2. Then(r, rec) = q
    BY DEF Then
  <2>3. pc \in {"done", "send"} /\ (pc = IF req[r].next = Total(r) THEN "done" ELSE "send")
    BY <1>3
  <2> HIDE DEF pc
  <2>4. /\ q \in Request /\ q.next = rec.next + 1 /\ q.pc = pc /\ q.want = rec.want
        /\ q.sent = rec.sent /\ q.failed = rec.failed
    BY <1>3, <2>1, <2>3 DEF Request
  <2> HIDE DEF q
  <2> QED BY <1>3, <2>2, <2>3, <2>4 DEF GoesOn
<1>4. CASE SendFails(r)
  <2> DEFINE rec == [req[r] EXCEPT !.failed = @ + 1]
  <2>1. /\ rec \in Request /\ rec.next = req[r].next /\ rec.want = req[r].want
        /\ rec.sent = req[r].sent /\ rec.failed = req[r].failed + 1
    <3>1. req[r].failed + 1 \in Nat
      BY <1>0 DEF Request
    <3> QED BY <1>0, <3>1 DEF Request
  <2>2. req' = [req EXCEPT ![r] = Then(r, rec)]
    BY <1>4 DEF SendFails
  <2> HIDE DEF rec
  <2>3. Then(r, rec) \in Request /\ Fails(r, Then(r, rec))
    BY <1>3, <1>4, <2>1, <2>2 DEF SendFails, Fails, wireVars, logVars
  <2> QED BY <1>4, <2>2, <2>3 DEF SendFails, Moves
<1>5. CASE NotifyMessageSent(r)
  <2> DEFINE q == [req[r] EXCEPT !.pc = "log"]
  <2>1. req' = [req EXCEPT ![r] = q]
    BY <1>0, <1>5 DEF NotifyMessageSent, Request
  <2>2. q \in Request /\ q.pc = "log" /\ q.want = req[r].want /\ q.next = req[r].next
        /\ q.sent = req[r].sent /\ q.failed = req[r].failed
    BY <1>0 DEF Request
  <2> HIDE DEF q
  <2>3. Publishes(r, q)
    BY <1>5, <2>2 DEF NotifyMessageSent, Publishes, wireVars, logVars
  <2> QED BY <1>5, <2>1, <2>2, <2>3 DEF NotifyMessageSent, Moves
<1>6. CASE InsertMessageLog(r)
  <2>1. req' = [req EXCEPT ![r] = Then(r, req[r])] /\ UNCHANGED <<wire, frame, cleared>>
    BY <1>0, <1>6 DEF InsertMessageLog, wireVars
  <2>2. Then(r, req[r]) \in Request /\ Logs(r, Then(r, req[r]))
    BY <1>0, <1>3, <1>6, <2>1 DEF InsertMessageLog, Logs
  <2> QED BY <1>6, <2>1, <2>2 DEF InsertMessageLog, Moves
<1> QED BY <1>1, <1>2, <1>4, <1>5, <1>6 DEF Handler

\* What the others do to what the requests are about
LEMMA OtherSteps ==
    ASSUME [Next]_vars, \A r \in Requests : ~Handler(r)
    PROVE  /\ UNCHANGED <<req, frame, rigid>>
           /\ \/ UNCHANGED <<wire, log, cleared>>
              \/ WriteRegister /\ UNCHANGED <<log, cleared>>
              \/ ClearMessageLogs /\ UNCHANGED wire
<1>1. CASE ClearMessageLogs
  BY <1>1 DEF ClearMessageLogs, wireVars
<1>2. ASSUME NEW n \in notices, ReadState(n) \/ PublishState(n) \/ UpdateStationStatus(n)
      PROVE  UNCHANGED <<req, wireVars, logVars, rigid>>
  BY <1>2 DEF ReadState, PublishState, UpdateStationStatus
<1>3. CASE Connect \/ Dialled \/ ConnectFails \/ RegisterTimeout \/ HandleDisconnect \/ Stop
           \/ HandlerNotice
  BY <1>3 DEF Connect, Dialled, ConnectFails, RegisterTimeout, HandleDisconnect, Stop,
     HandlerNotice, wireVars, logVars
<1>4. CASE SendRegister \/ ResendRegister
  BY <1>4 DEF SendRegister, ResendRegister, wireVars, logVars
<1>5. ASSUME NEW code, Received(code) PROVE UNCHANGED <<req, wireVars, logVars, rigid>>
  BY <1>5 DEF Received
<1>6. ASSUME NEW a \in answers, Registered(a) \/ Refused(a) \/ NotRegistered(a)
      PROVE  UNCHANGED <<req, wireVars, logVars, rigid>>
  BY <1>6 DEF Registered, Refused, NotRegistered
<1>7. CASE Others \/ OnBus
  BY <1>7 DEF Others, OnBus, wireVars, logVars
<1>8. CASE UNCHANGED vars
  BY <1>8 DEF vars, wireVars, logVars
<1> QED BY <1>1, <1>2, <1>3, <1>4, <1>5, <1>6, <1>7, <1>8 DEF Next, StationNext, wireVars, logVars

\* A frame more on the wire
LEMMA WireAppend ==
    ASSUME wire \in Seq(Frames), NEW f \in Frames, wire' = Append(wire, f)
    PROVE  /\ wire' \in Seq(Frames) /\ Len(wire) \in Nat /\ Len(wire') = Len(wire) + 1
           /\ DOMAIN wire = 1..Len(wire) /\ DOMAIN wire' = DOMAIN wire \cup {Len(wire) + 1}
           /\ DOMAIN wire' = 1..(Len(wire) + 1)
           /\ \A i \in DOMAIN wire : wire'[i] = wire[i] /\ i < Len(wire) + 1 /\ i \in Nat \ {0}
           /\ wire'[Len(wire) + 1] = f
<1>1. /\ wire' \in Seq(Frames) /\ Len(wire) \in Nat /\ Len(wire') = Len(wire) + 1
      /\ DOMAIN wire = 1..Len(wire) /\ DOMAIN wire' = 1..(Len(wire) + 1)
      /\ \A i \in DOMAIN wire : wire'[i] = wire[i]
      /\ wire'[Len(wire) + 1] = f
  BY AppendPlaces
<1> QED BY <1>1

\* The frames written for requests, and for the registration
LEMMA FrameTyped ==
    ASSUME Typed
    PROVE  /\ \A r \in Requests : req[r].pc = "send" =>
                 [conn |-> conn, cmd |-> Command(r), by |-> r] \in Frames
           /\ [conn |-> conn, cmd |-> "register", by |-> None] \in Frames
<1>1. ASSUME NEW r \in Requests, req[r].pc = "send" PROVE Command(r) \in Commands
  <2>1. req[r].want \in Wanted
    BY <1>1 DEF Typed
  <2> QED BY <2>1 DEF Command, Commands
<1> QED BY <1>1 DEF Typed, Frames, Commands

LEMMA NextConnTyped ==
    ASSUME Typed
    PROVE  NextConn \in Nat \ {0}
<1> DEFINE S == {wire[i].conn : i \in DOMAIN wire}
<1>1. S \subseteq 0..MaxConns
  <2>1. \A i \in DOMAIN wire : wire[i] \in Frames
    BY LenProperties, ElementOfSeq DEF Typed
  <2> QED BY <2>1 DEF Frames
<1>2. IsFiniteSet(0..MaxConns)
  BY MessagesAssumption, FS_Interval DEF MessagesAssumption
<1>3. IsFiniteSet(S) /\ Cardinality(S) \in Nat
  BY <1>1, <1>2, FS_Subset, FS_CardinalityType
<1> HIDE DEF S
<1>4. NextConn = 1 + Cardinality(S)
  BY DEF NextConn, S
<1> QED BY <1>3, <1>4

\* A change that is told
LEMMA TellTyped ==
    ASSUME Typed, NEW old \in States, NEW new \in States \cup {"?"}, NEW k \in Nat,
           Tell(old, new, k)
    PROVE  notices' \subseteq Notices /\ \A n \in notices' : n.new = "?" <=> n.pc = "read"
<1>1. /\ Notice(old, new, k) \in Notices
      /\ Notice(old, new, k).new = "?" <=> Notice(old, new, k).pc = "read"
  BY DEF Notice, Notices
<1> QED BY <1>1 DEF Tell, Typed

LEMMA ChangeTyped ==
    ASSUME Typed, NEW new \in States, NEW k \in Nat, Change(new, k)
    PROVE  /\ state' = new /\ UNCHANGED <<status, told>>
           /\ notices' \subseteq Notices /\ \A n \in notices' : n.new = "?" <=> n.pc = "read"
<1>1. state' = new /\ UNCHANGED <<status, told>>
  BY DEF Change
<1>2. CASE state = new
  BY <1>1, <1>2 DEF Change, Typed
<1>3. CASE state # new
  <2>1. Tell(state, "?", k) /\ state \in States
    BY <1>3 DEF Change, Typed
  <2> QED BY <1>1, <2>1, TellTyped
<1> QED BY <1>2, <1>3

LEMMA BudgetTyped ==
    ASSUME Typed, NEW what \in {"changes", "others", "clears"}, Spend(what)
    PROVE  budget' \in [{"changes", "others", "clears"} -> Nat]
BY DEF Spend, Typed

LEMMA TypedBegins ==
    ASSUME Init
    PROVE  Typed
<1>1. wire \in Seq(Frames)
  <2> DEFINE f == [conn |-> 1, cmd |-> "register", by |-> None]
  <2>1. f \in Frames
    BY MessagesAssumption DEF MessagesAssumption, Frames, Commands
  <2>2. wire = <<f>> \/ wire = <<>>
    BY DEF Init
  <2> HIDE DEF f
  <2>3. <<f>> \in Seq(Frames) /\ <<>> \in Seq(Frames)
    BY <2>1
  <2> QED BY <2>2, <2>3
<1>2. NoReq \in Request
  BY DEF NoReq, Request
<1>3. conn \in 0..MaxConns
  BY MessagesAssumption DEF MessagesAssumption, Init, None
<1>4. budget \in [{"changes", "others", "clears"} -> Nat]
  BY MessagesAssumption DEF MessagesAssumption, Init
<1>5. NoReq.pc = "new"
  BY DEF NoReq
<1> QED BY <1>1, <1>2, <1>3, <1>4, <1>5 DEF Init, Typed, States

LEMMA HandlerTyped ==
    ASSUME Typed, NEW r \in Requests, Handler(r)
    PROVE  Typed'
<1>1. PICK q \in Request : Moves(r, q)
  BY HandlerMoves
<1>2. req' \in [Requests -> Request]
  BY <1>1 DEF Moves, Typed
<1>3. q.pc # "new" => q.want \in Wanted
  <2>1. q.want \in Wanted
    BY <1>1 DEF Moves, Typed, Arrives, Sends, Fails, GoesOn, Publishes, Logs, Wanted
  <2> QED BY <2>1
<1>4. \A s \in Requests : req'[s].pc # "new" => req'[s].want \in Wanted
  BY <1>1, <1>3 DEF Moves, Typed
<1>5. UNCHANGED <<state, conn, dial, awaiting, answers, resends, notices, status, told, budget>>
  BY <1>1 DEF Moves, stationVars, noticeVars
<1>6. wire' \in Seq(Frames)
  <2>1. CASE Sends(r, q)
    <3>1. [conn |-> conn, cmd |-> Command(r), by |-> r] \in Frames
      BY <2>1, FrameTyped DEF Sends
    <3> QED BY <2>1, <3>1, WireAppend DEF Sends, Typed
  <2>2. CASE UNCHANGED wire
    BY <2>2 DEF Typed
  <2> QED BY <1>1, <2>1, <2>2 DEF Moves, Arrives, Fails, GoesOn, Publishes, Logs
<1> QED BY <1>2, <1>4, <1>5, <1>6 DEF Typed

LEMMA TypedStep ==
    ASSUME Typed, [Next]_vars
    PROVE  Typed'
<1>1. ASSUME NEW r \in Requests, Handler(r) PROVE Typed'
  BY <1>1, HandlerTyped
<1>2. CASE ClearMessageLogs
  <2>1. budget' \in [{"changes", "others", "clears"} -> Nat]
    BY <1>2, BudgetTyped DEF ClearMessageLogs
  <2> QED BY <1>2, <2>1 DEF ClearMessageLogs, Typed, stationVars, noticeVars, wireVars
<1>3. ASSUME NEW n \in notices, ReadState(n) PROVE Typed'
  <2>1. [n EXCEPT !.new = state, !.pc = "publish"] \in Notices
        /\ [n EXCEPT !.new = state, !.pc = "publish"].new # "?"
        /\ [n EXCEPT !.new = state, !.pc = "publish"].pc # "read"
    BY <1>3 DEF Typed, Notices, States
  <2> QED BY <1>3, <2>1 DEF ReadState, Typed, stationVars, wireVars
<1>4. ASSUME NEW n \in notices, PublishState(n) PROVE Typed'
  <2>1. n \in Notices /\ n.new # "?" /\ n.new \in States
    BY <1>4 DEF Typed, PublishState, Notices
  <2>2. [n EXCEPT !.pc = "row"] \in Notices /\ [n EXCEPT !.pc = "row"].new # "?"
        /\ [n EXCEPT !.pc = "row"].pc # "read"
    BY <2>1 DEF Notices
  <2> QED BY <1>4, <2>1, <2>2 DEF PublishState, Typed, stationVars, wireVars
<1>5. ASSUME NEW n \in notices, UpdateStationStatus(n) PROVE Typed'
  <2>1. n.new \in States
    BY <1>5 DEF Typed, UpdateStationStatus, Notices
  <2> QED BY <1>5, <2>1 DEF UpdateStationStatus, Typed, stationVars, wireVars
<1>6. ASSUME NEW new \in States, NEW k \in Nat, Change(new, k), UNCHANGED <<wire, req, resends>>,
             budget' \in [{"changes", "others", "clears"} -> Nat], answers' \subseteq answers,
             conn' = conn, dial' \in {"no", "dial", "register"}, awaiting' = awaiting
      PROVE  Typed'
  BY <1>6, ChangeTyped DEF Typed
<1>7. CASE Connect \/ ConnectFails \/ RegisterTimeout
  <2>1. /\ conn' = conn /\ dial' \in {"no", "dial", "register"} /\ awaiting' = awaiting
        /\ UNCHANGED <<wire, req, resends, answers>> /\ MayChange
    BY <1>7 DEF Connect, ConnectFails, RegisterTimeout, Typed, wireVars
  <2>2. \E new \in States : Change(new, budget.changes)
    BY <1>7 DEF Connect, ConnectFails, RegisterTimeout, States
  <2>3. budget' \in [{"changes", "others", "clears"} -> Nat] /\ budget.changes \in Nat
    BY <2>1, BudgetTyped DEF MayChange, Typed
  <2> QED BY <1>6, <2>1, <2>2, <2>3
<1>8. CASE Dialled
  <2>1. NextConn \in 0..MaxConns
    BY <1>8, NextConnTyped, MessagesAssumption DEF MessagesAssumption, Dialled
  <2> QED BY <1>8, <2>1 DEF Dialled, Typed, noticeVars, wireVars
<1>9. CASE SendRegister
  <2>1. wire' \in Seq(Frames)
    BY <1>9, FrameTyped, WireAppend DEF SendRegister, WriteRegister, Typed
  <2>2. dial' \in {"no", "dial", "register"} /\ awaiting' \in BOOLEAN
    BY <1>9 DEF SendRegister, WriteRegister
  <2>3. UNCHANGED <<state, conn, answers, resends, notices, status, told, budget, req>>
    BY <1>9 DEF SendRegister, noticeVars
  <2> QED BY <2>1, <2>2, <2>3 DEF Typed
<1>10. CASE HandleDisconnect \/ Stop \/ HandlerNotice
  <2>1. budget' \in [{"changes", "others", "clears"} -> Nat] /\ budget.changes \in Nat
    BY <1>10, BudgetTyped DEF HandleDisconnect, Stop, HandlerNotice, MayChange, Typed
  <2>2. /\ state' \in States /\ conn' \in 0..MaxConns /\ awaiting' \in BOOLEAN
        /\ UNCHANGED <<dial, answers, resends, status, told, wire, req>>
    <3>1. None \in 0..MaxConns
      BY MessagesAssumption DEF MessagesAssumption, None
    <3>2. CASE HandleDisconnect
      BY <3>1, <3>2 DEF HandleDisconnect, Typed, States, wireVars
    <3>3. CASE Stop
      BY <3>1, <3>3 DEF Stop, Typed, States, wireVars
    <3>4. CASE HandlerNotice
      BY <3>4 DEF HandlerNotice, Typed, wireVars, stationVars
    <3> QED BY <1>10, <3>2, <3>3, <3>4
  <2>3. notices' \subseteq Notices /\ \A n \in notices' : n.new = "?" <=> n.pc = "read"
    <3>1. UNCHANGED notices \/ \E new \in States \cup {"?"} : Tell(state, new, budget.changes)
      BY <1>10 DEF HandleDisconnect, Stop, HandlerNotice, States
    <3> QED BY <2>1, <3>1, TellTyped DEF Typed
  <2> QED BY <2>1, <2>2, <2>3 DEF Typed
<1>11. CASE Others
  <2>1. budget' \in [{"changes", "others", "clears"} -> Nat]
    BY <1>11, BudgetTyped DEF Others
  <2> QED BY <1>11, <2>1 DEF Others, Typed, stationVars, noticeVars, wireVars
<1>12. ASSUME NEW code \in Codes, Received(code) PROVE Typed'
  <2>1. budget' \in [{"changes", "others", "clears"} -> Nat] /\ budget.changes \in Nat
    BY <1>12, BudgetTyped DEF Received, MayChange, Typed
  <2>2. [code |-> code, n |-> budget.changes] \in [code : Codes, n : Nat]
    BY <2>1
  <2>3. answers' \subseteq [code : Codes, n : Nat]
    BY <1>12, <2>2 DEF Received, Typed
  <2>4. /\ UNCHANGED <<state, conn, dial, resends, notices, status, told, wire, req>>
        /\ awaiting' = FALSE
    BY <1>12 DEF Received, noticeVars, wireVars
  <2> QED BY <2>1, <2>3, <2>4 DEF Typed
<1>13. ASSUME NEW a \in answers, Registered(a) \/ Refused(a) PROVE Typed'
  <2>1. /\ UNCHANGED <<wire, req, resends, budget, conn, dial, awaiting>>
        /\ answers' \subseteq answers
        /\ \E new \in States : Change(new, a.n)
    BY <1>13 DEF Registered, Refused, States, wireVars
  <2>2. a.n \in Nat /\ budget \in [{"changes", "others", "clears"} -> Nat]
    BY DEF Typed
  <2>3. dial \in {"no", "dial", "register"}
    BY DEF Typed
  <2> QED BY <1>6, <2>1, <2>2, <2>3
<1>14. ASSUME NEW a \in answers, NotRegistered(a) PROVE Typed'
  <2>1. answers' \subseteq [code : Codes, n : Nat] /\ resends' \in Nat
    BY <1>14 DEF NotRegistered, Typed
  <2>2. UNCHANGED <<state, conn, dial, awaiting, notices, status, told, wire, req, budget>>
    BY <1>14 DEF NotRegistered, noticeVars, wireVars
  <2> QED BY <2>1, <2>2 DEF Typed
<1>15. CASE ResendRegister
  <2>1. wire' \in Seq(Frames) /\ awaiting' \in BOOLEAN
    BY <1>15, FrameTyped, WireAppend DEF ResendRegister, WriteRegister, Typed
  <2>2. resends' \in Nat
    BY <1>15 DEF ResendRegister, Typed
  <2>3. UNCHANGED <<state, conn, dial, answers, notices, status, told, req, budget>>
    BY <1>15 DEF ResendRegister, noticeVars
  <2> QED BY <2>1, <2>2, <2>3 DEF Typed
<1>16. CASE OnBus \/ UNCHANGED vars
  BY <1>16 DEF OnBus, vars, Typed, stationVars, noticeVars, wireVars
<1> QED BY <1>1, <1>2, <1>3, <1>4, <1>5, <1>7, <1>8, <1>9, <1>10, <1>11, <1>12, <1>13, <1>14,
           <1>15, <1>16 DEF Next, StationNext

-----------------------------------------------------------------------------
(* The log                                                                 *)

\* The frame a request wrote last
Latest(r, i) ==
    i \in DOMAIN wire /\ wire[i].by = r /\ \A j \in DOMAIN wire : wire[j].by = r => j <= i

\* Those it wrote
Written(r) == {i \in DOMAIN wire : wire[i].by = r}

\* A request whose frame is not logged yet has one
HasLatest(r) == req[r].pc \in {"publish", "log"} => \E i \in DOMAIN wire : Latest(r, i)

Accounted ==
    \A r \in Requests :
        /\ Counted(r) /\ HasLatest(r)
        /\ IsFiniteSet(Written(r)) /\ req[r].sent = Cardinality(Written(r))

LEMMA LatestIs ==
    ASSUME Typed, NEW r, NEW i, Latest(r, i)
    PROVE  LastOf(r) = i
<1>1. DOMAIN wire = 1..Len(wire) /\ Len(wire) \in Nat
  BY LenProperties DEF Typed
<1>2. \A j \in DOMAIN wire :
         (wire[j].by = r /\ \A k \in DOMAIN wire : wire[k].by = r => k <= j) => j = i
  BY <1>1 DEF Latest
<1>3. i \in DOMAIN wire /\ wire[i].by = r /\ \A k \in DOMAIN wire : wire[k].by = r => k <= i
  BY DEF Latest
<1> QED BY <1>2, <1>3 DEF LastOf

\* What another writes changes nothing for a request
LEMMA OthersFrame ==
    ASSUME Typed, NEW f \in Frames, wire' = Append(wire, f), NEW r, r # f.by
    PROVE  /\ Written(r)' = Written(r)
           /\ \A i \in DOMAIN wire : Latest(r, i) => Latest(r, i)' /\ i # Len(wire')
BY WireAppend DEF Typed, Written, Latest

LEMMA OwnFrame ==
    ASSUME Typed, NEW f \in Frames, wire' = Append(wire, f)
    PROVE  /\ Written(f.by)' = Written(f.by) \cup {Len(wire) + 1}
           /\ Len(wire) + 1 \notin Written(f.by) /\ Len(wire) + 1 \in DOMAIN wire'
           /\ \A n : n = Len(wire) + 1 => Latest(f.by, n)'
BY WireAppend DEF Typed, Written, Latest

\* A handler's step counts its command
LEMMA MovesCounted ==
    ASSUME Typed, NEW r \in Requests, NEW q \in Request, Moves(r, q), \A p \in Requests : Counted(p)
    PROVE  \A p \in Requests : Counted(p)'
<1>1. /\ req'[r] = q /\ \A p \in Requests : p # r => req'[p] = req[p]
  BY DEF Moves, Typed
<1>2. ASSUME NEW p \in Requests, p # r PROVE Counted(p)'
  BY <1>1, <1>2 DEF Counted, Total
<1>3. Counted(r)'
  <2>1. /\ req[r].next \in Nat /\ req[r].sent \in Nat /\ req[r].failed \in Nat
        /\ q.next \in Nat /\ q.sent \in Nat /\ q.failed \in Nat /\ Counted(r)
    BY DEF Typed, Request
  <2>2. PICK n \in Nat \ {0} : n = Total(r)
    BY TotalIs
  <2>3. PICK m \in Nat \ {0} : m = IF q.want.via = "all" THEN Len(Samples) ELSE 1
    BY TotalIs
  <2>4. Total(r)' = m
    BY <1>1, <2>3 DEF Total
  <2>5. q.want = req[r].want => m = n
    BY <2>2, <2>3 DEF Total
  <2>6. CASE Arrives(r, q)
    BY <1>1, <2>1, <2>3, <2>4, <2>6 DEF Arrives, Counted
  <2>7. CASE Sends(r, q)
    <3>1. req[r].next \in 1..n /\ req[r].sent + req[r].failed = req[r].next - 1
      BY <2>1, <2>2, <2>7 DEF Sends, Counted
    <3>2. q.next = req[r].next /\ q.sent = req[r].sent + 1 /\ q.failed = req[r].failed /\ m = n
      BY <2>5, <2>7 DEF Sends
    <3>3. q.next \in 1..m /\ q.sent + q.failed = q.next
      BY <2>1, <3>1, <3>2
    <3> QED BY <1>1, <2>4, <2>7, <3>3 DEF Sends, Counted
  <2>8. CASE Fails(r, q)
    <3>1. req[r].next \in 1..n /\ req[r].sent + req[r].failed = req[r].next - 1
      BY <2>1, <2>2, <2>8 DEF Fails, Counted
    <3>2. /\ q.next = req[r].next + 1 /\ q.sent = req[r].sent /\ q.failed = req[r].failed + 1
          /\ q.pc = IF req[r].next = n THEN "done" ELSE "send"
          /\ m = n
      BY <2>2, <2>5, <2>8 DEF Fails, GoesOn
    <3>3. q.sent + q.failed = q.next - 1
      BY <2>1, <3>1, <3>2
    <3>4. (q.pc = "done" /\ q.next = m + 1) \/ (q.pc = "send" /\ q.next \in 1..m)
      BY <2>1, <3>1, <3>2
    <3> QED BY <1>1, <2>4, <3>3, <3>4 DEF Counted
  <2>9. CASE Publishes(r, q)
    BY <1>1, <2>1, <2>2, <2>4, <2>5, <2>9 DEF Publishes, Counted
  <2>10. CASE Logs(r, q)
    BY <1>1, <2>1, <2>2, <2>4, <2>5, <2>10 DEF Logs, GoesOn, Counted
  <2> QED BY <2>6, <2>7, <2>8, <2>9, <2>10 DEF Moves
<1> QED BY <1>2, <1>3

LEMMA AccountedStep ==
    ASSUME Typed, Accounted, [Next]_vars
    PROVE  Accounted'
<1>1. ASSUME UNCHANGED <<wire, req>> PROVE Accounted'
  BY <1>1 DEF Accounted, Counted, Total, HasLatest, Latest, Written
<1>2. CASE WriteRegister /\ UNCHANGED req
  <2> DEFINE f == [conn |-> conn, cmd |-> "register", by |-> None]
  <2>1. f \in Frames /\ f.by = None /\ wire' = Append(wire, f) /\ req' = req
    BY <1>2, FrameTyped DEF WriteRegister
  <2> HIDE DEF f
  <2>2. ASSUME NEW r \in Requests
        PROVE  Counted(r)' /\ HasLatest(r)' /\ Written(r)' = Written(r)
    <3>1. r # f.by /\ Counted(r) /\ HasLatest(r)
      BY <2>1, MessagesAssumption DEF MessagesAssumption, Accounted
    <3>2. Written(r)' = Written(r) /\ \A i \in DOMAIN wire : Latest(r, i) => Latest(r, i)'
      BY <2>1, <3>1, OthersFrame
    <3>3. HasLatest(r)'
      BY <2>1, <3>1, <3>2, WireAppend DEF HasLatest, Typed
    <3> QED BY <2>1, <3>1, <3>2, <3>3 DEF Counted, Total
  <2> QED BY <2>1, <2>2 DEF Accounted
<1>3. ASSUME NEW r \in Requests, Handler(r) PROVE Accounted'
  <2>1. PICK q \in Request : Moves(r, q)
    BY <1>3, HandlerMoves
  <2>2. \A p \in Requests : Counted(p)'
    BY <2>1, MovesCounted DEF Accounted
  <2>3. /\ req'[r] = q /\ \A p \in Requests : p # r => req'[p] = req[p]
    BY <2>1 DEF Moves, Typed
  <2>4. CASE Sends(r, q)
    <3> DEFINE f == [conn |-> conn, cmd |-> Command(r), by |-> r]
    <3>1. f \in Frames /\ f.by = r /\ wire' = Append(wire, f)
      BY <2>4, FrameTyped DEF Sends
    <3> HIDE DEF f
    <3>2. ASSUME NEW p \in Requests, p # r
          PROVE  HasLatest(p)' /\ Written(p)' = Written(p)
      <4>1. Written(p)' = Written(p) /\ \A i \in DOMAIN wire : Latest(p, i) => Latest(p, i)'
        BY <3>1, <3>2, OthersFrame
      <4> QED BY <2>3, <3>1, <3>2, <4>1, WireAppend DEF Accounted, HasLatest, Typed
    <3>3. /\ Written(r)' = Written(r) \cup {Len(wire) + 1} /\ Len(wire) + 1 \notin Written(r)
          /\ Len(wire) + 1 \in DOMAIN wire' /\ \A n : n = Len(wire) + 1 => Latest(r, n)'
      BY <3>1, OwnFrame
    <3>4. HasLatest(r)'
      BY <3>3 DEF HasLatest
    <3>5. IsFiniteSet(Written(r)') /\ Cardinality(Written(r)') = Cardinality(Written(r)) + 1
      BY <3>3, FS_AddElement DEF Accounted
    <3>6. req'[r].sent = Cardinality(Written(r)')
      BY <2>3, <2>4, <3>5 DEF Sends, Accounted
    <3> QED BY <2>2, <2>3, <3>2, <3>4, <3>5, <3>6 DEF Accounted
  <2>5. CASE ~Sends(r, q)
    <3>1. wire' = wire /\ q.sent = req[r].sent
          /\ (q.pc \in {"publish", "log"} => req[r].pc \in {"publish", "log"})
      BY <2>1, <2>5 DEF Moves, Arrives, Fails, GoesOn, Publishes, Logs
    <3>2. \A p \in Requests : HasLatest(p)' /\ Written(p)' = Written(p)
      BY <2>3, <3>1 DEF Accounted, HasLatest, Latest, Written
    <3> QED BY <2>2, <2>3, <3>1, <3>2 DEF Accounted
  <2> QED BY <2>4, <2>5
<1> QED BY <1>1, <1>2, <1>3, OtherSteps DEF ClearMessageLogs, wireVars

\* The frame is one that has still to be logged
PendingAt(i) == \E r \in Requests : req[r].pc \in {"publish", "log"} /\ Latest(r, i)

Logged ==
    /\ \A i \in log \cup cleared : i \in DOMAIN wire /\ wire[i].by # None
    /\ dbWorks => \A i \in DOMAIN wire :
                     wire[i].by # None => i \in log \cup cleared \/ PendingAt(i)

LEMMA LoggedStep ==
    ASSUME Typed, Accounted, Logged, [Next]_vars
    PROVE  Logged'
<1>1. ASSUME UNCHANGED <<wire, req, dbWorks>>, log' \cup cleared' = log \cup cleared
      PROVE  Logged'
  BY <1>1 DEF Logged, PendingAt, Latest
<1>2. CASE ClearMessageLogs
  BY <1>1, <1>2 DEF ClearMessageLogs, wireVars, rigid
<1>3. CASE WriteRegister /\ UNCHANGED <<req, log, cleared, dbWorks>>
  <2> DEFINE f == [conn |-> conn, cmd |-> "register", by |-> None]
  <2>1. f \in Frames /\ f.by = None /\ wire' = Append(wire, f)
        /\ UNCHANGED <<req, log, cleared, dbWorks>>
    BY <1>3, FrameTyped DEF WriteRegister
  <2> HIDE DEF f
  <2>2. ASSUME NEW i \in DOMAIN wire, PendingAt(i) PROVE PendingAt(i)'
    <3>1. PICK r \in Requests : req[r].pc \in {"publish", "log"} /\ Latest(r, i)
      BY <2>2 DEF PendingAt
    <3>2. Latest(r, i)'
      BY <2>1, <2>2, <3>1, OthersFrame, MessagesAssumption DEF MessagesAssumption
    <3> QED BY <2>1, <3>1, <3>2 DEF PendingAt
  <2> QED BY <2>1, <2>2, WireAppend DEF Logged, Typed
<1>4. ASSUME NEW r \in Requests, Handler(r) PROVE Logged'
  <2>1. PICK q \in Request : Moves(r, q)
    BY <1>4, HandlerMoves
  <2>2. /\ req'[r] = q /\ \A p \in Requests : p # r => req'[p] = req[p]
        /\ dbWorks' = dbWorks
    BY <2>1 DEF Moves, Typed, rigid
  <2>3. CASE Sends(r, q)
    <3> DEFINE f == [conn |-> conn, cmd |-> Command(r), by |-> r]
    <3>1. f \in Frames /\ f.by = r /\ wire' = Append(wire, f)
      BY <2>3, FrameTyped DEF Sends
    <3> HIDE DEF f
    <3>2. PICK n : n = Len(wire) + 1
      OBVIOUS
    <3>3. DOMAIN wire' = DOMAIN wire \cup {n} /\ \A i \in DOMAIN wire : wire'[i] = wire[i]
      BY <3>1, <3>2, WireAppend DEF Typed
    <3>4. PendingAt(n)'
      <4>1. Latest(r, n)'
        BY <3>1, <3>2, OwnFrame
      <4> QED BY <2>2, <2>3, <4>1 DEF PendingAt, Sends
    <3>5. ASSUME NEW i \in DOMAIN wire, PendingAt(i) PROVE PendingAt(i)'
      <4>1. PICK p \in Requests : req[p].pc \in {"publish", "log"} /\ Latest(p, i)
        BY <3>5 DEF PendingAt
      <4>2. p # r /\ req'[p] = req[p]
        BY <2>2, <2>3, <4>1 DEF Sends
      <4>3. Latest(p, i)'
        BY <3>1, <3>5, <4>1, <4>2, OthersFrame
      <4> QED BY <4>1, <4>2, <4>3 DEF PendingAt
    <3> QED BY <2>2, <2>3, <3>3, <3>4, <3>5 DEF Logged, Sends
  <2>4. CASE Logs(r, q)
    <3>1. PICK n \in DOMAIN wire : Latest(r, n) /\ LastOf(r) = n
      BY <2>4, LatestIs DEF Logs, Accounted, HasLatest
    <3>2. wire[n].by # None
      BY <3>1, MessagesAssumption DEF MessagesAssumption, Latest
    <3>3. UNCHANGED <<wire, cleared>> /\ (log' = log \cup {n} \/ (~dbWorks /\ log' = log))
      BY <2>4, <3>1 DEF Logs, GoesOn
    <3>4. ASSUME NEW i \in DOMAIN wire, PendingAt(i), i # n PROVE PendingAt(i)'
      <4>1. PICK p \in Requests : req[p].pc \in {"publish", "log"} /\ Latest(p, i)
        BY <3>4 DEF PendingAt
      <4>2. p # r /\ req'[p] = req[p]
        BY <2>2, <3>1, <3>4, <4>1, LatestIs
      <4> QED BY <3>3, <4>1, <4>2 DEF PendingAt, Latest
    <3> QED BY <2>2, <3>2, <3>3, <3>4 DEF Logged
  <2>5. CASE ~Sends(r, q) /\ ~Logs(r, q)
    <3>1. UNCHANGED <<wire, log, cleared>>
          /\ (req[r].pc \in {"publish", "log"} => q.pc \in {"publish", "log"})
      BY <2>1, <2>5 DEF Moves, Arrives, Fails, GoesOn, Publishes
    <3>2. \A i \in DOMAIN wire : PendingAt(i) => PendingAt(i)'
      BY <2>2, <3>1 DEF PendingAt, Latest
    <3> QED BY <2>2, <3>1, <3>2 DEF Logged
  <2> QED BY <2>3, <2>4, <2>5
<1> QED BY <1>1, <1>2, <1>3, <1>4, OtherSteps DEF rigid

LEMMA LoggedMeans ==
    ASSUME Typed, Accounted, Logged
    PROVE  SentIsLogged
<1>1. \A i : i \in Pending <=> PendingAt(i)
  <2>1. ASSUME NEW i \in Pending PROVE PendingAt(i)
    <3>1. PICK r \in Requests : req[r].pc \in {"publish", "log"} /\ i = LastOf(r)
      BY <2>1 DEF Pending
    <3>2. PICK n \in DOMAIN wire : Latest(r, n)
      BY <3>1 DEF Accounted, HasLatest
    <3> QED BY <3>1, <3>2, LatestIs DEF PendingAt
  <2>2. ASSUME NEW i, PendingAt(i) PROVE i \in Pending
    BY <2>2, LatestIs DEF PendingAt, Pending
  <2> QED BY <2>1, <2>2
<1>2. \A i : PendingAt(i) => i \in DOMAIN wire /\ wire[i].by # None
  BY MessagesAssumption DEF MessagesAssumption, PendingAt, Latest
<1> QED BY <1>1, <1>2 DEF Logged, SentIsLogged

LEMMA AccountedMeans ==
    ASSUME Typed, Accounted
    PROVE  SamplesCounted /\ \A r \in Requests : req[r].sent + req[r].failed \in 0..Len(Samples)
<1> SUFFICES ASSUME NEW r \in Requests
             PROVE  /\ req[r].sent = Cardinality({i \in DOMAIN wire : wire[i].by = r})
                    /\ req[r].pc = "done" /\ req[r].want.via = "all" /\ req[r].next > 1
                          => req[r].sent + req[r].failed = Len(Samples)
                    /\ req[r].sent + req[r].failed \in 0..Len(Samples)
  BY DEF SamplesCounted
<1>1. req[r].sent = Cardinality({i \in DOMAIN wire : wire[i].by = r})
  BY DEF Accounted, Written
<1>2. PICK n \in 1..Len(Samples) : n = Total(r)
  BY TotalIs
<1>3. /\ req[r].pc \in {"new", "send", "publish", "log", "done"} /\ Len(Samples) \in Nat
      /\ req[r].next \in Nat /\ req[r].sent \in Nat /\ req[r].failed \in Nat
  BY TotalIs DEF Typed, Request
<1>4. /\ req[r].pc = "new" => req[r].sent + req[r].failed = 0
      /\ req[r].pc = "send" => req[r].next \in 1..n /\ req[r].sent + req[r].failed = req[r].next - 1
      /\ req[r].pc \in {"publish", "log"} =>
            req[r].next \in 1..n /\ req[r].sent + req[r].failed = req[r].next
      /\ req[r].pc = "done" =>
            req[r].next \in {1, n + 1} /\ req[r].sent + req[r].failed = req[r].next - 1
  BY <1>2, <1>3 DEF Accounted, Counted
<1>5. req[r].sent + req[r].failed \in 0..Len(Samples)
  BY <1>3, <1>4
<1>6. ASSUME req[r].pc = "done", req[r].want.via = "all", req[r].next > 1
      PROVE  req[r].sent + req[r].failed = Len(Samples)
  <2>1. n = Len(Samples)
    BY <1>2, <1>6 DEF Total
  <2> QED BY <1>3, <1>4, <1>6, <2>1
<1> QED BY <1>1, <1>5, <1>6

LEMMA BusTypedMeans ==
    ASSUME BusTyped, PublicationsTyped
    PROVE  BusTypeOK
<1>1. ASSUME NEW S, NEW s \in Seq(S) PROVE ToSet(s) \subseteq S
  BY <1>1, ElementOfSeq, LenProperties DEF ToSet
<1>2. ASSUME NEW t \in EventTypes, NEW i \in DOMAIN subscribers[t]
      PROVE  subscribers[t][i] \in [client : Clients, id : Clock]
  <2>1. subscribers[t] \in Seq(Subscription)
    BY DEF BusTyped
  <2> QED BY <2>1, ElementOfSeq, LenProperties DEF Subscription
<1>3. ASSUME NEW c \in Clients
      PROVE  /\ quit[c] \subseteq EventTypes /\ forwarders[c] \subseteq EventTypes
             /\ \A t \in EventTypes : Len(ch[c][t]) <= BufferSize /\ ToSet(ch[c][t]) \subseteq Event
             /\ Len(eventCh[c]) <= ChanSize /\ ToSet(eventCh[c]) \subseteq Event
             /\ pump[c].pc \in {"none", "subscribe", "welcome", "loop", "unsubscribe", "gone"}
             /\ pump[c].peer \in BOOLEAN /\ pump[c].reading \in BOOLEAN
  <2>1. /\ eventCh[c] \in Seq(Event) /\ pump[c] \in Pump
        /\ \A t \in EventTypes : ch[c][t] \in Seq(Event)
    BY DEF BusTyped
  <2> QED BY <1>1, <2>1 DEF BusTyped, Pump
<1>4. \A p \in publishing : p.event \in Event /\ p.next \in DOMAIN subscribers[p.event.type]
  BY DEF PublicationsTyped, Publication
<1>5. \A t \in EventTypes : published[t] \in Nat
  BY DEF BusTyped
<1> QED BY <1>2, <1>3, <1>4, <1>5 DEF BusTypeOK

LEMMA AccountedBegins ==
    ASSUME Init
    PROVE  Accounted
<1>1. \A r \in Requests : req[r] = NoReq
  BY DEF Init
<1>2. \A i \in DOMAIN wire : wire[i].by = None
  BY DEF Init
<1>3. ASSUME NEW r \in Requests
      PROVE  /\ Counted(r) /\ HasLatest(r)
             /\ IsFiniteSet(Written(r)) /\ req[r].sent = Cardinality(Written(r))
  <2>1. Written(r) = {}
    BY <1>2, MessagesAssumption DEF MessagesAssumption, Written
  <2>2. IsFiniteSet(Written(r)) /\ Cardinality(Written(r)) = 0
    BY <2>1, FS_EmptySet
  <2> QED BY <1>1, <2>2 DEF NoReq, Counted, HasLatest
<1> QED BY <1>3 DEF Accounted

\* The variables hold what they are for; what a request sent, and nothing else, is in the log, was
\* in it or is about to be, if the database works; and the handler of all alarms has accounted for
\* each sample when it answers, and what it calls sent is on the wire
THEOREM LogCorrect == Spec => []LogInv
<1> DEFINE LInv == BusTyped /\ PublicationsTyped /\ Typed /\ Accounted /\ Logged
<1>1. Init => LInv
  <2> SUFFICES ASSUME Init PROVE LInv
    OBVIOUS
  <2>1. BusTyped /\ PublicationsTyped /\ Typed
    BY BusBegins, TypedBegins DEF Init
  <2>5. Accounted
    BY AccountedBegins
  <2>6. Logged
    BY DEF Init, Logged
  <2> QED BY <2>1, <2>5, <2>6
<1>2. LInv /\ [Next]_vars => LInv'
  BY BusSteps, BusUnchanged, BusKept, TypedStep, AccountedStep, LoggedStep
<1>3. LInv => LogInv
  <2> SUFFICES ASSUME LInv PROVE LogInv
    OBVIOUS
  <2>1. SentIsLogged /\ SamplesCounted
    BY LoggedMeans, AccountedMeans
  <2>2. BusTypeOK
    BY BusTypedMeans
  <2>3. log \cup cleared \subseteq DOMAIN wire
    BY DEF Logged
  <2>4. \A r \in Requests : /\ req[r].pc \in {"new", "send", "publish", "log", "done"}
                            /\ req[r].sent + req[r].failed \in 0..Len(Samples)
    BY AccountedMeans DEF Typed, Request
  <2>5. /\ state \in {"idle", "register", "online", "reconnect"}
        /\ conn \in 0..MaxConns /\ dial \in {"no", "dial", "register"} /\ awaiting \in BOOLEAN
        /\ \A a \in answers : a.code \in Codes
        /\ resends \in Nat
        /\ \A n \in notices : n.pc \in {"read", "publish", "row"} /\ (n.new = "?" <=> n.pc = "read")
    BY DEF Typed, States, Notices
  <2> QED BY <2>1, <2>2, <2>3, <2>4, <2>5 DEF LogInv, TypeOK
<1> QED BY <1>1, <1>2, <1>3, PTL DEF Spec

-----------------------------------------------------------------------------
(* The station in a calm behaviour                                         *)

\* There was a registration on that connection
RegisteredAt(c, j) == wire[j] = [conn |-> c, cmd |-> "register", by |-> None]
RegisterSent(c) == \E j \in DOMAIN wire : RegisteredAt(c, j)

\* A station is online on a connection it has registered on, and not about to connect
OnlineRegistered ==
    /\ state = "online" => dial = "no" /\ conn # None
    /\ state \in {"online", "register"} /\ dial = "no" /\ conn # None => RegisterSent(conn)

BusyOnline == \A r \in Requests : req[r].pc \notin {"new", "done"} => state = "online"

FramesRegistered ==
    \A i \in DOMAIN wire :
        wire[i].by # None => \E j \in DOMAIN wire : j < i /\ RegisteredAt(wire[i].conn, j)

\* One answer is looked at, if any, and the station waits for it
OneAwaited == (\A a, b \in answers : a = b) /\ (answers # {} => Awaited)

Calm == calm => OnlineRegistered /\ BusyOnline /\ FramesRegistered /\ OneAwaited

LEMMA WireKeeps ==
    ASSUME Typed, [Next]_vars
    PROVE  DOMAIN wire \subseteq DOMAIN wire' /\ \A i \in DOMAIN wire : wire'[i] = wire[i]
<1>1. CASE WriteRegister
  BY <1>1, FrameTyped, WireAppend DEF WriteRegister, Typed
<1>2. ASSUME NEW r \in Requests, Handler(r)
      PROVE  DOMAIN wire \subseteq DOMAIN wire' /\ \A i \in DOMAIN wire : wire'[i] = wire[i]
  <2>1. PICK q \in Request : Moves(r, q)
    BY <1>2, HandlerMoves
  <2>2. CASE Sends(r, q)
    BY <2>2, FrameTyped, WireAppend DEF Sends, Typed
  <2>3. CASE ~Sends(r, q)
    BY <2>1, <2>3 DEF Moves, Arrives, Fails, GoesOn, Publishes, Logs
  <2> QED BY <2>2, <2>3
<1> QED BY <1>1, <1>2, OtherSteps

LEMMA RigidStep ==
    ASSUME Typed, [Next]_vars
    PROVE  UNCHANGED <<cast, calm, dbWorks>>
<1>1. ASSUME NEW r \in Requests, Handler(r) PROVE UNCHANGED rigid
  BY <1>1, HandlerMoves DEF Moves
<1> QED BY <1>1, OtherSteps DEF rigid

\* What changes of the station: nothing, or its connection, or its state
LEMMA StationSteps ==
    ASSUME Typed, [Next]_vars
    PROVE  \/ UNCHANGED stationVars
           \/ Dialled \/ SendRegister \/ ResendRegister
           \/ \E code \in Codes : Received(code)
           \/ \E a \in answers : Registered(a) \/ Refused(a) \/ NotRegistered(a)
           \/ MayChange /\ UNCHANGED <<wire, req, answers>>
              /\ \/ Connect \/ ConnectFails \/ RegisterTimeout \/ HandleDisconnect \/ Stop
<1>1. ASSUME NEW r \in Requests, Handler(r) PROVE UNCHANGED stationVars
  BY <1>1, HandlerMoves DEF Moves
<1>2. CASE Connect \/ ConnectFails \/ RegisterTimeout \/ HandleDisconnect \/ Stop
  BY <1>2 DEF Connect, ConnectFails, RegisterTimeout, HandleDisconnect, Stop, wireVars
<1>3. CASE HandlerNotice \/ Others \/ ClearMessageLogs \/ OnBus \/ UNCHANGED vars
  BY <1>3 DEF HandlerNotice, Others, ClearMessageLogs, OnBus, vars
<1>4. ASSUME NEW n \in notices, ReadState(n) \/ PublishState(n) \/ UpdateStationStatus(n)
      PROVE  UNCHANGED stationVars
  BY <1>4 DEF ReadState, PublishState, UpdateStationStatus
<1> QED BY <1>1, <1>2, <1>3, <1>4 DEF Next, StationNext

LEMMA CalmStep ==
    ASSUME Typed, Calm, [Next]_vars
    PROVE  Calm'
<1> SUFFICES ASSUME calm
             PROVE  OnlineRegistered' /\ BusyOnline' /\ FramesRegistered' /\ OneAwaited'
  BY RigidStep DEF Calm
<1>0. OnlineRegistered /\ BusyOnline /\ FramesRegistered /\ OneAwaited
  BY DEF Calm
<1>1. conn' = conn /\ RegisterSent(conn) => RegisterSent(conn)'
  BY WireKeeps DEF RegisterSent, RegisteredAt
\* What an answer makes of the station
<1>2. ASSUME NEW a \in answers, Registered(a) \/ Refused(a) \/ NotRegistered(a)
      PROVE  /\ Awaited /\ answers' = {} /\ UNCHANGED <<conn, dial, wire, req>>
             /\ state' \in {"online", "idle", "register"}
  <2>1. Awaited /\ state = "register" /\ answers = {a}
    BY <1>0 DEF OneAwaited, Awaited
  <2>2. /\ answers' = answers \ {a} /\ UNCHANGED <<conn, dial, wire, req>>
        /\ state' \in {"online", "idle", state}
    BY <1>2 DEF Registered, Refused, NotRegistered, Change, wireVars
  <2> QED BY <2>1, <2>2
<1>3. ASSUME NEW code, Received(code)
      PROVE  /\ Awaited /\ answers' = {[code |-> code, n |-> budget.changes]}
             /\ UNCHANGED <<state, conn, dial, wire, req>>
  BY <1>3 DEF Received, MayChange, Quiet, wireVars
<1>4. ASSUME SendRegister \/ ResendRegister
      PROVE  /\ UNCHANGED <<state, conn, answers, req>> /\ dial' \in {"no", dial}
             /\ ~UNCHANGED dial => RegisterSent(conn)'
  <2>1. WriteRegister => RegisterSent(conn)'
    <3> SUFFICES ASSUME WriteRegister PROVE RegisterSent(conn)'
      OBVIOUS
    <3>1. PICK n : n = Len(wire) + 1
      OBVIOUS
    <3>2. n \in DOMAIN wire' /\ wire'[n] = [conn |-> conn, cmd |-> "register", by |-> None]
      BY <3>1, FrameTyped, WireAppend DEF WriteRegister, Typed
    <3>3. conn' = conn
      BY <1>4 DEF SendRegister, ResendRegister
    <3> QED BY <3>2, <3>3 DEF RegisterSent, RegisteredAt
  <2> QED BY <1>4, <2>1 DEF SendRegister, ResendRegister
<1>5. OnlineRegistered'
  <2>1. CASE UNCHANGED stationVars
    BY <1>0, <1>1, <2>1 DEF OnlineRegistered, stationVars
  <2>2. CASE Dialled
    BY <1>0, <2>2 DEF OnlineRegistered, Dialled
  <2>3. CASE SendRegister \/ ResendRegister
    <3>1. RegisterSent(conn) => RegisterSent(conn)'
      BY <1>1, <1>4, <2>3
    <3> QED BY <1>0, <1>4, <2>3, <3>1 DEF OnlineRegistered
  <2>4. CASE Connect
    BY <2>4 DEF OnlineRegistered, Connect, Change
  <2>5. ASSUME NEW code, Received(code) PROVE OnlineRegistered'
    BY <1>0, <1>1, <1>3, <2>5 DEF OnlineRegistered
  <2>6. CASE ConnectFails \/ RegisterTimeout \/ HandleDisconnect \/ Stop
    <3>1. state' \in {"reconnect", "idle"}
      BY <2>6 DEF ConnectFails, RegisterTimeout, HandleDisconnect, Stop, Change
    <3> QED BY <3>1 DEF OnlineRegistered
  <2>7. ASSUME NEW a \in answers, Registered(a) \/ Refused(a) \/ NotRegistered(a)
        PROVE  OnlineRegistered'
    BY <1>0, <1>1, <1>2, <2>7 DEF OnlineRegistered, Awaited
  <2> QED BY <2>1, <2>2, <2>3, <2>4, <2>5, <2>6, <2>7, StationSteps
<1>6. OneAwaited'
  <2>1. CASE UNCHANGED stationVars
    BY <1>0, <2>1 DEF OneAwaited, Awaited, stationVars
  <2>2. CASE Dialled
    BY <2>2 DEF OneAwaited, Dialled, Quiet
  <2>3. CASE SendRegister
    <3>1. dial = "register" /\ answers' = answers
      BY <2>3 DEF SendRegister
    <3> QED BY <1>0, <3>1 DEF OneAwaited, Awaited
  <2>4. CASE ResendRegister
    BY <1>0, <2>4 DEF ResendRegister, OneAwaited, Awaited
  <2>5. ASSUME NEW code, Received(code) PROVE OneAwaited'
    BY <1>3, <2>5 DEF OneAwaited, Awaited
  <2>6. CASE MayChange /\ UNCHANGED answers
    BY <2>6 DEF MayChange, Quiet, OneAwaited
  <2>7. ASSUME NEW a \in answers, Registered(a) \/ Refused(a) \/ NotRegistered(a) PROVE OneAwaited'
    BY <1>2, <2>7 DEF OneAwaited
  <2> QED BY <2>1, <2>2, <2>3, <2>4, <2>5, <2>6, <2>7, StationSteps
<1>7. BusyOnline'
  <2>1. ASSUME NEW r \in Requests, Handler(r) PROVE BusyOnline'
    <3>1. PICK q \in Request : Moves(r, q)
      BY <2>1, HandlerMoves
    <3>2. req'[r] = q /\ state' = state /\ \A p \in Requests : p # r => req'[p] = req[p]
      BY <3>1 DEF Moves, Typed, stationVars
    <3>3. q.pc \notin {"new", "done"} => state = "online"
      BY <1>0, <3>1 DEF Moves, Arrives, Sends, Fails, Publishes, Logs, BusyOnline
    <3> QED BY <1>0, <3>2, <3>3 DEF BusyOnline
  <2>2. CASE MayChange /\ UNCHANGED req
    BY <2>2 DEF MayChange, Quiet, BusyOnline
  <2>3. CASE UNCHANGED <<state, req>>
    BY <1>0, <2>3 DEF BusyOnline
  <2>4. ASSUME NEW a \in answers, Registered(a) \/ Refused(a) \/ NotRegistered(a) PROVE BusyOnline'
    BY <1>0, <1>2, <2>4 DEF BusyOnline, Awaited
  <2>5. ASSUME NEW code, Received(code) PROVE BusyOnline'
    BY <1>3, <2>3, <2>5
  <2>6. CASE SendRegister \/ ResendRegister
    BY <1>4, <2>3, <2>6
  <2> QED BY <2>1, <2>2, <2>3, <2>4, <2>5, <2>6, StationSteps, OtherSteps DEF Dialled, stationVars
<1>8. FramesRegistered'
  <2>1. ASSUME NEW i \in DOMAIN wire, wire[i].by # None
        PROVE  \E j \in DOMAIN wire' : j < i /\ RegisteredAt(wire[i].conn, j)'
    <3>1. PICK j \in DOMAIN wire : j < i /\ RegisteredAt(wire[i].conn, j)
      BY <1>0, <2>1 DEF FramesRegistered
    <3> QED BY <2>1, <3>1, WireKeeps DEF RegisteredAt
  <2>2. CASE DOMAIN wire' = DOMAIN wire
    BY <2>1, <2>2, WireKeeps DEF FramesRegistered, RegisteredAt
  <2>3. CASE WriteRegister
    <3>1. PICK n : n = Len(wire) + 1
      OBVIOUS
    <3>2. DOMAIN wire' = DOMAIN wire \cup {n} /\ wire'[n].by = None
      BY <2>3, <3>1, FrameTyped, WireAppend DEF WriteRegister, Typed
    <3> QED BY <2>1, <3>2, WireKeeps DEF FramesRegistered, RegisteredAt
  <2>4. ASSUME NEW r \in Requests, NEW q \in Request, Sends(r, q) PROVE FramesRegistered'
    <3>1. PICK n : n = Len(wire) + 1
      OBVIOUS
    <3>2. /\ DOMAIN wire' = DOMAIN wire \cup {n} /\ wire'[n].conn = conn
          /\ \A j \in DOMAIN wire : j < n
      BY <2>4, <3>1, FrameTyped, WireAppend DEF Sends, Typed
    <3>3. PICK j \in DOMAIN wire : RegisteredAt(conn, j)
      BY <1>0, <2>4 DEF BusyOnline, OnlineRegistered, Sends, RegisterSent
    <3> QED BY <2>1, <3>2, <3>3, WireKeeps DEF FramesRegistered, RegisteredAt
  <2>5. ASSUME NEW r \in Requests, Handler(r) PROVE FramesRegistered'
    <3>1. PICK q \in Request : Moves(r, q)
      BY <2>5, HandlerMoves
    <3> QED BY <2>2, <2>4, <3>1 DEF Moves, Arrives, Fails, GoesOn, Publishes, Logs
  <2> QED BY <2>2, <2>3, <2>5, OtherSteps
<1> QED BY <1>5, <1>6, <1>7, <1>8

LEMMA CalmBegins ==
    ASSUME Init
    PROVE  Calm
<1>1. BusyOnline /\ FramesRegistered /\ OneAwaited
  BY DEF Init, NoReq, BusyOnline, FramesRegistered, OneAwaited
<1>2. CASE state = "online"
  <2>1. conn = 1 /\ wire = <<[conn |-> 1, cmd |-> "register", by |-> None]>> /\ dial = "no"
    BY <1>2 DEF Init
  <2>2. 1 \in DOMAIN wire /\ RegisteredAt(conn, 1)
    BY <2>1 DEF RegisteredAt
  <2> QED BY <1>1, <2>1, <2>2 DEF Calm, OnlineRegistered, RegisterSent, None
<1>3. CASE state # "online"
  BY <1>1, <1>3 DEF Init, Calm, OnlineRegistered
<1> QED BY <1>2, <1>3

\* As long as nothing else is under way while the station changes, a request writes on a connection
\* only what comes after the registration on it: it has been found online, and stays so
THEOREM RegisteredFirstCorrect == Spec => []RegisteredFirst
<1>1. Init => Typed /\ Calm
  BY TypedBegins, CalmBegins
<1>2. Typed /\ Calm /\ [Next]_vars => (Typed /\ Calm)'
  BY TypedStep, CalmStep
<1>3. Typed /\ Calm => RegisteredFirst
  <2> SUFFICES ASSUME Typed, Calm, calm, NEW i \in DOMAIN wire, wire[i].by # None
               PROVE  \E j \in 1..(i - 1) : wire[j] = [wire[i] EXCEPT !.cmd = "register",
                                                                      !.by = None]
    BY DEF RegisteredFirst
  <2>1. wire[i] \in Frames /\ DOMAIN wire = 1..Len(wire) /\ Len(wire) \in Nat
    BY LenProperties, ElementOfSeq DEF Typed
  <2>2. PICK j \in DOMAIN wire : j < i /\ RegisteredAt(wire[i].conn, j)
    BY DEF Calm, FramesRegistered
  <2>3. [wire[i] EXCEPT !.cmd = "register", !.by = None]
           = [conn |-> wire[i].conn, cmd |-> "register", by |-> None]
    <3> DEFINE f == [wire[i] EXCEPT !.cmd = "register", !.by = None]
               g == [conn |-> wire[i].conn, cmd |-> "register", by |-> None]
    <3>1. f \in Frames /\ g \in Frames
      BY <2>1 DEF Frames, Commands
    <3>2. f.conn = g.conn /\ f.cmd = g.cmd /\ f.by = g.by
      BY <2>1 DEF Frames
    <3> HIDE DEF f, g
    <3>3. f = g
      BY <3>1, <3>2 DEF Frames
    <3> QED BY <3>3 DEF f, g
  <2> QED BY <2>1, <2>2, <2>3 DEF RegisteredAt
<1> QED BY <1>1, <1>2, <1>3, PTL DEF Spec

-----------------------------------------------------------------------------
(* What is told                                                            *)

\* The last event and the row agree with the state on whether the station is online
Agree ==
    /\ told = "online" <=> state = "online"
    /\ dbWorks => (status = "online" <=> state = "online")

\* Or there is one notice under way, which will make them
Underway(n) ==
    /\ notices = {n}
    /\ \/ n.pc = "read"
       \/ n.pc = "publish" /\ n.new = state
       \/ n.pc = "row" /\ n.new = state /\ told = state

Told ==
    calm /\ "watch" \in cast =>
        \/ notices = {} /\ Agree
        \/ answers = {} /\ \E n \in notices : Underway(n)

LEMMA ToldStep ==
    ASSUME Typed, Calm, Told, [Next]_vars
    PROVE  Told'
<1> SUFFICES ASSUME calm, "watch" \in cast
             PROVE  \/ notices' = {} /\ Agree'
                    \/ answers' = {} /\ \E n \in notices' : Underway(n)'
  BY RigidStep DEF Told
<1>0. (notices = {} /\ Agree) \/ (answers = {} /\ \E n \in notices : Underway(n))
  BY DEF Told
<1>1. dbWorks' = dbWorks
  BY RigidStep
<1>2. CASE UNCHANGED <<state, notices, status, told, answers>>
  BY <1>0, <1>1, <1>2 DEF Agree, Underway
\* A change of the state is told when nothing else is
<1>3. MayChange => notices = {} /\ answers = {} /\ Agree
  BY <1>0 DEF MayChange, Quiet
<1>4. ASSUME notices = {}, NEW old, NEW k, Tell(old, "?", k)
      PROVE  \E n \in notices' : Underway(n)'
  <2>1. PICK n : n = Notice(old, "?", k)
    OBVIOUS
  <2>2. notices' = {n} /\ n.pc = "read"
    BY <1>4, <2>1 DEF Tell, Notice
  <2> QED BY <2>2 DEF Underway
<1>5. ASSUME notices = {}, Agree, NEW new, NEW k, Change(new, k)
      PROVE  (notices' = {} /\ Agree') \/ \E n \in notices' : Underway(n)'
  <2>1. CASE state = new
    BY <1>1, <1>5, <2>1 DEF Change, Agree
  <2>2. CASE state # new
    BY <1>4, <1>5, <2>2 DEF Change
  <2> QED BY <2>1, <2>2
<1>6. CASE Connect \/ ConnectFails \/ RegisterTimeout
  <2>1. MayChange /\ answers' = answers /\ \E new : Change(new, budget.changes)
    BY <1>6 DEF Connect, ConnectFails, RegisterTimeout
  <2> QED BY <1>3, <1>5, <2>1
<1>7. CASE HandleDisconnect
  <2>0. MayChange /\ answers' = answers
    BY <1>7 DEF HandleDisconnect
  <2>1. CASE state = "online"
    BY <1>3, <1>4, <1>7, <2>0, <2>1 DEF HandleDisconnect
  <2>2. CASE state # "online"
    BY <1>1, <1>3, <1>7, <2>0, <2>2 DEF HandleDisconnect, Agree
  <2> QED BY <2>1, <2>2
<1>8. CASE Stop
  <2>0. MayChange /\ answers' = answers
    BY <1>8 DEF Stop
  <2>1. CASE state = "idle"
    BY <1>1, <1>3, <1>8, <2>0, <2>1 DEF Stop, Agree
  <2>2. CASE state # "idle"
    <3>1. PICK n : n = Notice(state, "idle", budget.changes)
      OBVIOUS
    <3>2. notices' = {n} /\ n.pc = "publish" /\ n.new = "idle" /\ state' = "idle"
      BY <1>3, <1>8, <2>0, <2>2, <3>1 DEF Stop, Tell, Notice
    <3> QED BY <1>3, <2>0, <3>2 DEF Underway
  <2> QED BY <2>1, <2>2
<1>9. CASE HandlerNotice
  <2>1. MayChange /\ answers' = answers /\ Tell(state, "?", budget.changes)
    BY <1>9 DEF HandlerNotice, stationVars
  <2> QED BY <1>3, <1>4, <2>1
\* An answer is the only one, and nothing is told meanwhile
<1>13. ASSUME NEW a \in answers, Registered(a) \/ Refused(a) \/ NotRegistered(a)
       PROVE  \/ notices' = {} /\ Agree'
              \/ answers' = {} /\ \E n \in notices' : Underway(n)'
  <2>1. notices = {} /\ Agree /\ answers = {a}
    BY <1>0 DEF Calm, OneAwaited
  <2>2. answers' = {}
    BY <1>13, <2>1 DEF Registered, Refused, NotRegistered
  <2>3. CASE NotRegistered(a)
    BY <1>1, <2>1, <2>3 DEF NotRegistered, noticeVars, Agree
  <2>4. CASE Registered(a) \/ Refused(a)
    <3>1. \E new : Change(new, a.n)
      BY <2>4 DEF Registered, Refused
    <3> QED BY <1>5, <2>1, <2>2, <3>1
  <2> QED BY <1>13, <2>3, <2>4
<1>14. ASSUME NEW code, Received(code) PROVE notices' = {} /\ Agree'
  <2>1. MayChange /\ UNCHANGED <<state, notices, status, told>>
    BY <1>14 DEF Received, noticeVars
  <2> QED BY <1>1, <1>3, <2>1 DEF Agree
<1>10. ASSUME NEW n \in notices, ReadState(n) \/ PublishState(n) \/ UpdateStationStatus(n)
       PROVE  \/ notices' = {} /\ Agree'
              \/ answers' = {} /\ \E m \in notices' : Underway(m)'
  <2>1. Underway(n) /\ notices = {n} /\ n \in Notices /\ answers = {}
    BY <1>0, <1>10 DEF Underway, Typed
  <2>5. UNCHANGED <<state, answers>>
    BY <1>10 DEF ReadState, PublishState, UpdateStationStatus, stationVars
  <2>2. CASE ReadState(n)
    <3>1. PICK m : m = [n EXCEPT !.new = state, !.pc = "publish"]
      OBVIOUS
    <3>2. notices' = {m} /\ m.pc = "publish" /\ m.new = state /\ state' = state
      BY <2>1, <2>2, <2>5, <3>1 DEF ReadState, Notices
    <3> QED BY <2>1, <2>5, <3>2 DEF Underway
  <2>3. CASE PublishState(n)
    <3>1. PICK m : m = [n EXCEPT !.pc = "row"]
      OBVIOUS
    <3>2. notices' = {m} /\ m.pc = "row" /\ m.new = state /\ state' = state /\ told' = state
      BY <2>1, <2>3, <2>5, <3>1 DEF PublishState, Notices, Underway
    <3> QED BY <2>1, <2>5, <3>2 DEF Underway
  <2>4. CASE UpdateStationStatus(n)
    <3>1. n.new = state /\ told = state /\ UNCHANGED <<state, told>> /\ notices' = {}
      BY <2>1, <2>4 DEF UpdateStationStatus, Underway, stationVars
    <3>2. dbWorks => status' = state
      BY <2>4, <3>1 DEF UpdateStationStatus
    <3> QED BY <1>1, <3>1, <3>2 DEF Agree
  <2> QED BY <1>10, <2>2, <2>3, <2>4
<1>11. ASSUME NEW r \in Requests, Handler(r)
       PROVE  UNCHANGED <<state, notices, status, told, answers>>
  BY <1>11, HandlerMoves DEF Moves, stationVars, noticeVars
<1>12. CASE Dialled \/ SendRegister \/ ResendRegister \/ ClearMessageLogs \/ Others \/ OnBus
            \/ UNCHANGED vars
  BY <1>2, <1>12 DEF Dialled, SendRegister, ResendRegister, ClearMessageLogs, Others, OnBus, vars,
     stationVars, noticeVars
<1> QED BY <1>2, <1>6, <1>7, <1>8, <1>9, <1>10, <1>11, <1>12, <1>13, <1>14 DEF Next, StationNext

\* If the changes of a station do not overlap then, as soon as the notices are through, its last
\* event and its row show it online if and only if it is: although a notice reads the state when
\* it gets to it, and a lost connection is only told if the station was online
THEOREM OnlineIsToldCorrect == Spec => []OnlineIsTold
<1>1. Init => Typed /\ Calm /\ Told
  BY TypedBegins, CalmBegins DEF Init, Told, Agree
<1>2. Typed /\ Calm /\ Told /\ [Next]_vars => (Typed /\ Calm /\ Told)'
  BY TypedStep, CalmStep, ToldStep
<1>3. Told => OnlineIsTold
  BY DEF Told, Agree, OnlineIsTold
<1> QED BY <1>1, <1>2, <1>3, PTL DEF Spec

-----------------------------------------------------------------------------
(* Bodies                                                                  *)

\* A body that can be built keeps the rules of its builder, whatever it was asked for
LEMMA BuiltIsValid ==
    ASSUME NEW cmd, NEW b, ~Failed(BuildBody(cmd, b))
    PROVE  ValidBuilt(cmd, BuildBody(cmd, b))
<1>1. Failed(Error)
  BY DEF Failed, Error
<1>2. CASE cmd = "alarm"
  BY <1>2 DEF BuildBody, AlarmBody, ValidBuilt
<1>3. CASE cmd = "operation_log"
  BY <1>1, <1>3 DEF BuildBody, OperationBody, ValidBuilt
<1>4. CASE cmd = "usb_claim"
  BY <1>1, <1>4 DEF BuildBody, ClaimBody, ValidBuilt
<1>5. CASE cmd = "usb_return"
  BY <1>1, <1>5 DEF BuildBody, ReturnBody, ValidBuilt
<1>6. CASE cmd = "claim_verify"
  BY <1>1, <1>6 DEF BuildBody, VerifyBody, ValidBuilt
<1>7. CASE cmd \notin {"alarm", "operation_log", "usb_claim", "usb_return", "claim_verify"}
  BY <1>7 DEF ValidBuilt
<1> QED BY <1>2, <1>3, <1>4, <1>5, <1>6, <1>7

\* That of an operation log leaves out no serial number that was given
LEMMA OperationChecked ==
    ASSUME NEW b, AcceptsOperation(b), ~Failed(BuildBody("operation_log", b))
    PROVE  ValidChecked("operation_log", BuildBody("operation_log", b))
<1>1. Failed(Error)
  BY DEF Failed, Error
<1> QED BY <1>1 DEF BuildBody, OperationBody, ValidChecked, AcceptsOperation

\* The builder of alarms leaves type and reason as they are
LEMMA AlarmKeepsReason ==
    ASSUME NEW b, IsSafeUdiskAlarm(BuildBody("alarm", b).type)
    PROVE  /\ BuildBody("alarm", b).type = b.type /\ BuildBody("alarm", b).reason = b.reason
           /\ IsSafeUdiskAlarm(b.type)
<1>1. ~IsSafeUdiskAlarm("deviceFault")
  BY DEF IsSafeUdiskAlarm, AlarmTypeReasons
<1> QED BY <1>1 DEF BuildBody, AlarmBody

LEMMA SampleReason ==
    ASSUME NEW i \in 1..Len(Samples)
    PROVE  IsValidReasonForType(Sample(i).type, Sample(i).reason)
<1>1. Samples[i] \in DOMAIN AlarmTypeReasons
  BY MessagesAssumption, LenProperties, ElementOfSeq DEF MessagesAssumption
<1>2. AlarmTypeReasons[Samples[i]] \in SUBSET Nat /\ AlarmTypeReasons[Samples[i]] # {}
  <2>1. Samples[i] \in {"doorFault", "noReturnSlot", "usageViolation"}
    BY <1>1 DEF AlarmTypeReasons
  <2>2. /\ AlarmTypeReasons["doorFault"] = {1} /\ AlarmTypeReasons["noReturnSlot"] = {5, 6}
        /\ AlarmTypeReasons["usageViolation"] = {29}
    BY DEF AlarmTypeReasons
  <2> QED BY <2>1, <2>2
<1>3. \E x \in AlarmTypeReasons[Samples[i]] : \A y \in AlarmTypeReasons[Samples[i]] : x <= y
  BY <1>2, Smallest
<1>4. Sample(i).type = Samples[i] /\ Sample(i).reason \in AlarmTypeReasons[Samples[i]]
  BY <1>3 DEF Sample
<1> QED BY <1>1, <1>4 DEF IsValidReasonForType, IsSafeUdiskAlarm

\* What a request goes on with has been looked at, and its frame, if it is the last, has the body
\* that was built from it
Built ==
    \A r \in Requests :
        /\ req[r].pc \in {"send", "publish", "log"} /\ req[r].want.via # "all"
              => Accepts(req[r].want)
        /\ req[r].pc = "publish" /\ Latest(r, Len(wire))
              => frame = BuildBody(Command(r), Params(r)) /\ ~Failed(frame)

LEMMA BuiltStep ==
    ASSUME Typed, Built, [Next]_vars
    PROVE  Built'
<1>1. CASE UNCHANGED <<wire, frame, req>>
  BY <1>1 DEF Built, Latest, Command, Params
\* Nobody's frame is the last but that of who has written now
<1>2. ASSUME NEW f \in Frames, wire' = Append(wire, f), NEW r, r # f.by
      PROVE  ~Latest(r, Len(wire))'
  BY <1>2, WireAppend DEF Typed, Latest
<1>3. CASE WriteRegister /\ UNCHANGED req
  <2>1. \A r \in Requests : ~Latest(r, Len(wire))'
    BY <1>2, <1>3, FrameTyped, MessagesAssumption DEF MessagesAssumption, WriteRegister
  <2> QED BY <1>3, <2>1 DEF Built
<1>4. ASSUME NEW r \in Requests, Handler(r) PROVE Built'
  <2>1. PICK q \in Request : Moves(r, q)
    BY <1>4, HandlerMoves
  <2>2. /\ req'[r] = q /\ \A p \in Requests : p # r => req'[p] = req[p]
    BY <2>1 DEF Moves, Typed
  <2>3. q.pc \in {"send", "publish", "log"} /\ q.want.via # "all" => Accepts(q.want)
    BY <2>1 DEF Built, Moves, Arrives, Sends, Fails, GoesOn, Publishes, Logs
  <2>4. CASE Sends(r, q)
    <3>1. \A p \in Requests : p # r => ~Latest(p, Len(wire))'
      BY <1>2, <2>4, FrameTyped DEF Sends
    <3>2. Command(r)' = Command(r) /\ Params(r)' = Params(r)
      BY <2>2, <2>4 DEF Sends, Command, Params
    <3> QED BY <2>2, <2>3, <2>4, <3>1, <3>2 DEF Built, Sends
  <2>5. CASE ~Sends(r, q)
    <3>1. UNCHANGED <<wire, frame>> /\ q.pc # "publish"
      BY <2>1, <2>5 DEF Moves, Arrives, Fails, GoesOn, Publishes, Logs
    <3> QED BY <2>2, <2>3, <3>1 DEF Built, Latest, Command, Params
  <2> QED BY <2>4, <2>5
<1> QED BY <1>1, <1>3, <1>4, OtherSteps

\* By whatever way a command comes to be sent its body keeps the rules of its builder, and by its
\* own handler, or as one of the samples, those of the handler too: an alarm has a reason that
\* belongs to its type, and an operation the device it is about.  For whatever the requests ask
THEOREM BodyCorrect == Spec => []BodyInv
<1> DEFINE BInv == Typed /\ Accounted /\ Built
<1>1. Init => BInv
  <2>1. Init => Built
    <3>1. NoReq.pc = "new"
      BY DEF NoReq
    <3>2. Init => \A r \in Requests : req[r] = NoReq
      BY DEF Init
    <3> QED BY <3>1, <3>2 DEF Built
  <2> QED BY <2>1, AccountedBegins, TypedBegins
<1>2. BInv /\ [Next]_vars => BInv'
  BY TypedStep, AccountedStep, BuiltStep
<1>3. BInv => BodyInv
  <2> SUFFICES ASSUME BInv, NEW r \in Requests, req[r].pc = "publish", LastOf(r) = Len(wire)
               PROVE  /\ ValidBuilt(Command(r), frame)
                      /\ req[r].want.via \in {"own", "all"} => ValidChecked(Command(r), frame)
    BY DEF BodyInv
  <2>1. Latest(r, Len(wire))
    BY LatestIs DEF Accounted, HasLatest
  <2>2. /\ frame = BuildBody(Command(r), Params(r)) /\ ~Failed(frame)
        /\ req[r].want.via # "all" => Accepts(req[r].want)
    BY <2>1 DEF Built
  <2>3. ValidBuilt(Command(r), frame)
    BY <2>2, BuiltIsValid
  <2>4. ASSUME Command(r) = "alarm", req[r].want.via \in {"own", "all"},
               IsSafeUdiskAlarm(frame.type)
        PROVE  IsValidReasonForType(frame.type, frame.reason)
    <3>1. /\ frame.type = Params(r).type /\ frame.reason = Params(r).reason
          /\ IsSafeUdiskAlarm(Params(r).type)
      BY <2>2, <2>4, AlarmKeepsReason
    <3>2. CASE req[r].want.via = "all"
      <4>1. req[r].next \in 1..Len(Samples)
        BY <3>2, TotalIs DEF Accounted, Counted, Total
      <4> QED BY <3>1, <3>2, <4>1, SampleReason DEF Params
    <3>3. CASE req[r].want.via = "own"
      <4>1. AcceptsAlarm(req[r].want.body)
        BY <2>2, <2>4, <3>3 DEF Command, Accepts
      <4> QED BY <3>1, <3>3, <4>1 DEF Params, AcceptsAlarm
    <3> QED BY <2>4, <3>2, <3>3
  <2>5. ASSUME Command(r) = "operation_log", req[r].want.via \in {"own", "all"}
        PROVE  ValidChecked("operation_log", frame)
    <3>1. req[r].want.via = "own" /\ req[r].want.cmd = "operation_log"
          /\ Params(r) = req[r].want.body
      BY <2>5 DEF Command, Params
    <3>2. AcceptsOperation(Params(r))
      BY <2>2, <3>1 DEF Accepts
    <3> QED BY <2>2, <2>5, <3>2, OperationChecked
  <2>6. req[r].want.via \in {"own", "all"} => ValidChecked(Command(r), frame)
    BY <2>4, <2>5 DEF ValidChecked
  <2> QED BY <2>3, <2>6
<1> QED BY <1>1, <1>2, <1>3, PTL DEF Spec
=============================================================================
