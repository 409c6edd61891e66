--------------------------- MODULE PlatformProofs ---------------------------
(***************************************************************************)
(* Proofs about Platform, for any number of connections and frames, bodies *)
(* of any length, and headers and blocks of any size.                      *)
(***************************************************************************)
EXTENDS Platform, SequenceTheorems, FiniteSetTheorems, TLAPS

-----------------------------------------------------------------------------
(* Sequences and numbers                                                   *)

LEMMA AppendPlaces ==
    ASSUME NEW S, NEW s \in Seq(S), NEW e \in S
    PROVE  /\ Append(s, e) \in Seq(S) /\ Len(Append(s, e)) = Len(s) + 1 /\ Len(s) \in Nat
           /\ DOMAIN s = 1..Len(s) /\ DOMAIN Append(s, e) = 1..(Len(s) + 1)
           /\ \A i \in DOMAIN s : Append(s, e)[i] = s[i]
           /\ Append(s, e)[Len(s) + 1] = e
BY AppendProperties, LenProperties

\* What is left when the first n are taken
LEMMA DropPlaces ==
    ASSUME NEW S, NEW s \in Seq(S), NEW n \in Nat, n <= Len(s)
    PROVE  LET r == SubSeq(s, n + 1, Len(s)) IN
           /\ r \in Seq(S) /\ Len(r) = Len(s) - n /\ Len(s) \in Nat
           /\ DOMAIN r = 1..(Len(s) - n)
           /\ \A i \in 1..(Len(s) - n) : r[i] = s[i + n]
<1> DEFINE r == SubSeq(s, n + 1, Len(s))
<1>1. Len(s) \in Nat /\ n + 1 \in Int /\ Len(s) \in Int
  BY LenProperties
<1>2. \A i \in (n + 1)..Len(s) : s[i] \in S
  BY <1>1, ElementOfSeq
<1>3. /\ r \in Seq(S)
      /\ Len(r) = IF n + 1 <= Len(s) THEN Len(s) - (n + 1) + 1 ELSE 0
      /\ \A i \in 1..(Len(s) - (n + 1) + 1) : r[i] = s[(n + 1) + i - 1]
  BY <1>1, <1>2, SubSeqProperties
<1> HIDE DEF r
<1>4. Len(r) = Len(s) - n
  BY <1>1, <1>3
<1>5. \A i \in 1..(Len(s) - n) : (n + 1) + i - 1 = i + n /\ i \in 1..(Len(s) - (n + 1) + 1)
  BY <1>1
<1>6. DOMAIN r = 1..(Len(s) - n)
  BY <1>3, <1>4, LenProperties
<1> QED BY <1>1, <1>3, <1>4, <1>5, <1>6 DEF r

\* The first of the first n
LEMMA HeadOfFirst ==
    ASSUME NEW S, NEW s \in Seq(S), NEW n \in Nat \ {0}, n <= Len(s)
    PROVE  Head(SubSeq(s, 1, n)) = s[1] /\ 1 \in DOMAIN s
<1>1. Len(s) \in Nat /\ 1 \in 1..Len(s) /\ n \in 1..Len(s) /\ DOMAIN s = 1..Len(s)
  BY LenProperties
<1> QED BY <1>1, HeadTailOfSubSeq

\* What is filled makes whole blocks
LEMMA Blocks ==
    ASSUME NEW size \in Nat
    PROVE  /\ FillLen(size) \in 1..Block
           /\ (size + FillLen(size)) % Block = 0
<1>1. Block \in Nat \ {0}
  BY PlatformAssumption DEF PlatformAssumption
<1>2. /\ size % Block \in 0..(Block - 1) /\ size \div Block \in Nat
      /\ size = Block * (size \div Block) + (size % Block)
  BY <1>1
<1> DEFINE q == size \div Block
           m == size % Block
           a == size + (Block - m)
<1>3. a = Block * (q + 1) /\ a \in Nat
  BY <1>1, <1>2
<1>4. /\ a % Block \in 0..(Block - 1) /\ a \div Block \in Nat
      /\ a = Block * (a \div Block) + (a % Block)
  BY <1>1, <1>3
<1> DEFINE p == a \div Block
           k == a % Block
<1> HIDE DEF q, m, a, p, k
<1>5. k = 0
  <2>1. Block * (q + 1) = Block * p + k /\ k \in 0..(Block - 1) /\ p \in Nat /\ q \in Nat
    BY <1>2, <1>3, <1>4 DEF k, p, q
  <2>2. Block * ((q + 1) - p) = k
    BY <1>1, <2>1
  <2>3. ~((q + 1) - p >= 1)
    BY <1>1, <2>1, <2>2
  <2>4. ~((q + 1) - p <= -1)
    BY <1>1, <2>1, <2>2
  <2>5. (q + 1) - p = 0
    BY <2>1, <2>3, <2>4
  <2> QED BY <1>1, <2>2, <2>5
<1>6. m \in 0..(Block - 1)
  BY <1>2 DEF m
<1>7. FillLen(size) = Block - m
  BY DEF FillLen, m
<1> QED BY <1>1, <1>5, <1>6, <1>7 DEF k, a

LEMMA SmallModulo == ASSUME NEW n \in Nat, n < Limit PROVE n % Limit = n
BY PlatformAssumption DEF PlatformAssumption

-----------------------------------------------------------------------------
(* Frames                                                                  *)

\* A byte that begins a header, and any other
Other == {[Garbage EXCEPT !.cmd = "header"], [Garbage EXCEPT !.cmd = "body"]}
Byte == Header \cup Other
First(b) == b.cmd \notin {"header", "body"}

\* The header of a frame, which is its first byte
HeaderOf(cmd, size) ==
    [cmd |-> cmd, size |-> size, bodyLen |-> Payload(size) % Limit,
     fillLen |-> IF encrypt THEN FillLen(size) ELSE 0]

LEMMA FirstIsHeader ==
    /\ \A b \in Header : First(b)
    /\ \A b \in Other : ~First(b)
<1>1. \A b \in Header : First(b)
  BY PlatformAssumption DEF PlatformAssumption, Header, First
<1>2. \A b \in Other : ~First(b)
  BY DEF Other, First, Garbage
<1> QED BY <1>1, <1>2

LEMMA PayloadLength ==
    ASSUME NEW size \in Sizes
    PROVE  /\ size \in Nat /\ Payload(size) \in Nat
           /\ Payload(size) % Limit \in 0..(Limit - 1)
<1>1. size \in Nat /\ Limit \in Nat \ {0} /\ Block \in Nat \ {0}
  BY PlatformAssumption DEF PlatformAssumption
<1>2. FillLen(size) \in 1..Block
  BY <1>1, Blocks
<1>3. Payload(size) \in Nat
  BY <1>1, <1>2 DEF Payload
<1> QED BY <1>1, <1>3

LEMMA HeaderType ==
    ASSUME NEW cmd \in Cmds, NEW size \in Sizes
    PROVE  HeaderOf(cmd, size) \in Header
<1>1. size \in Nat /\ Payload(size) % Limit \in 0..(Limit - 1) /\ Block \in Nat
  BY PayloadLength, PlatformAssumption DEF PlatformAssumption
<1>2. FillLen(size) \in 0..Block
  BY <1>1, Blocks
<1>3. (IF encrypt THEN FillLen(size) ELSE 0) \in 0..Block
  BY <1>1, <1>2
<1> QED BY <1>1, <1>3 DEF HeaderOf, Header

LEMMA BytesPlaces ==
    ASSUME NEW n \in Nat, NEW part \in {"header", "body"}
    PROVE  /\ Bytes(n, part) \in Seq(Byte) /\ Len(Bytes(n, part)) = n
           /\ \A i \in 1..n : Bytes(n, part)[i] \in Other
<1>1. [Garbage EXCEPT !.cmd = part] \in Other
  BY DEF Other
<1>2. PICK b \in Other : b = [Garbage EXCEPT !.cmd = part]
  BY <1>1
<1>3. Bytes(n, part) = [i \in 1..n |-> b]
  BY <1>2 DEF Bytes
<1>4. b \in Byte
  BY DEF Byte
<1>5. [i \in 1..n |-> b] \in Seq(Byte) /\ Len([i \in 1..n |-> b]) = n
  BY <1>4
<1> QED BY <1>3, <1>5

\* A frame is a header and bytes that are not
LEMMA FramePlaces ==
    ASSUME NEW cmd \in Cmds, NEW size \in Sizes
    PROVE  /\ EncodeFrame(cmd, size) \in Seq(Byte)
           /\ Len(EncodeFrame(cmd, size)) = HeaderSize + Payload(size)
           /\ HeaderSize + Payload(size) \in Nat \ {0}
           /\ EncodeFrame(cmd, size)[1] = HeaderOf(cmd, size)
           /\ \A i \in 2..(HeaderSize + Payload(size)) : ~First(EncodeFrame(cmd, size)[i])
<1> DEFINE h == <<HeaderOf(cmd, size)>>
           m == Bytes(HeaderSize - 1, "header")
           b == Bytes(Payload(size), "body")
<1>1. HeaderSize - 1 \in Nat /\ Payload(size) \in Nat /\ HeaderSize \in Nat \ {0}
  BY PayloadLength, PlatformAssumption DEF PlatformAssumption
<1>2. /\ m \in Seq(Byte) /\ Len(m) = HeaderSize - 1 /\ \A i \in 1..(HeaderSize - 1) : m[i] \in Other
      /\ b \in Seq(Byte) /\ Len(b) = Payload(size) /\ \A i \in 1..Payload(size) : b[i] \in Other
  BY <1>1, BytesPlaces
<1>3. h \in Seq(Byte) /\ Len(h) = 1 /\ h[1] = HeaderOf(cmd, size)
  BY HeaderType DEF Byte
<1>4. EncodeFrame(cmd, size) = (h \o m) \o b
  BY DEF EncodeFrame, HeaderOf
<1> HIDE DEF h, m, b
<1>5. /\ h \o m \in Seq(Byte) /\ Len(h \o m) = HeaderSize
      /\ \A i \in 1..HeaderSize : (h \o m)[i] = IF i <= 1 THEN h[i] ELSE m[i - 1]
  <2>1. /\ h \o m \in Seq(Byte) /\ Len(h \o m) = Len(h) + Len(m)
        /\ \A i \in 1..(Len(h) + Len(m)) :
              (h \o m)[i] = IF i <= Len(h) THEN h[i] ELSE m[i - Len(h)]
    BY <1>2, <1>3, ConcatProperties
  <2>2. Len(h) = 1 /\ Len(h) + Len(m) = HeaderSize
    BY <1>1, <1>2, <1>3
  <2> QED BY <2>1, <2>2
<1> DEFINE g == h \o m
<1> HIDE DEF g
<1>6. /\ g \o b \in Seq(Byte) /\ Len(g \o b) = HeaderSize + Payload(size)
      /\ \A i \in 1..(HeaderSize + Payload(size)) :
            (g \o b)[i] = IF i <= HeaderSize THEN g[i] ELSE b[i - HeaderSize]
  <2>1. g \in Seq(Byte) /\ Len(g) = HeaderSize
    BY <1>5 DEF g
  <2>2. /\ g \o b \in Seq(Byte) /\ Len(g \o b) = Len(g) + Len(b)
        /\ \A i \in 1..(Len(g) + Len(b)) :
              (g \o b)[i] = IF i <= Len(g) THEN g[i] ELSE b[i - Len(g)]
    BY <1>2, <2>1, ConcatProperties
  <2> QED BY <1>2, <2>1, <2>2
<1>7. (g \o b)[1] = HeaderOf(cmd, size)
  <2>1. (g \o b)[1] = g[1]
    BY <1>1, <1>6
  <2>2. g[1] = h[1]
    BY <1>1, <1>5 DEF g
  <2> QED BY <1>3, <2>1, <2>2
<1>8. ASSUME NEW i \in 2..(HeaderSize + Payload(size))
      PROVE  ~First((g \o b)[i])
  <2>1. CASE i <= HeaderSize
    <3>1. /\ i \in 1..(HeaderSize + Payload(size)) /\ i \in 1..HeaderSize /\ ~(i <= 1)
          /\ i - 1 \in 1..(HeaderSize - 1)
      BY <1>1, <2>1
    <3>2. (g \o b)[i] = g[i]
      BY <1>6, <2>1, <3>1
    <3>3. g[i] = m[i - 1]
      BY <1>5, <3>1 DEF g
    <3> QED BY <1>2, <3>1, <3>2, <3>3, FirstIsHeader
  <2>2. CASE ~(i <= HeaderSize)
    <3>1. (g \o b)[i] = b[i - HeaderSize] /\ i - HeaderSize \in 1..Payload(size)
      BY <1>1, <1>6, <2>2
    <3> QED BY <1>2, <3>1, FirstIsHeader
  <2> QED BY <2>1, <2>2
<1> QED BY <1>1, <1>4, <1>6, <1>7, <1>8 DEF g

-----------------------------------------------------------------------------
(* What a step does to a connection                                        *)

Labels == {"none", "queued", "accepted", "check", "header", "body", "handle", "close", "delete",
           "gone"}
Waiting == {"none", "queued", "accepted", "check", "header"}
Over == {"close", "delete", "gone"}
Record == [pc : Labels, hung : BOOLEAN, dropped : BOOLEAN, header : Seq(Header),
           registered : BOOLEAN]
Command == [cmd : Cmds, intact : BOOLEAN]

Typed ==
    /\ listening \in BOOLEAN /\ running \in BOOLEAN /\ stopping \in BOOLEAN
    /\ accepting \in BOOLEAN
    /\ encrypt \in BOOLEAN /\ fitting \in BOOLEAN
    /\ connections \subseteq Conns
    /\ conn \in [Conns -> Record]
    /\ stream \in [Conns -> Seq(Byte)]
    /\ sent \in [Conns -> Seq(Cmds)]
    /\ handled \in [Conns -> Seq(Command)]
    /\ \A c \in Conns : conn[c].pc \in {"body", "handle"} => conn[c].header # <<>>
    /\ deviceMap \in [FirstID..MaxIDs -> Conns \cup {None}]

\* Nothing is read or written, or the connection is over
Rests(c) ==
    /\ sent'[c] = sent[c] /\ handled'[c] = handled[c]
    /\ \/ /\ \/ conn'[c].pc = conn[c].pc
             \/ conn[c].pc \in Waiting /\ conn'[c].pc \in Waiting
          /\ stream'[c] = stream[c] /\ conn'[c].header = conn[c].header
       \/ /\ conn'[c].pc \in Over /\ stream'[c] \in {stream[c], <<>>}
          /\ conn'[c].header \in {conn[c].header, <<>>}

Writes(c) ==
    /\ conn'[c] = conn[c] /\ handled'[c] = handled[c]
    /\ \E cmd \in Cmds, size \in Sizes :
          /\ fitting => Payload(size) < Limit
          /\ stream'[c] = stream[c] \o EncodeFrame(cmd, size)
          /\ sent'[c] = Append(sent[c], cmd)

TakesHeader(c) ==
    /\ sent'[c] = sent[c] /\ handled'[c] = handled[c]
    /\ conn[c].pc = "header" /\ HeaderSize <= Len(stream[c])
    /\ stream'[c] = SubSeq(stream[c], HeaderSize + 1, Len(stream[c]))
    /\ IF First(stream[c][1])
       THEN conn'[c].pc = "body" /\ conn'[c].header = <<stream[c][1]>>
       ELSE conn'[c].pc = "check" /\ conn'[c].header = conn[c].header

TakesBody(c) ==
    /\ sent'[c] = sent[c] /\ handled'[c] = handled[c]
    /\ conn[c].pc = "body" /\ conn'[c].pc = "handle" /\ conn'[c].header = conn[c].header
    /\ LET n == conn[c].header[1].bodyLen IN
          n <= Len(stream[c]) /\ stream'[c] = SubSeq(stream[c], n + 1, Len(stream[c]))

Handles(c) ==
    /\ sent'[c] = sent[c] /\ stream'[c] = stream[c]
    /\ conn[c].pc = "handle" /\ conn'[c].pc = "check" /\ conn'[c].header = <<>>
    /\ handled'[c] = Append(handled[c], [cmd |-> conn[c].header[1].cmd,
                                         intact |-> Decodes(conn[c].header[1])])

Does(c) == Rests(c) \/ Writes(c) \/ TakesHeader(c) \/ TakesBody(c) \/ Handles(c)

LEMMA NoConnType == NoConn \in Record /\ [NoConn EXCEPT !.pc = "gone"] \in Record
<1>1. <<>> \in Seq(Header)
  OBVIOUS
<1> QED BY <1>1 DEF NoConn, Record, Labels

\* The header that is kept
LEMMA HeaderKept ==
    ASSUME Typed, NEW c \in Conns, conn[c].pc \in {"body", "handle"}
    PROVE  /\ conn[c].header \in Seq(Header) /\ conn[c].header # <<>>
           /\ conn[c].header[1] \in Header /\ 1 \in DOMAIN conn[c].header
<1>1. conn[c].header \in Seq(Header) /\ conn[c].header # <<>>
  BY DEF Typed, Record
<1>2. Len(conn[c].header) \in Nat \ {0} /\ DOMAIN conn[c].header = 1..Len(conn[c].header)
  BY <1>1, EmptySeq, LenProperties
<1>3. 1 \in 1..Len(conn[c].header)
  BY <1>2
<1> QED BY <1>1, <1>2, <1>3, ElementOfSeq

\* Every byte that is sent is one
LEMMA SentType ==
    ASSUME Typed, NEW c \in Conns, NEW cmd \in Cmds, NEW size \in Sizes
    PROVE  /\ stream[c] \in Seq(Byte) /\ sent[c] \in Seq(Cmds)
           /\ stream[c] \o EncodeFrame(cmd, size) \in Seq(Byte)
           /\ Append(sent[c], cmd) \in Seq(Cmds)
<1>1. stream[c] \in Seq(Byte) /\ sent[c] \in Seq(Cmds)
  BY DEF Typed
<1> QED BY <1>1, FramePlaces, ConcatProperties, AppendProperties

\* What the handler of connection c does to the others, which is nothing
Alone(c) ==
    \A d \in Conns \ {c} : /\ conn'[d] = conn[d] /\ stream'[d] = stream[d]
                           /\ sent'[d] = sent[d] /\ handled'[d] = handled[d]

\* A connection goes on with record r, rest of the stream s, commands t and handled ones h
Goes(c, r, s, t, h) ==
    /\ conn' = [conn EXCEPT ![c] = r] /\ stream' = [stream EXCEPT ![c] = s]
    /\ sent' = [sent EXCEPT ![c] = t] /\ handled' = [handled EXCEPT ![c] = h]
    /\ UNCHANGED modes

LEMMA GoesAlone ==
    ASSUME Typed, NEW c \in Conns, NEW r \in Record, NEW s \in Seq(Byte), NEW t \in Seq(Cmds),
           NEW h \in Seq(Command), Goes(c, r, s, t, h),
           r.pc \in {"body", "handle"} => r.header # <<>>
    PROVE  /\ conn'[c] = r /\ stream'[c] = s /\ sent'[c] = t /\ handled'[c] = h /\ Alone(c)
           /\ conn' \in [Conns -> Record] /\ stream' \in [Conns -> Seq(Byte)]
           /\ sent' \in [Conns -> Seq(Cmds)] /\ handled' \in [Conns -> Seq(Command)]
           /\ \A d \in Conns : conn'[d].pc \in {"body", "handle"} => conn'[d].header # <<>>
           /\ encrypt' = encrypt /\ fitting' = fitting
<1>1. /\ conn \in [Conns -> Record] /\ stream \in [Conns -> Seq(Byte)]
      /\ sent \in [Conns -> Seq(Cmds)] /\ handled \in [Conns -> Seq(Command)]
      /\ \A d \in Conns : conn[d].pc \in {"body", "handle"} => conn[d].header # <<>>
  BY DEF Typed
<1> QED BY <1>1 DEF Goes, Alone, modes

\* A step of a connection
LEMMA ConnectionGoes ==
    ASSUME Typed, NEW c \in Conns,
           \/ Dial(c) \/ HangUp(c) \/ Accept(c) \/ Serve(c)
           \/ \E cmd \in Cmds, size \in Sizes : Send(c, cmd, size)
    PROVE  \E r \in Record, s \in Seq(Byte), t \in Seq(Cmds), h \in Seq(Command) :
              /\ Goes(c, r, s, t, h) /\ (r.pc \in {"body", "handle"} => r.header # <<>>)
              /\ Does(c)
<1>0. /\ conn \in [Conns -> Record] /\ stream \in [Conns -> Seq(Byte)]
      /\ sent \in [Conns -> Seq(Cmds)] /\ handled \in [Conns -> Seq(Command)]
      /\ conn[c] \in Record /\ stream[c] \in Seq(Byte) /\ sent[c] \in Seq(Cmds)
      /\ handled[c] \in Seq(Command)
      /\ conn[c].pc \in {"body", "handle"} => conn[c].header # <<>>
  BY DEF Typed
\* What is left alone
<1>1. /\ stream' = stream => stream' = [stream EXCEPT ![c] = stream[c]]
      /\ sent' = sent => sent' = [sent EXCEPT ![c] = sent[c]]
      /\ handled' = handled => handled' = [handled EXCEPT ![c] = handled[c]]
      /\ conn' = conn => conn' = [conn EXCEPT ![c] = conn[c]]
  BY <1>0
<1>2. CASE \/ Dial(c) \/ Accept(c) \/ Enter(c) \/ Check(c) \/ ReadFails(c)
  <2>1. PICK l \in Labels : /\ conn' = [conn EXCEPT ![c].pc = l] /\ l \notin {"body", "handle"}
                            /\ \/ conn[c].pc \in Waiting /\ l \in Waiting
                               \/ l \in Over
    BY <1>2 DEF Dial, Accept, Enter, Check, ReadFails, Labels, Waiting, Over
  <2>2. /\ UNCHANGED <<modes, stream, sent, handled>>
    BY <1>2 DEF Dial, Accept, Enter, Check, ReadFails
  <2>3. PICK r : r = [conn[c] EXCEPT !.pc = l]
    OBVIOUS
  <2>4. /\ r \in Record /\ r.pc = l /\ r.header = conn[c].header
    BY <1>0, <2>3 DEF Record
  <2>5. Goes(c, r, stream[c], sent[c], handled[c])
    BY <1>0, <1>1, <2>1, <2>2, <2>3 DEF Goes
  <2>6. conn'[c] = r
    BY <1>0, <2>1, <2>3
  <2>7. Rests(c)
    BY <2>1, <2>2, <2>4, <2>6 DEF Rests
  <2> QED BY <1>0, <2>1, <2>4, <2>5, <2>7 DEF Does
<1>3. CASE HangUp(c)
  <2>1. PICK r : r = [conn[c] EXCEPT !.hung = TRUE]
    OBVIOUS
  <2>2. r \in Record /\ r.pc = conn[c].pc /\ r.header = conn[c].header
    BY <1>0, <2>1 DEF Record
  <2>3. Goes(c, r, stream[c], sent[c], handled[c])
    BY <1>0, <1>1, <1>3, <2>1 DEF Goes, HangUp
  <2>4. conn'[c] = r
    BY <1>0, <1>3, <2>1 DEF HangUp
  <2>5. Rests(c)
    BY <1>3, <2>2, <2>4 DEF Rests, HangUp
  <2> QED BY <1>0, <2>2, <2>3, <2>5 DEF Does
<1>4. CASE Close(c)
  <2>1. PICK r : r = [conn[c] EXCEPT !.pc = "delete", !.dropped = TRUE]
    OBVIOUS
  <2>2. r \in Record /\ r.pc = "delete" /\ r.header = conn[c].header
    BY <1>0, <2>1 DEF Record, Labels
  <2>3. Goes(c, r, stream[c], sent[c], handled[c])
    BY <1>0, <1>1, <1>4, <2>1 DEF Goes, Close
  <2>4. conn'[c] = r
    BY <1>0, <1>4, <2>1 DEF Close
  <2>5. Rests(c)
    BY <1>4, <2>2, <2>4 DEF Rests, Close, Over
  <2> QED BY <1>0, <2>2, <2>3, <2>5 DEF Does
<1>5. CASE Delete(c)
  <2>1. PICK r \in Record : r = [NoConn EXCEPT !.pc = "gone"]
    BY NoConnType
  <2>2. r.pc = "gone" /\ r.header = <<>>
    BY <2>1 DEF NoConn
  <2>3. Goes(c, r, <<>>, sent[c], handled[c]) /\ <<>> \in Seq(Byte)
    BY <1>0, <1>1, <1>5, <2>1 DEF Goes, Delete
  <2>4. conn'[c] = r /\ stream'[c] = <<>>
    BY <1>0, <1>5, <2>1 DEF Delete
  <2>5. Rests(c)
    BY <1>5, <2>2, <2>4 DEF Rests, Delete, Over
  <2> QED BY <1>0, <2>2, <2>3, <2>5 DEF Does
<1>6. CASE \E cmd \in Cmds, size \in Sizes : Send(c, cmd, size)
  <2>1. PICK cmd \in Cmds, size \in Sizes : Send(c, cmd, size)
    BY <1>6
  <2>2. PICK s \in Seq(Byte), t \in Seq(Cmds) :
           s = stream[c] \o EncodeFrame(cmd, size) /\ t = Append(sent[c], cmd)
    BY SentType
  <2>3. Goes(c, conn[c], s, t, handled[c])
    BY <1>0, <1>1, <2>1, <2>2 DEF Goes, Send
  <2>4. stream'[c] = s /\ sent'[c] = t
    BY <1>0, <2>1, <2>2 DEF Send
  <2>5. Writes(c)
    BY <2>1, <2>2, <2>4 DEF Writes, Send
  <2> QED BY <1>0, <2>3, <2>5 DEF Does
<1>7. CASE ReadHeader(c)
  <2>1. HeaderSize \in Nat \ {0} /\ HeaderSize <= Len(stream[c]) /\ conn[c].pc = "header"
    BY <1>7, PlatformAssumption DEF PlatformAssumption, ReadHeader, Available
  <2>2. Head(SubSeq(stream[c], 1, HeaderSize)) = stream[c][1] /\ 1 \in DOMAIN stream[c]
    BY <1>0, <2>1, HeadOfFirst
  <2>3. PICK b \in Byte : b = stream[c][1]
    BY <1>0, <2>2, ElementOfSeq, LenProperties
  <2>4. PICK s \in Seq(Byte) : s = SubSeq(stream[c], HeaderSize + 1, Len(stream[c]))
    BY <1>0, <2>1, DropPlaces
  <2>5. stream' = [stream EXCEPT ![c] = s] /\ stream'[c] = s
    BY <1>0, <1>7, <2>4 DEF ReadHeader
  <2>6. CASE First(b)
    <3>1. b \in Header
      BY <2>6, FirstIsHeader DEF Byte
    <3>2. conn' = [conn EXCEPT ![c].pc = "body", ![c].header = <<b>>]
      BY <1>7, <2>2, <2>3, <2>6 DEF ReadHeader, Validate, DecodeHeader, First
    <3>3. PICK r : r = [conn[c] EXCEPT !.pc = "body", !.header = <<b>>]
      OBVIOUS
    <3>4. <<b>> \in Seq(Header) /\ <<b>> # <<>>
      BY <3>1
    <3>5. r \in Record /\ r.pc = "body" /\ r.header = <<b>>
      BY <1>0, <3>3, <3>4 DEF Record, Labels
    <3>6. Goes(c, r, s, sent[c], handled[c])
      BY <1>0, <1>1, <1>7, <2>5, <3>2, <3>3 DEF Goes, ReadHeader
    <3>7. conn'[c] = r
      BY <1>0, <3>2, <3>3
    <3>8. TakesHeader(c)
      BY <1>7, <2>1, <2>3, <2>4, <2>5, <2>6, <3>5, <3>7 DEF TakesHeader, ReadHeader
    <3> QED BY <1>0, <3>4, <3>5, <3>6, <3>8 DEF Does
  <2>7. CASE ~First(b)
    <3>1. conn' = [conn EXCEPT ![c].pc = "check"]
      BY <1>7, <2>2, <2>3, <2>7 DEF ReadHeader, Validate, First
    <3>2. PICK r : r = [conn[c] EXCEPT !.pc = "check"]
      OBVIOUS
    <3>3. r \in Record /\ r.pc = "check" /\ r.header = conn[c].header
      BY <1>0, <3>2 DEF Record, Labels
    <3>4. Goes(c, r, s, sent[c], handled[c])
      BY <1>0, <1>1, <1>7, <2>5, <3>1, <3>2 DEF Goes, ReadHeader
    <3>5. conn'[c] = r
      BY <1>0, <3>1, <3>2
    <3>6. TakesHeader(c)
      BY <1>7, <2>1, <2>3, <2>4, <2>5, <2>7, <3>3, <3>5 DEF TakesHeader, ReadHeader
    <3> QED BY <1>0, <3>3, <3>4, <3>6 DEF Does
  <2> QED BY <2>6, <2>7
<1>8. CASE ReadBody(c)
  <2> DEFINE n == conn[c].header[1].bodyLen
  <2>1. conn[c].pc = "body" /\ conn[c].header # <<>> /\ n \in Nat
    <3>1. conn[c].pc = "body"
      BY <1>8 DEF ReadBody
    <3>2. conn[c].header # <<>> /\ conn[c].header[1] \in Header
      BY <3>1, HeaderKept
    <3>3. n \in 0..(Limit - 1)
      BY <3>2 DEF Header
    <3> QED BY <3>1, <3>2, <3>3, PlatformAssumption DEF PlatformAssumption
  <2>2. n <= Len(stream[c])
    BY <1>0, <1>8, <2>1, LenProperties DEF ReadBody, Available
  <2>3. PICK s \in Seq(Byte) : s = SubSeq(stream[c], n + 1, Len(stream[c]))
    BY <1>0, <2>1, <2>2, DropPlaces
  <2>4. stream' = [stream EXCEPT ![c] = s] /\ stream'[c] = s
    BY <1>0, <1>8, <2>3 DEF ReadBody
  <2>5. PICK r : r = [conn[c] EXCEPT !.pc = "handle"]
    OBVIOUS
  <2>6. r \in Record /\ r.pc = "handle" /\ r.header = conn[c].header
    BY <1>0, <2>5 DEF Record, Labels
  <2>7. Goes(c, r, s, sent[c], handled[c])
    BY <1>0, <1>1, <1>8, <2>4, <2>5 DEF Goes, ReadBody
  <2>8. conn'[c] = r
    BY <1>0, <1>8, <2>5 DEF ReadBody
  <2>9. TakesBody(c)
    BY <1>8, <2>1, <2>2, <2>3, <2>4, <2>6, <2>8 DEF TakesBody, ReadBody
  <2> QED BY <1>0, <2>1, <2>6, <2>7, <2>9 DEF Does
<1>9. CASE HandleCommand(c) \/ HandleRegister(c)
  <2>1. conn[c].pc = "handle" /\ UNCHANGED <<modes, sent, stream>>
    BY <1>9 DEF HandleCommand, HandleRegister, Handle
  <2>2. conn[c].header[1] \in Header
    BY <2>1, HeaderKept
  <2>3. PICK h \in Seq(Command) :
           h = Append(handled[c], [cmd |-> conn[c].header[1].cmd,
                                   intact |-> Decodes(conn[c].header[1])])
    <3>1. [cmd |-> conn[c].header[1].cmd, intact |-> Decodes(conn[c].header[1])] \in Command
      BY <2>2 DEF Header, Command, Decodes
    <3> QED BY <1>0, <3>1, AppendProperties
  <2>4. handled' = [handled EXCEPT ![c] = h] /\ handled'[c] = h
    BY <1>0, <1>9, <2>3 DEF HandleCommand, HandleRegister, Handle
  <2>5. PICK g \in BOOLEAN :
           \/ conn' = [conn EXCEPT ![c].pc = "check", ![c].header = <<>>]
              /\ g = conn[c].registered
           \/ conn' = [conn EXCEPT ![c].pc = "check", ![c].header = <<>>, ![c].registered = TRUE]
              /\ g = TRUE
    <3>1. \/ conn' = [conn EXCEPT ![c].pc = "check", ![c].header = <<>>]
          \/ conn' = [conn EXCEPT ![c].pc = "check", ![c].header = <<>>, ![c].registered = TRUE]
      BY <1>9 DEF HandleCommand, HandleRegister
    <3>2. conn[c].registered \in BOOLEAN
      BY <1>0 DEF Record
    <3> QED BY <3>1, <3>2
  <2>6. PICK r : r = [conn[c] EXCEPT !.pc = "check", !.header = <<>>, !.registered = g]
    OBVIOUS
  <2>7. r \in Record /\ r.pc = "check" /\ r.header = <<>>
    <3>1. <<>> \in Seq(Header)
      OBVIOUS
    <3> QED BY <1>0, <2>6, <3>1 DEF Record, Labels
  <2>8. conn' = [conn EXCEPT ![c] = r] /\ conn'[c] = r
    <3>1. g = conn[c].registered => r = [conn[c] EXCEPT !.pc = "check", !.header = <<>>]
      BY <1>0, <2>6 DEF Record
    <3>2. CASE /\ conn' = [conn EXCEPT ![c].pc = "check", ![c].header = <<>>]
               /\ g = conn[c].registered
      BY <1>0, <3>1, <3>2
    <3>3. CASE /\ conn' = [conn EXCEPT ![c].pc = "check", ![c].header = <<>>,
                                       ![c].registered = TRUE]
               /\ g = TRUE
      BY <1>0, <2>6, <3>3
    <3> QED BY <2>5, <3>2, <3>3
  <2>9. Goes(c, r, stream[c], sent[c], h)
    BY <1>1, <2>1, <2>4, <2>8 DEF Goes
  <2>10. Handles(c)
    BY <2>1, <2>3, <2>4, <2>7, <2>8 DEF Handles
  <2> QED BY <1>0, <2>7, <2>9, <2>10 DEF Does
<1> QED BY <1>2, <1>3, <1>4, <1>5, <1>6, <1>7, <1>8, <1>9 DEF Serve

\* A step of the server as a whole
LEMMA StopRests ==
    ASSUME Typed, Stop \/ CloseListener \/ StopConnections
    PROVE  /\ conn' \in [Conns -> Record] /\ UNCHANGED <<stream, sent, handled, devices, modes>>
           /\ \A d \in Conns : conn'[d].pc \in {"body", "handle"} => conn'[d].header # <<>>
           /\ \A d \in Conns : Rests(d)
<1>0. /\ \A d \in Conns : conn[d] \in Record
      /\ \A d \in Conns : conn[d].pc \in {"body", "handle"} => conn[d].header # <<>>
  BY DEF Typed
<1>1. CASE CloseListener
  <2>1. conn' = [c \in Conns |-> IF conn[c].pc = "queued" THEN [NoConn EXCEPT !.pc = "gone"]
                                 ELSE conn[c]]
    BY <1>1 DEF CloseListener
  <2>2. PICK r \in Record : r = [NoConn EXCEPT !.pc = "gone"]
    BY NoConnType
  <2>3. r.pc = "gone" /\ r.header = <<>>
    BY <2>2 DEF NoConn
  <2>4. \A d \in Conns : conn'[d] = IF conn[d].pc = "queued" THEN r ELSE conn[d]
    BY <2>1, <2>2
  <2>5. UNCHANGED <<stream, sent, handled, devices, modes>>
    BY <1>1 DEF CloseListener
  <2> QED BY <1>0, <2>1, <2>2, <2>3, <2>4, <2>5 DEF Rests, Over
<1>2. CASE StopConnections
  <2>1. conn' = [c \in Conns |-> IF c \in connections THEN [conn[c] EXCEPT !.dropped = TRUE]
                                 ELSE conn[c]]
    BY <1>2 DEF StopConnections
  <2>2. ASSUME NEW d \in Conns
        PROVE  /\ [conn[d] EXCEPT !.dropped = TRUE] \in Record
               /\ [conn[d] EXCEPT !.dropped = TRUE].pc = conn[d].pc
               /\ [conn[d] EXCEPT !.dropped = TRUE].header = conn[d].header
    BY <1>0 DEF Record
  <2>3. \A d \in Conns : /\ conn'[d] \in Record /\ conn'[d].pc = conn[d].pc
                         /\ conn'[d].header = conn[d].header
    BY <1>0, <2>1, <2>2
  <2>4. UNCHANGED <<stream, sent, handled, devices, modes>>
    BY <1>2 DEF StopConnections
  <2> QED BY <1>0, <2>1, <2>3, <2>4 DEF Rests
<1>3. CASE Stop
  <2>1. UNCHANGED <<conn, stream, sent, handled, devices, modes>>
    BY <1>3 DEF Stop
  <2> QED BY <1>0, <2>1 DEF Typed, Rests
<1> QED BY <1>1, <1>2, <1>3

LEMMA NextDoes ==
    ASSUME Typed, [Next]_vars
    PROVE  \A c \in Conns : Does(c)
<1>1. CASE UNCHANGED vars
  BY <1>1 DEF vars, Does, Rests
<1>2. CASE Stop \/ CloseListener \/ StopConnections
  BY <1>2, StopRests DEF Does
<1>3. CASE \E c \in Conns :
              \/ Dial(c) \/ HangUp(c) \/ Accept(c) \/ Serve(c)
              \/ \E cmd \in Cmds, size \in Sizes : Send(c, cmd, size)
  <2>1. PICK c \in Conns :
              \/ Dial(c) \/ HangUp(c) \/ Accept(c) \/ Serve(c)
              \/ \E cmd \in Cmds, size \in Sizes : Send(c, cmd, size)
    BY <1>3
  <2>2. Alone(c) /\ Does(c)
    <3>1. PICK r \in Record, s \in Seq(Byte), t \in Seq(Cmds), h \in Seq(Command) :
              /\ Goes(c, r, s, t, h) /\ (r.pc \in {"body", "handle"} => r.header # <<>>)
              /\ Does(c)
      BY <2>1, ConnectionGoes
    <3> QED BY <3>1, GoesAlone
  <2>3. \A d \in Conns \ {c} : Rests(d)
    BY <2>2 DEF Alone, Rests
  <2> QED BY <2>2, <2>3 DEF Does
<1> QED BY <1>1, <1>2, <1>3 DEF Next

LEMMA TypedStep ==
    ASSUME Typed, [Next]_vars
    PROVE  Typed'
<1>1. CASE UNCHANGED vars
  BY <1>1 DEF Typed, vars, flags, server, devices, modes, Byte, Header
<1>2. CASE Next
  <2>1. /\ listening' \in BOOLEAN /\ running' \in BOOLEAN /\ stopping' \in BOOLEAN
        /\ accepting' \in BOOLEAN /\ connections' \subseteq Conns
    <3>1. CASE Stop
      BY <3>1 DEF Stop, Typed
    <3>2. CASE CloseListener \/ StopConnections
      BY <3>2 DEF CloseListener, StopConnections, Typed
    <3>3. ASSUME NEW c \in Conns,
                 \/ Dial(c) \/ HangUp(c) \/ Accept(c) \/ Serve(c)
                 \/ \E cmd \in Cmds, size \in Sizes : Send(c, cmd, size)
          PROVE  /\ UNCHANGED flags /\ accepting' \in {accepting, FALSE, running}
                 /\ connections' \in {connections, connections \cup {c}, connections \ {c}}
      BY <3>3 DEF server, Serve, Dial, HangUp, Accept, Send, Enter, Check, ReadHeader, ReadBody,
                  ReadFails, HandleCommand, HandleRegister, Close, Delete
    <3>4. CASE \E c \in Conns :
                  \/ Dial(c) \/ HangUp(c) \/ Accept(c) \/ Serve(c)
                  \/ \E cmd \in Cmds, size \in Sizes : Send(c, cmd, size)
      <4>1. PICK c \in Conns :
               /\ UNCHANGED flags /\ accepting' \in {accepting, FALSE, running}
               /\ connections' \in {connections, connections \cup {c}, connections \ {c}}
        BY <3>3, <3>4
      <4> QED BY <4>1 DEF Typed, flags
    <3> QED BY <1>2, <3>1, <3>2, <3>4 DEF Next
  <2>2. deviceMap' \in [FirstID..MaxIDs -> Conns \cup {None}]
    <3>1. CASE deviceMap' = deviceMap
      BY <3>1 DEF Typed
    <3>2. ASSUME NEW c \in Conns, HandleRegister(c)
          PROVE  deviceMap' \in [FirstID..MaxIDs -> Conns \cup {None}]
      <4>1. \/ deviceMap' = deviceMap
            \/ deviceMap' = [deviceMap EXCEPT ![NewID] =
                                IF Decodes(conn[c].header[1]) THEN c ELSE None]
        BY <3>2 DEF HandleRegister, devices
      <4> QED BY <4>1 DEF Typed
    <3> QED BY <1>2, <3>1, <3>2
          DEF Next, Serve, devices, Dial, HangUp, Accept, Send, Enter, Check, ReadHeader,
              ReadBody, ReadFails, HandleCommand, Close, Delete, Stop, CloseListener,
              StopConnections
  <2>3. CASE Stop \/ CloseListener \/ StopConnections
    BY <2>1, <2>2, <2>3, StopRests DEF Typed, modes
  <2>4. CASE \E c \in Conns :
                \/ Dial(c) \/ HangUp(c) \/ Accept(c) \/ Serve(c)
                \/ \E cmd \in Cmds, size \in Sizes : Send(c, cmd, size)
    <3>1. PICK c \in Conns :
                \/ Dial(c) \/ HangUp(c) \/ Accept(c) \/ Serve(c)
                \/ \E cmd \in Cmds, size \in Sizes : Send(c, cmd, size)
      BY <2>4
    <3>2. /\ conn' \in [Conns -> Record] /\ stream' \in [Conns -> Seq(Byte)]
          /\ sent' \in [Conns -> Seq(Cmds)] /\ handled' \in [Conns -> Seq(Command)]
          /\ \A d \in Conns : conn'[d].pc \in {"body", "handle"} => conn'[d].header # <<>>
          /\ encrypt' = encrypt /\ fitting' = fitting
      <4>1. PICK r \in Record, s \in Seq(Byte), t \in Seq(Cmds), h \in Seq(Command) :
                Goes(c, r, s, t, h) /\ (r.pc \in {"body", "handle"} => r.header # <<>>)
        BY <3>1, ConnectionGoes
      <4> QED BY <4>1, GoesAlone
    <3> QED BY <2>1, <2>2, <3>2 DEF Typed
  <2> QED BY <1>2, <2>3, <2>4 DEF Next
<1> QED BY <1>1, <1>2

LEMMA TypedInit == Init => Typed
<1>1. <<>> \in Seq(Byte) /\ <<>> \in Seq(Cmds) /\ <<>> \in Seq(Command)
  OBVIOUS
<1>2. NoConn \in Record /\ NoConn.pc = "none"
  BY NoConnType DEF NoConn
<1> QED BY <1>1, <1>2 DEF Init, Typed

-----------------------------------------------------------------------------
(* Nothing is handled that was not sent                                    *)

\* Of a connection, sq was sent, hd was handled, st is not read and hr is the header read.  The
\* i-th command that was handled is the f[i]-th that was sent, the header is of the k-th, and a
\* byte j that begins a header is of the g[j]-th; all are later ones in this order
Traces(sq, hd, st, hr, f, g, k) ==
    /\ f \in [DOMAIN hd -> DOMAIN sq] /\ g \in [DOMAIN st -> Nat] /\ k \in 0..Len(sq)
    /\ \A i \in DOMAIN hd : sq[f[i]] = hd[i].cmd /\ i <= f[i] /\ f[i] <= k
    /\ \A i, j \in DOMAIN hd : i < j => f[i] < f[j]
    /\ hr # <<>> => k > 0 /\ sq[k] = hr[1].cmd /\ \A i \in DOMAIN hd : f[i] < k
    /\ \A j \in DOMAIN st : First(st[j]) => g[j] \in DOMAIN sq /\ g[j] > k
                                            /\ sq[g[j]] = st[j].cmd
    /\ \A i, j \in DOMAIN st : i < j /\ First(st[i]) /\ First(st[j]) => g[i] < g[j]

Traced(sq, hd, st, hr) == \E f, g, k : Traces(sq, hd, st, hr, f, g, k)

\* Bytes are read, and headers thrown away
LEMMA TracedDrop ==
    ASSUME NEW sq \in Seq(Cmds), NEW hd \in Seq(Command), NEW st \in Seq(Byte), NEW hr,
           NEW n \in Nat, n <= Len(st), NEW f, NEW g, NEW k, Traces(sq, hd, st, hr, f, g, k)
    PROVE  Traces(sq, hd, SubSeq(st, n + 1, Len(st)), hr, f,
                  [j \in DOMAIN SubSeq(st, n + 1, Len(st)) |-> g[j + n]], k)
<1> DEFINE r == SubSeq(st, n + 1, Len(st))
           e == [j \in DOMAIN r |-> g[j + n]]
<1>1. /\ DOMAIN r = 1..(Len(st) - n) /\ DOMAIN st = 1..Len(st) /\ Len(st) \in Nat
      /\ \A i \in 1..(Len(st) - n) : r[i] = st[i + n]
  BY DropPlaces, LenProperties
<1>2. \A j \in DOMAIN r : j + n \in DOMAIN st /\ r[j] = st[j + n] /\ j \in Nat
  BY <1>1
<1>3. g \in [DOMAIN st -> Nat]
  BY DEF Traces
<1> HIDE DEF r
<1>4. e \in [DOMAIN r -> Nat] /\ \A j \in DOMAIN r : e[j] = g[j + n]
  BY <1>2, <1>3
<1> HIDE DEF e
<1>5. \A j \in DOMAIN r : First(r[j]) => e[j] \in DOMAIN sq /\ e[j] > k /\ sq[e[j]] = r[j].cmd
  BY <1>2, <1>4 DEF Traces
<1>6. \A i, j \in DOMAIN r : i < j /\ First(r[i]) /\ First(r[j]) => e[i] < e[j]
  <2>1. ASSUME NEW i \in DOMAIN r, NEW j \in DOMAIN r, i < j, First(r[i]), First(r[j])
        PROVE  e[i] < e[j]
    <3>1. i + n < j + n
      BY <1>2, <2>1
    <3>2. First(st[i + n]) /\ First(st[j + n]) /\ i + n \in DOMAIN st /\ j + n \in DOMAIN st
      BY <1>2, <2>1
    <3>3. g[i + n] < g[j + n]
      BY <3>1, <3>2 DEF Traces
    <3> QED BY <1>4, <3>3
  <2> QED BY <2>1
<1>7. Traces(sq, hd, r, hr, f, e, k)
  BY <1>4, <1>5, <1>6 DEF Traces
<1> QED BY <1>7 DEF r, e

LEMMA TracedRests ==
    ASSUME NEW sq \in Seq(Cmds), NEW hd \in Seq(Command), NEW st \in Seq(Byte), NEW hr,
           Traced(sq, hd, st, hr), NEW s \in {st, <<>>}, NEW r \in {hr, <<>>}
    PROVE  Traced(sq, hd, s, r)
<1>1. PICK f, g, k : Traces(sq, hd, st, hr, f, g, k)
  BY DEF Traced
<1>2. CASE s = st
  <2>1. Traces(sq, hd, st, r, f, g, k)
    BY <1>1 DEF Traces
  <2> QED BY <1>2, <2>1 DEF Traced
<1>3. CASE s = <<>>
  <2>1. PICK e : e = [j \in DOMAIN s |-> 0]
    OBVIOUS
  <2>2. DOMAIN s = {} /\ e \in [DOMAIN s -> Nat]
    BY <1>3, <2>1
  <2>3. Traces(sq, hd, s, r, f, e, k)
    BY <1>1, <2>2 DEF Traces
  <2> QED BY <2>3 DEF Traced
<1> QED BY <1>2, <1>3

LEMMA TracedWrites ==
    ASSUME NEW sq \in Seq(Cmds), NEW hd \in Seq(Command), NEW st \in Seq(Byte), NEW hr,
           NEW cmd \in Cmds, NEW size \in Sizes, Traced(sq, hd, st, hr)
    PROVE  Traced(Append(sq, cmd), hd, st \o EncodeFrame(cmd, size), hr)
<1>1. PICK f, g, k : Traces(sq, hd, st, hr, f, g, k)
  BY DEF Traced
<1>2. PICK t \in Seq(Byte), m \in Nat \ {0} :
         /\ t = EncodeFrame(cmd, size) /\ Len(t) = m /\ t[1] = HeaderOf(cmd, size)
         /\ \A i \in 2..m : ~First(t[i])
  BY FramePlaces
<1>3. PICK a \in Seq(Cmds) : a = Append(sq, cmd)
  BY AppendProperties
<1>4. /\ DOMAIN sq = 1..Len(sq) /\ Len(sq) \in Nat /\ DOMAIN a = 1..(Len(sq) + 1)
      /\ Len(a) = Len(sq) + 1 /\ a[Len(sq) + 1] = cmd /\ \A i \in DOMAIN sq : a[i] = sq[i]
  BY <1>3, AppendPlaces
<1>5. PICK u \in Seq(Byte) : u = st \o t
  BY ConcatProperties
<1>6. /\ DOMAIN st = 1..Len(st) /\ Len(st) \in Nat /\ DOMAIN u = 1..(Len(st) + m)
      /\ \A i \in 1..(Len(st) + m) : u[i] = IF i <= Len(st) THEN st[i] ELSE t[i - Len(st)]
  <2>1. /\ Len(st \o t) = Len(st) + Len(t)
        /\ \A i \in 1..(Len(st) + Len(t)) :
              (st \o t)[i] = IF i <= Len(st) THEN st[i] ELSE t[i - Len(st)]
    BY ConcatProperties
  <2>2. DOMAIN st = 1..Len(st) /\ Len(st) \in Nat /\ DOMAIN u = 1..Len(u)
    BY LenProperties
  <2> QED BY <1>2, <1>5, <2>1, <2>2
<1>7. PICK e : e = [j \in DOMAIN u |-> IF j <= Len(st) THEN g[j] ELSE Len(sq) + 1]
  OBVIOUS
<1>8. /\ e \in [DOMAIN u -> Nat]
      /\ \A j \in DOMAIN st : j \in DOMAIN u /\ u[j] = st[j] /\ e[j] = g[j]
  <2>1. g \in [DOMAIN st -> Nat]
    BY <1>1 DEF Traces
  <2> QED BY <1>4, <1>6, <1>7, <2>1
\* One of the new bytes begins a header, the first
<1>9. ASSUME NEW j \in DOMAIN u, j \notin DOMAIN st, First(u[j])
      PROVE  j = Len(st) + 1 /\ e[j] = Len(sq) + 1 /\ u[j] = HeaderOf(cmd, size)
  <2>1. j \in 1..(Len(st) + m) /\ ~(j <= Len(st)) /\ j - Len(st) \in 1..m
    BY <1>6, <1>9
  <2>2. u[j] = t[j - Len(st)]
    BY <1>6, <2>1
  <2>3. ~(j - Len(st) \in 2..m)
    BY <1>2, <1>9, <2>2
  <2>4. j - Len(st) = 1
    BY <2>1, <2>3
  <2>5. j = Len(st) + 1
    BY <1>6, <2>1, <2>4
  <2> QED BY <1>2, <1>7, <2>1, <2>2, <2>4, <2>5
<1>10. ASSUME NEW j \in DOMAIN u, First(u[j])
       PROVE  e[j] \in DOMAIN a /\ e[j] > k /\ a[e[j]] = u[j].cmd
  <2>1. CASE j \in DOMAIN st
    BY <1>1, <1>4, <1>8, <1>10, <2>1 DEF Traces
  <2>2. CASE j \notin DOMAIN st
    <3>1. e[j] = Len(sq) + 1 /\ u[j].cmd = cmd
      BY <1>9, <1>10, <2>2 DEF HeaderOf
    <3>2. k \in 0..Len(sq)
      BY <1>1 DEF Traces
    <3> QED BY <1>4, <3>1, <3>2
  <2> QED BY <2>1, <2>2
<1>11. ASSUME NEW i \in DOMAIN u, NEW j \in DOMAIN u, i < j, First(u[i]), First(u[j])
       PROVE  e[i] < e[j]
  <2>1. CASE j \in DOMAIN st
    <3>1. i \in DOMAIN st
      BY <1>6, <1>11, <2>1
    <3> QED BY <1>1, <1>8, <1>11, <2>1, <3>1 DEF Traces
  <2>2. CASE j \notin DOMAIN st
    <3>1. j = Len(st) + 1 /\ e[j] = Len(sq) + 1
      BY <1>9, <1>11, <2>2
    <3>2. i \in DOMAIN st
      BY <1>6, <1>11, <3>1
    <3>3. e[i] \in DOMAIN sq
      BY <1>1, <1>8, <1>11, <3>2 DEF Traces
    <3> QED BY <1>4, <3>1, <3>3
  <2> QED BY <2>1, <2>2
<1>12. f \in [DOMAIN hd -> DOMAIN a] /\ k \in 0..Len(a)
  BY <1>1, <1>4 DEF Traces
<1>13. /\ \A i \in DOMAIN hd : a[f[i]] = hd[i].cmd /\ i <= f[i] /\ f[i] <= k
       /\ \A i, j \in DOMAIN hd : i < j => f[i] < f[j]
       /\ hr # <<>> => k > 0 /\ a[k] = hr[1].cmd /\ \A i \in DOMAIN hd : f[i] < k
  <2>1. \A i \in DOMAIN hd : f[i] \in DOMAIN sq
    BY <1>1 DEF Traces
  <2>2. k > 0 => k \in DOMAIN sq
    BY <1>1, <1>4 DEF Traces
  <2> QED BY <1>1, <1>4, <2>1, <2>2 DEF Traces
<1>14. Traces(a, hd, u, hr, f, e, k)
  BY <1>8, <1>10, <1>11, <1>12, <1>13 DEF Traces
<1> QED BY <1>2, <1>3, <1>5, <1>14 DEF Traced

LEMMA TracedHeader ==
    ASSUME NEW sq \in Seq(Cmds), NEW hd \in Seq(Command), NEW st \in Seq(Byte), NEW hr,
           Traced(sq, hd, st, hr), HeaderSize <= Len(st)
    PROVE  LET s == SubSeq(st, HeaderSize + 1, Len(st)) IN
           /\ First(st[1]) => Traced(sq, hd, s, <<st[1]>>)
           /\ Traced(sq, hd, s, hr)
<1>0. HeaderSize \in Nat \ {0}
  BY PlatformAssumption DEF PlatformAssumption
<1>1. PICK f, g, k : Traces(sq, hd, st, hr, f, g, k)
  BY DEF Traced
<1>2. PICK s : s = SubSeq(st, HeaderSize + 1, Len(st))
  OBVIOUS
<1>3. PICK e : e = [j \in DOMAIN s |-> g[j + HeaderSize]]
  OBVIOUS
<1>4. Traces(sq, hd, s, hr, f, e, k)
  BY <1>0, <1>1, <1>2, <1>3, TracedDrop
<1>5. ASSUME First(st[1])
      PROVE  Traced(sq, hd, s, <<st[1]>>)
  <2>1. /\ DOMAIN s = 1..(Len(st) - HeaderSize) /\ DOMAIN st = 1..Len(st) /\ Len(st) \in Nat
        /\ \A i \in 1..(Len(st) - HeaderSize) : s[i] = st[i + HeaderSize]
    BY <1>0, <1>2, DropPlaces, LenProperties
  <2>2. 1 \in DOMAIN st /\ DOMAIN sq = 1..Len(sq) /\ Len(sq) \in Nat
    BY <1>0, <2>1, LenProperties
  <2>3. g[1] \in DOMAIN sq /\ g[1] > k /\ sq[g[1]] = st[1].cmd
    BY <1>1, <1>5, <2>2 DEF Traces
  <2>4. \A j \in DOMAIN s : First(s[j]) => e[j] > g[1]
    <3>1. ASSUME NEW j \in DOMAIN s, First(s[j])
          PROVE  e[j] > g[1]
      <4>1. j + HeaderSize \in DOMAIN st /\ 1 < j + HeaderSize /\ s[j] = st[j + HeaderSize]
        BY <1>0, <2>1
      <4>2. g[1] < g[j + HeaderSize]
        BY <1>1, <1>5, <2>2, <3>1, <4>1 DEF Traces
      <4>3. g[1] \in Nat /\ g[j + HeaderSize] \in Nat
        BY <1>1, <2>2, <4>1 DEF Traces
      <4> QED BY <1>3, <4>2, <4>3
    <3> QED BY <3>1
  <2>5. \A i \in DOMAIN hd : f[i] < g[1] /\ f[i] <= g[1]
    <3>1. \A i \in DOMAIN hd : f[i] <= k /\ f[i] \in DOMAIN sq /\ k \in 0..Len(sq)
      BY <1>1 DEF Traces
    <3> QED BY <2>2, <2>3, <3>1
  <2>6. g[1] \in 0..Len(sq) /\ g[1] > 0 /\ <<st[1]>>[1] = st[1]
    BY <2>2, <2>3
  <2>7. Traces(sq, hd, s, <<st[1]>>, f, e, g[1])
    BY <1>4, <2>3, <2>4, <2>5, <2>6 DEF Traces
  <2> QED BY <2>7 DEF Traced
<1> QED BY <1>2, <1>4, <1>5 DEF Traced

LEMMA TracedBody ==
    ASSUME NEW sq \in Seq(Cmds), NEW hd \in Seq(Command), NEW st \in Seq(Byte), NEW hr,
           NEW n \in Nat, n <= Len(st), Traced(sq, hd, st, hr)
    PROVE  Traced(sq, hd, SubSeq(st, n + 1, Len(st)), hr)
BY TracedDrop DEF Traced

LEMMA TracedHandles ==
    ASSUME NEW sq \in Seq(Cmds), NEW hd \in Seq(Command), NEW st \in Seq(Byte), NEW hr,
           hr # <<>>, NEW h \in Command, h.cmd = hr[1].cmd, Traced(sq, hd, st, hr)
    PROVE  Traced(sq, Append(hd, h), st, <<>>) /\ Len(hd) < Len(sq)
<1>1. PICK f, g, k : Traces(sq, hd, st, hr, f, g, k)
  BY DEF Traced
<1>2. PICK d \in Seq(Command) : d = Append(hd, h)
  BY AppendProperties
<1>3. /\ DOMAIN hd = 1..Len(hd) /\ Len(hd) \in Nat /\ DOMAIN d = 1..(Len(hd) + 1)
      /\ d[Len(hd) + 1] = h /\ \A i \in DOMAIN hd : d[i] = hd[i]
      /\ DOMAIN sq = 1..Len(sq) /\ Len(sq) \in Nat
  BY <1>2, AppendPlaces, LenProperties
<1>4. k \in DOMAIN sq /\ sq[k] = h.cmd /\ \A i \in DOMAIN hd : f[i] < k
  BY <1>1, <1>3 DEF Traces
<1>5. /\ f \in [DOMAIN hd -> DOMAIN sq]
      /\ \A i \in DOMAIN hd : sq[f[i]] = hd[i].cmd /\ i <= f[i]
      /\ \A i, j \in DOMAIN hd : i < j => f[i] < f[j]
  BY <1>1 DEF Traces
<1>6. Len(hd) < k
  <2>1. CASE Len(hd) = 0
    BY <1>3, <1>4, <2>1
  <2>2. CASE Len(hd) # 0
    <3>1. Len(hd) \in DOMAIN hd
      BY <1>3, <2>2
    <3>2. Len(hd) <= f[Len(hd)] /\ f[Len(hd)] < k /\ f[Len(hd)] \in DOMAIN sq
      BY <1>4, <1>5, <3>1
    <3> QED BY <1>3, <1>4, <3>2
  <2> QED BY <2>1, <2>2
<1>7. PICK e : e = [i \in DOMAIN d |-> IF i <= Len(hd) THEN f[i] ELSE k]
  OBVIOUS
<1>8. /\ e \in [DOMAIN d -> DOMAIN sq] /\ e[Len(hd) + 1] = k
      /\ \A i \in DOMAIN hd : e[i] = f[i]
  BY <1>3, <1>4, <1>5, <1>7
<1>9. \A i \in DOMAIN d : sq[e[i]] = d[i].cmd /\ i <= e[i] /\ e[i] <= k
  <2>1. ASSUME NEW i \in DOMAIN d
        PROVE  sq[e[i]] = d[i].cmd /\ i <= e[i] /\ e[i] <= k
    <3>1. CASE i \in DOMAIN hd
      <4>1. e[i] = f[i] /\ d[i] = hd[i] /\ f[i] < k /\ f[i] \in DOMAIN sq
        BY <1>3, <1>4, <1>5, <1>8, <3>1
      <4> QED BY <1>3, <1>4, <1>5, <3>1, <4>1
    <3>2. CASE i \notin DOMAIN hd
      <4>1. i = Len(hd) + 1
        BY <1>3, <3>2
      <4> QED BY <1>3, <1>4, <1>6, <1>8, <4>1
    <3> QED BY <3>1, <3>2
  <2> QED BY <2>1
<1>10. \A i, j \in DOMAIN d : i < j => e[i] < e[j]
  <2>1. ASSUME NEW i \in DOMAIN d, NEW j \in DOMAIN d, i < j
        PROVE  e[i] < e[j]
    <3>1. i \in DOMAIN hd
      BY <1>3, <2>1
    <3>2. CASE j \in DOMAIN hd
      BY <1>5, <1>8, <2>1, <3>1, <3>2
    <3>3. CASE j \notin DOMAIN hd
      <4>1. j = Len(hd) + 1
        BY <1>3, <3>3
      <4> QED BY <1>4, <1>8, <3>1, <4>1
    <3> QED BY <3>2, <3>3
  <2> QED BY <2>1
<1>11. Traces(sq, d, st, <<>>, e, g, k)
  BY <1>1, <1>8, <1>9, <1>10 DEF Traces
<1> QED BY <1>2, <1>3, <1>4, <1>6, <1>11 DEF Traced

TracedAll == \A c \in Conns : Traced(sent[c], handled[c], stream[c], conn[c].header)

LEMMA TracedStep ==
    ASSUME Typed, TracedAll, [Next]_vars
    PROVE  TracedAll'
<1> SUFFICES ASSUME NEW c \in Conns
             PROVE  Traced(sent'[c], handled'[c], stream'[c], conn'[c].header)
  BY DEF TracedAll
<1>1. /\ Traced(sent[c], handled[c], stream[c], conn[c].header)
      /\ sent[c] \in Seq(Cmds) /\ handled[c] \in Seq(Command) /\ stream[c] \in Seq(Byte)
  BY DEF TracedAll, Typed
<1>2. CASE Rests(c)
  <2>1. /\ sent'[c] = sent[c] /\ handled'[c] = handled[c]
        /\ stream'[c] \in {stream[c], <<>>} /\ conn'[c].header \in {conn[c].header, <<>>}
    BY <1>2 DEF Rests
  <2>2. PICK s \in {stream[c], <<>>}, r \in {conn[c].header, <<>>} :
           s = stream'[c] /\ r = conn'[c].header
    BY <2>1
  <2>3. Traced(sent[c], handled[c], s, r)
    BY <1>1, TracedRests
  <2> QED BY <2>1, <2>2, <2>3
<1>3. CASE Writes(c)
  <2>1. PICK cmd \in Cmds, size \in Sizes :
           /\ stream'[c] = stream[c] \o EncodeFrame(cmd, size)
           /\ sent'[c] = Append(sent[c], cmd)
           /\ conn'[c].header = conn[c].header /\ handled'[c] = handled[c]
    BY <1>3 DEF Writes
  <2>2. Traced(Append(sent[c], cmd), handled[c], stream[c] \o EncodeFrame(cmd, size),
               conn[c].header)
    BY <1>1, TracedWrites
  <2> QED BY <2>1, <2>2
<1>4. CASE TakesHeader(c)
  <2>1. HeaderSize <= Len(stream[c])
    BY <1>4 DEF TakesHeader
  <2>2. LET s == SubSeq(stream[c], HeaderSize + 1, Len(stream[c])) IN
        /\ First(stream[c][1]) => Traced(sent[c], handled[c], s, <<stream[c][1]>>)
        /\ Traced(sent[c], handled[c], s, conn[c].header)
    BY <1>1, <2>1, TracedHeader
  <2> QED BY <1>4, <2>2 DEF TakesHeader
<1>5. CASE TakesBody(c)
  <2>1. conn[c].header[1] \in Header
    BY <1>5, HeaderKept DEF TakesBody
  <2>2. PICK n \in Nat : n = conn[c].header[1].bodyLen
    <3>1. conn[c].header[1].bodyLen \in 0..(Limit - 1)
      BY <2>1 DEF Header
    <3> QED BY <3>1, PlatformAssumption DEF PlatformAssumption
  <2>3. /\ n <= Len(stream[c]) /\ stream'[c] = SubSeq(stream[c], n + 1, Len(stream[c]))
        /\ sent'[c] = sent[c] /\ handled'[c] = handled[c] /\ conn'[c].header = conn[c].header
    BY <1>5, <2>2 DEF TakesBody
  <2>4. Traced(sent[c], handled[c], SubSeq(stream[c], n + 1, Len(stream[c])), conn[c].header)
    BY <1>1, <2>3, TracedBody
  <2> QED BY <2>3, <2>4
<1>6. CASE Handles(c)
  <2>1. /\ conn[c].header[1] \in Header /\ conn[c].header # <<>>
    BY <1>6, HeaderKept DEF Handles
  <2>2. PICK h \in Command : /\ h.cmd = conn[c].header[1].cmd
                             /\ handled'[c] = Append(handled[c], h)
    <3>1. [cmd |-> conn[c].header[1].cmd, intact |-> Decodes(conn[c].header[1])] \in Command
      BY <2>1 DEF Header, Command, Decodes
    <3> QED BY <1>6, <3>1 DEF Handles
  <2>3. Traced(sent[c], Append(handled[c], h), stream[c], <<>>)
    BY <1>1, <2>1, <2>2, TracedHandles
  <2> QED BY <1>6, <2>2, <2>3 DEF Handles
<1> QED BY <1>2, <1>3, <1>4, <1>5, <1>6, NextDoes DEF Does

LEMMA TracedInit == Init => TracedAll
<1>1. ASSUME Init, NEW c \in Conns
      PROVE  Traced(sent[c], handled[c], stream[c], conn[c].header)
  <2>1. /\ sent[c] = <<>> /\ handled[c] = <<>> /\ stream[c] = <<>> /\ conn[c].header = <<>>
    BY <1>1 DEF Init, NoConn
  <2>2. DOMAIN <<>> = {} /\ Len(<<>>) = 0
    OBVIOUS
  <2>3. Traces(<<>>, <<>>, <<>>, <<>>, <<>>, <<>>, 0)
    <3>1. <<>> \in [{} -> {}] /\ <<>> \in [{} -> Nat]
      OBVIOUS
    <3> QED BY <2>2, <3>1 DEF Traces
  <2> QED BY <2>1, <2>3 DEF Traced
<1> QED BY <1>1 DEF TracedAll

LEMMA TracedHolds == Spec => [](Typed /\ TracedAll)
<1>1. Init => Typed /\ TracedAll
  BY TypedInit, TracedInit
<1>2. Typed /\ TracedAll /\ [Next]_vars => (Typed /\ TracedAll)'
  BY TypedStep, TracedStep
<1> QED BY <1>1, <1>2, PTL DEF Spec

\* Also when a body does not fit the length field of its header, and the server reads headers
\* where there are none, it handles nothing that was not sent, nothing twice and nothing out of
\* order: what it takes for a header begins one
THEOREM HandledWasSentCorrect == Spec => []HandledWasSent
<1>1. ASSUME Typed, TracedAll, NEW c \in Conns
      PROVE  LET cmds == [i \in DOMAIN handled[c] |-> handled[c][i].cmd] IN
             \E f \in [DOMAIN cmds -> DOMAIN sent[c]] :
                \A i, j \in DOMAIN cmds : sent[c][f[i]] = cmds[i] /\ (i < j => f[i] < f[j])
  <2>1. PICK f, g, k : Traces(sent[c], handled[c], stream[c], conn[c].header, f, g, k)
    BY <1>1 DEF TracedAll, Traced
  <2>2. /\ f \in [DOMAIN handled[c] -> DOMAIN sent[c]]
        /\ \A i \in DOMAIN handled[c] : sent[c][f[i]] = handled[c][i].cmd
        /\ \A i, j \in DOMAIN handled[c] : i < j => f[i] < f[j]
    BY <2>1 DEF Traces
  <2> QED BY <2>2
<1>2. Typed /\ TracedAll => HandledWasSent
  BY <1>1 DEF HandledWasSent
<1> QED BY <1>2, TracedHolds, PTL
-----------------------------------------------------------------------------
(* The capacity                                                            *)

\* Where a connection is in the map, until Stop empties it
Served == {"check", "header", "body", "handle", "close", "delete"}

Registered == {c \in Conns : conn[c].registered}

\* Until Stop, what is registered is in the map, and no more than the capacity is registered
Admitted ==
    /\ stopping => ~running
    /\ \A c \in Conns : conn[c].registered => conn[c].pc \in Served
    /\ running => /\ \A c \in Conns : conn[c].pc \in Served => c \in connections
                  /\ Cardinality(Registered) <= Capacity

LEMMA SubsetFits ==
    ASSUME NEW S \in SUBSET Conns, NEW T \in SUBSET S
    PROVE  Cardinality(T) \in Nat /\ Cardinality(S) \in Nat /\ Cardinality(T) <= Cardinality(S)
<1>1. IsFiniteSet(S) /\ IsFiniteSet(T)
  BY FS_Subset, PlatformAssumption DEF PlatformAssumption
<1> QED BY <1>1, FS_Subset, FS_CardinalityType

\* A step that registers nobody
LEMMA AdmittedStays ==
    ASSUME Admitted, Capacity \in Nat, stopping' => ~running', running' => running,
           \A c \in Conns : conn'[c].registered => conn[c].registered /\ conn'[c].pc \in Served,
           running' => \A c \in Conns : conn'[c].pc \in Served => c \in connections'
    PROVE  Admitted'
<1>1. PICK T \in SUBSET Registered : T = Registered'
  BY DEF Registered
<1>2. Registered \in SUBSET Conns
  BY DEF Registered
<1>3. Cardinality(T) \in Nat /\ Cardinality(Registered) \in Nat
      /\ Cardinality(T) <= Cardinality(Registered)
  BY <1>2, SubsetFits
<1>4. running' => Cardinality(T) <= Capacity
  BY <1>3 DEF Admitted
<1> QED BY <1>1, <1>4 DEF Admitted

LEMMA AdmittedStep ==
    ASSUME Typed, Admitted, [Next]_vars
    PROVE  Admitted'
<1>0. /\ Capacity \in Nat /\ conn \in [Conns -> Record] /\ connections \subseteq Conns
      /\ \A c \in Conns : conn[c] \in Record /\ (conn[c].registered => conn[c].pc \in Served)
      /\ running => \A c \in Conns : conn[c].pc \in Served => c \in connections
      /\ stopping => ~running
  BY PlatformAssumption DEF PlatformAssumption, Typed, Admitted
<1>1. CASE UNCHANGED vars
  BY <1>0, <1>1, AdmittedStays DEF vars, server, flags
<1>2. CASE CloseListener
  <2>1. /\ ~running' /\ conn' = [c \in Conns |-> IF conn[c].pc = "queued"
                                                THEN [NoConn EXCEPT !.pc = "gone"] ELSE conn[c]]
    BY <1>0, <1>2 DEF CloseListener
  <2>2. \A c \in Conns : conn'[c].registered => conn[c].registered /\ conn'[c].pc \in Served
    BY <1>0, <2>1 DEF NoConn
  <2> QED BY <1>0, <2>1, <2>2, AdmittedStays
<1>3. CASE StopConnections
  <2>1. /\ ~running' /\ conn' = [c \in Conns |-> IF c \in connections
                                                THEN [conn[c] EXCEPT !.dropped = TRUE]
                                                ELSE conn[c]]
    BY <1>0, <1>3 DEF StopConnections
  <2>2. \A c \in Conns : conn'[c].registered => conn[c].registered /\ conn'[c].pc \in Served
    BY <1>0, <2>1 DEF Record
  <2> QED BY <1>0, <2>1, <2>2, AdmittedStays
<1>4. ASSUME NEW c \in Conns, UNCHANGED flags,
             connections' \in {connections, connections \cup {c}},
             conn' = [conn EXCEPT ![c] = conn'[c]],
             conn'[c].registered => conn[c].registered /\ conn'[c].pc \in Served,
             conn'[c].pc \in Served => conn[c].pc \in Served \/ c \in connections'
      PROVE  Admitted'
  <2>1. \A d \in Conns : conn'[d].registered => conn[d].registered /\ conn'[d].pc \in Served
    BY <1>0, <1>4
  <2>2. running' => \A d \in Conns : conn'[d].pc \in Served => d \in connections'
    BY <1>0, <1>4 DEF flags
  <2> QED BY <1>0, <1>4, <2>1, <2>2, AdmittedStays DEF flags
<1>5. ASSUME NEW c \in Conns, NEW l \in Labels,
             \/ Dial(c) /\ l = "queued"
             \/ Accept(c) /\ l = "accepted"
             \/ Enter(c) /\ l = "check"
             \/ Check(c) /\ l \in {"header", "close"}
             \/ ReadBody(c) /\ l = "handle"
             \/ ReadFails(c) /\ l = "close",
             conn' = [conn EXCEPT ![c].pc = l]
      PROVE  Admitted'
  <2>1. PICK r : r = [conn[c] EXCEPT !.pc = l]
    OBVIOUS
  <2>2. r.pc = l /\ r.registered = conn[c].registered /\ conn'[c] = r
    BY <1>0, <1>5, <2>1 DEF Record
  <2>3. conn' = [conn EXCEPT ![c] = conn'[c]]
    BY <1>0, <1>5
  <2>4. /\ UNCHANGED flags /\ connections' \in {connections, connections \cup {c}}
        /\ conn[c].pc \in Served => l \in Served
        /\ l \in Served => conn[c].pc \in Served \/ c \in connections'
        /\ conn[c].pc \notin Served => ~conn[c].registered
    BY <1>0, <1>5 DEF server, Dial, Accept, Enter, Check, ReadBody, ReadFails, Served
  <2> QED BY <1>4, <2>2, <2>3, <2>4
<1>6. ASSUME NEW c \in Conns,
             Dial(c) \/ Accept(c) \/ Enter(c) \/ Check(c) \/ ReadBody(c) \/ ReadFails(c)
      PROVE  Admitted'
  <2>1. PICK l \in Labels :
             /\ \/ Dial(c) /\ l = "queued"
                \/ Accept(c) /\ l = "accepted"
                \/ Enter(c) /\ l = "check"
                \/ Check(c) /\ l \in {"header", "close"}
                \/ ReadBody(c) /\ l = "handle"
                \/ ReadFails(c) /\ l = "close"
             /\ conn' = [conn EXCEPT ![c].pc = l]
    BY <1>6 DEF Dial, Accept, Enter, Check, ReadBody, ReadFails, Labels
  <2> QED BY <1>5, <2>1
<1>7. ASSUME NEW c \in Conns, NEW cmd \in Cmds, NEW size \in Sizes, Send(c, cmd, size)
      PROVE  Admitted'
  <2>1. UNCHANGED <<flags, connections, conn>>
    BY <1>7 DEF Send, server
  <2> QED BY <1>0, <2>1, AdmittedStays DEF flags
<1>8. ASSUME NEW c \in Conns, HangUp(c) \/ Close(c) \/ ReadHeader(c)
      PROVE  Admitted'
  <2>1. /\ UNCHANGED <<flags, connections>>
        /\ \E r \in {conn'[c]} : conn' = [conn EXCEPT ![c] = r]
    BY <1>0, <1>8 DEF server, HangUp, Close, ReadHeader
  <2>2. /\ conn'[c].registered = conn[c].registered
        /\ conn'[c].pc \in Served <=> conn[c].pc \in Served
    <3>1. CASE HangUp(c)
      BY <1>0, <3>1 DEF HangUp, Record
    <3>2. CASE Close(c)
      BY <1>0, <3>2 DEF Close, Record, Served
    <3>3. CASE ReadHeader(c)
      BY <1>0, <3>3 DEF ReadHeader, Record, Served
    <3> QED BY <1>8, <3>1, <3>2, <3>3
  <2> QED BY <1>0, <1>4, <2>1, <2>2
<1>9. ASSUME NEW c \in Conns, Delete(c)
      PROVE  Admitted'
  <2>1. /\ UNCHANGED flags /\ connections' = connections \ {c}
        /\ conn' = [conn EXCEPT ![c] = [NoConn EXCEPT !.pc = "gone"]]
    BY <1>9 DEF Delete, server
  <2>2. ~conn'[c].registered /\ conn'[c].pc = "gone"
    BY <1>0, <2>1 DEF NoConn
  <2>3. \A d \in Conns : conn'[d].registered => conn[d].registered /\ conn'[d].pc \in Served
    BY <1>0, <2>1, <2>2
  <2>4. running' => \A d \in Conns : conn'[d].pc \in Served => d \in connections'
    BY <1>0, <2>1, <2>2 DEF flags, Served
  <2> QED BY <1>0, <2>1, <2>3, <2>4, AdmittedStays DEF flags
<1>10. ASSUME NEW c \in Conns, HandleCommand(c) \/ HandleRegister(c)
       PROVE  Admitted'
  <2>1. /\ conn[c].pc = "handle" /\ UNCHANGED <<flags, connections>>
    BY <1>10 DEF server, HandleCommand, HandleRegister, Handle
  <2>2. \/ conn' = [conn EXCEPT ![c].pc = "check", ![c].header = <<>>]
        \/ /\ conn' = [conn EXCEPT ![c].pc = "check", ![c].header = <<>>, ![c].registered = TRUE]
           /\ HasRoom
    BY <1>10 DEF HandleCommand, HandleRegister
  <2>3. conn' = [conn EXCEPT ![c] = conn'[c]] /\ conn'[c].pc = "check"
    <3>1. CASE conn' = [conn EXCEPT ![c].pc = "check", ![c].header = <<>>]
      <4>1. PICK r : r = [conn[c] EXCEPT !.pc = "check", !.header = <<>>]
        OBVIOUS
      <4>2. conn' = [conn EXCEPT ![c] = r] /\ r.pc = "check"
        BY <1>0, <3>1, <4>1 DEF Record
      <4> QED BY <1>0, <4>2
    <3>2. CASE conn' = [conn EXCEPT ![c].pc = "check", ![c].header = <<>>,
                                    ![c].registered = TRUE]
      <4>1. PICK r : r = [conn[c] EXCEPT !.pc = "check", !.header = <<>>, !.registered = TRUE]
        OBVIOUS
      <4>2. conn' = [conn EXCEPT ![c] = r] /\ r.pc = "check"
        BY <1>0, <3>2, <4>1 DEF Record
      <4> QED BY <1>0, <4>2
    <3> QED BY <2>2, <3>1, <3>2
  <2>4. CASE conn' = [conn EXCEPT ![c].pc = "check", ![c].header = <<>>]
    <3>1. conn'[c].registered = conn[c].registered
      BY <1>0, <2>4 DEF Record
    <3> QED BY <1>0, <1>4, <2>1, <2>3, <3>1 DEF Served
  <2>5. CASE HasRoom
    <3>1. \A d \in Conns : d # c => conn'[d] = conn[d]
      BY <1>0, <2>3
    <3>2. \A d \in Conns : conn'[d].registered => conn'[d].pc \in Served
      BY <1>0, <2>3, <3>1 DEF Served
    <3>3. running => \A d \in Conns : conn'[d].pc \in Served => d \in connections
      BY <1>0, <2>1, <2>3, <3>1 DEF Served
    <3>4. running => Cardinality(Registered') <= Capacity
      <4>1. SUFFICES ASSUME running PROVE Cardinality(Registered') <= Capacity
        OBVIOUS
      <4>2. PICK T \in SUBSET connections : T = Registered'
        BY <3>2, <3>3, <4>1 DEF Registered
      <4>3. Cardinality(T) \in Nat /\ Cardinality(connections) \in Nat
            /\ Cardinality(T) <= Cardinality(connections)
        BY <1>0, SubsetFits
      <4>4. Cardinality(connections) <= Capacity
        BY <2>5 DEF HasRoom
      <4>5. Cardinality(T) <= Capacity
        BY <1>0, <4>3, <4>4
      <4> QED BY <4>2, <4>5
    <3> QED BY <1>0, <2>1, <3>2, <3>3, <3>4 DEF Admitted, flags
  <2> QED BY <2>2, <2>4, <2>5
<1>11. CASE Stop
  <2>1. ~running' /\ UNCHANGED conn
    BY <1>11 DEF Stop
  <2> QED BY <1>0, <2>1, AdmittedStays
<1> QED BY <1>1, <1>2, <1>3, <1>6, <1>7, <1>8, <1>9, <1>10, <1>11 DEF Next, Serve

LEMMA AdmittedInit == Init => Admitted
<1>1. ASSUME Init PROVE Admitted
  <2>1. \A c \in Conns : conn[c].pc = "none" /\ conn[c].registered = FALSE
    BY <1>1 DEF Init, NoConn
  <2>2. Registered = {}
    BY <2>1 DEF Registered
  <2>3. Cardinality(Registered) <= Capacity
    BY <2>2, FS_EmptySet, PlatformAssumption DEF PlatformAssumption
  <2> QED BY <1>1, <2>1, <2>3 DEF Init, Admitted, Served
<1> QED BY <1>1
-----------------------------------------------------------------------------
(* Device ids                                                              *)

\* The frames that f has the commands of
Frames(f) == UNION {{c} \X DOMAIN f[c] : c \in Conns}

\* An id is given for a frame that was handled, and so was sent
Issued ==
    /\ IsFiniteSet(Frames(sent)) /\ Cardinality(Frames(sent)) <= MaxFrames
    /\ IsFiniteSet(Frames(handled))
    /\ nextDevID \in Nat /\ FirstID <= nextDevID
    /\ nextDevID - FirstID <= Cardinality(Frames(handled))

LEMMA FrameAdded ==
    ASSUME NEW f, NEW g, NEW c \in Conns, NEW n \in Nat, IsFiniteSet(Frames(f)),
           DOMAIN f[c] = 1..n, DOMAIN g[c] = 1..(n + 1), \A d \in Conns \ {c} : g[d] = f[d]
    PROVE  /\ IsFiniteSet(Frames(g)) /\ Cardinality(Frames(f)) \in Nat
           /\ Cardinality(Frames(g)) = Cardinality(Frames(f)) + 1
<1>1. PICK p : p = <<c, n + 1>>
  OBVIOUS
<1>2. Frames(g) = Frames(f) \cup {p}
  <2>1. ASSUME NEW d \in Conns, NEW i \in DOMAIN g[d]
        PROVE  <<d, i>> \in Frames(f) \cup {p}
    <3>1. CASE i \in DOMAIN f[d]
      BY <3>1 DEF Frames
    <3>2. CASE i \notin DOMAIN f[d]
      <4>1. d = c
        BY <2>1, <3>2
      <4>2. i = n + 1
        BY <2>1, <3>2, <4>1
      <4> QED BY <1>1, <4>1, <4>2
    <3> QED BY <3>1, <3>2
  <2>2. \A d \in Conns : DOMAIN f[d] \subseteq DOMAIN g[d]
    OBVIOUS
  <2>3. Frames(f) \subseteq Frames(g)
    BY <2>2 DEF Frames
  <2>4. p \in Frames(g)
    BY <1>1 DEF Frames
  <2>5. Frames(g) \subseteq Frames(f) \cup {p}
    BY <2>1 DEF Frames
  <2> QED BY <2>3, <2>4, <2>5
<1>3. p \notin Frames(f)
  <2>1. n + 1 \notin 1..n
    OBVIOUS
  <2> QED BY <1>1, <2>1 DEF Frames
<1>4. /\ IsFiniteSet(Frames(f) \cup {p})
      /\ Cardinality(Frames(f) \cup {p}) = Cardinality(Frames(f)) + 1
  BY <1>3, FS_AddElement
<1> QED BY <1>2, <1>4, FS_CardinalityType

LEMMA IssuedStep ==
    ASSUME Typed, Issued, [Next]_vars
    PROVE  Issued'
<1>0. /\ sent \in [Conns -> Seq(Cmds)] /\ handled \in [Conns -> Seq(Command)]
      /\ IsFiniteSet(Frames(sent)) /\ IsFiniteSet(Frames(handled))
      /\ Cardinality(Frames(sent)) \in Nat /\ Cardinality(Frames(handled)) \in Nat
      /\ MaxFrames \in Nat
  BY FS_CardinalityType, PlatformAssumption DEF PlatformAssumption, Typed, Issued
<1>1. ASSUME NEW c \in Conns, NEW cmd \in Cmds, NEW size \in Sizes, Send(c, cmd, size)
      PROVE  Issued'
  <2>1. PICK g : g = [sent EXCEPT ![c] = Append(sent[c], cmd)]
    OBVIOUS
  <2>2. sent' = g /\ UNCHANGED <<handled, nextDevID>> /\ Cardinality(Frames(sent)) < MaxFrames
    BY <1>1, <2>1 DEF Send, FramesSent, Frames, devices
  <2>3. IsFiniteSet(Frames(g)) /\ Cardinality(Frames(g)) = Cardinality(Frames(sent)) + 1
    <3>1. PICK n \in Nat : n = Len(sent[c])
      BY <1>0, LenProperties
    <3>2. /\ DOMAIN sent[c] = 1..n /\ DOMAIN g[c] = 1..(n + 1)
          /\ \A d \in Conns \ {c} : g[d] = sent[d]
      BY <1>0, <2>1, <3>1, AppendPlaces
    <3> QED BY <1>0, <3>2, FrameAdded
  <2>4. Cardinality(Frames(g)) <= MaxFrames
    BY <1>0, <2>2, <2>3
  <2> QED BY <2>2, <2>3, <2>4 DEF Issued
<1>2. ASSUME NEW c \in Conns, HandleCommand(c) \/ HandleRegister(c)
      PROVE  Issued'
  <2>1. PICK h : h = [cmd |-> conn[c].header[1].cmd, intact |-> Decodes(conn[c].header[1])]
    OBVIOUS
  <2>2. PICK g : g = [handled EXCEPT ![c] = Append(handled[c], h)]
    OBVIOUS
  <2>3. sent' = sent /\ handled' = g /\ nextDevID' \in {nextDevID, nextDevID + 1}
    BY <1>2, <2>1, <2>2 DEF HandleCommand, HandleRegister, Handle, devices, NewID
  <2>4. h \in Command
    <3>1. conn[c].header[1] \in Header
      BY <1>2, HeaderKept DEF HandleCommand, HandleRegister, Handle
    <3> QED BY <2>1, <3>1 DEF Header, Command, Decodes
  <2>5. IsFiniteSet(Frames(g)) /\ Cardinality(Frames(g)) = Cardinality(Frames(handled)) + 1
    <3>1. PICK n \in Nat : n = Len(handled[c])
      BY <1>0, LenProperties
    <3>2. /\ DOMAIN handled[c] = 1..n /\ DOMAIN g[c] = 1..(n + 1)
          /\ \A d \in Conns \ {c} : g[d] = handled[d]
      BY <1>0, <2>2, <2>4, <3>1, AppendPlaces
    <3> QED BY <1>0, <3>2, FrameAdded
  <2>6. /\ nextDevID' \in Nat /\ FirstID <= nextDevID'
        /\ nextDevID' - FirstID <= Cardinality(Frames(g))
    BY <1>0, <2>3, <2>5 DEF Issued, FirstID
  <2> QED BY <2>3, <2>5, <2>6 DEF Issued
<1>3. CASE UNCHANGED <<sent, handled, nextDevID>>
  BY <1>3 DEF Issued, Frames
<1> QED BY <1>1, <1>2, <1>3
    DEF Next, Serve, vars, devices, Dial, HangUp, Accept, Enter, Check, ReadHeader, ReadBody,
        ReadFails, Close, Delete, Stop, CloseListener, StopConnections

LEMMA IssuedInit == Init => Issued
<1>1. ASSUME Init PROVE Issued
  <2>1. \A c \in Conns : DOMAIN sent[c] = {} /\ DOMAIN handled[c] = {}
    BY <1>1 DEF Init
  <2>2. Frames(sent) = {} /\ Frames(handled) = {}
    BY <2>1 DEF Frames
  <2>3. MaxFrames \in Nat
    BY PlatformAssumption DEF PlatformAssumption
  <2>4. IsFiniteSet({}) /\ Cardinality({}) = 0 /\ nextDevID = 1
    BY <1>1, FS_EmptySet DEF Init, FirstID
  <2> QED BY <2>2, <2>3, <2>4 DEF Issued, FirstID
<1> QED BY <1>1

\* No more ids than frames
LEMMA IdsInRange ==
    ASSUME Typed, TracedAll, Issued
    PROVE  nextDevID \in FirstID..(MaxIDs + 1)
<1>1. Frames(handled) \subseteq Frames(sent)
  <2>1. ASSUME NEW c \in Conns, NEW i \in DOMAIN handled[c]
        PROVE  i \in DOMAIN sent[c]
    <3>1. PICK f, g, k : Traces(sent[c], handled[c], stream[c], conn[c].header, f, g, k)
      BY DEF TracedAll, Traced
    <3>2. f[i] \in DOMAIN sent[c] /\ i <= f[i]
      BY <2>1, <3>1 DEF Traces
    <3>3. /\ DOMAIN sent[c] = 1..Len(sent[c]) /\ Len(sent[c]) \in Nat
          /\ DOMAIN handled[c] = 1..Len(handled[c]) /\ Len(handled[c]) \in Nat
      BY LenProperties DEF Typed
    <3> QED BY <2>1, <3>2, <3>3
  <2> QED BY <2>1 DEF Frames
<1>2. /\ Cardinality(Frames(handled)) <= Cardinality(Frames(sent))
      /\ Cardinality(Frames(handled)) \in Nat /\ Cardinality(Frames(sent)) \in Nat
  BY <1>1, FS_Subset, FS_CardinalityType DEF Issued
<1> QED BY <1>2, PlatformAssumption DEF PlatformAssumption, Issued, FirstID, MaxIDs

\* While the server runs, never more stations are registered than its capacity, because every
\* registration looks at the map of connections, which has each of them; and the ids, one for
\* each registration, stay in their range, because what is not sent is not handled
THEOREM CapacityInvCorrect == Spec => []CapacityInv
<1>1. Init => Admitted /\ Issued
  BY AdmittedInit, IssuedInit
<1>2. Typed /\ Admitted /\ Issued /\ [Next]_vars => (Admitted /\ Issued)'
  BY AdmittedStep, IssuedStep
<1>3. Typed /\ TracedAll /\ Admitted /\ Issued => CapacityInv
  <2>1. ASSUME Typed, TracedAll, Admitted, Issued
        PROVE  TypeOK
    <3>1. nextDevID \in FirstID..(MaxIDs + 1)
      BY <2>1, IdsInRange
    <3>2. ASSUME NEW c \in Conns
          PROVE  /\ conn[c].pc \in Labels /\ {conn[c].hung, conn[c].dropped, conn[c].registered}
                                            \subseteq BOOLEAN
                 /\ conn[c].header = <<>> \/ conn[c].header[1] \in Header
      <4>1. conn[c] \in Record /\ conn[c].header \in Seq(Header)
        BY <2>1 DEF Typed, Record
      <4>2. conn[c].header # <<>> => conn[c].header[1] \in Header
        BY <4>1
      <4> QED BY <4>1, <4>2 DEF Record
    <3> QED BY <2>1, <3>1, <3>2 DEF Typed, TypeOK, Labels
  <2>2. Admitted => WithinCapacity
    BY DEF Admitted, WithinCapacity, Registered
  <2> QED BY <2>1, <2>2 DEF CapacityInv
<1> QED BY <1>1, <1>2, <1>3, TracedHolds, PTL DEF Spec
-----------------------------------------------------------------------------
(* What fits is read as it was sent                                        *)

Size(n) == HeaderSize + Payload(n)

\* Of the commands sq, with bodies of lengths z, the first cur have their header read.  The next
\* ones are in st, each where b says, one behind the other, and before them are skip bytes
Lays(sq, st, cur, skip, z, b) ==
    /\ z \in [DOMAIN sq -> Sizes] /\ \A i \in DOMAIN sq : Payload(z[i]) < Limit
    /\ cur <= Len(sq) /\ b \in [1..(Len(sq) + 1) -> Int]
    /\ b[cur + 1] = skip + 1 /\ b[Len(sq) + 1] = Len(st) + 1
    /\ \A i \in (cur + 1)..Len(sq) : st[b[i]] = HeaderOf(sq[i], z[i])
    /\ \A i \in (cur + 1)..Len(sq) : b[i + 1] = b[i] + Size(z[i])
    /\ \A i \in (cur + 1)..Len(sq), j \in (cur + 1)..(Len(sq) + 1) :
          i < j => b[i] + Size(z[i]) <= b[j]

\* Of a connection at pc: what was handled, hd, is what was sent first, and the next one is the
\* one that is being read, with the header hr, or the first in the stream
Aligned(sq, hd, st, hr, pc) ==
    /\ Len(hd) <= Len(sq)
    /\ \A i \in DOMAIN hd : hd[i].intact /\ hd[i].cmd = sq[i]
    /\ pc \in Waiting => \E z, b : Lays(sq, st, Len(hd), 0, z, b)
    /\ pc \in {"body", "handle"} =>
          \E z, b : /\ Lays(sq, st, Len(hd) + 1,
                            IF pc = "body" THEN Payload(z[Len(hd) + 1]) ELSE 0, z, b)
                    /\ hr[1] = HeaderOf(sq[Len(hd) + 1], z[Len(hd) + 1])

LEMMA Lengths ==
    /\ HeaderSize \in Nat \ {0}
    /\ \A n \in Sizes : Payload(n) \in Nat /\ Size(n) \in Nat \ {0}
                        /\ Size(n) = HeaderSize + Payload(n)
<1>1. HeaderSize \in Nat \ {0}
  BY PlatformAssumption DEF PlatformAssumption
<1>2. ASSUME NEW n \in Sizes
      PROVE  Payload(n) \in Nat /\ Size(n) \in Nat \ {0} /\ Size(n) = HeaderSize + Payload(n)
  <2>1. Payload(n) \in Nat
    BY PayloadLength
  <2> QED BY <1>1, <2>1 DEF Size
<1> QED BY <1>1, <1>2

\* The frames are in the stream, behind what is skipped
LEMMA LaysInside ==
    ASSUME NEW sq \in Seq(Cmds), NEW st \in Seq(Byte), NEW cur \in Nat, NEW skip \in Nat,
           NEW z, NEW b, Lays(sq, st, cur, skip, z, b), NEW i \in (cur + 1)..Len(sq)
    PROVE  /\ i \in DOMAIN sq /\ z[i] \in Sizes /\ b[i] \in Int /\ Len(st) \in Nat
           /\ skip < b[i] /\ b[i] <= Len(st)
<1>1. /\ Len(sq) \in Nat /\ DOMAIN sq = 1..Len(sq) /\ Len(st) \in Nat
  BY LenProperties
<1>2. /\ z \in [DOMAIN sq -> Sizes] /\ b \in [1..(Len(sq) + 1) -> Int] /\ cur <= Len(sq)
      /\ b[cur + 1] = skip + 1 /\ b[Len(sq) + 1] = Len(st) + 1
      /\ \A k \in (cur + 1)..Len(sq), j \in (cur + 1)..(Len(sq) + 1) :
            k < j => b[k] + Size(z[k]) <= b[j]
  BY DEF Lays
<1>3. /\ i \in DOMAIN sq /\ i \in 1..(Len(sq) + 1) /\ i \in (cur + 1)..(Len(sq) + 1)
      /\ Len(sq) + 1 \in (cur + 1)..(Len(sq) + 1) /\ i < Len(sq) + 1
      /\ cur + 1 \in (cur + 1)..Len(sq) /\ cur + 1 \in DOMAIN sq
  BY <1>1
<1>4. /\ z[i] \in Sizes /\ z[cur + 1] \in Sizes /\ b[i] \in Int
  BY <1>2, <1>3
<1>5. Size(z[i]) \in Nat \ {0} /\ Size(z[cur + 1]) \in Nat \ {0}
  BY <1>4, Lengths
<1>6. b[i] + Size(z[i]) <= Len(st) + 1
  BY <1>2, <1>3
<1>7. i = cur + 1 \/ b[cur + 1] + Size(z[cur + 1]) <= b[i]
  <2>1. i = cur + 1 \/ cur + 1 < i
    BY <1>3
  <2> QED BY <1>2, <1>3, <2>1
<1>8. skip < b[i]
  <2>1. CASE i = cur + 1
    BY <1>2, <2>1
  <2>2. CASE b[cur + 1] + Size(z[cur + 1]) <= b[i]
    BY <1>2, <1>4, <1>5, <2>2
  <2> QED BY <1>7, <2>1, <2>2
<1>9. b[i] <= Len(st)
  BY <1>1, <1>4, <1>5, <1>6
<1> QED BY <1>1, <1>3, <1>4, <1>8, <1>9

\* Some of what is skipped is read
LEMMA LaysDrop ==
    ASSUME NEW sq \in Seq(Cmds), NEW st \in Seq(Byte), NEW cur \in Nat, NEW skip \in Nat,
           NEW z, NEW b, Lays(sq, st, cur, skip, z, b), NEW n \in 0..skip, n <= Len(st)
    PROVE  \E e : Lays(sq, SubSeq(st, n + 1, Len(st)), cur, skip - n, z, e)
<1>1. PICK r : r = SubSeq(st, n + 1, Len(st))
  OBVIOUS
<1>2. /\ Len(st) \in Nat /\ Len(r) = Len(st) - n /\ Len(sq) \in Nat /\ n \in Nat
      /\ \A i \in 1..(Len(st) - n) : r[i] = st[i + n]
  BY <1>1, DropPlaces, LenProperties
<1>3. /\ b \in [1..(Len(sq) + 1) -> Int] /\ cur <= Len(sq)
      /\ b[cur + 1] = skip + 1 /\ b[Len(sq) + 1] = Len(st) + 1
      /\ \A i \in (cur + 1)..Len(sq) : st[b[i]] = HeaderOf(sq[i], z[i])
      /\ \A i \in (cur + 1)..Len(sq) : b[i + 1] = b[i] + Size(z[i])
      /\ \A i \in (cur + 1)..Len(sq), j \in (cur + 1)..(Len(sq) + 1) :
            i < j => b[i] + Size(z[i]) <= b[j]
  BY DEF Lays
<1>4. PICK e : e = [i \in 1..(Len(sq) + 1) |-> b[i] - n]
  OBVIOUS
<1>5. e \in [1..(Len(sq) + 1) -> Int] /\ \A i \in 1..(Len(sq) + 1) : e[i] = b[i] - n
  BY <1>2, <1>3, <1>4
<1>6. e[cur + 1] = (skip - n) + 1 /\ e[Len(sq) + 1] = Len(r) + 1
  <2>1. cur + 1 \in 1..(Len(sq) + 1) /\ Len(sq) + 1 \in 1..(Len(sq) + 1)
    BY <1>2, <1>3
  <2>2. /\ e[cur + 1] = b[cur + 1] - n /\ b[cur + 1] = skip + 1
        /\ e[Len(sq) + 1] = b[Len(sq) + 1] - n /\ b[Len(sq) + 1] = Len(st) + 1
    BY <1>3, <1>5, <2>1
  <2>3. Len(st) \in Nat /\ Len(r) = Len(st) - n /\ n \in Nat
    BY <1>2
  <2> QED BY <2>2, <2>3
<1>7. \A i \in (cur + 1)..Len(sq) : r[e[i]] = HeaderOf(sq[i], z[i])
  <2>1. ASSUME NEW i \in (cur + 1)..Len(sq)
        PROVE  r[e[i]] = HeaderOf(sq[i], z[i])
    <3>1. skip < b[i] /\ b[i] <= Len(st) /\ b[i] \in Int
      BY LaysInside
    <3>2. i \in 1..(Len(sq) + 1)
      BY <1>2
    <3>3. e[i] = b[i] - n
      BY <1>5, <3>2
    <3>4. e[i] \in 1..(Len(st) - n) /\ e[i] + n = b[i]
      BY <1>2, <3>1, <3>3
    <3> QED BY <1>2, <1>3, <3>4
  <2> QED BY <2>1
<1>8. ASSUME NEW i \in (cur + 1)..Len(sq)
      PROVE  /\ e[i + 1] = e[i] + Size(z[i])
             /\ \A j \in (cur + 1)..(Len(sq) + 1) : i < j => e[i] + Size(z[i]) <= e[j]
  <2>1. Size(z[i]) \in Nat
    BY LaysInside, Lengths
  <2>2. /\ i \in 1..(Len(sq) + 1) /\ i + 1 \in 1..(Len(sq) + 1)
        /\ \A j \in (cur + 1)..(Len(sq) + 1) : j \in 1..(Len(sq) + 1)
    BY <1>2
  <2>3. e[i + 1] = e[i] + Size(z[i])
    <3>1. /\ e[i] = b[i] - n /\ e[i + 1] = b[i + 1] - n /\ b[i + 1] = b[i] + Size(z[i])
          /\ b[i] \in Int
      BY <1>3, <1>5, <2>2
    <3>2. n \in Nat
      BY <1>2
    <3> QED BY <2>1, <3>1, <3>2
  <2>4. ASSUME NEW j \in (cur + 1)..(Len(sq) + 1), i < j
        PROVE  e[i] + Size(z[i]) <= e[j]
    <3>1. b[i] + Size(z[i]) <= b[j] /\ b[i] \in Int /\ b[j] \in Int
      BY <1>3, <2>2, <2>4
    <3>2. e[i] = b[i] - n /\ e[j] = b[j] - n
      BY <1>5, <2>2
    <3>3. n \in Nat
      BY <1>2
    <3> QED BY <2>1, <3>1, <3>2, <3>3
  <2> QED BY <2>3, <2>4
<1>9. Lays(sq, r, cur, skip - n, z, e)
  BY <1>5, <1>6, <1>7, <1>8 DEF Lays
<1> QED BY <1>1, <1>9

\* The header of the next one is there to be read
LEMMA LaysNext ==
    ASSUME NEW sq \in Seq(Cmds), NEW st \in Seq(Byte), NEW cur \in Nat, Len(st) > 0,
           NEW z, NEW b, Lays(sq, st, cur, 0, z, b)
    PROVE  /\ cur + 1 \in DOMAIN sq /\ z[cur + 1] \in Sizes
           /\ st[1] = HeaderOf(sq[cur + 1], z[cur + 1])
           /\ Lays(sq, st, cur + 1, Size(z[cur + 1]), z, b)
<1>1. /\ Len(st) \in Nat /\ Len(sq) \in Nat /\ DOMAIN sq = 1..Len(sq)
  BY LenProperties
<1>2. /\ z \in [DOMAIN sq -> Sizes] /\ \A i \in DOMAIN sq : Payload(z[i]) < Limit
      /\ b \in [1..(Len(sq) + 1) -> Int] /\ cur <= Len(sq)
      /\ b[cur + 1] = 1 /\ b[Len(sq) + 1] = Len(st) + 1
      /\ \A i \in (cur + 1)..Len(sq) : st[b[i]] = HeaderOf(sq[i], z[i])
      /\ \A i \in (cur + 1)..Len(sq) : b[i + 1] = b[i] + Size(z[i])
      /\ \A i \in (cur + 1)..Len(sq), j \in (cur + 1)..(Len(sq) + 1) :
            i < j => b[i] + Size(z[i]) <= b[j]
  BY DEF Lays
<1>3. cur # Len(sq)
  <2>1. SUFFICES ASSUME cur = Len(sq) PROVE FALSE
    OBVIOUS
  <2>2. b[cur + 1] = b[Len(sq) + 1]
    BY <2>1
  <2>3. b[cur + 1] = 1 /\ b[Len(sq) + 1] = Len(st) + 1
    BY <1>2
  <2>4. 1 = Len(st) + 1
    BY <2>2, <2>3
  <2> QED BY <1>1, <2>4
<1>4. cur + 1 \in DOMAIN sq /\ cur + 1 \in (cur + 1)..Len(sq) /\ cur + 1 <= Len(sq)
  <2>1. cur <= Len(sq)
    BY <1>2
  <2>2. PICK n \in Nat : n = Len(sq)
    BY <1>1
  <2>3. cur <= n /\ cur # n
    BY <1>3, <2>1, <2>2
  <2>4. cur + 1 <= n
    BY <2>3
  <2>5. cur + 1 \in 1..n /\ cur + 1 \in (cur + 1)..n
    BY <2>4
  <2> QED BY <1>1, <2>2, <2>4, <2>5
<1>5. Size(z[cur + 1]) \in Nat
  BY <1>2, <1>4, Lengths
<1>6. b[(cur + 1) + 1] = Size(z[cur + 1]) + 1
  BY <1>2, <1>4, <1>5
<1>7. /\ \A i \in ((cur + 1) + 1)..Len(sq) : i \in (cur + 1)..Len(sq)
      /\ \A j \in ((cur + 1) + 1)..(Len(sq) + 1) : j \in (cur + 1)..(Len(sq) + 1)
  BY <1>1
<1>8. Lays(sq, st, cur + 1, Size(z[cur + 1]), z, b)
  BY <1>2, <1>4, <1>6, <1>7 DEF Lays
<1> QED BY <1>2, <1>4, <1>8

\* One more is sent
LEMMA LaysWrites ==
    ASSUME NEW sq \in Seq(Cmds), NEW st \in Seq(Byte), NEW cur \in Nat, NEW skip \in Nat,
           NEW z, NEW b, Lays(sq, st, cur, skip, z, b),
           NEW cmd \in Cmds, NEW size \in Sizes, Payload(size) < Limit
    PROVE  \E y, e : /\ Lays(Append(sq, cmd), st \o EncodeFrame(cmd, size), cur, skip, y, e)
                     /\ \A i \in DOMAIN sq : y[i] = z[i]
<1>1. PICK t \in Seq(Byte) : t = EncodeFrame(cmd, size) /\ Len(t) = Size(size)
                             /\ t[1] = HeaderOf(cmd, size)
  BY FramePlaces DEF Size
<1>2. PICK a \in Seq(Cmds) : a = Append(sq, cmd)
  BY AppendProperties
<1>3. PICK n \in Nat : n = Len(sq)
  BY LenProperties
<1>4. /\ DOMAIN sq = 1..n /\ DOMAIN a = 1..(n + 1) /\ Len(a) = n + 1
      /\ a[n + 1] = cmd /\ \A i \in 1..n : a[i] = sq[i]
  BY <1>2, <1>3, AppendPlaces
<1>5. PICK u \in Seq(Byte) : u = st \o t
  BY ConcatProperties
<1>6. Size(size) \in Nat \ {0} /\ Len(st) \in Nat
  BY Lengths, LenProperties
<1>7. /\ Len(u) = Len(st) + Size(size)
      /\ \A i \in 1..(Len(st) + Size(size)) : u[i] = IF i <= Len(st) THEN st[i] ELSE t[i - Len(st)]
  BY <1>1, <1>5, ConcatProperties
<1>8. /\ z \in [1..n -> Sizes] /\ \A i \in 1..n : Payload(z[i]) < Limit
      /\ b \in [1..(n + 1) -> Int] /\ cur <= n
      /\ b[cur + 1] = skip + 1 /\ b[n + 1] = Len(st) + 1
      /\ \A i \in (cur + 1)..n : st[b[i]] = HeaderOf(sq[i], z[i])
      /\ \A i \in (cur + 1)..n : b[i + 1] = b[i] + Size(z[i])
      /\ \A i \in (cur + 1)..n, j \in (cur + 1)..(n + 1) : i < j => b[i] + Size(z[i]) <= b[j]
  BY <1>3, <1>4 DEF Lays
<1>9. PICK y, e : /\ y = [i \in 1..(n + 1) |-> IF i <= n THEN z[i] ELSE size]
                  /\ e = [i \in 1..(n + 2) |-> IF i <= n + 1 THEN b[i]
                                               ELSE Len(st) + 1 + Size(size)]
  OBVIOUS
<1>10. /\ y \in [1..(n + 1) -> Sizes] /\ y[n + 1] = size /\ \A i \in 1..n : y[i] = z[i]
       /\ e \in [1..(n + 2) -> Int] /\ e[n + 2] = Len(st) + 1 + Size(size)
       /\ \A i \in 1..(n + 1) : e[i] = b[i]
  <2>1. z \in [1..n -> Sizes] /\ b \in [1..(n + 1) -> Int] /\ n \in Nat /\ size \in Sizes
    BY <1>8
  <2>2. Len(st) + 1 + Size(size) \in Int
    BY <1>6
  <2>3. y \in [1..(n + 1) -> Sizes] /\ y[n + 1] = size /\ \A i \in 1..n : y[i] = z[i]
    BY ONLY <1>9, <2>1
  <2>4. /\ e \in [1..(n + 2) -> Int] /\ e[n + 2] = Len(st) + 1 + Size(size)
        /\ \A i \in 1..(n + 1) : e[i] = b[i]
    BY ONLY <1>9, <2>1, <2>2
  <2> QED BY <2>3, <2>4
<1>11. \A i \in 1..(n + 1) : Payload(y[i]) < Limit
  <2>1. \A i \in 1..(n + 1) : i \in 1..n \/ i = n + 1
    OBVIOUS
  <2> QED BY <1>8, <1>10, <2>1
<1>12. e[cur + 1] = skip + 1 /\ e[n + 2] = Len(u) + 1 /\ e[n + 1] = Len(st) + 1
  BY <1>6, <1>7, <1>8, <1>10
<1>13. \A i \in (cur + 1)..(n + 1) : u[e[i]] = HeaderOf(a[i], y[i])
  <2>1. ASSUME NEW i \in (cur + 1)..n
        PROVE  u[e[i]] = HeaderOf(a[i], y[i])
    <3>1. skip < b[i] /\ b[i] <= Len(st) /\ b[i] \in Int /\ i \in 1..n
      BY <1>3, <1>4, LaysInside
    <3>2. b[i] \in 1..(Len(st) + Size(size))
      BY <1>6, <3>1
    <3>3. u[b[i]] = st[b[i]]
      BY <1>7, <3>1, <3>2
    <3>4. e[i] = b[i] /\ y[i] = z[i] /\ a[i] = sq[i]
      BY <1>4, <1>10, <3>1
    <3> QED BY <1>8, <3>3, <3>4
  <2>2. u[e[n + 1]] = HeaderOf(a[n + 1], y[n + 1])
    <3>1. /\ Len(st) + 1 \in 1..(Len(st) + Size(size)) /\ ~(Len(st) + 1 <= Len(st))
          /\ (Len(st) + 1) - Len(st) = 1
      BY <1>6
    <3>2. u[Len(st) + 1] = t[1]
      BY <1>7, <3>1
    <3> QED BY <1>1, <1>4, <1>10, <1>12, <3>2
  <2>3. \A i \in (cur + 1)..(n + 1) : i \in (cur + 1)..n \/ i = n + 1
    OBVIOUS
  <2> QED BY <2>1, <2>2, <2>3
<1>14. ASSUME NEW i \in (cur + 1)..(n + 1)
       PROVE  /\ e[i + 1] = e[i] + Size(y[i])
              /\ \A j \in (cur + 1)..(n + 2) : i < j => e[i] + Size(y[i]) <= e[j]
  <2>1. CASE i = n + 1
    <3>1. e[i + 1] = e[i] + Size(y[i])
      BY <1>6, <1>10, <1>12, <2>1
    <3>2. \A j \in (cur + 1)..(n + 2) : i < j => j = i + 1
      BY <2>1
    <3>3. e[i] + Size(y[i]) <= e[i + 1]
      BY <1>6, <1>10, <1>12, <2>1, <3>1
    <3> QED BY <3>1, <3>2, <3>3
  <2>2. CASE i # n + 1
    <3>1. /\ i \in (cur + 1)..n /\ i \in 1..n /\ i \in 1..(n + 1) /\ i + 1 \in 1..(n + 1)
          /\ n + 1 \in (cur + 1)..(n + 1) /\ i < n + 1
      BY <2>2
    <3>2. e[i] = b[i] /\ y[i] = z[i] /\ e[i + 1] = b[i + 1] /\ b[i + 1] = b[i] + Size(z[i])
      BY <1>8, <1>10, <3>1
    <3>3. ASSUME NEW j \in (cur + 1)..(n + 1), i < j
          PROVE  e[i] + Size(y[i]) <= e[j]
      <4>1. j \in 1..(n + 1)
        OBVIOUS
      <4> QED BY <1>8, <1>10, <3>1, <3>2, <3>3, <4>1
    <3>4. e[i] + Size(y[i]) <= e[n + 2]
      <4>1. e[i] + Size(y[i]) <= e[n + 1]
        BY <3>1, <3>3
      <4>2. e[i] \in Int /\ Size(y[i]) \in Nat
        BY <1>8, <1>10, <3>1, <3>2, Lengths
      <4>3. e[n + 1] = Len(st) + 1 /\ e[n + 2] = Len(st) + 1 + Size(size)
        BY <1>10, <1>12
      <4> QED BY <1>6, <4>1, <4>2, <4>3
    <3>5. \A j \in (cur + 1)..(n + 2) : j \in (cur + 1)..(n + 1) \/ j = n + 2
      OBVIOUS
    <3> QED BY <3>2, <3>3, <3>4, <3>5
  <2> QED BY <2>1, <2>2
<1>15. Lays(a, u, cur, skip, y, e)
  <2>1. (n + 1) + 1 = n + 2 /\ cur <= n + 1
    BY <1>8
  <2> QED BY <1>4, <1>10, <1>11, <1>12, <1>13, <1>14, <2>1 DEF Lays
<1> QED BY <1>1, <1>2, <1>4, <1>5, <1>10, <1>15
\* A header that fits says how long its body is, and how to decode it
LEMMA HeaderFits ==
    ASSUME NEW cmd \in Cmds, NEW size \in Sizes, Payload(size) < Limit, encrypt \in BOOLEAN
    PROVE  LET h == HeaderOf(cmd, size) IN
           h.cmd = cmd /\ h.bodyLen = Payload(size) /\ Decodes(h) = TRUE
<1>1. PICK h : h = HeaderOf(cmd, size)
  OBVIOUS
<1>2. /\ h.cmd = cmd /\ h.size = size /\ h.bodyLen = Payload(size) % Limit
      /\ h.fillLen = IF encrypt THEN FillLen(size) ELSE 0
  BY <1>1 DEF HeaderOf
<1>3. size \in Nat /\ Payload(size) \in Nat /\ Payload(size) % Limit = Payload(size)
  BY PayloadLength, SmallModulo
<1>4. Decodes(h)
  <2>1. CASE encrypt
    <3>1. /\ FillLen(size) \in 1..Block /\ (size + FillLen(size)) % Block = 0
          /\ Payload(size) = size + FillLen(size)
      BY <1>3, <2>1, Blocks DEF Payload
    <3>2. PICK n : n = FillLen(size)
      OBVIOUS
    <3>3. /\ h.bodyLen = size + n /\ h.fillLen = n /\ n \in Nat \ {0} /\ (size + n) % Block = 0
      BY <1>2, <1>3, <2>1, <3>1, <3>2, PlatformAssumption DEF PlatformAssumption
    <3>4. size + n > 0 /\ n <= size + n /\ (size + n) - n = size
      BY <1>3, <3>3
    <3>5. Decrypted(size + n, n) = size
      BY <3>3, <3>4 DEF Decrypted
    <3> QED BY <1>2, <3>3, <3>5 DEF Decodes
  <2>2. CASE ~encrypt
    <3>1. h.fillLen = 0 /\ h.bodyLen = size
      BY <1>2, <1>3, <2>2 DEF Payload
    <3> QED BY <1>2, <3>1 DEF Decodes
  <2> QED BY <2>1, <2>2
<1>5. Decodes(h) = TRUE
  BY <1>4 DEF Decodes
<1> QED BY <1>1, <1>2, <1>3, <1>5

LEMMA AlignedWrites ==
    ASSUME NEW sq \in Seq(Cmds), NEW hd \in Seq(Command), NEW st \in Seq(Byte), NEW hr, NEW pc,
           Aligned(sq, hd, st, hr, pc),
           NEW cmd \in Cmds, NEW size \in Sizes, Payload(size) < Limit
    PROVE  Aligned(Append(sq, cmd), hd, st \o EncodeFrame(cmd, size), hr, pc)
<1>1. PICK a, u : a = Append(sq, cmd) /\ u = st \o EncodeFrame(cmd, size)
  OBVIOUS
<1>2. /\ DOMAIN sq = 1..Len(sq) /\ Len(sq) \in Nat /\ Len(a) = Len(sq) + 1
      /\ \A i \in DOMAIN sq : a[i] = sq[i]
  BY <1>1, AppendPlaces
<1>3. Len(hd) \in Nat /\ DOMAIN hd = 1..Len(hd) /\ Len(hd) <= Len(sq)
  BY LenProperties DEF Aligned
<1>4. Len(hd) <= Len(a) /\ \A i \in DOMAIN hd : hd[i].intact /\ hd[i].cmd = a[i]
  <2>1. \A i \in DOMAIN hd : i \in DOMAIN sq
    BY <1>2, <1>3
  <2> QED BY <1>2, <1>3, <2>1 DEF Aligned
<1>5. ASSUME pc \in Waiting
      PROVE  \E z, b : Lays(a, u, Len(hd), 0, z, b)
  <2>1. PICK z, b : Lays(sq, st, Len(hd), 0, z, b)
    BY <1>5 DEF Aligned
  <2>2. \E y, e : Lays(a, u, Len(hd), 0, y, e)
    BY <1>1, <1>3, <2>1, LaysWrites
  <2> QED BY <2>2
<1>6. ASSUME pc \in {"body", "handle"}
      PROVE  \E z, b : /\ Lays(a, u, Len(hd) + 1,
                               IF pc = "body" THEN Payload(z[Len(hd) + 1]) ELSE 0, z, b)
                       /\ hr[1] = HeaderOf(a[Len(hd) + 1], z[Len(hd) + 1])
  <2>1. PICK cur \in Nat : cur = Len(hd) + 1
    BY <1>3
  <2>2. PICK z, b : /\ Lays(sq, st, cur, IF pc = "body" THEN Payload(z[cur]) ELSE 0, z, b)
                    /\ hr[1] = HeaderOf(sq[cur], z[cur])
    BY <1>6, <2>1 DEF Aligned
  <2>3. cur \in DOMAIN sq /\ z[cur] \in Sizes
    BY <1>2, <1>3, <2>1, <2>2 DEF Lays
  <2>4. PICK n \in Nat : n = IF pc = "body" THEN Payload(z[cur]) ELSE 0
    BY <2>3, Lengths
  <2>5. PICK y, e : Lays(a, u, cur, n, y, e) /\ \A i \in DOMAIN sq : y[i] = z[i]
    BY <1>1, <2>2, <2>4, LaysWrites
  <2>6. a[cur] = sq[cur] /\ y[cur] = z[cur]
    BY <1>2, <2>3, <2>5
  <2>7. Lays(a, u, cur, IF pc = "body" THEN Payload(y[cur]) ELSE 0, y, e)
    BY <2>4, <2>5, <2>6
  <2>8. hr[1] = HeaderOf(a[cur], y[cur])
    BY <2>2, <2>6
  <2> QED BY <2>1, <2>7, <2>8
<1> QED BY <1>1, <1>4, <1>5, <1>6 DEF Aligned

LEMMA AlignedHeader ==
    ASSUME NEW sq \in Seq(Cmds), NEW hd \in Seq(Command), NEW st \in Seq(Byte), NEW hr,
           Aligned(sq, hd, st, hr, "header"), HeaderSize <= Len(st)
    PROVE  /\ First(st[1])
           /\ Aligned(sq, hd, SubSeq(st, HeaderSize + 1, Len(st)), <<st[1]>>, "body")
<1>1. PICK n \in Nat : n = Len(hd)
  BY LenProperties
<1>2. PICK z, b : Lays(sq, st, n, 0, z, b)
  BY <1>1 DEF Aligned, Waiting
<1>3. HeaderSize \in Nat \ {0} /\ Len(st) \in Nat /\ Len(st) > 0
  BY Lengths, LenProperties
<1>4. /\ n + 1 \in DOMAIN sq /\ z[n + 1] \in Sizes
      /\ st[1] = HeaderOf(sq[n + 1], z[n + 1])
      /\ Lays(sq, st, n + 1, Size(z[n + 1]), z, b)
  BY <1>2, <1>3, LaysNext
<1>5. sq[n + 1] \in Cmds
  BY <1>4, LenProperties, ElementOfSeq
<1>6. First(st[1])
  BY <1>4, <1>5, HeaderType, FirstIsHeader
<1>7. PICK k \in Nat, p \in Nat : /\ k = Size(z[n + 1]) /\ p = Payload(z[n + 1])
                                  /\ k = HeaderSize + p
  BY <1>4, Lengths
<1>8. HeaderSize \in 0..k /\ k - HeaderSize = p /\ n + 1 \in Nat
  BY <1>3, <1>7
<1>9. PICK s : s = SubSeq(st, HeaderSize + 1, Len(st))
  OBVIOUS
<1>10. PICK e : Lays(sq, s, n + 1, k - HeaderSize, z, e)
  BY <1>4, <1>7, <1>8, <1>9, LaysDrop
<1>11. Lays(sq, s, n + 1, Payload(z[n + 1]), z, e)
  BY <1>7, <1>8, <1>10
<1>12. <<st[1]>>[1] = HeaderOf(sq[n + 1], z[n + 1])
  BY <1>4
<1>13. Aligned(sq, hd, s, <<st[1]>>, "body")
  BY <1>1, <1>11, <1>12 DEF Aligned, Waiting
<1> QED BY <1>6, <1>9, <1>13

LEMMA AlignedBody ==
    ASSUME NEW sq \in Seq(Cmds), NEW hd \in Seq(Command), NEW st \in Seq(Byte), NEW hr,
           Aligned(sq, hd, st, hr, "body"), NEW m, m = hr[1].bodyLen, m <= Len(st),
           encrypt \in BOOLEAN
    PROVE  Aligned(sq, hd, SubSeq(st, m + 1, Len(st)), hr, "handle")
<1>1. PICK n \in Nat : n = Len(hd) + 1
  BY LenProperties
<1>2. PICK z, b : Lays(sq, st, n, Payload(z[n]), z, b) /\ hr[1] = HeaderOf(sq[n], z[n])
  BY <1>1 DEF Aligned
<1>3. /\ n \in DOMAIN sq /\ z[n] \in Sizes /\ Payload(z[n]) < Limit
  <2>1. /\ z \in [DOMAIN sq -> Sizes] /\ \A i \in DOMAIN sq : Payload(z[i]) < Limit
        /\ n <= Len(sq)
    BY <1>2 DEF Lays
  <2>2. n >= 1 /\ DOMAIN sq = 1..Len(sq) /\ Len(sq) \in Nat
    BY <1>1, LenProperties
  <2> QED BY <2>1, <2>2
<1>4. sq[n] \in Cmds
  BY <1>3, LenProperties, ElementOfSeq
<1>5. m = Payload(z[n])
  <2>1. HeaderOf(sq[n], z[n]).bodyLen = Payload(z[n])
    BY <1>3, <1>4, HeaderFits
  <2> QED BY <1>2, <2>1
<1>6. m \in Nat /\ m \in 0..m /\ m - m = 0
  BY <1>3, <1>5, Lengths
<1>7. PICK s : s = SubSeq(st, m + 1, Len(st))
  OBVIOUS
<1>8. PICK e : Lays(sq, s, n, m - m, z, e)
  BY <1>2, <1>5, <1>6, <1>7, LaysDrop
<1>9. Lays(sq, s, n, 0, z, e)
  BY <1>6, <1>8
<1>10. Aligned(sq, hd, s, hr, "handle")
  BY <1>1, <1>2, <1>9 DEF Aligned, Waiting
<1> QED BY <1>7, <1>10

LEMMA AlignedHandles ==
    ASSUME NEW sq \in Seq(Cmds), NEW hd \in Seq(Command), NEW st \in Seq(Byte), NEW hr,
           Aligned(sq, hd, st, hr, "handle"), encrypt \in BOOLEAN,
           NEW h \in Command, h.cmd = hr[1].cmd, h.intact = Decodes(hr[1])
    PROVE  Aligned(sq, Append(hd, h), st, <<>>, "check")
<1>1. PICK n \in Nat : n = Len(hd) + 1
  BY LenProperties
<1>2. PICK z, b : Lays(sq, st, n, 0, z, b) /\ hr[1] = HeaderOf(sq[n], z[n])
  BY <1>1 DEF Aligned
<1>3. /\ n \in DOMAIN sq /\ z[n] \in Sizes /\ Payload(z[n]) < Limit /\ n <= Len(sq)
  <2>1. /\ z \in [DOMAIN sq -> Sizes] /\ \A i \in DOMAIN sq : Payload(z[i]) < Limit
        /\ n <= Len(sq)
    BY <1>2 DEF Lays
  <2>2. n >= 1 /\ DOMAIN sq = 1..Len(sq) /\ Len(sq) \in Nat
    BY <1>1, LenProperties
  <2> QED BY <2>1, <2>2
<1>4. sq[n] \in Cmds
  BY <1>3, LenProperties, ElementOfSeq
<1>5. h.cmd = sq[n] /\ h.intact = TRUE
  BY <1>2, <1>3, <1>4, HeaderFits
<1>6. PICK d : d = Append(hd, h)
  OBVIOUS
<1>7. /\ Len(d) = n /\ DOMAIN d = 1..n /\ DOMAIN hd = 1..(n - 1) /\ d[n] = h
      /\ \A i \in DOMAIN hd : d[i] = hd[i]
  BY <1>1, <1>6, AppendPlaces
<1>8. \A i \in DOMAIN d : d[i].intact /\ d[i].cmd = sq[i]
  <2>1. \A i \in DOMAIN d : i \in DOMAIN hd \/ i = n
    BY <1>7
  <2>2. \A i \in DOMAIN hd : hd[i].intact /\ hd[i].cmd = sq[i]
    BY DEF Aligned
  <2> QED BY <1>5, <1>7, <2>1, <2>2
<1>9. Aligned(sq, d, st, <<>>, "check")
  BY <1>2, <1>3, <1>7, <1>8 DEF Aligned
<1> QED BY <1>6, <1>9
AlignedAll ==
    fitting => \A c \in Conns : Aligned(sent[c], handled[c], stream[c], conn[c].header, conn[c].pc)

LEMMA AlignedStep ==
    ASSUME Typed, AlignedAll, [Next]_vars
    PROVE  AlignedAll'
<1>0. encrypt \in BOOLEAN /\ encrypt' = encrypt /\ fitting' = fitting
  BY DEF Typed, Next, vars, modes, Serve, Dial, HangUp, Accept, Send, Enter, Check, ReadHeader,
         ReadBody, ReadFails, HandleCommand, HandleRegister, Close, Delete, Stop, CloseListener,
         StopConnections
<1>1. ASSUME fitting, NEW c \in Conns, NEW sq, NEW hd, NEW st, NEW hr, NEW pc,
             sq = sent'[c], hd = handled'[c], st = stream'[c], hr = conn'[c].header,
             pc = conn'[c].pc
      PROVE  Aligned(sq, hd, st, hr, pc)
  <2>0. PICK r, l : r = conn[c].header /\ l = conn[c].pc
    OBVIOUS
  <2>1. PICK s \in Seq(Cmds), h \in Seq(Command), t \in Seq(Byte) :
           /\ s = sent[c] /\ h = handled[c] /\ t = stream[c] /\ r = conn[c].header
           /\ l = conn[c].pc
    BY <2>0 DEF Typed
  <2>2. Aligned(s, h, t, r, l)
    BY <1>1, <2>1 DEF AlignedAll
  <2>3. CASE Rests(c)
    <3>1. /\ sq = s /\ hd = h
          /\ \/ (pc = l \/ (l \in Waiting /\ pc \in Waiting)) /\ st = t /\ hr = r
             \/ pc \in Over
      BY <1>1, <2>1, <2>3 DEF Rests
    <3>2. CASE pc = l /\ st = t /\ hr = r
      BY <2>2, <3>1, <3>2
    <3>3. CASE l \in Waiting /\ pc \in Waiting /\ st = t
      BY <2>2, <3>1, <3>3 DEF Aligned, Waiting
    <3>4. CASE pc \in Over
      BY <2>2, <3>1, <3>4 DEF Aligned, Waiting, Over
    <3> QED BY <3>1, <3>2, <3>3, <3>4
  <2>4. CASE Writes(c)
    <3>1. PICK cmd \in Cmds, size \in Sizes :
             /\ Payload(size) < Limit /\ st = t \o EncodeFrame(cmd, size)
             /\ sq = Append(s, cmd) /\ hd = h /\ hr = r /\ pc = l
      BY <1>1, <2>1, <2>4 DEF Writes
    <3>2. Aligned(Append(s, cmd), h, t \o EncodeFrame(cmd, size), r, l)
      BY <2>2, <3>1, AlignedWrites
    <3> QED BY <3>1, <3>2
  <2>5. CASE TakesHeader(c)
    <3>1. /\ sq = s /\ hd = h /\ l = "header" /\ HeaderSize <= Len(t)
          /\ st = SubSeq(t, HeaderSize + 1, Len(t))
          /\ First(t[1]) => pc = "body" /\ hr = <<t[1]>>
      BY <1>1, <2>1, <2>5 DEF TakesHeader
    <3>2. /\ First(t[1])
          /\ Aligned(s, h, SubSeq(t, HeaderSize + 1, Len(t)), <<t[1]>>, "body")
      BY <2>2, <3>1, AlignedHeader
    <3> QED BY <3>1, <3>2
  <2>6. CASE TakesBody(c)
    <3>1. PICK m : m = r[1].bodyLen
      OBVIOUS
    <3>2. /\ sq = s /\ hd = h /\ hr = r /\ l = "body" /\ pc = "handle" /\ m <= Len(t)
          /\ st = SubSeq(t, m + 1, Len(t))
      BY <1>1, <2>1, <2>6, <3>1 DEF TakesBody
    <3>3. Aligned(s, h, SubSeq(t, m + 1, Len(t)), r, "handle")
      BY <1>0, <2>2, <3>1, <3>2, AlignedBody
    <3> QED BY <3>2, <3>3
  <2>7. CASE Handles(c)
    <3>1. PICK g : g = [cmd |-> r[1].cmd, intact |-> Decodes(r[1])]
      OBVIOUS
    <3>2. /\ sq = s /\ st = t /\ l = "handle" /\ pc = "check" /\ hr = <<>>
          /\ hd = Append(h, g)
      BY <1>1, <2>1, <2>7, <3>1 DEF Handles
    <3>3. g \in Command
      <4>1. r[1] \in Header
        BY <2>1, <3>2, HeaderKept
      <4> QED BY <3>1, <4>1 DEF Header, Command, Decodes
    <3>4. g.cmd = r[1].cmd /\ g.intact = Decodes(r[1])
      BY <3>1
    <3>5. Aligned(s, Append(h, g), t, <<>>, "check")
      BY <1>0, <2>2, <3>2, <3>3, <3>4, AlignedHandles
    <3> QED BY <3>2, <3>5
  <2> QED BY <2>3, <2>4, <2>5, <2>6, <2>7, NextDoes DEF Does
\* What the stations do with a body stays the same
<1>2. ASSUME NEW sq, NEW hd, NEW st, NEW hr, NEW pc, Aligned(sq, hd, st, hr, pc)
      PROVE  Aligned(sq, hd, st, hr, pc)'
  <2>1. /\ \A n : Payload(n)' = Payload(n) /\ Size(n)' = Size(n)
        /\ \A cmd, n : HeaderOf(cmd, n)' = HeaderOf(cmd, n)
    BY <1>0 DEF Size, HeaderOf, Payload, FillLen
  <2>2. \A cur, skip, z, b : Lays(sq, st, cur, skip, z, b) => Lays(sq, st, cur, skip, z, b)'
    BY <2>1 DEF Lays
  <2> QED BY <1>2, <2>1, <2>2 DEF Aligned
<1> QED BY <1>0, <1>1, <1>2 DEF AlignedAll

LEMMA AlignedInit == Init => AlignedAll
<1>1. ASSUME Init, NEW c \in Conns
      PROVE  Aligned(sent[c], handled[c], stream[c], conn[c].header, conn[c].pc)
  <2>1. /\ sent[c] = <<>> /\ handled[c] = <<>> /\ stream[c] = <<>> /\ conn[c].pc = "none"
    BY <1>1 DEF Init, NoConn
  <2>2. PICK b : b = [i \in 1..1 |-> 1]
    OBVIOUS
  <2>3. DOMAIN <<>> = {} /\ Len(<<>>) = 0 /\ <<>> \in [{} -> Sizes]
    OBVIOUS
  <2>4. Lays(<<>>, <<>>, 0, 0, <<>>, b)
    BY <2>2, <2>3 DEF Lays
  <2>5. Aligned(<<>>, <<>>, <<>>, conn[c].header, "none")
    BY <2>3, <2>4 DEF Aligned
  <2> QED BY <2>1, <2>5
<1> QED BY <1>1 DEF AlignedAll

\* The commands of hd are a prefix of sq
LEMMA PrefixOf ==
    ASSUME NEW sq \in Seq(Cmds), NEW hd \in Seq(Command), Len(hd) <= Len(sq),
           \A i \in DOMAIN hd : hd[i].cmd = sq[i]
    PROVE  IsPrefix([i \in DOMAIN hd |-> hd[i].cmd], sq)
<1>1. PICK n \in Nat : n = Len(hd) /\ DOMAIN hd = 1..n
  BY LenProperties
<1>2. /\ Len(sq) \in Nat /\ DOMAIN sq = 1..Len(sq) /\ \A i \in 1..n : sq[i] \in Cmds
  BY <1>1, LenProperties, ElementOfSeq
<1>3. PICK p : p = [i \in 1..n |-> hd[i].cmd]
  OBVIOUS
<1>4. \A i \in 1..n : p[i] = sq[i] /\ p[i] \in Cmds
  BY <1>1, <1>2, <1>3
<1>5. p \in Seq(Cmds) /\ Len(p) = n
  <2>1. p \in [1..n -> Cmds]
    BY <1>3, <1>4
  <2> QED BY <2>1
<1>6. /\ SubSeq(p, 1, n) \in Seq(Cmds) /\ SubSeq(sq, 1, n) \in Seq(Cmds)
      /\ Len(SubSeq(p, 1, n)) = Len(SubSeq(sq, 1, n))
      /\ \A i \in 1..(n - 1 + 1) : SubSeq(p, 1, n)[i] = p[1 + i - 1]
      /\ \A i \in 1..(n - 1 + 1) : SubSeq(sq, 1, n)[i] = sq[1 + i - 1]
  BY <1>2, <1>4, SubSeqProperties
<1>7. \A i \in 1..Len(SubSeq(p, 1, n)) : SubSeq(p, 1, n)[i] = SubSeq(sq, 1, n)[i]
  <2>1. Len(SubSeq(p, 1, n)) = n
    <3>1. Len(SubSeq(p, 1, n)) = IF 1 <= n THEN n - 1 + 1 ELSE 0
      BY <1>4, SubSeqProperties
    <3> QED BY <3>1
  <2>2. \A i \in 1..n : 1 + i - 1 = i /\ i \in 1..(n - 1 + 1)
    OBVIOUS
  <2> QED BY <1>4, <1>6, <2>1, <2>2
<1>8. SubSeq(p, 1, n) = SubSeq(sq, 1, n)
  BY <1>6, <1>7, SeqEqual
<1>9. IsPrefix(p, sq)
  BY <1>1, <1>5, <1>8 DEF IsPrefix
<1> QED BY <1>1, <1>3, <1>9

\* As long as every body fits the length field of its header, encrypted or not, the server is
\* always at the first byte of a frame when it reads a header, so that it handles all that was
\* sent, in order and intact
THEOREM InSyncCorrect == Spec => []InSync
<1>1. Init => AlignedAll
  BY AlignedInit
<1>2. Typed /\ AlignedAll /\ [Next]_vars => AlignedAll'
  BY AlignedStep
<1>3. Typed /\ AlignedAll => InSync
  <2>1. ASSUME Typed, AlignedAll, fitting, NEW c \in Conns
        PROVE  /\ \A i \in DOMAIN handled[c] : handled[c][i].intact
               /\ IsPrefix([i \in DOMAIN handled[c] |-> handled[c][i].cmd], sent[c])
    <3>1. PICK sq \in Seq(Cmds), hd \in Seq(Command) : sq = sent[c] /\ hd = handled[c]
      BY <2>1 DEF Typed
    <3>2. Len(hd) <= Len(sq) /\ \A i \in DOMAIN hd : hd[i].intact /\ hd[i].cmd = sq[i]
      BY <2>1, <3>1 DEF AlignedAll, Aligned
    <3>3. IsPrefix([i \in DOMAIN hd |-> hd[i].cmd], sq)
      BY <3>2, PrefixOf
    <3> QED BY <3>1, <3>2, <3>3
  <2> QED BY <2>1 DEF InSync
<1> QED BY <1>1, <1>2, <1>3, TracedHolds, PTL DEF Spec
=============================================================================
