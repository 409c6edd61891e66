------------------------------ MODULE Platform ------------------------------
(***************************************************************************)
(* The echo server that stands in for the platform                         *)
(* (simulator/echo_server.go) and the frames the stations send it          *)
(* (protocol/frame.go, header.go, crypto.go): connections are accepted and *)
(* counted, a byte stream is cut into frames again, stations are           *)
(* registered, and everything is closed by Stop.                           *)
(*                                                                         *)
(* A byte of the stream is the first byte of a header, with what the       *)
(* header says, another byte of a header, or a byte of a body; no byte in  *)
(* a body looks like the first of a header.  The length of a body is       *)
(* written to the header modulo 2^16, and nothing refuses a longer one:    *)
(* the rest of it is then read as headers.  An address (host and port) is  *)
(* not used again for another connection.                                  *)
(***************************************************************************)
EXTENDS Integers, FiniteSets, Sequences, SequencesExt

CONSTANTS
    Conns,      \* connections, one station each
    Cmds,       \* commands the stations send
    Sizes,      \* lengths of their bodies, compressed if that is asked for
    HeaderSize, \* 48
    Limit,      \* 2^16
    Block,      \* 16, the block size of AES
    Capacity,   \* 100
    MaxFrames   \* bound: frames in all

ASSUME PlatformAssumption ==
    /\ IsFiniteSet(Conns) /\ Sizes \subseteq Nat
    /\ {HeaderSize, Limit, Block} \subseteq Nat \ {0} /\ Limit % Block = 0
    /\ Capacity \in Nat /\ MaxFrames \in Nat
    /\ Cmds \subseteq {"register", "heartbeat", "info", "verify", "claim", "return",
                       "upgrade", "alarm", "log", "result", "unknown"}

None == 0

VARIABLES
    listening,   \* the listener is open
    running,     \* the flag of that name
    stopping,    \* Stop is under way, after the flag and before the connections are closed
    accepting,   \* acceptLoop has seen the flag, and waits in the listener's Accept
    connections, \* the map of that name
    conn,        \* each connection, as its handler and its station see it
    stream,      \* bytes the station has written and the server not read
    sent,        \* commands the station has sent
    handled,     \* commands the server has handled
    nextDevID,
    deviceMap,   \* the station (its connection) of each device id, or None
    encrypt,     \* rigid: the stations encrypt
    fitting      \* rigid: TRUE if every body fits its header's length field

flags == <<listening, running, stopping>>
server == <<flags, accepting>>
devices == <<nextDevID, deviceMap>>
modes == <<encrypt, fitting>>
vars == <<server, connections, conn, stream, sent, handled, devices, modes>>

\* The first device id, 10001
FirstID == 1
MaxIDs == MaxFrames

NoConn == [pc |-> "none", hung |-> FALSE, dropped |-> FALSE, header |-> <<>>,
           registered |-> FALSE]

Init ==
    /\ listening = TRUE /\ running = TRUE /\ stopping = FALSE /\ accepting = TRUE
    /\ connections = {}
    /\ conn = [c \in Conns |-> NoConn]
    /\ stream = [c \in Conns |-> <<>>]
    /\ sent = [c \in Conns |-> <<>>]
    /\ handled = [c \in Conns |-> <<>>]
    /\ nextDevID = FirstID
    /\ deviceMap = [d \in FirstID..MaxIDs |-> None]
    /\ encrypt \in BOOLEAN /\ fitting \in BOOLEAN

-----------------------------------------------------------------------------
(* Frames                                                                  *)

\* Fault: a whole block is added in any case, as well as what is missing
FaultyFillLen(size) == 2 * Block - (size % Block)

\* Aes256Encrypt fills up to whole blocks, and adds a whole one if nothing is missing
FillLen(size) == Block - (size % Block)

\* The length of the payload in the frame
Payload(size) == IF encrypt THEN size + FillLen(size) ELSE size

\* What the server makes of bytes that are not the first of a header
Garbage == [cmd |-> "unknown", size |-> 0, bodyLen |-> 0, fillLen |-> 0]
Bytes(n, part) == [i \in 1..n |-> [Garbage EXCEPT !.cmd = part]]

\* Fault: the header has the length of the body before it was encrypted
FaultyEncodeFrame(cmd, size) ==
    LET header == [cmd |-> cmd, size |-> size, bodyLen |-> size % Limit,
                   fillLen |-> IF encrypt THEN FillLen(size) ELSE 0] IN
    <<header>> \o Bytes(HeaderSize - 1, "header") \o Bytes(Payload(size), "body")

\* EncodeFrame, EncodeFrameRaw, NewHeader, Header.Encode: the length of the payload loses what
\* is above 16 bits.  The size stands for the checksum and the source length
EncodeFrame(cmd, size) ==
    LET header == [cmd |-> cmd, size |-> size, bodyLen |-> Payload(size) % Limit,
                   fillLen |-> IF encrypt THEN FillLen(size) ELSE 0] IN
    <<header>> \o Bytes(HeaderSize - 1, "header") \o Bytes(Payload(size), "body")

\* Fault: anything is a header
FaultyValidate(bytes) == Head(bytes).cmd # "none"

\* DecodeHeader, Validate: a header begins with the bytes of HeadFlag
Validate(bytes) == Head(bytes).cmd \notin {"header", "body"}

DecodeHeader(bytes) == IF Validate(bytes) THEN Head(bytes) ELSE Garbage

\* Aes256Decrypt: whole blocks, less what was filled
Decrypted(bodyLen, fillLen) ==
    IF bodyLen > 0 /\ bodyLen % Block = 0 /\ fillLen <= bodyLen THEN bodyLen - fillLen ELSE -1

\* DecodeJSONBody: the body is there again if its checksum is right
Decodes(header) ==
    header.size = IF header.fillLen > 0 THEN Decrypted(header.bodyLen, header.fillLen)
                  ELSE header.bodyLen

-----------------------------------------------------------------------------
(* The stations                                                            *)

\* A station dials: the connection waits to be accepted
Dial(c) ==
    /\ listening /\ conn[c].pc = "none"
    /\ conn' = [conn EXCEPT ![c].pc = "queued"]
    /\ UNCHANGED <<server, connections, stream, sent, handled, devices, modes>>

\* Writing to a connection the server has closed is an error
Open(c) == conn[c].pc \notin {"none", "gone"} /\ ~conn[c].dropped /\ ~conn[c].hung

\* Of all stations
FramesSent == Cardinality(UNION {{c} \X DOMAIN sent[c] : c \in Conns})

Send(c, cmd, size) ==
    /\ Open(c) /\ FramesSent < MaxFrames
    /\ fitting => Payload(size) < Limit
    /\ stream' = [stream EXCEPT ![c] = @ \o EncodeFrame(cmd, size)]
    /\ sent' = [sent EXCEPT ![c] = Append(@, cmd)]
    /\ UNCHANGED <<server, connections, conn, handled, devices, modes>>

\* The station hangs up: the server reads what was sent, and then the end
HangUp(c) ==
    /\ Open(c)
    /\ conn' = [conn EXCEPT ![c].hung = TRUE]
    /\ UNCHANGED <<server, connections, stream, sent, handled, devices, modes>>

-----------------------------------------------------------------------------
(* The server                                                              *)

\* acceptLoop: a connection is accepted, one more also after the flag, while the listener is
\* open ...
Accept(c) ==
    /\ accepting /\ listening /\ conn[c].pc = "queued"
    /\ accepting' = FALSE
    /\ conn' = [conn EXCEPT ![c].pc = "accepted"]
    /\ UNCHANGED <<flags, connections, stream, sent, handled, devices, modes>>

\* ... entered in the map, whether the server has been stopped since or not, and handled; the
\* loop looks at the flag again
Enter(c) ==
    /\ conn[c].pc = "accepted"
    /\ accepting' = running
    /\ connections' = connections \cup {c}
    /\ conn' = [conn EXCEPT ![c].pc = "check"]
    /\ UNCHANGED <<flags, stream, sent, handled, devices, modes>>

\* Fault: the handler reads on whether the server runs or not
FaultyCheck(c) ==
    /\ conn[c].pc = "check"
    /\ conn' = [conn EXCEPT ![c].pc = "header"]
    /\ UNCHANGED <<server, connections, stream, sent, handled, devices, modes>>

\* handleConnection: the flag is looked at before every frame
Check(c) ==
    /\ conn[c].pc = "check"
    /\ conn' = [conn EXCEPT ![c].pc = IF running THEN "header" ELSE "close"]
    /\ UNCHANGED <<server, connections, stream, sent, handled, devices, modes>>

\* n bytes are there to be read, or will never be; nothing is read of an empty body
Available(c, n) == n = 0 \/ (Len(stream[c]) >= n /\ ~conn[c].dropped)
Ended(c, n) == n > 0 /\ (conn[c].dropped \/ (conn[c].hung /\ Len(stream[c]) < n))

\* A header is read.  One that is not valid is skipped, with 48 bytes and no more
ReadHeader(c) ==
    /\ conn[c].pc = "header" /\ Available(c, HeaderSize)
    /\ LET bytes == SubSeq(stream[c], 1, HeaderSize) IN
          conn' = IF Validate(bytes)
                  THEN [conn EXCEPT ![c].pc = "body", ![c].header = <<DecodeHeader(bytes)>>]
                  ELSE [conn EXCEPT ![c].pc = "check"]
    /\ stream' = [stream EXCEPT ![c] = SubSeq(@, HeaderSize + 1, Len(@))]
    /\ UNCHANGED <<server, connections, sent, handled, devices, modes>>

\* The rest of the frame, as long as the header says
ReadBody(c) ==
    /\ conn[c].pc = "body"
    /\ LET n == conn[c].header[1].bodyLen IN
          /\ Available(c, n)
          /\ stream' = [stream EXCEPT ![c] = SubSeq(@, n + 1, Len(@))]
    /\ conn' = [conn EXCEPT ![c].pc = "handle"]
    /\ UNCHANGED <<server, connections, sent, handled, devices, modes>>

\* The connection ends, or was closed, before the bytes are there
ReadFails(c) ==
    /\ \/ conn[c].pc = "header" /\ Ended(c, HeaderSize)
       \/ conn[c].pc = "body" /\ Ended(c, conn[c].header[1].bodyLen)
    /\ conn' = [conn EXCEPT ![c].pc = "close"]
    /\ UNCHANGED <<server, connections, stream, sent, handled, devices, modes>>

\* handleCommand: whatever the command, with what could be decoded of its body.  The answers,
\* which change nothing here, are left out
Handle(c) ==
    LET header == conn[c].header[1] IN
    /\ conn[c].pc = "handle"
    /\ handled' = [handled EXCEPT ![c] = Append(@, [cmd |-> header.cmd,
                                                    intact |-> Decodes(header)])]

\* Every command but the registration leaves the server as it is
HandleCommand(c) ==
    /\ Handle(c)
    /\ conn[c].header[1].cmd # "register"
    /\ conn' = [conn EXCEPT ![c].pc = "check", ![c].header = <<>>]
    /\ UNCHANGED <<server, connections, stream, sent, devices, modes>>

\* Fault: one connection more is admitted
FaultyHasRoom == Cardinality(connections) <= Capacity + 1

\* Connections count, registered or not
HasRoom == Cardinality(connections) <= Capacity

\* Device ids are used once
NewID == nextDevID

\* handleRegister: a device id of its own for every registration, again and again for a
\* station that registers again; or the answer that there is no room, for those too
HandleRegister(c) ==
    /\ Handle(c)
    /\ conn[c].header[1].cmd = "register"
    /\ IF HasRoom
       THEN /\ nextDevID' = NewID + 1
            /\ deviceMap' = [deviceMap EXCEPT ![NewID] = IF Decodes(conn[c].header[1]) THEN c
                                                         ELSE None]
            /\ conn' = [conn EXCEPT ![c].pc = "check", ![c].header = <<>>,
                                    ![c].registered = TRUE]
       ELSE /\ conn' = [conn EXCEPT ![c].pc = "check", ![c].header = <<>>]
            /\ UNCHANGED devices
    /\ UNCHANGED <<server, connections, stream, sent, modes>>

\* The handler returns: it closes the connection ...
Close(c) ==
    /\ conn[c].pc = "close"
    /\ conn' = [conn EXCEPT ![c].pc = "delete", ![c].dropped = TRUE]
    /\ UNCHANGED <<server, connections, stream, sent, handled, devices, modes>>

\* ... and deletes it from the map
Delete(c) ==
    /\ conn[c].pc = "delete"
    /\ connections' = connections \ {c}
    /\ conn' = [conn EXCEPT ![c] = [NoConn EXCEPT !.pc = "gone"]]
    /\ stream' = [stream EXCEPT ![c] = <<>>]
    /\ UNCHANGED <<server, sent, handled, devices, modes>>

\* Stop: the flag ...
Stop ==
    /\ running
    /\ running' = FALSE /\ stopping' = TRUE
    /\ UNCHANGED <<listening, accepting, connections, conn, stream, sent, handled, devices,
                   modes>>

\* ... the listener, with the connections that wait for it ...
CloseListener ==
    /\ stopping /\ listening
    /\ listening' = FALSE
    /\ conn' = [c \in Conns |-> IF conn[c].pc = "queued" THEN [NoConn EXCEPT !.pc = "gone"]
                                ELSE conn[c]]
    /\ UNCHANGED <<running, stopping, accepting, connections, stream, sent, handled, devices,
                   modes>>

\* ... then the connections in the map
StopConnections ==
    /\ stopping /\ ~listening
    /\ stopping' = FALSE
    /\ conn' = [c \in Conns |-> IF c \in connections THEN [conn[c] EXCEPT !.dropped = TRUE]
                                ELSE conn[c]]
    /\ connections' = {}
    /\ UNCHANGED <<listening, running, accepting, stream, sent, handled, devices, modes>>

-----------------------------------------------------------------------------
Serve(c) ==
    \/ Enter(c) \/ Check(c) \/ ReadHeader(c) \/ ReadBody(c) \/ ReadFails(c)
    \/ HandleCommand(c) \/ HandleRegister(c) \/ Close(c) \/ Delete(c)

Next ==
    \/ \E c \in Conns :
          \/ Dial(c) \/ HangUp(c) \/ Accept(c) \/ Serve(c)
          \/ \E cmd \in Cmds, size \in Sizes : Send(c, cmd, size)
    \/ Stop \/ CloseListener \/ StopConnections

Spec == Init /\ [][Next]_vars

\* The goroutines of the server go on
Fairness ==
    /\ WF_vars(CloseListener) /\ WF_vars(StopConnections)
    /\ \A c \in Conns : WF_vars(Accept(c)) /\ WF_vars(Serve(c))

FairSpec == Spec /\ Fairness
-----------------------------------------------------------------------------
(* Properties                                                              *)

Header == [cmd : Cmds, size : Sizes, bodyLen : 0..(Limit - 1), fillLen : 0..Block]

\* Types of the variables
TypeOK ==
    /\ {listening, running, stopping, accepting} \subseteq BOOLEAN
    /\ connections \subseteq Conns
    /\ \A c \in Conns :
          /\ conn[c].pc \in {"none", "queued", "accepted", "check", "header", "body", "handle",
                             "close", "delete", "gone"}
          /\ conn[c].header = <<>> \/ conn[c].header[1] \in Header
          /\ {conn[c].hung, conn[c].dropped, conn[c].registered} \subseteq BOOLEAN
    /\ nextDevID \in FirstID..(MaxIDs + 1)
    /\ \A d \in DOMAIN deviceMap : deviceMap[d] \in Conns \cup {None}

\* As long as the bodies fit, encrypted or not, the server handles what a station has sent, all
\* of it, in that order, and with the bodies as they were
InSync ==
    fitting => \A c \in Conns :
        /\ \A i \in DOMAIN handled[c] : handled[c][i].intact
        /\ IsPrefix([i \in DOMAIN handled[c] |-> handled[c][i].cmd], sent[c])

\* And even if one does not fit, and the server reads headers where there are none, it handles
\* nothing that was not sent, nothing twice, and nothing out of order
HandledWasSent ==
    \A c \in Conns :
        LET cmds == [i \in DOMAIN handled[c] |-> handled[c][i].cmd] IN
        \E f \in [DOMAIN cmds -> DOMAIN sent[c]] :
            \A i, j \in DOMAIN cmds : sent[c][f[i]] = cmds[i] /\ (i < j => f[i] < f[j])

\* However many connections come and go, there are never more registered stations connected
\* than the capacity.  (After Stop nothing is counted any more)
WithinCapacity ==
    running => Cardinality({c \in Conns : conn[c].registered}) <= Capacity

\* The map of connections, which every registration looks at, keeps the server within its
\* capacity, and the ids it gives within their range
CapacityInv == TypeOK /\ WithinCapacity

\* Stop ends every connection, also one that is accepted while it runs
StopsAll == ~running ~> \A c \in Conns : conn[c].pc \in {"none", "gone"}
=============================================================================
