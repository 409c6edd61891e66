SPECIFICATION Spec
CONSTANTS
    l1 = l1
    l2 = l2
    c1 = c1
    Loops <- OneLoop
    Callers <- OneCaller
    Ops <- StartOnly
    Replies <- GoodReplies
    MaxConns = 2
    MaxGens = 2
    MaxStops = 0
    MaxPend = 2
    MaxCloses = 2
    HeartbeatEnabled = TRUE
    CalmClose = FALSE
    Timely = FALSE
INVARIANTS SocketInv HeartbeatAlive
CHECK_DEADLOCK FALSE
