SPECIFICATION FairSpec
CONSTANTS
    l1 = l1
    l2 = l2
    c1 = c1
    Loops <- OneLoop
    Callers <- OneCaller
    Ops <- StartOnly
    Replies <- GoodReplies
    MaxConns = 3
    MaxGens = 2
    MaxStops = 0
    MaxPend = 2
    MaxCloses = 2
    HeartbeatEnabled = TRUE
    CalmClose = TRUE
    Timely = TRUE
INVARIANT RestInv
PROPERTIES Recovers ImplementsService
CHECK_DEADLOCK FALSE
