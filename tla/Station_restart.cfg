SPECIFICATION Spec
CONSTANTS
    l1 = l1
    l2 = l2
    c1 = c1
    Loops <- TwoLoops
    Callers <- OneCaller
    Ops <- AllOps
    Replies <- AllReplies
    MaxConns = 1
    MaxGens = 3
    MaxStops = 1
    MaxPend = 1
    MaxCloses = 1
    HeartbeatEnabled = TRUE
    CalmClose = FALSE
    Timely = FALSE
SYMMETRY LoopSymmetry
INVARIANT GuardInv
CHECK_DEADLOCK FALSE
