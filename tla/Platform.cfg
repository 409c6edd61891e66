SPECIFICATION FairSpec
CONSTANTS
    c1 = c1
    c2 = c2
    Conns <- TwoConns
    Cmds <- SomeCmds
    Sizes <- SomeSizes
    HeaderSize = 3
    Limit = 4
    Block = 2
    Capacity = 1
    MaxFrames = 2
INVARIANTS CapacityInv InSync HandledWasSent
PROPERTY StopsAll
CHECK_DEADLOCK FALSE
