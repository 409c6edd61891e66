SPECIFICATION FairSpec
CONSTANTS
    r1 = r1
    r2 = r2
    r3 = r3
    c1 = c1
    c2 = c2
    Clients <- TwoClients
    EventTypes <- ThreeTypes
    WsEventTypes <- TwoTypes
    BufferSize = 2
    ChanSize = 1
    Clock <- TwoReadings
    Requests <- ThreeRequests
    Wants <- SomeWants
    Casts <- SomeCasts
    Samples <- TwoSamples
    MaxConns = 2
    MaxChanges = 3
    MaxOthers = 3
    MaxClears = 1
INVARIANTS InOrder StaysSubscribed BodyInv RegisteredFirst LogInv OnlineIsTold
PROPERTY ClientsCleanedUp
CHECK_DEADLOCK FALSE
