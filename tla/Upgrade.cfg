SPECIFICATION FairSpec
CONSTANTS
    r1 = r1
    r2 = r2
    MaxTasks = 3
    MaxRacing = 2
    Requests <- TwoRequests
INVARIANTS NoPanic CalmInv BusyInv
PROPERTIES ImplementsService Completes
CHECK_DEADLOCK FALSE
