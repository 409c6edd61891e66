SPECIFICATION FairSpec
CONSTANTS
    Kinds <- BothKinds
    Totals <- SomeTotals
    DefaultTotal = 1
    Concurrencies <- SomeWorkers
    DefaultWorkers = 2
    MaxWorkers = 2
    Shares <- SomeShares
    MaxTasks = 2
    MaxItems = 2
INVARIANTS CountInv CompletedIsWhole
PROPERTIES ProgressGrows Ends
CHECK_DEADLOCK FALSE
