SPECIFICATION FairSpec
CONSTANTS
    KindSets <- OneKind
    Totals <- SomeTotals
    Rates <- SomeRates
    DefaultTotal = 1
    DefaultRate = 9
    MaxRate = 4
    TicksPerSecond = 2
    PressureSends = 2
    Frequencies <- SomeFrequencies
    Second = 2
    MaxRuns = 2
    MaxTicks = 1
    MaxErrors = 1
INVARIANTS RunsApart NoPanic CountInv
PROPERTY Ends
CHECK_DEADLOCK FALSE
