SPECIFICATION FairSpec
CONSTANTS
    w1 = w1
    a1 = a1
    p1 = p1
    Writers <- MCWriters
    Refreshers <- MCRefreshers
    Receipts <- MCReceipts
    Scheduler = Scheduler
    NoOne = NoOne
    NSteps = 2
    MaxAborts = 1
INVARIANTS
    SerialisedRuns
    CleanMeansFolded
PROPERTIES
    MarkIsDrained
CHECK_DEADLOCK FALSE
