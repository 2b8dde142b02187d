SPECIFICATION Spec
CONSTANTS
    w1 = w1
    a1 = a1
    p1 = p1
    Writers <- MCWriters
    Refreshers <- MCRefreshers
    Receipts <- MCReceipts
    Scheduler = Scheduler
    NoOne = NoOne
    NSteps = 2
    MaxAborts = 0
INVARIANT
    LaggingIsDirty
CHECK_DEADLOCK FALSE
