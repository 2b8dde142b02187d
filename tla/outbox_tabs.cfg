SPECIFICATION OutboxSpec
CONSTANTS
    a1 = a1
    a2 = a2
    b1 = b1
    annEast = annEast
    annWest = annWest
    bob = bob
    t1 = t1
    t2 = t2
    Acts <- MCActs
    OwnerOf <- MCOwnerOf
    NeedsClaim <- MCNeedsClaim
    Bad <- MCBad
    Tabs = {t1, t2}
    Owners <- MCOwners
    PersonOf <- MCPersonOf
    Nobody = Nobody
    NoAct = NoAct
    Wanted = 1
    MaxMishaps = 2
INVARIANT
    SentAsItsOwner
    RefusedIsNotRecorded
CHECK_DEADLOCK FALSE
