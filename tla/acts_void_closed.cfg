SPECIFICATION Spec
CONSTANTS
    p1 = p1
    p2 = p2
    s1 = s1
    o1 = o1
    v1 = v1
    d1 = d1
    d2 = d2
    aPick = aPick
    aSeal = aSeal
    aOpen = aOpen
    aVoid = aVoid
    aDespatch = aDespatch
    line = line
    Requests <- MCRequests
    Acts <- MCActs
    Lines <- MCLines
    ActOf <- MCActOf
    Kind <- MCKind
    LineOf <- MCLineOf
    Units <- MCUnits
    At <- MCAt
    NoOne = NoOne
    MaxAborts = 1
INVARIANT
    ClosedIsNotVoided
CHECK_DEADLOCK FALSE
