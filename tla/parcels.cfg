SPECIFICATION Spec
CONSTANTS
    makeA = makeA
    makeB = makeB
    makeP = makeP
    makeQ = makeQ
    makeD = makeD
    planA = planA
    planAP = planAP
    putB = putB
    onAP = onAP
    onPB = onPB
    onBQ = onBQ
    onPA = onPA
    onAD = onAD
    bookAB = bookAB
    bookBA = bookBA
    bookAB2 = bookAB2
    bookP = bookP
    bookA = bookA
    a = a
    b = b
    lower = lower
    upper = upper
    d = d
    Requests <- MCRequests
    Acts <- MCActs
    Packages = {a, b, lower, upper, d}
    OfOrder = {a, b, lower, upper}
    BreaksDown = {d}
    Ask <- MCAsk
    Together <- MCTogether
    Longest = 6
    NoOne = NoOne
INVARIANTS
    Nested
    MadeIsNotPlanned
CHECK_DEADLOCK FALSE
