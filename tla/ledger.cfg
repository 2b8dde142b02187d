SPECIFICATION Spec
CONSTANTS
    count = count
    adj1 = adj1
    adj2 = adj2
    adj3 = adj3
    move = move
    corr1 = corr1
    corr2 = corr2
    flag1 = flag1
    flag2 = flag2
    short1 = short1
    short2 = short2
    probe = probe
    probeS = probeS
    accept = accept
    acceptS = acceptS
    probeF = probeF
    acceptF = acceptF
    b1 = b1
    b2 = b2
    Requests = {count, adj1, adj2, adj3, move, corr1, corr2, flag1, flag2, short1, short2, probe, probeS, probeF, accept, acceptS, acceptF}
    Acts <- MCActs
    Cells = {b1, b2}
    Nowhere = Nowhere
    Ask <- MCAsk
    Together <- MCTogether
    NoOne = NoOne
INVARIANTS
    CorrectionsNet
PROPERTIES
    SettledOnce
    AdjustedToTheCount
CHECK_DEADLOCK FALSE
