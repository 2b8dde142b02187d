SPECIFICATION Spec
CONSTANTS
    c1 = c1
    c2 = c2
    c3 = c3
    f1 = f1
    q1 = q1
    q2 = q2
    qf = qf
    idC = idC
    idF = idF
    line = line
    Requests <- MCRequests
    Releases <- MCReleases
    Ids = {idC, idF}
    IdOf <- MCIdOf
    Lines = {line}
    LineOf <- MCLineOf
    Units <- MCUnits
    Wanted <- MCWanted
    Firm = {f1}
    Forced = {qf}
    MaxAborts = 0
    NoOne = NoOne
INVARIANT
    NeverOverCovered
CHECK_DEADLOCK FALSE
