SPECIFICATION FairSpec
CONSTANTS
    line1 = line1
    line1b = line1b
    line2 = line2
    line3 = line3
    lotNone = lotNone
    lotEarly = lotEarly
    lotLate = lotLate
    c1 = c1
    c2 = c2
    dlv = dlv
    Requests <- MCRequests
    Acts <- MCActs
    Headers = {dlv}
    Claims <- MCClaims
    Units <- MCUnits
    Ask <- MCAsk
    Together <- MCTogether
    None = None
PROPERTIES
    DeferredIsHandedOver
CHECK_DEADLOCK FALSE
