SPECIFICATION ReceiptsSpec
CONSTANTS
    line1 = line1
    line1b = line1b
    line2 = line2
    line3 = line3
    lotNone = lotNone
    lotEarly = lotEarly
    lotLate = lotLate
    c1 = c1
    c2 = c2
    dlv = dlv
    Requests <- MCRequests
    Acts <- MCActs
    Headers = {dlv}
    Claims <- MCClaims
    Units <- MCUnits
    Ask <- MCAsk
    Together <- MCTogether
    None = None
    shipped = shipped
    tenantItem = tenantItem
    tenantClass = tenantClass
    tenantParty = tenantParty
    shelfItem = shelfItem
    shelfParty = shelfParty
    glove = glove
    acme = acme
    ppe = ppe
    hand = hand
    Bindings <- MCBindings
    Scope <- MCScope
    Rank <- MCRank
    FirstBound <- MCFirstBound
    FirstStates <- MCFirstStates
    Values <- MCValues
    Parents <- MCParents
    Classes <- MCClasses
    CountedLines = {"each", "cartons"}
    Says <- MCSays
    Config <- MCConfig
    Cases <- MCCases
    Horizon = 2
    Edits = 1
    Unsaid = Unsaid
INVARIANTS
    OneDelivery
    HandoverCovered
    GovernedAsItHappened
CHECK_DEADLOCK FALSE
