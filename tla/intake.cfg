SPECIFICATION FeedSpec
CONSTANTS
    N = N
    D1 = D1
    D2 = D2
    glove = glove
    spray = spray
    nozzle = nozzle
    k1 = k1
    k2 = k2
    None = None
    F = F
    A = A
    X = X
    b1 = b1
    b2 = b2
    Imports <- MCImports
    MaxOpen = 2
    MaxStatus = 1
    Sends <- MCSends
    Reports <- MCReports
    DryRuns <- MCDryRuns
    Statuses <- MCStatuses
    Catalogue <- MCCatalogue
    Piles <- MCPiles
    InReach <- MCInReach
    Files <- MCFiles
    SitesOnFile <- MCSitesOnFile
    BinsOnFile <- MCBinsOnFile
    Together <- MCTogether
INVARIANTS
    OnceUnlessTogether
    NewestLevel
    LoadsAreWhole
    FailsForAReason
PROPERTIES
    SettledStays
CHECK_DEADLOCK FALSE
