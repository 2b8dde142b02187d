SPECIFICATION AccountsSpec
CONSTANTS
    t1 = t1
    t2 = t2
    app = app
    browser = browser
    handheld = handheld
    w = w
    a = a
    b = b
    demoteA = demoteA
    demoteB = demoteB
    outB = outB
    backB = backB
    operB = operB
    outW = outW
    backW = backW
    setup1 = setup1
    setup2 = setup2
    firstB = firstB
    enrol1 = enrol1
    enrol2 = enrol2
    drop = drop
    mint = mint
    import = import
    withdraw = withdraw
    Tokens = {k1, k2, k3}
    Tabs = {t1, t2, app}
    Devices = {browser, handheld}
    DeviceOf <- MCDeviceOf
    Handhelds = {handheld}
    Nil = Nil
    MaxMishaps = 1
    Requests <- MCRequests
    Asking <- MCAsking
    Worker = w
    Others = {a, b}
    Together <- MCTogether
    MaxChanges = 1
SYMMETRY Symmetric
INVARIANTS
    EndedAsAsked
    SignedInStays
    AdministratorStays
    OnceOnly
    SeenOff
CHECK_DEADLOCK FALSE
