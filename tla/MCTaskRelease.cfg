SPECIFICATION GatewaySpec
CONSTANTS
    f1 = f1
    f2 = f2
    o1 = o1
    o2 = o2
    b1 = b1
    b2 = b2
    p1 = p1
    p2 = p2
    a1 = a1
    a2 = a2
    v1 = v1
    k1 = k1
    h1 = h1
    h2 = h2
    h3 = h3
    t1 = t1
    d1 = d1
    d2 = d2
    d3 = d3
    x1 = x1
    w1 = w1
    w2 = w2
    w3 = w3
    r1 = r1
    r2 = r2
    r3 = r3
    u1 = u1
    u2 = u2
    Opens = {o1, o2}
    Fundings = {f1, f2}
    Funding <- MCFunding
    MaxFaults = 0
    Buys = {b1, b2, p1, p2, a1, a2, v1, k1, d1, d2, d3, x1}
    Pays <- MCPays
    Path <- MCPath
    Hosts = {h1, h2, h3}
    Host <- MCHost
    Cached = {h1, h2}
    Scenarios <- OneTask
    ReplayTTL = 2
    Lifetime = 2
    MaxTime = 2
    Counters = {w1, w2, w3}
    Windows <- MCWindows
    Limit <- MCLimit
    NoLimit = NoLimit
    Estimate <- MCEstimate
    Cost <- MCCost
    MaxEpoch = 1
    Tasks = {t1}
    Task <- MCTask
    Free = Free
    ServeWithinLock = FALSE
    Drips = {r1, r2, r3}
    Wallet <- MCWallet
    Lamports = 2
    DailyCap = 3
    MaxDay = 1
    MaxBlockhash = 1
    MaxDripFaults = 0
    NoDrip = NoDrip
INVARIANT
    TaskPaidOnce
CHECK_DEADLOCK FALSE
