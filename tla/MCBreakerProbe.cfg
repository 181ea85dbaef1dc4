SPECIFICATION Spec
CONSTANTS
    m1 = m1
    m2 = m2
    p = p
    c1 = c1
    c2 = c2
    c3 = c3
    c4 = c4
    Models = {m1, m2}
    Providers = {p}
    ProviderOf <- MCProviderOf
    Calls = {c1, c2, c3, c4}
    Chain <- MCChain
    Entry <- MCEntry
    MinRequests = 1
    MaxOutcomes = 3
    MaxDrops = 0
INVARIANT
    ProbeIsInFlight
CHECK_DEADLOCK FALSE
