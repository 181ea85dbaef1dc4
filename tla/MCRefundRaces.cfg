\* One obligation, two instances: every race between stale snapshots.
CONSTANTS
    c1 = c1
    c2 = c2
    c3 = c3
    c4 = c4
    w1 = w1
    w2 = w2
    wallet = wallet
    None = None
    Channels = {c1}
    Workers = {w1, w2}
    Wallet <- MCWallet
    Amount <- AmountOne
    Corrupt = {}
    Unsendable = {}
    MaxAttempts = 2
    DailyCap = None
    Lifetime = 1
    MaxHeight = 4
    FaultsUntil = 4
    ExpiryNeverBetweenReads = TRUE
    RearmAfterExpiry = TRUE
SPECIFICATION Spec
INVARIANTS
    TypeOK
    AtMostOneTransfer
    NoOrphanInFlight
    IInv
PROPERTIES
    ImplementsObligation
SYMMETRY WorkerSymmetry
CHECK_DEADLOCK FALSE
