SPECIFICATION FairSpec
CONSTANTS
    d1 = d1
    d2 = d2
    d3 = d3
    None = None
    Draws = {d1, d2, d3}
    Closers = {c1, c2}
    Quote <- MCQuote
    Surface <- MCSurface
    Deposit = 3
    LockOutlivesDraw = TRUE
    CommitOutlivesHandler = FALSE
    MaxFaults = 2
INVARIANTS
    OneRequestAtATime
    NothingServedFree
    LockInv
PROPERTIES
    CostIsAdvance
    CloseCompletes
