SPECIFICATION Spec
CONSTANTS
    d1 = d1
    d2 = d2
    d3 = d3
    None = None
    Draws = {d1, d2}
    Closers = {c1}
    Quote <- MCQuote
    Surface <- MCSurface
    Deposit = 3
    LockOutlivesDraw = FALSE
    CommitOutlivesHandler = TRUE
    MaxFaults = 2
INVARIANTS
    TypeOK
    LedgerReconciles
    FrozenRefundExact
    ReceiptMeansDebit
    LedgerInv
PROPERTY
    ImplementsAccount
