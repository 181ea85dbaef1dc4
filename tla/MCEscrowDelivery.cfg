\* One row, one deposit, no fault at all.
CONSTANTS
    s1 = s1
    w1 = w1
    w2 = w2
    NoEscrow = NoEscrow
    NoRow = NoRow
    NoClaim = NoClaim
    Services = {s1}
    Amounts = {2}
    MIN_EXPIRY_BUFFER = 1
    MAX_ESCROW_SLOTS = 2
    DepositUntil = 0
    MaxSlot = 2
    MaxDeposits = 1
    MaxDust = 0
    NumRows = 1
    Costs = {1, 3}
    Processors = {w1, w2}
    BatchLimit = 1
    MAX_CLAIM_ATTEMPTS = 2
    MaxFaults = 0
SPECIFICATION Spec
INVARIANT CompletedIsDelivered
CHECK_DEADLOCK FALSE
