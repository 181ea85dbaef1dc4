\* One row, for the deposit, beyond it or for a deposit that never was; two
\* processors, two faults, dust; the service id is deposited again.
CONSTANTS
    s1 = s1
    w1 = w1
    w2 = w2
    NoEscrow = NoEscrow
    NoRow = NoRow
    NoClaim = NoClaim
    Services = {s1}
    Amounts = {2}
    MIN_EXPIRY_BUFFER = 1
    MAX_ESCROW_SLOTS = 2
    DepositUntil = 0
    MaxSlot = 2
    MaxDeposits = 2
    MaxDust = 1
    NumRows = 1
    Costs = {1, 3}
    Processors = {w1, w2}
    BatchLimit = 1
    MAX_CLAIM_ATTEMPTS = 2
    MaxFaults = 2
SPECIFICATION FairSpec
INVARIANTS
    TypeOK
    VaultsBalance
    PaidOnce
    AttemptsNumbered
    EscrowInv
PROPERTIES
    EveryRowSettles
    NoFundsStranded
CHECK_DEADLOCK FALSE
