\* Two owing rows of one wallet, one of them accepted by no RPC, under a daily
\* ceiling of one; a corrupt tuple; a channel that owes nothing.  Faults cease after
\* height 0 and the ordinary obligation is met.
CONSTANTS
    c1 = c1
    c2 = c2
    c3 = c3
    c4 = c4
    w1 = w1
    w2 = w2
    wallet = wallet
    None = None
    Channels = {c1, c2, c3, c4}
    Workers = {w1}
    Wallet <- MCWallet
    Amount <- AmountZeroOne
    Corrupt = {c3}
    Unsendable = {c2}
    MaxAttempts = 2
    DailyCap = 1
    Lifetime = 1
    MaxHeight = 2
    FaultsUntil = 0
    ExpiryNeverBetweenReads = TRUE
    RearmAfterExpiry = TRUE
SPECIFICATION FairSpec
INVARIANT
    ConfirmedMeansPaid
PROPERTIES
    EveryRefundCompletes
    ReplacedOnlyWhenDead
CHECK_DEADLOCK FALSE
