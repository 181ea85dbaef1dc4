--------------------------- MODULE EscrowProgram ---------------------------
(***************************************************************************)
(* The on-chain escrow program, programs/escrow/src.  One escrow account    *)
(* and one vault per (agent, service id), which is what a service stands    *)
(* for here.  An instruction executes as a whole or not at all, so each is  *)
(* one step; the slot clock decides between claim and refund.               *)
(***************************************************************************)
EXTENDS Integers

CONSTANTS
    Services,           \* (agent, service id) pairs, the seeds of the PDA
    Amounts,            \* deposits an agent may make
    MIN_EXPIRY_BUFFER,  \* least distance of expiry_slot from now
    MAX_ESCROW_SLOTS,   \* largest distance of expiry_slot from now
    DepositUntil,       \* bound: the last slot with a deposit
    MaxSlot,            \* bound: the last slot of a behaviour
    MaxDeposits,        \* bound: deposits of one service
    MaxDust,            \* bound: tokens strangers send to one vault
    NoEscrow

\* The slots run long enough for every escrow to expire.
ASSUME ProgramConstants ==
    /\ Amounts \subseteq Nat
    /\ MIN_EXPIRY_BUFFER \in Nat \ {0} /\ MAX_ESCROW_SLOTS \in Nat
    /\ DepositUntil \in Nat /\ MaxDeposits \in Nat /\ MaxDust \in Nat
    /\ MaxSlot \in Nat /\ MaxSlot >= DepositUntil + MAX_ESCROW_SLOTS
    /\ NoEscrow \notin [amount : Nat, expiry_slot : Nat]

VARIABLES
    slot,       \* Clock::slot
    escrow,     \* escrow[s]: the Escrow account, or NoEscrow when closed
    vault,      \* vault[s]: tokens in the vault's token account
    provider,   \* provider[s]: tokens the provider received for s
    agent,      \* agent[s]: tokens that came back to the agent for s
    deposited,  \* deposited[s]: the amounts of all deposits of s so far
    deposits,   \* deposits[s]: how many
    verified,   \* verified[s]: their amounts, as verify_payment read them
    dusted      \* dusted[s]: tokens others sent to the vault

programVars ==
    <<slot, escrow, vault, provider, agent, deposited, deposits, verified, dusted>>

Open(s) == escrow[s] # NoEscrow

ProgramTypeOK ==
    /\ slot \in 0 .. MaxSlot
    /\ escrow \in [Services -> [amount : Nat, expiry_slot : Nat] \cup {NoEscrow}]
    /\ vault \in [Services -> Nat]
    /\ provider \in [Services -> Nat] /\ agent \in [Services -> Nat]
    /\ deposited \in [Services -> Nat] /\ deposits \in [Services -> Nat]
    /\ verified \in [Services -> SUBSET Nat] /\ dusted \in [Services -> Nat]

ProgramInit ==
    /\ slot = 0
    /\ escrow = [s \in Services |-> NoEscrow]
    /\ vault = [s \in Services |-> 0]
    /\ provider = [s \in Services |-> 0] /\ agent = [s \in Services |-> 0]
    /\ deposited = [s \in Services |-> 0] /\ deposits = [s \in Services |-> 0]
    /\ verified = [s \in Services |-> {}] /\ dusted = [s \in Services |-> 0]

-----------------------------------------------------------------------------

\* Mutant: no upper limit, an agent can lock itself out of its refund.
ExpiryUncapped(x) == x > slot /\ x - slot >= MIN_EXPIRY_BUFFER

ExpiryAccepted(x) ==
    /\ x > slot
    /\ x - slot <= MAX_ESCROW_SLOTS
    /\ x - slot >= MIN_EXPIRY_BUFFER

\* deposit: `init` fails while the escrow account exists, and succeeds again for
\* the same service id once it was closed.  The vault may hold dust already.
Deposit(s, amount, x) ==
    /\ slot <= DepositUntil /\ deposits[s] < MaxDeposits
    /\ ~Open(s)
    /\ amount > 0
    /\ ExpiryAccepted(x)
    /\ escrow' = [escrow EXCEPT ![s] = [amount |-> amount, expiry_slot |-> x]]
    /\ vault' = [vault EXCEPT ![s] = @ + amount]
    /\ deposited' = [deposited EXCEPT ![s] = @ + amount]
    /\ deposits' = [deposits EXCEPT ![s] = @ + 1]
    /\ verified' = [verified EXCEPT ![s] = @ \cup {amount}]
    /\ UNCHANGED <<slot, provider, agent, dusted>>

\* The requirements of claim, which a preflight simulation evaluates as well.
Claimable(s, actual) ==
    /\ Open(s)
    /\ actual > 0 /\ actual <= escrow[s].amount
    /\ slot < escrow[s].expiry_slot

\* Mutant: the remainder of the deposit stays in an open escrow.
ClaimKeepsEscrow(s, actual) ==
    /\ Claimable(s, actual)
    /\ provider' = [provider EXCEPT ![s] = @ + actual]
    /\ vault' = [vault EXCEPT ![s] = @ - actual]
    /\ escrow' = [escrow EXCEPT ![s].amount = @ - actual]
    /\ UNCHANGED <<slot, agent, deposited, deposits, verified, dusted>>

\* Mutant: the surplus is not drained to the agent.
ClaimLosesSurplus(s, actual) ==
    /\ Claimable(s, actual)
    /\ provider' = [provider EXCEPT ![s] = @ + actual]
    /\ agent' = [agent EXCEPT ![s] = @ + (escrow[s].amount - actual)]
    /\ vault' = [vault EXCEPT ![s] = 0]
    /\ escrow' = [escrow EXCEPT ![s] = NoEscrow]
    /\ UNCHANGED <<slot, deposited, deposits, verified, dusted>>

\* Mutant: the remainder is computed without what the provider was paid.
ClaimRefundsDeposit(s, actual) ==
    /\ Claimable(s, actual)
    /\ provider' = [provider EXCEPT ![s] = @ + actual]
    /\ agent' = [agent EXCEPT ![s] = @ + escrow[s].amount]
    /\ vault' = [vault EXCEPT ![s] = @ - (actual + escrow[s].amount)]
    /\ escrow' = [escrow EXCEPT ![s] = NoEscrow]
    /\ UNCHANGED <<slot, deposited, deposits, verified, dusted>>

\* claim: `actual` to the provider; the remainder of the deposit and whatever
\* else the vault holds to the agent; both accounts are closed.
Claim(s, actual) ==
    LET refund == escrow[s].amount - actual
        surplus == vault[s] - (actual + refund)
    IN /\ Claimable(s, actual)
       /\ surplus >= 0
       /\ provider' = [provider EXCEPT ![s] = @ + actual]
       /\ agent' = [agent EXCEPT ![s] = @ + refund + surplus]
       /\ vault' = [vault EXCEPT ![s] = 0]
       /\ escrow' = [escrow EXCEPT ![s] = NoEscrow]
       /\ UNCHANGED <<slot, deposited, deposits, verified, dusted>>

\* refund: everything in the vault to the agent; both accounts are closed.
Refund(s) ==
    /\ Open(s)
    /\ slot >= escrow[s].expiry_slot
    /\ vault[s] > 0
    /\ agent' = [agent EXCEPT ![s] = @ + vault[s]]
    /\ vault' = [vault EXCEPT ![s] = 0]
    /\ escrow' = [escrow EXCEPT ![s] = NoEscrow]
    /\ UNCHANGED <<slot, provider, deposited, deposits, verified, dusted>>

\* Anyone can send tokens to the vault's address at any time.
Dust(s) ==
    /\ dusted[s] < MaxDust
    /\ vault' = [vault EXCEPT ![s] = @ + 1]
    /\ dusted' = [dusted EXCEPT ![s] = @ + 1]
    /\ UNCHANGED <<slot, escrow, provider, agent, deposited, deposits, verified>>

AdvanceSlot ==
    /\ slot < MaxSlot
    /\ slot' = slot + 1
    /\ UNCHANGED <<escrow, vault, provider, agent, deposited, deposits, verified, dusted>>

=============================================================================
