---------------------------- MODULE EscrowClaims ----------------------------
(***************************************************************************)
(* How the gateway collects from the escrow program: fire_escrow_claim      *)
(* (routes/chat/payment.rs, also called by routes/escrow_settle.rs), the    *)
(* queue (x402/escrow/claim_queue.rs), the background processors of several *)
(* instances (claim_processor.rs) and the claimer (claimer.rs).             *)
(*                                                                         *)
(* Each database statement and each submission is one step.  Time appears   *)
(* only as nondeterminism: a pending row may be due, an in_progress row may *)
(* have been untouched for five minutes, and the breaker's pause may be     *)
(* over.  A batch of ten rows with three 30 s requests each can outlast the *)
(* five minutes, so a row may be recovered from a processor that is alive.  *)
(***************************************************************************)
EXTENDS EscrowProgram, FiniteSets

CONSTANTS
    NumRows,            \* bound: rows in escrow_claim_queue
    Costs,              \* priced usage of a request
    Processors,         \* gateway instances, each running one processor
    BatchLimit,         \* limit of fetch_pending_claims
    MAX_CLAIM_ATTEMPTS,
    MaxFaults,          \* bound: faults in a behaviour
    NoRow, NoClaim

Rows == 1 .. NumRows

ClaimStatus == {"pending", "in_progress", "completed", "failed"}

ClaimRow == [service : Services, claim_amount : Nat, status : ClaimStatus, attempts : Nat]

ClaimEntry == [row : Rows, attempts : Nat]

ASSUME ClaimConstants ==
    /\ NumRows \in Nat /\ Costs \subseteq Nat
    /\ BatchLimit \in Nat \ {0} /\ MAX_CLAIM_ATTEMPTS \in Nat \ {0}
    /\ MaxFaults \in Nat
    /\ NoRow \notin ClaimRow
    /\ NoClaim \notin [entry : ClaimEntry, sent : BOOLEAN]

VARIABLES
    queue,      \* queue[r]: the row, or NoRow before it is inserted
    batch,      \* batch[w]: fetched entries w has not come to yet
    current,    \* current[w]: the entry whose outcome w is about to record
    tripped,    \* tripped[w]: w's circuit breaker is open
    pool,       \* claim transactions the cluster holds
    submitted,  \* attempts that came past the limit on the attempts
    delivered,  \* rows whose claim executed
    faults

queueVars == <<queue, batch, current, tripped, pool, submitted, delivered, faults>>
vars == <<slot, escrow, vault, provider, agent, deposited, deposits, verified, dusted,
          queue, batch, current, tripped, pool, submitted, delivered, faults>>

\* Types of the program's accounts, of the queue and of the processors.
TypeOK ==
    /\ ProgramTypeOK
    /\ queue \in [Rows -> ClaimRow \cup {NoRow}]
    /\ batch \in [Processors -> SUBSET ClaimEntry]
    /\ current \in [Processors -> [entry : ClaimEntry, sent : BOOLEAN] \cup {NoClaim}]
    /\ tripped \in [Processors -> BOOLEAN]
    /\ pool \subseteq ClaimEntry /\ submitted \subseteq ClaimEntry
    /\ delivered \subseteq Rows
    /\ faults \in 0 .. MaxFaults

Init ==
    /\ ProgramInit
    /\ queue = [r \in Rows |-> NoRow]
    /\ batch = [w \in Processors |-> {}]
    /\ current = [w \in Processors |-> NoClaim]
    /\ tripped = [w \in Processors |-> FALSE]
    /\ pool = {} /\ submitted = {} /\ delivered = {}
    /\ faults = 0

Fault == faults < MaxFaults /\ faults' = faults + 1

-----------------------------------------------------------------------------
(* Enqueueing *)

\* enqueue_claim: a plain INSERT, in the order of the rows' creation.
Enqueue(r, s, amount) ==
    /\ queue[r] = NoRow
    /\ r > 1 => queue[r - 1] # NoRow
    /\ amount > 0
    /\ queue' = [queue EXCEPT ![r] =
          [service |-> s, claim_amount |-> amount, status |-> "pending", attempts |-> 0]]
    /\ UNCHANGED <<programVars, batch, current, tripped, pool, submitted, delivered, faults>>

\* cap_claim_amount with a verified deposit.
CapClaimAmount(cost, deposit) == IF cost < deposit THEN cost ELSE deposit

\* The chat handler: the deposit was confirmed, the request served, and the claim
\* fired for what it cost, at most the deposit.
ChatClaims(r, s, cost) ==
    \E deposit \in verified[s] : Enqueue(r, s, CapClaimAmount(cost, deposit))

\* POST /v1/escrow/settle: the same for the usage the client reports, with no
\* deposit to cap it and no check that there is one.
SettleClaims(r, s, cost) == Enqueue(r, s, cost)

-----------------------------------------------------------------------------
(* The processor *)

\* Mutant: rows that a crashed processor left in_progress are not picked up.
FetchableNoRecovery(r) == queue[r] # NoRow /\ queue[r].status = "pending"

Fetchable(r) == queue[r] # NoRow /\ queue[r].status \in {"pending", "in_progress"}

\* Mutant: a recovered row keeps its attempt number.
FetchedRecoveredUncounted(row) ==
    [row EXCEPT !.status = "in_progress",
                !.attempts = IF row.status = "pending" THEN @ + 1 ELSE @]

Fetched(row) == [row EXCEPT !.status = "in_progress", !.attempts = @ + 1]

\* fetch_pending_claims, in a cycle that finds the breaker closed: one statement
\* marks the rows and returns them with the attempts after the increment.
FetchPendingClaims(w, S) ==
    /\ batch[w] = {} /\ current[w] = NoClaim
    /\ ~tripped[w]
    /\ S # {} /\ Cardinality(S) <= BatchLimit
    /\ \A r \in S : Fetchable(r)
    /\ queue' = [r \in Rows |-> IF r \in S THEN Fetched(queue[r]) ELSE queue[r]]
    /\ batch' = [batch EXCEPT ![w] =
          {[row |-> r, attempts |-> Fetched(queue[r]).attempts] : r \in S}]
    /\ UNCHANGED <<programVars, current, tripped, pool, submitted, delivered, faults>>

\* is_open, once the pause is over: the breaker closes and forgets its counts.
BreakerCloses(w) ==
    /\ batch[w] = {} /\ current[w] = NoClaim
    /\ tripped[w]
    /\ tripped' = [tripped EXCEPT ![w] = FALSE]
    /\ UNCHANGED <<programVars, queue, batch, current, pool, submitted, delivered, faults>>

\* w has dealt with e up to recording its outcome.
Concluded(w, e, sent) ==
    /\ batch' = [batch EXCEPT ![w] = @ \ {e}]
    /\ current' = [current EXCEPT ![w] = [entry |-> e, sent |-> sent]]
    /\ UNCHANGED <<programVars, queue, tripped, delivered>>

\* An entry past the last attempt is not submitted.
SkipExceeded(w, e) ==
    /\ current[w] = NoClaim /\ e \in batch[w]
    /\ e.attempts > MAX_CLAIM_ATTEMPTS
    /\ Concluded(w, e, FALSE)
    /\ UNCHANGED <<pool, submitted, faults>>

\* Mutant: no limit on the attempts.
MaySubmitAlways(w, e) == current[w] = NoClaim /\ e \in batch[w]

MaySubmit(w, e) ==
    /\ current[w] = NoClaim /\ e \in batch[w]
    /\ e.attempts <= MAX_CLAIM_ATTEMPTS

\* do_claim: the preflight simulation passes and sendTransaction answers with a
\* signature.  Nothing waits for the transaction to be confirmed.
SubmitAccepted(w, e) ==
    /\ MaySubmit(w, e)
    /\ Claimable(queue[e.row].service, queue[e.row].claim_amount)
    /\ pool' = pool \cup {e}
    /\ submitted' = submitted \cup {e}
    /\ Concluded(w, e, TRUE)
    /\ UNCHANGED faults

\* The same, but the answer is lost.
SubmitAnswerLost(w, e) ==
    /\ MaySubmit(w, e) /\ Fault
    /\ Claimable(queue[e.row].service, queue[e.row].claim_amount)
    /\ pool' = pool \cup {e}
    /\ submitted' = submitted \cup {e}
    /\ Concluded(w, e, FALSE)

\* No valid agent key, no healthy fee payer, no blockhash, or the preflight
\* simulation fails.
SubmitRejected(w, e) ==
    /\ MaySubmit(w, e)
    /\ submitted' = submitted \cup {e}
    /\ Concluded(w, e, FALSE)
    /\ UNCHANGED <<pool, faults>>

\* mark_attempt_failed decides by the attempts in the row, not in the entry.
AttemptFailed(row) ==
    [row EXCEPT !.status = IF row.attempts >= MAX_CLAIM_ATTEMPTS THEN "failed" ELSE "pending"]

\* mark_completed or mark_attempt_failed, whatever the row's status is by now, and
\* record_success or record_failure; a failure may trip the breaker.
RecordOutcome(w) ==
    /\ current[w] # NoClaim
    /\ LET c == current[w] IN
         /\ queue' = [queue EXCEPT ![c.entry.row] =
               IF c.sent THEN [@ EXCEPT !.status = "completed"] ELSE AttemptFailed(@)]
         /\ \E t \in IF c.sent THEN {tripped[w]} ELSE {tripped[w], TRUE} :
               tripped' = [tripped EXCEPT ![w] = t]
    /\ current' = [current EXCEPT ![w] = NoClaim]
    /\ UNCHANGED <<programVars, batch, pool, submitted, delivered, faults>>

\* The statement fails: a warning, and the row stays as it is.
RecordOutcomeFails(w) ==
    /\ current[w] # NoClaim /\ Fault
    /\ \E t \in IF current[w].sent THEN {tripped[w]} ELSE {tripped[w], TRUE} :
          tripped' = [tripped EXCEPT ![w] = t]
    /\ current' = [current EXCEPT ![w] = NoClaim]
    /\ UNCHANGED <<programVars, queue, batch, pool, submitted, delivered>>

\* The instance dies and starts again with an empty batch and a new breaker.
Crash(w) ==
    /\ batch[w] # {} \/ current[w] # NoClaim
    /\ Fault
    /\ batch' = [batch EXCEPT ![w] = {}]
    /\ current' = [current EXCEPT ![w] = NoClaim]
    /\ tripped' = [tripped EXCEPT ![w] = FALSE]
    /\ UNCHANGED <<programVars, queue, pool, submitted, delivered>>

-----------------------------------------------------------------------------
(* The cluster *)

ExecuteClaim(e) ==
    /\ e \in pool
    /\ Claim(queue[e.row].service, queue[e.row].claim_amount)
    /\ pool' = pool \ {e}
    /\ delivered' = delivered \cup {e.row}
    /\ UNCHANGED <<queue, batch, current, tripped, submitted, faults>>

\* The transaction is dropped, expires or fails when it is executed.
LoseClaim(e) ==
    /\ e \in pool
    /\ pool' = pool \ {e}
    /\ UNCHANGED <<programVars, queue, batch, current, tripped, submitted, delivered, faults>>

-----------------------------------------------------------------------------

ProcessorStep(w) ==
    \/ \E e \in batch[w] :
         SkipExceeded(w, e) \/ SubmitAccepted(w, e) \/ SubmitRejected(w, e)
    \/ RecordOutcome(w)
    \/ BreakerCloses(w)

ProcessorFault(w) ==
    \/ \E e \in batch[w] : SubmitAnswerLost(w, e)
    \/ RecordOutcomeFails(w)
    \/ Crash(w)

ProgramStep ==
    /\ \/ \E s \in Services :
            \/ \E a \in Amounts, x \in 0 .. MaxSlot + 1 : Deposit(s, a, x)
            \/ Refund(s)
            \/ Dust(s)
       \/ AdvanceSlot
    /\ UNCHANGED queueVars

Next ==
    \/ ProgramStep
    \/ \E r \in Rows, s \in Services, c \in Costs :
         ChatClaims(r, s, c) \/ SettleClaims(r, s, c)
    \/ \E w \in Processors :
         \/ \E S \in SUBSET Rows : FetchPendingClaims(w, S)
         \/ ProcessorStep(w)
         \/ ProcessorFault(w)
    \/ \E e \in pool : ExecuteClaim(e) \/ LoseClaim(e)

Spec == Init /\ [][Next]_vars

\* A fetchable row is in some processor's next batch sooner or later.
FetchRow(r) ==
    \E w \in Processors, S \in SUBSET Rows : r \in S /\ FetchPendingClaims(w, S)

RefundStep(s) == Refund(s) /\ UNCHANGED queueVars
SlotStep == AdvanceSlot /\ UNCHANGED queueVars

\* Slots pass, the agent asks for an expired deposit, and every processor's
\* interval keeps ticking: a cycle runs to its end and a row comes up again.
Fairness ==
    /\ WF_vars(SlotStep)
    /\ \A s \in Services : WF_vars(RefundStep(s))
    /\ \A w \in Processors : WF_vars(ProcessorStep(w))
    /\ \A r \in Rows : SF_vars(FetchRow(r))

FairSpec == Spec /\ Fairness

-----------------------------------------------------------------------------
(* Properties *)

\* Every token is accounted for, however claims, refunds, dust and deposits under
\* a reused service id interleave, and an open escrow's vault covers its amount:
\* neither a transfer of claim nor refund's EmptyVault can block a pay-out.
VaultsBalance ==
    \A s \in Services :
      /\ provider[s] + agent[s] + vault[s] = deposited[s] + dusted[s]
      /\ Open(s) => vault[s] >= escrow[s].amount /\ escrow[s].amount > 0

\* "Wasteful but correct": rows of the chat handler and of the settle endpoint for
\* one deposit, retries, recovered rows, lost answers and transactions that land
\* late together pay the provider one claim, never their sum.
PaidOnce ==
    \A s \in Services :
      deposits[s] <= 1 => \/ provider[s] = 0
                         \/ \E r \in delivered : /\ queue[r].service = s
                                               /\ queue[r].claim_amount = provider[s]

\* SKIP LOCKED with the increment in the same statement: no two processors ever
\* work on the same attempt of a row, and none submits an attempt again, although
\* rows are recovered from processors that are alive.  With the limit on the
\* attempts this bounds the submissions of a row by MAX_CLAIM_ATTEMPTS.
AttemptsNumbered ==
    /\ \A w \in Processors : \A e \in batch[w] :
         /\ e \notin submitted
         /\ \A v \in Processors \ {w} : e \notin batch[v]
         /\ \A v \in Processors : current[v] # NoClaim => e # current[v].entry
    /\ \A e \in submitted : e.attempts <= MAX_CLAIM_ATTEMPTS

\* What processors hold and have sent are attempts that some fetch has counted.
AttemptsCounted ==
    LET Counted(e) == queue[e.row] # NoRow /\ e.attempts <= queue[e.row].attempts IN
    /\ \A w \in Processors : \A e \in batch[w] : Counted(e)
    /\ \A w \in Processors : current[w] # NoClaim => Counted(current[w].entry)
    /\ \A e \in submitted \cup pool : Counted(e)
    /\ \A r \in delivered : queue[r] # NoRow

\* An escrow stands for a deposit, and a service's first for one not yet paid out.
EscrowLife ==
    \A s \in Services :
      /\ deposits[s] = 0 => ~Open(s) /\ provider[s] = 0
      /\ deposits[s] = 1 /\ Open(s) => provider[s] = 0

\* The inductive invariant behind the theorems: an attempt a processor holds was
\* counted in its row, so that the next fetch's is new, and an open first escrow
\* has paid nothing.
EscrowInv ==
    /\ TypeOK
    /\ VaultsBalance
    /\ EscrowLife
    /\ AttemptsCounted
    /\ AttemptsNumbered
    /\ PaidOnce

Settled(r) == queue[r] # NoRow /\ queue[r].status \in {"completed", "failed"}

\* Every row comes to rest as completed or failed, although processors crash with
\* rows in progress, statements fail and stale outcomes reopen settled rows.
EveryRowSettles ==
    \A r \in Rows : queue[r] # NoRow ~> []Settled(r)

\* No deposit stays in the program for ever: it is claimed, or the agent gets it
\* back, whatever the queue does.
NoFundsStranded == \A s \in Services : Open(s) ~> ~Open(s)

\* "reliable delivery with automatic retry": a completed claim was executed or
\* still can be.
CompletedIsDelivered ==
    \A r \in Rows :
      queue[r] # NoRow /\ queue[r].status = "completed" =>
        r \in delivered \/ \E e \in pool : e.row = r

=============================================================================
