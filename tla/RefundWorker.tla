--------------------------- MODULE RefundWorker ---------------------------
(***************************************************************************)
(* The USDC close-disbursement worker, crates/gateway/src/channel_refunds.rs *)
(*                                                                         *)
(* Several gateway instances drain one table of refund reservations.  Every *)
(* database statement and every RPC call of a worker is one step, so that   *)
(* a snapshot can be arbitrarily stale when the compare-and-swap computed   *)
(* from it runs.  The chain, its RPC and the operator who follows the held- *)
(* row runbook are environment: the worker can only ask and send.           *)
(***************************************************************************)
EXTENDS Integers, FiniteSetsExt

CONSTANTS
    Channels,       \* channel ids with a frozen reservation
    Workers,        \* gateway instances, each running one refund worker
    Wallet,         \* Wallet[c]: frozen destination_wallet of the reservation
    Amount,         \* Amount[c]: frozen amount_atomic
    Corrupt,        \* channels whose frozen destination or mint does not decode
    Unsendable,     \* channels whose transfer no RPC ever accepts (self-transfer)
    MaxAttempts,    \* MAX_CLAIM_ATTEMPTS
    DailyCap,       \* daily_cap_atomic, or None when uncapped
    Lifetime,       \* blocks a blockhash stays valid after the one that made it
    MaxHeight,      \* bound: the last block height of a behaviour
    FaultsUntil,    \* RPC, database and process faults happen up to this height
    ExpiryNeverBetweenReads, \* the height does not cross a transaction's last
                    \* valid block between a worker's status and height reads
    RearmAfterExpiry, \* the operator re-arms only what can no longer land
    None

ASSUME RefundConstants ==
    /\ Amount \in [Channels -> Nat]
    /\ Corrupt \subseteq Channels /\ Unsendable \subseteq Channels
    /\ MaxAttempts \in Nat \ {0}
    /\ Lifetime \in Nat /\ MaxHeight \in Nat /\ FaultsUntil \in Int
    /\ DailyCap \in Nat \cup {None}
    /\ ExpiryNeverBetweenReads \in BOOLEAN /\ RearmAfterExpiry \in BOOLEAN

VARIABLES
    refunds,    \* refunds[c]: the channel_refunds row
    channels,   \* channels[c]: channels.status, "closing" or "closed"
    pc,         \* pc[w]: where worker w is in the row it handles
    job,        \* job[w]: its snapshot of that row
    height,     \* the cluster's confirmed block height
    pool,       \* transactions the cluster holds and may still execute
    landed,     \* transactions executed with success
    reverted,   \* transactions executed with an on-chain error
    rooted      \* landed transactions at commitment confirmed or finalized

dbVars == <<refunds, channels>>
chainVars == <<height, pool, landed, reverted, rooted>>
vars == <<refunds, channels, pc, job, height, pool, landed, reverted, rooted>>

-----------------------------------------------------------------------------
(* Transactions.  A signature is a function of the signed bytes, so a       *)
(* transaction is its content and two equal contents are one transaction.   *)

\* Mutant: every refund carries the same memo (#743).
SharedMemo(c) == <<"solvela-refund">>

RefundMemo(c) == <<"solvela-refund", c>>

Transfer(c, h) ==
    [memo |-> RefundMemo(c), dest |-> Wallet[c], amount |-> Amount[c], blockhash |-> h]

Transactions == {Transfer(c, h) : c \in Channels, h \in 0 .. MaxHeight}

ASSUME NoneIsNoTransaction == None \notin Transactions

LastValidBlockHeight(t) == t.blockhash + Lifetime

Alive(t) == height <= LastValidBlockHeight(t)

Processed == landed \cup reverted

PaysFor(t, c) == t.memo = RefundMemo(c)

\* The confirm gate: the persisted bytes are this obligation's transfer.
VerifyLandedRefund(c, t) ==
    /\ c \notin Corrupt
    /\ PaysFor(t, c)
    /\ t.dest = Wallet[c]
    /\ t.amount = Amount[c]

-----------------------------------------------------------------------------
(* State *)

RefundStatus == {"reserved", "in_flight", "confirmed", "held"}

Step == {"idle", "zero_amount", "sign", "claim", "broadcast", "mark_accepted",
         "signature_status", "block_height", "sign_again", "resign", "confirm",
         "hold_from_reserved", "hold_from_in_flight", "hold_never_accepted"}

Rows == [status : RefundStatus, tx : Transactions \cup {None},
         attempts : 0 .. MaxAttempts, accepted : BOOLEAN,
         first_broadcast : {"never", "recent", "old"}]

Jobs == [channel : Channels \cup {None}, tx : Transactions \cup {None},
         fresh : Transactions \cup {None}, attempts : 0 .. MaxAttempts,
         accepted : BOOLEAN]

NoJob == [channel |-> None, tx |-> None, fresh |-> None, attempts |-> 0,
          accepted |-> FALSE]

\* Types, and the claim's payload is complete: a row that went in flight has its
\* transaction and its daily-cap anchor (handle_in_flight holds a partial row).
TypeOK ==
    /\ refunds \in [Channels -> Rows]
    /\ channels \in [Channels -> {"closing", "closed"}]
    /\ pc \in [Workers -> Step]
    /\ job \in [Workers -> Jobs]
    /\ height \in 0 .. MaxHeight
    /\ pool \subseteq Transactions
    /\ landed \subseteq Transactions
    /\ reverted \subseteq Transactions
    /\ rooted \subseteq landed
    /\ \A c \in Channels :
          /\ refunds[c].status = "in_flight" => refunds[c].tx # None
          /\ refunds[c].tx # None => refunds[c].first_broadcast # "never"

Init ==
    /\ refunds = [c \in Channels |-> [status |-> "reserved", tx |-> None, attempts |-> 0,
                                      accepted |-> FALSE, first_broadcast |-> "never"]]
    /\ channels = [c \in Channels |-> "closing"]
    /\ pc = [w \in Workers |-> "idle"]
    /\ job = [w \in Workers |-> NoJob]
    /\ height = 0
    /\ pool = {} /\ landed = {} /\ reverted = {} /\ rooted = {}

\* Attempts only ever meet the test attempts >= MAX_CLAIM_ATTEMPTS.
OneMoreAttempt(n) == IF n < MaxAttempts THEN n + 1 ELSE n

Goto(w, l) == pc' = [pc EXCEPT ![w] = l]

Done(w) == /\ pc' = [pc EXCEPT ![w] = "idle"]
           /\ job' = [job EXCEPT ![w] = NoJob]

-----------------------------------------------------------------------------
(* Repository operations: compare-and-swaps on the reservation row          *)

\* Trailing-24h disbursement the claim transaction sums under its advisory lock.
Broadcast24h ==
    MapThenSumSet(LAMBDA c : Amount[c],
        {c \in Channels : /\ refunds[c].first_broadcast = "recent"
                          /\ refunds[c].status # "held"})

CapExceeded(c) == DailyCap # None /\ Broadcast24h + Amount[c] > DailyCap

\* Mutant: the claim leaves out first_broadcast_at.
ClaimedRowNoAnchor(row, t) ==
    [row EXCEPT !.status = "in_flight", !.tx = t,
                !.attempts = OneMoreAttempt(@), !.accepted = FALSE]

ClaimedRow(row, t) ==
    [row EXCEPT !.status = "in_flight", !.tx = t,
                !.attempts = OneMoreAttempt(@),
                !.accepted = FALSE,
                !.first_broadcast = IF @ = "never" THEN "recent" ELSE @]

\* claim_refund_for_broadcast: cap check and CAS in one transaction; only the
\* winner goes on to broadcast.
ClaimRefundForBroadcast(w) ==
    LET c == job[w].channel IN
    /\ pc[w] = "claim"
    /\ IF refunds[c].status = "reserved" /\ ~CapExceeded(c)
       THEN /\ refunds' = [refunds EXCEPT ![c] = ClaimedRow(@, job[w].tx)]
            /\ Goto(w, "broadcast")
            /\ UNCHANGED job
       ELSE Done(w) /\ UNCHANGED refunds
    /\ UNCHANGED <<channels, chainVars>>

\* Mutant: the re-sign is predicated on the status alone.
ResignMatchesStatusOnly(c, t) == refunds[c].status = "in_flight"

ResignMatches(c, t) == refunds[c].status = "in_flight" /\ refunds[c].tx = t

ResignedRow(row, t) ==
    [row EXCEPT !.tx = t, !.attempts = OneMoreAttempt(@), !.accepted = FALSE]

\* resign_refund: CAS predicated on the superseded signature.
ResignRefund(w) ==
    LET c == job[w].channel IN
    /\ pc[w] = "resign"
    /\ IF ResignMatches(c, job[w].tx)
       THEN /\ refunds' = [refunds EXCEPT ![c] = ResignedRow(@, job[w].fresh)]
            /\ job' = [job EXCEPT ![w].tx = job[w].fresh, ![w].fresh = None]
            /\ Goto(w, "broadcast")
       ELSE Done(w) /\ UNCHANGED refunds
    /\ UNCHANGED <<channels, chainVars>>

\* confirm_refund_and_close_channel: status-predicated; both writes commit together.
ConfirmRefundAndCloseChannel(w, from) ==
    LET c == job[w].channel IN
    /\ IF refunds[c].status = from
       THEN /\ refunds' = [refunds EXCEPT ![c].status = "confirmed"]
            /\ channels' = [channels EXCEPT ![c] = "closed"]
       ELSE UNCHANGED dbVars
    /\ Done(w)
    /\ UNCHANGED chainVars

\* HoldGuard: what the row must still say for the hold to apply.
HoldMatches(w) ==
    LET row == refunds[job[w].channel] IN
    \/ pc[w] = "hold_from_reserved" /\ row.status = "reserved"
    \/ /\ pc[w] = "hold_from_in_flight"
       /\ row.status = "in_flight" /\ row.tx = job[w].tx
    \/ /\ pc[w] = "hold_never_accepted"
       /\ row.status = "in_flight" /\ row.tx = job[w].tx /\ ~row.accepted

HoldRefund(w) ==
    /\ pc[w] \in {"hold_from_reserved", "hold_from_in_flight", "hold_never_accepted"}
    /\ refunds' = IF HoldMatches(w)
                  THEN [refunds EXCEPT ![job[w].channel].status = "held"]
                  ELSE refunds
    /\ Done(w)
    /\ UNCHANGED <<channels, chainVars>>

\* mark_broadcast_accepted: only the row that still carries this signature.
MarkBroadcastAccepted(w) ==
    LET c == job[w].channel IN
    /\ pc[w] = "mark_accepted"
    /\ refunds' = IF refunds[c].status = "in_flight" /\ refunds[c].tx = job[w].tx
                  THEN [refunds EXCEPT ![c].accepted = TRUE]
                  ELSE refunds
    /\ Done(w)
    /\ UNCHANGED <<channels, chainVars>>

-----------------------------------------------------------------------------
(* The sweep: one due row, then handle_reserved or handle_in_flight          *)

FetchReserved(w, c) ==
    /\ pc[w] = "idle"
    /\ refunds[c].status = "reserved"
    /\ job' = [job EXCEPT ![w] = [NoJob EXCEPT !.channel = c]]
    /\ Goto(w, IF Amount[c] = 0 THEN "zero_amount" ELSE "sign")
    /\ UNCHANGED <<dbVars, chainVars>>

FetchInFlight(w, c) ==
    /\ pc[w] = "idle"
    /\ refunds[c].status = "in_flight"
    /\ job' = [job EXCEPT ![w] = [channel |-> c, tx |-> refunds[c].tx, fresh |-> None,
                                  attempts |-> refunds[c].attempts,
                                  accepted |-> refunds[c].accepted]]
    /\ Goto(w, "signature_status")
    /\ UNCHANGED <<dbVars, chainVars>>

\* A fully drawn channel owes nothing: confirm and close, no transaction.
CompleteZeroAmount(w) ==
    /\ pc[w] = "zero_amount"
    /\ ConfirmRefundAndCloseChannel(w, "reserved")

\* sign_fresh on a reserved row: signed off any lock, at the latest blockhash.
SignReserved(w) ==
    LET c == job[w].channel IN
    /\ pc[w] = "sign"
    /\ IF c \in Corrupt
       THEN Goto(w, "hold_from_reserved") /\ UNCHANGED job
       ELSE /\ Goto(w, "claim")
            /\ job' = [job EXCEPT ![w].tx = Transfer(c, height)]
    /\ UNCHANGED <<dbVars, chainVars>>

\* sign_fresh on a row whose transaction is concluded dead.
SignAgain(w) ==
    LET c == job[w].channel IN
    /\ pc[w] = "sign_again"
    /\ IF c \in Corrupt
       THEN Goto(w, "hold_from_in_flight") /\ UNCHANGED job
       ELSE /\ Goto(w, "resign")
            /\ job' = [job EXCEPT ![w].fresh = Transfer(c, height)]
    /\ UNCHANGED <<dbVars, chainVars>>

\* Mutant: a landed transaction's err field is not looked at.
ReadSignatureStatusIgnoringErr(w) ==
    LET t == job[w].tx IN
    /\ pc[w] = "signature_status"
    /\ \/ /\ t \in rooted \cup reverted
          /\ Goto(w, IF VerifyLandedRefund(job[w].channel, t)
                     THEN "confirm" ELSE "hold_from_in_flight")
          /\ UNCHANGED job
       \/ /\ t \in landed \ rooted
          /\ Done(w)
       \/ /\ t \notin Processed
          /\ Goto(w, "block_height") /\ UNCHANGED job
    /\ UNCHANGED <<dbVars, chainVars>>

\* First read of handle_in_flight: a history-searching getSignatureStatuses.
ReadSignatureStatus(w) ==
    LET t == job[w].tx IN
    /\ pc[w] = "signature_status"
    /\ \/ /\ t \in reverted
          /\ Goto(w, "hold_from_in_flight") /\ UNCHANGED job
       \/ /\ t \in rooted
          /\ Goto(w, IF VerifyLandedRefund(job[w].channel, t)
                     THEN "confirm" ELSE "hold_from_in_flight")
          /\ UNCHANGED job
       \/ /\ t \in landed \ rooted      \* processed: wait for the next sweep
          /\ Done(w)
       \/ /\ t \notin Processed         \* no trace in full history
          /\ Goto(w, "block_height") /\ UNCHANGED job
    /\ UNCHANGED <<dbVars, chainVars>>

\* Mutant: a blockhash counts as dead at its last valid block.
DeadAtLastValid(t) == height >= LastValidBlockHeight(t)

CanNoLongerLand(t) == height > LastValidBlockHeight(t)

\* Mutant: death is concluded without asking whether a send was ever accepted.
AlwaysResign(j) == IF j.attempts >= MaxAttempts THEN "hold_from_in_flight" ELSE "sign_again"

\* Mutant: a transaction no send accepted is left in flight when it dies.
NeverAcceptedWaits(j) ==
    IF ~j.accepted THEN "idle"
    ELSE IF j.attempts >= MaxAttempts THEN "hold_from_in_flight"
    ELSE "sign_again"

\* What handle_in_flight does with a conclusively dead transaction.
AfterDeath(j) ==
    IF ~j.accepted THEN "hold_never_accepted"
    ELSE IF j.attempts >= MaxAttempts THEN "hold_from_in_flight"
    ELSE "sign_again"

\* Second read: alive -> rebroadcast the same bytes, else conclusively dead.
ReadBlockHeight(w) ==
    /\ pc[w] = "block_height"
    /\ Goto(w, IF CanNoLongerLand(job[w].tx) THEN AfterDeath(job[w]) ELSE "broadcast")
    /\ UNCHANGED <<job, dbVars, chainVars>>

ConfirmLanded(w) ==
    /\ pc[w] = "confirm"
    /\ ConfirmRefundAndCloseChannel(w, "in_flight")

-----------------------------------------------------------------------------
(* broadcast: sendTransaction of the worker's bytes, and what it does with   *)
(* each answer                                                              *)

Faulty == height <= FaultsUntil

\* The RPC takes the bytes and the cluster may execute them from now on.
Landable(t) == Alive(t) /\ t \notin Processed

Sendable(w) ==
    /\ pc[w] = "broadcast"
    /\ job[w].channel \notin Unsendable
    /\ Landable(job[w].tx)

SendAccepted(w) ==
    /\ Sendable(w)
    /\ pool' = pool \cup {job[w].tx}
    /\ Goto(w, "mark_accepted")
    /\ UNCHANGED <<job, dbVars, height, landed, reverted, rooted>>

\* Accepted, but the answer is lost: classified transient, no marker.
SendAcceptedAnswerLost(w) ==
    /\ Sendable(w) /\ Faulty
    /\ pool' = pool \cup {job[w].tx}
    /\ Done(w)
    /\ UNCHANGED <<dbVars, height, landed, reverted, rooted>>

\* is_already_processed_error: the ledger has these bytes.
SendAlreadyProcessed(w) ==
    /\ pc[w] = "broadcast"
    /\ Alive(job[w].tx) /\ job[w].tx \in Processed
    /\ Goto(w, "mark_accepted")
    /\ UNCHANGED <<job, dbVars, chainVars>>

\* classify_settlement_error = Rejected: a program error in the RPC's preflight.
SendRejected(w) ==
    /\ Sendable(w) /\ Faulty
    /\ Goto(w, "hold_from_in_flight")
    /\ UNCHANGED <<job, dbVars, chainVars>>

\* Transient without a fault: an expired blockhash, or bytes no RPC ever accepts.
SendRefused(w) ==
    /\ pc[w] = "broadcast"
    /\ ~Alive(job[w].tx) \/ job[w].channel \in Unsendable
    /\ Done(w)
    /\ UNCHANGED <<dbVars, chainVars>>

\* Any early return on an RPC or database error, an insufficient balance, a
\* missing signing key, or the death of the process: the snapshot is forgotten.
Abandon(w) ==
    /\ pc[w] # "idle" /\ Faulty
    /\ Done(w)
    /\ UNCHANGED <<dbVars, chainVars>>

-----------------------------------------------------------------------------
(* Environment: the cluster                                                 *)

ReadsStraddleExpiry ==
    \E w \in Workers : /\ pc[w] = "block_height"
                       /\ height = LastValidBlockHeight(job[w].tx)

AdvanceHeight ==
    /\ height < MaxHeight
    /\ ExpiryNeverBetweenReads => ~ReadsStraddleExpiry
    /\ height' = height + 1
    /\ pool' = {t \in pool : height + 1 <= LastValidBlockHeight(t)}
    /\ UNCHANGED <<dbVars, pc, job, landed, reverted, rooted>>

Land(t) ==
    /\ t \in pool
    /\ pool' = pool \ {t}
    /\ landed' = landed \cup {t}
    /\ UNCHANGED <<dbVars, pc, job, height, reverted, rooted>>

LandWithError(t) ==
    /\ t \in pool /\ Faulty
    /\ pool' = pool \ {t}
    /\ reverted' = reverted \cup {t}
    /\ UNCHANGED <<dbVars, pc, job, height, landed, rooted>>

Root(t) ==
    /\ t \in landed \ rooted
    /\ rooted' = rooted \cup {t}
    /\ UNCHANGED <<dbVars, pc, job, height, pool, landed, reverted>>

\* 24 hours after its first broadcast a row leaves the cap's window.
LeaveWindow(c) ==
    /\ refunds[c].first_broadcast = "recent"
    /\ refunds' = [refunds EXCEPT ![c].first_broadcast = "old"]
    /\ UNCHANGED <<channels, pc, job, chainVars>>

(* Environment: the operator, following hold_refund's runbook.  The history *)
(* search and the UPDATE are one step.                                      *)

Rearm(c) ==
    /\ refunds[c].status = "held"
    /\ refunds[c].tx \notin landed
    /\ RearmAfterExpiry /\ refunds[c].tx # None => ~Landable(refunds[c].tx)
    /\ refunds' = [refunds EXCEPT ![c].status = "reserved"]
    /\ UNCHANGED <<channels, pc, job, chainVars>>

Reinstate(c) ==
    /\ refunds[c].status = "held"
    /\ refunds[c].tx \in landed
    /\ refunds' = [refunds EXCEPT ![c].status = "in_flight"]
    /\ UNCHANGED <<channels, pc, job, chainVars>>

-----------------------------------------------------------------------------

\* A worker's own steps once it has taken up a row, faults aside.
WorkerStep(w) ==
    \/ CompleteZeroAmount(w)
    \/ SignReserved(w)
    \/ ClaimRefundForBroadcast(w)
    \/ ReadSignatureStatus(w)
    \/ ReadBlockHeight(w)
    \/ SignAgain(w)
    \/ ResignRefund(w)
    \/ ConfirmLanded(w)
    \/ HoldRefund(w)
    \/ MarkBroadcastAccepted(w)
    \/ SendAccepted(w)
    \/ SendAlreadyProcessed(w)
    \/ SendRefused(w)

Next ==
    \/ \E w \in Workers, c \in Channels : FetchReserved(w, c) \/ FetchInFlight(w, c)
    \/ \E w \in Workers : WorkerStep(w)
    \/ \E w \in Workers : SendAcceptedAnswerLost(w) \/ SendRejected(w) \/ Abandon(w)
    \/ AdvanceHeight
    \/ \E t \in Transactions : Land(t) \/ LandWithError(t) \/ Root(t)
    \/ \E c \in Channels : LeaveWindow(c) \/ Rearm(c) \/ Reinstate(c)

Spec == Init /\ [][Next]_vars

\* The interval tick sweeps every due row, a handler runs to its end, the
\* cluster executes and roots what it holds, and a held row alerts on every
\* sweep until the operator acts.
Fairness ==
    /\ \A w \in Workers : WF_vars(WorkerStep(w))
    /\ \A w \in Workers, c \in Channels :
          SF_vars(FetchReserved(w, c)) /\ SF_vars(FetchInFlight(w, c))
    /\ SF_vars(AdvanceHeight)
    /\ \A t \in Transactions : WF_vars(Land(t)) /\ WF_vars(Root(t))
    /\ \A c \in Channels : /\ WF_vars(LeaveWindow(c))
                           /\ WF_vars(Rearm(c))
                           /\ WF_vars(Reinstate(c))

FairSpec == Spec /\ Fairness

-----------------------------------------------------------------------------
(* Properties *)

Owing == {c \in Channels : Amount[c] > 0}

\* The double refund every predicate of the module is there to prevent: no
\* obligation is ever paid by two executed transfers, whatever the interleaving
\* of instances, stale snapshots, crashes, lost answers and re-arms.
AtMostOneTransfer ==
    \A t, u \in landed : \A c \in Channels : PaysFor(t, c) /\ PaysFor(u, c) => t = u

\* #743: a confirmed refund (and so a closed channel) has its own executed
\* transfer, of the frozen amount to the frozen wallet; no two confirmed
\* obligations ever share one.
ConfirmedMeansPaid ==
    \A c \in Owing : refunds[c].status = "confirmed" =>
        /\ channels[c] = "closed"
        /\ \E t \in landed : /\ t.dest = Wallet[c] /\ t.amount = Amount[c]
                             /\ t = refunds[c].tx
        /\ \A d \in Owing \ {c} :
              refunds[d].status = "confirmed" => refunds[d].tx # refunds[c].tx

\* A transaction the cluster can still execute is always the one its row
\* records, in a row nobody may claim afresh: no orphan is ever left in flight.
NoOrphanInFlight ==
    \A t \in pool : \A c \in Channels :
        PaysFor(t, c) => refunds[c].tx = t /\ refunds[c].status # "reserved"

\* "re-signing happens ONLY after conclusive death ... AND only when the dying
\* signature was accepted": when a row's recorded transaction is replaced, the
\* old one has not landed and cannot land any more, and a row that stays in
\* flight across the replacement is never one that no RPC accepts.
ReplacedOnlyWhenDead ==
    [][\A c \in Channels :
          refunds[c].tx # None /\ refunds'[c].tx # refunds[c].tx =>
              /\ refunds[c].tx \notin landed
              /\ ~Landable(refunds[c].tx)
              /\ refunds[c].status = "in_flight" => c \notin Unsendable]_vars

\* Owed money keeps moving: every obligation with a sound tuple is confirmed and
\* its channel closed, once faults cease.
EveryRefundCompletes ==
    \A c \in Channels \ (Corrupt \cup Unsendable) : <>[](channels[c] = "closed")

\* The worker implements the abstract obligation.
Obligation == INSTANCE RefundObligation WITH
    transfers <- [c \in Channels |-> {t \in landed : PaysFor(t, c)}],
    discharged <- {c \in Channels : refunds[c].status = "confirmed"}

ImplementsObligation == Obligation!Spec

-----------------------------------------------------------------------------
(* The inductive invariant behind AtMostOneTransfer                         *)

\* The steps at which a worker carries a transaction its row records or recorded.
RowTxSteps ==
    {"broadcast", "mark_accepted", "signature_status", "block_height", "sign_again",
     "resign", "confirm", "hold_from_in_flight", "hold_never_accepted"}

IsTransferFor(t, c) == t \in Transactions /\ PaysFor(t, c)

RowShape ==
    \A c \in Channels : refunds[c].tx # None =>
        IsTransferFor(refunds[c].tx, c) /\ Amount[c] > 0

JobShape(l, j) ==
    /\ l # "idle" => j.channel \in Channels
    /\ l = "zero_amount" => Amount[j.channel] = 0
    /\ l \notin {"idle", "zero_amount"} => Amount[j.channel] > 0
    /\ l \in RowTxSteps \cup {"claim"} => IsTransferFor(j.tx, j.channel)
    /\ l = "resign" => IsTransferFor(j.fresh, j.channel)

LandedIsRecorded ==
    \A t \in landed : \A c \in Channels :
        PaysFor(t, c) => refunds[c].tx = t /\ refunds[c].status # "reserved"

PoolIsLandable == \A t \in pool : Landable(t)

\* A snapshot may be stale, but never about a transaction that can still land.
StaleMeansDead(l, j) ==
    l \in RowTxSteps /\ Landable(j.tx) =>
        refunds[j.channel].tx = j.tx /\ refunds[j.channel].status # "reserved"

\* What a worker concluded from its reads is still so when it acts on it.
ConclusionsHold(l, j) ==
    /\ l \in {"sign_again", "resign"} => ~Alive(j.tx)
    /\ l \in {"block_height", "sign_again", "resign"} /\ ~Alive(j.tx) => j.tx \notin landed
    /\ l = "confirm" => j.tx \in landed

WorkersSound ==
    \A w \in Workers : /\ JobShape(pc[w], job[w])
                       /\ StaleMeansDead(pc[w], job[w])
                       /\ ConclusionsHold(pc[w], job[w])

ConfirmedIsRecorded ==
    \A c \in Owing : refunds[c].status = "confirmed" =>
        channels[c] = "closed" /\ refunds[c].tx \in landed

\* What the compare-and-swap predicates keep true together: every transaction
\* that has landed or can still land is its row's recorded one, and whatever a
\* worker concluded from its two reads stays true until it acts on it.
IInv ==
    /\ TypeOK
    /\ RowShape
    /\ LandedIsRecorded
    /\ NoOrphanInFlight
    /\ PoolIsLandable
    /\ WorkersSound
    /\ ConfirmedIsRecorded

=============================================================================
