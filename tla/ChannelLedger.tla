--------------------------- MODULE ChannelLedger ---------------------------
(***************************************************************************)
(* One prepaid channel: draws paid by cumulative vouchers and cooperative   *)
(* closes, over the Postgres row and the Redis draw lock they share         *)
(* (crates/gateway/src/channels.rs, routes/chat/channel_draw.rs,            *)
(* routes/search.rs, routes/price.rs, a2a/channel_leg.rs,                   *)
(* routes/channel.rs, cache/mod.rs, x402/src/channel.rs).                   *)
(*                                                                         *)
(* A draw is a process that runs once, a close one that is posted again and *)
(* again.  Every await that reaches Redis, Postgres or a provider is a      *)
(* step; a handler may be dropped or its process may die at each of them.   *)
(***************************************************************************)
EXTENDS Integers, FiniteSetsExt

CONSTANTS
    Draws,          \* requests paid by a voucher
    Surface,        \* Surface[d]: how its handler draws, one of Surfaces
    Closers,        \* POST /v1/channel/close requests
    Quote,          \* Quote[d]: billed_atomic, the quote the voucher must sign
    Deposit,        \* deposited_atomic
    LockOutlivesDraw, \* the 900s TTL never expires under a running handler
    CommitOutlivesHandler, \* a COMMIT on the wire may land after its handler is gone
    MaxFaults,      \* bound: faults in a behaviour
    None

Requests == Draws \cup Closers

\* All four take the same steps.  Chat charges the usage, the others their price;
\* chat and a task hold the lock in a guard that releases it when it is dropped.
ChatDraw == [flat |-> FALSE, guarded |-> TRUE]
SearchDraw == [flat |-> TRUE, guarded |-> FALSE]
PriceDraw == SearchDraw
TaskDraw == [flat |-> TRUE, guarded |-> TRUE]
Surfaces == {ChatDraw, SearchDraw, PriceDraw, TaskDraw}

ASSUME LedgerConstants ==
    /\ Draws \cap Closers = {}
    /\ Quote \in [Draws -> Nat \ {0}]
    /\ Surface \in [Draws -> Surfaces]
    /\ Deposit \in Nat
    /\ MaxFaults \in Nat
    /\ LockOutlivesDraw \in BOOLEAN /\ CommitOutlivesHandler \in BOOLEAN
    /\ None \notin Requests \cup Nat

VARIABLES
    status,     \* channels.status
    last,       \* channels.last_voucher_cumulative_atomic
    realized,   \* channels.realized_atomic
    debited,    \* draws with a channel_vouchers row
    refund,     \* channel_refunds.amount_atomic, or None
    lock,       \* the draw lock's token (a request stands for its own), or None
    pc,
    voucher,    \* voucher[d]: the signed cumulative_atomic
    advance,    \* advance[d]: realized_advance
    outcome,    \* outcome[d]: why a served draw was or was not charged
    receipts,   \* draws whose spend and receipt rows were written
    committing, \* draws whose handler is gone while their COMMIT is on the wire
    faults

dbVars == <<status, last, realized, debited, refund>>
handlerVars == <<voucher, advance, outcome, receipts>>
vars == <<status, last, realized, debited, refund, lock, pc, voucher, advance,
          outcome, receipts, committing, faults>>

Step == {"idle", "load", "serve", "recheck", "persist", "record", "close",
         "release", "detached", "done"}

\* Steps a request takes under the lock.
Locked == {"load", "serve", "recheck", "persist", "record", "close", "release"}

TypeOK ==
    /\ status \in {"open", "closing", "closed"}
    /\ last \in Nat /\ realized \in Nat
    /\ debited \subseteq Draws
    /\ refund \in Nat \cup {None}
    /\ lock \in Requests \cup {None}
    /\ pc \in [Requests -> Step]
    /\ voucher \in [Draws -> Nat] /\ advance \in [Draws -> Nat]
    /\ outcome \in [Draws -> {"none", "charged", "lock_lost", "not_applied", "db_error"}]
    /\ receipts \subseteq Draws
    /\ committing \subseteq Draws
    /\ faults \in 0 .. MaxFaults

\* The row as create_channel inserts it.
Init ==
    /\ status = "open" /\ last = 0 /\ realized = 0
    /\ debited = {} /\ refund = None
    /\ lock = None
    /\ pc = [p \in Requests |-> "idle"]
    /\ voucher = [d \in Draws |-> 0] /\ advance = [d \in Draws |-> 0]
    /\ outcome = [d \in Draws |-> "none"]
    /\ receipts = {} /\ committing = {}
    /\ faults = 0

Goto(p, l) == pc' = [pc EXCEPT ![p] = l]

Fault == faults < MaxFaults /\ faults' = faults + 1

-----------------------------------------------------------------------------
(* The draw lock: SET NX EX, compare-and-delete, GET                         *)

AcquireChannelDrawLock(p) == lock = None /\ lock' = p

\* Mutant: the pre-token release, a plain DEL.
ReleasePlainDel(p) == lock' = None

ReleaseChannelDrawLock(p) == lock' = IF lock = p THEN None ELSE lock

ChannelDrawLockHeld(p) == lock = p

-----------------------------------------------------------------------------
(* A draw                                                                   *)

\* A busy lock answers 503 and changes nothing, so it is no step.
AcquireForDraw(d) ==
    /\ pc[d] = "idle"
    /\ AcquireChannelDrawLock(d)
    /\ \E c \in 1 .. Deposit + 1 : voucher' = [voucher EXCEPT ![d] = c]
    /\ Goto(d, "load")
    /\ UNCHANGED <<dbVars, advance, outcome, receipts, committing, faults>>

\* Mutant: the voucher may pay more than the quote.
VerifyVoucherAtLeast(cumulative, billed) ==
    /\ cumulative - last >= billed
    /\ cumulative <= Deposit

\* Draw rules of verify_voucher; settled_atomic never leaves zero.
VerifyVoucher(cumulative, billed) ==
    /\ cumulative >= last
    /\ cumulative - last = billed
    /\ cumulative <= Deposit

\* load_open_channel_state, and the verification of what it read.
LoadAndVerify(d) ==
    /\ pc[d] = "load"
    /\ Goto(d, IF status = "open" /\ VerifyVoucher(voucher[d], Quote[d])
               THEN "serve" ELSE "release")
    /\ UNCHANGED <<dbVars, lock, handlerVars, committing, faults>>

\* Refused before the serve (tenant gate, signature, digest, expiry, failed load),
\* or the provider fails or exceeds the serve timeout: a total non-charge.
NonCharge(d) ==
    /\ pc[d] \in {"load", "serve"}
    /\ Goto(d, "release")
    /\ UNCHANGED <<dbVars, lock, handlerVars, committing, faults>>

RealizedAdvance(actual, billed) == IF actual <= billed THEN actual ELSE billed

\* The provider answers; the priced usage may exceed the quote.
Serve(d) ==
    /\ pc[d] = "serve"
    /\ \E actual \in IF Surface[d].flat THEN {Quote[d]} ELSE 0 .. Quote[d] + 1 :
          advance' = [advance EXCEPT ![d] = RealizedAdvance(actual, Quote[d])]
    /\ Goto(d, "recheck")
    /\ UNCHANGED <<dbVars, lock, voucher, outcome, receipts, committing, faults>>

DeliverUncharged(d, why) ==
    /\ outcome' = [outcome EXCEPT ![d] = why]
    /\ Goto(d, "release")

RecheckLock(d) ==
    /\ pc[d] = "recheck"
    /\ IF ChannelDrawLockHeld(d)
       THEN Goto(d, "persist") /\ UNCHANGED outcome
       ELSE DeliverUncharged(d, "lock_lost")
    /\ UNCHANGED <<dbVars, lock, voucher, advance, receipts, committing, faults>>

\* A Redis error is inconclusive: proceed.
RecheckFails(d) ==
    /\ pc[d] = "recheck" /\ Fault
    /\ Goto(d, "persist")
    /\ UNCHANGED <<dbVars, lock, handlerVars, committing>>

\* Mutant: the advance is not predicated on status = 'open'.
AdvanceAppliesWhenClosed(d) ==
    /\ last < voucher[d]
    /\ \A e \in debited : voucher[e] # voucher[d]
    /\ realized + advance[d] <= voucher[d]
    /\ voucher[d] <= Deposit

\* Mutant: the advance is not predicated on a strictly larger cumulative.
AdvanceAppliesBackwards(d) ==
    /\ status = "open"
    /\ \A e \in debited : voucher[e] # voucher[d]
    /\ realized + advance[d] <= voucher[d]
    /\ voucher[d] <= Deposit

\* UNIQUE (channel_id, cumulative), the UPDATE's predicate and the row's CHECKs.
AdvanceApplies(d) ==
    /\ status = "open"
    /\ last < voucher[d]
    /\ \A e \in debited : voucher[e] # voucher[d]
    /\ realized + advance[d] <= voucher[d]
    /\ voucher[d] <= Deposit

\* persist_voucher_and_advance: voucher row and advance commit together.
PersistVoucherAndAdvance(d) ==
    IF AdvanceApplies(d)
    THEN /\ last' = voucher[d]
         /\ realized' = realized + advance[d]
         /\ debited' = debited \cup {d}
         /\ UNCHANGED <<status, refund>>
    ELSE UNCHANGED dbVars

Persist(d) ==
    /\ pc[d] = "persist"
    /\ PersistVoucherAndAdvance(d)
    /\ IF AdvanceApplies(d)
       THEN Goto(d, "record") /\ UNCHANGED outcome
       ELSE DeliverUncharged(d, "not_applied")
    /\ UNCHANGED <<lock, voucher, advance, receipts, committing, faults>>

\* A database error; the COMMIT may have been executed all the same.
PersistFails(d) ==
    /\ pc[d] = "persist" /\ Fault
    /\ PersistVoucherAndAdvance(d) \/ UNCHANGED dbVars
    /\ DeliverUncharged(d, "db_error")
    /\ UNCHANGED <<lock, voucher, advance, receipts, committing>>

\* Mutant: the receipt is written whatever became of the persist.
RecordEarly(d) ==
    /\ pc[d] \in {"persist", "record"}
    /\ outcome' = [outcome EXCEPT ![d] = "charged"]
    /\ receipts' = receipts \cup {d}
    /\ Goto(d, "release")
    /\ UNCHANGED <<dbVars, lock, voucher, advance, committing, faults>>

\* log_spend and record_receipt.
Record(d) ==
    /\ pc[d] = "record"
    /\ outcome' = [outcome EXCEPT ![d] = "charged"]
    /\ receipts' = receipts \cup {d}
    /\ Goto(d, "release")
    /\ UNCHANGED <<dbVars, lock, voucher, advance, committing, faults>>

\* Both writes are fire-and-forget.
RecordFails(d) ==
    /\ pc[d] = "record" /\ Fault
    /\ outcome' = [outcome EXCEPT ![d] = "charged"]
    /\ Goto(d, "release")
    /\ UNCHANGED <<dbVars, lock, voucher, advance, receipts, committing>>

-----------------------------------------------------------------------------
(* A close                                                                  *)

\* Mutant: the close does not take the draw lock.
CloseWithoutLock(c) ==
    /\ pc[c] = "idle"
    /\ UNCHANGED lock
    /\ Goto(c, "close")
    /\ UNCHANGED <<dbVars, handlerVars, committing, faults>>

\* The row it loads first serves only to authorize the close: a busy lock is 503.
AcquireForClose(c) ==
    /\ pc[c] = "idle"
    /\ AcquireChannelDrawLock(c)
    /\ Goto(c, "close")
    /\ UNCHANGED <<dbVars, handlerVars, committing, faults>>

\* Mutant: the operands of the subtraction are swapped.
RefundableSwapped == realized - Deposit

\* Mutant: deposited - last, which strands the quote-vs-actual gap.
RefundableFromLast == Deposit - last

ComputeRefundable == Deposit - realized

\* close_channel_and_reserve_refund: flip, read and reserve in one transaction.
CloseChannelAndReserveRefund(c) ==
    /\ pc[c] = "close"
    /\ status' = IF status = "open" THEN "closing" ELSE status
    /\ refund' = IF refund = None THEN ComputeRefundable ELSE refund
    /\ Goto(c, "release")
    /\ UNCHANGED <<last, realized, debited, lock, handlerVars, committing, faults>>

CloseFails(c) ==
    /\ pc[c] = "close" /\ Fault
    /\ Goto(c, "release")
    /\ UNCHANGED <<dbVars, lock, handlerVars, committing>>

\* What confirm_refund_and_close_channel does to this row.
RefundConfirmed ==
    /\ status = "closing"
    /\ status' = "closed"
    /\ UNCHANGED <<last, realized, debited, refund, lock, pc, handlerVars, committing, faults>>

-----------------------------------------------------------------------------
(* Release, cancellation, crash, expiry                                     *)

\* A draw is over; the client posts the close again, its way to poll the refund.
Released(p) == IF p \in Draws THEN "done" ELSE "idle"

Release(p) ==
    /\ pc[p] = "release"
    /\ ReleaseChannelDrawLock(p)
    /\ Goto(p, Released(p))
    /\ UNCHANGED <<dbVars, handlerVars, committing, faults>>

\* What is left of a handler that is dropped: its guard, where it has one.
Dropped(p) ==
    IF p \notin Draws THEN "idle" ELSE IF Surface[p].guarded THEN "detached" ELSE "done"

\* No answer within LOCK_RELEASE_TIMEOUT_SECS: a guard tries once more when it is
\* dropped, the others leave the lock to its TTL.
ReleaseTimesOut(p) ==
    /\ pc[p] = "release" /\ Fault
    /\ ReleaseChannelDrawLock(p) \/ UNCHANGED lock
    /\ Goto(p, Dropped(p))
    /\ UNCHANGED <<dbVars, handlerVars, committing>>

\* ChannelDrawLockGuard::drop, a spawned task.
DetachedRelease(d) ==
    /\ pc[d] = "detached"
    /\ ReleaseChannelDrawLock(d)
    /\ Goto(d, "done")
    /\ UNCHANGED <<dbVars, handlerVars, committing, faults>>

\* The SET was executed and its answer lost: nobody will release this lock.
AcquireAnswerLost(d) ==
    /\ pc[d] = "idle" /\ Fault
    /\ AcquireChannelDrawLock(d)
    /\ Goto(d, "done")
    /\ UNCHANGED <<dbVars, handlerVars, committing>>

\* The handler's future is dropped (client disconnect, panic) or its process dies.
InterruptDraw(d) ==
    /\ pc[d] \in (Locked \cup {"detached"}) /\ Fault
    /\ \/ pc[d] # "detached" /\ Goto(d, Dropped(d))
       \/ Goto(d, "done")
    /\ \/ UNCHANGED committing
       \/ /\ pc[d] = "persist" /\ CommitOutlivesHandler
          /\ committing' = committing \cup {d}
    /\ UNCHANGED <<dbVars, lock, handlerVars>>

CommitLands(d) ==
    /\ d \in committing
    /\ PersistVoucherAndAdvance(d)
    /\ committing' = committing \ {d}
    /\ UNCHANGED <<lock, pc, handlerVars, faults>>

\* The close holds its lock in a local, not in a guard: nothing releases it, and
\* the client posts the close again.
InterruptClose(c) ==
    /\ pc[c] \in {"close", "release"} /\ Fault
    /\ Goto(c, "idle")
    /\ UNCHANGED <<dbVars, lock, handlerVars, committing>>

\* Mutant: the lock is set without EX.
NeverExpires == lock # None /\ FALSE /\ UNCHANGED vars

\* CHANNEL_DRAW_LOCK_TTL_SECS after the acquire.
ExpireLock ==
    /\ lock # None
    /\ LockOutlivesDraw => pc[lock] \notin Locked
    /\ lock' = None
    /\ UNCHANGED <<dbVars, pc, handlerVars, committing, faults>>

-----------------------------------------------------------------------------

DrawStep(d) ==
    \/ LoadAndVerify(d) \/ NonCharge(d) \/ Serve(d) \/ RecheckLock(d)
    \/ Persist(d) \/ Record(d) \/ Release(d) \/ DetachedRelease(d)

CloseStep(c) ==
    AcquireForClose(c) \/ CloseChannelAndReserveRefund(c) \/ Release(c)

DrawFault(d) ==
    \/ AcquireAnswerLost(d) \/ RecheckFails(d) \/ PersistFails(d) \/ RecordFails(d)
    \/ ReleaseTimesOut(d) \/ InterruptDraw(d)

CloseFault(c) == CloseFails(c) \/ ReleaseTimesOut(c) \/ InterruptClose(c)

Next ==
    \/ \E d \in Draws : AcquireForDraw(d) \/ DrawStep(d) \/ DrawFault(d) \/ CommitLands(d)
    \/ \E c \in Closers : CloseStep(c) \/ CloseFault(c)
    \/ RefundConfirmed
    \/ ExpireLock

Spec == Init /\ [][Next]_vars

\* A handler runs to its end (the serve is bounded by a timeout), a TTL runs out,
\* and the client posts a refused close again (Retry-After).
Fairness ==
    /\ \A d \in Draws : WF_vars(DrawStep(d))
    /\ \A c \in Closers : WF_vars(CloseStep(c))
    /\ WF_vars(ExpireLock)

FairSpec == Spec /\ Fairness

-----------------------------------------------------------------------------
(* Properties *)

\* The ledger reconciles whatever the lock did: the obligation is what the
\* persisted draws realized, never more than the highest voucher the agent
\* signed, never more than the deposit, and no cumulative is debited twice.
LedgerReconciles ==
    /\ realized = MapThenSumSet(LAMBDA d : advance[d], debited)
    /\ realized <= last /\ last <= Deposit
    /\ \A d \in debited : voucher[d] <= last
    /\ \A d, e \in debited : d # e => voucher[d] # voucher[e]

\* Invariant 11: once a refund amount is frozen it stays exactly what was never
\* realized; no draw that was already being served can invalidate it.
FrozenRefundExact ==
    /\ refund # None => status # "open" /\ refund + realized = Deposit
    /\ status # "open" => refund # None

\* "a positive spend/receipt exists IFF last advanced", from right to left: a
\* receipt is only ever written for a draw that the ledger debited.
ReceiptMeansDebit == receipts \subseteq debited

\* The concurrent same-base-voucher guard: two requests are never between load
\* and release together, and a late release never deletes a successor's lock.
OneRequestAtATime ==
    \A p, q \in Requests : pc[p] \in Locked /\ pc[q] \in Locked => p = q

\* The grief loop of invariant 11: with a lock that outlives its holder, no
\* draw that was served is delivered without a charge except on a database error,
\* neither by racing a close or another draw nor because of its actual cost.
NothingServedFree ==
    \A d \in Draws : outcome[d] \notin {"lock_lost", "not_applied"}

\* VoucherRecord: "This call's cost = cumulative - prev_cumulative", so the
\* audit log's costs add up to the channel's cumulative.
CostIsAdvance ==
    [][\A d \in Draws : d \in debited' \ debited => last' - last = Quote[d]]_vars

\* A cooperative close goes through in the end, whatever holder of the lock
\* crashed, timed out or was cancelled.
CloseCompletes == <>(status # "open")

\* The ledger implements the account it keeps for the depositor.
Account == INSTANCE ChannelAccount WITH
    spent <- realized, owed <- refund, settled <- (status = "closed")

ImplementsAccount == Account!Spec

-----------------------------------------------------------------------------
(* Inductive invariants *)

\* A draw is debited at its persist or after its handler has gone.
Persisted == {"record", "release", "detached", "done"}

\* What the database alone guarantees, lock or no lock.
LedgerInv ==
    /\ TypeOK
    /\ realized <= last /\ last <= Deposit
    /\ FrozenRefundExact
    /\ ReceiptMeansDebit
    /\ \A d \in debited \cup committing : pc[d] \in Persisted
    /\ \A d \in debited : voucher[d] <= last
    /\ \A d \in Draws : pc[d] = "record" => d \in debited
    /\ \A d \in Draws : pc[d] # "close"

\* What the voucher was verified against is still the row when it is persisted.
SnapshotCurrent(d) ==
    /\ pc[d] \in {"serve", "recheck", "persist"} =>
          /\ status = "open"
          /\ voucher[d] = last + Quote[d] /\ voucher[d] <= Deposit
    /\ pc[d] \in {"recheck", "persist"} => advance[d] <= Quote[d]

\* What a lock that outlives its holder adds to it: only the holder runs, and
\* the row does not move under a verified voucher.
LockInv ==
    /\ LedgerInv
    /\ committing = {}
    /\ \A p \in Requests : pc[p] \in Locked => lock = p
    /\ \A d \in Draws : SnapshotCurrent(d)
    /\ NothingServedFree

=============================================================================
