# Solvela payment paths: TLA+ models, model checks and proofs

Solvela is a payment gateway for AI agents: an HTTP service in Rust that takes USDC on
Solana for every call it proxies to a model provider.  This directory holds TLA+ models
of the parts of the gateway where money can be lost, paid twice or stranded, the TLC
configurations that check them on small instances, and TLAPS proofs of the results that
matter most for instances of every size.

## 1. Inventory

Paths are relative to `src/`; `gateway` is `crates/gateway/src`, `x402` is `crates/x402/src`.

| Component | Source | State it keeps | Operations |
|---|---|---|---|
| Channel open | `gateway/routes/channel.rs` (`open`), `x402/solana.rs`, `x402/solana_rpc.rs`, `gateway/channels.rs` (`create_channel`) | `channels` rows, unique `funding_tx_sig` | verify the funding transfer, broadcast and confirm it, insert the row |
| Channel draw | `gateway/routes/chat/channel_draw.rs`, `x402/channel.rs`, `gateway/channels.rs` | `last_voucher_cumulative`, `realized`, `channel_vouchers`, spend and receipt rows | lock, load, verify the voucher, serve, re-check the lock, persist, record, release |
| Draw lock | `gateway/cache/mod.rs` | one Redis key per channel: the holder's token, TTL 900 s | `SET NX EX`, compare-and-delete, `GET` |
| Channel close | `gateway/routes/channel.rs` (`close`), `gateway/channel_refunds.rs` | `channels.status`, the frozen `channel_refunds` row | lock, flip / read / reserve in one transaction, release |
| Refund worker | `gateway/channel_refunds.rs` | `channel_refunds`: status, signed bytes, signature, attempts, accepted marker, cap anchor | sweep; claim, broadcast, confirm, re-sign, hold, mark accepted; operator re-arm |
| Draws of search, price and tasks | `gateway/routes/search.rs`, `routes/price.rs`, `a2a/channel_leg.rs` | as the chat draw | the same lock and persist around other services |
| Escrow program | `programs/escrow/src` | one escrow account and vault per (agent, service id) | deposit, claim, refund after expiry |
| Escrow claims | `x402/escrow/claim_queue.rs`, `claim_processor.rs`, `claimer.rs`, `verifier.rs`, `gateway/routes/escrow_settle.rs` | `escrow_claim_queue` rows, attempts, retry times | enqueue, fetch with `SKIP LOCKED`, submit, complete, retry, recover stale |
| Exact payments | `gateway/routes/chat/mod.rs`, `routes/proxy.rs`, `search.rs`, `price.rs`, `gateway/cache/mod.rs` (`check_and_record_tx`), `gateway/lib.rs` (`ReplaySet`), `x402/facilitator.rs`, `x402/solana.rs` | replay keys in Redis, a fallback set per process, a set per path of a process without Redis | check-and-record, verify, settle, serve, book |
| Budgets and spend | `gateway/usage.rs` | a counter per wallet, team or tenant and hour, day or month; the spend log | reserve under every limit, settle to the cost, give back |
| A2A tasks | `gateway/a2a/handler.rs`, `task_store.rs`, `types.rs`, `channel_leg.rs` | a task record (TTL 600 s) and a settle lock (TTL 120 s) in Redis | create, pay by transfer or voucher, cancel |
| Faucet | `gateway/routes/faucet.rs` | `gas_drips`, one row per wallet | reserve, check, send, record, roll back |
| Provider dispatch | `gateway/providers/health.rs`, `fallback.rs` | a circuit per model and per provider | ask, call, record, try the next candidate |
| Fee payers, nonce accounts | `x402/fee_payer.rs`, `nonce_pool.rs` | health per key, round-robin index | next, mark failed, recover |
| Rate limits | `gateway/middleware/rate_limit.rs` | counters per client | check |
| Router, wire types, CLI, SDKs, dashboard | `crates/router`, `crates/protocol`, `crates/cli`, `sdks`, `dashboard` | none that matters here | scoring, serialisation, clients |

How they interact.  Handlers of several gateway instances share Postgres and Redis and
nothing else; every `await` is a point where another handler, another instance or a crash
can come in between.  A draw and a close of one channel meet at the Redis lock and, when
that fails, at the row's predicates.  A close hands an obligation to the refund worker
through the `channel_refunds` row.  The worker, the open handler and the escrow claimer
meet the Solana cluster, which executes a signature at most once and only while its
blockhash is valid, and which answers late or not at all.  The purchase surfaces, the task
handler and channel open may be presented with the same signed transfer; what keeps it from
paying twice is the replay guard and, behind it, the cluster.  Chat reserves and logs spend in
the counters that the other surfaces only log in.  The two legs that pay a task meet at its
settle lock and at its record.

What is hard.  Stale snapshots behind compare-and-swap updates; a transaction that lands
between two reads; answers lost after the effect happened; handlers dropped by a client
disconnect with a COMMIT on the wire; a lock that expires under its holder; an operator
acting between two sweeps; byte-identical transfers that the cluster merges into one; records
that outlive or do not outlive what they guard; a lock released by somebody else's late
release; read and write of a record in two round trips; a budget period that ends between
reservation and bill.
`PROJECT.json` lists these under `hazards`, each at its line, with the properties that
would catch it.

## 2. Modules

| Module | What it is |
|---|---|
| `RefundObligation` | abstract: an obligation is paid by at most one transfer and discharged only once paid |
| `RefundWorker` | the worker, its table, the operator and the cluster |
| `MCRefundWorker` | instances of it |
| `RefundWorkerProofs` | theorems about it |
| `ChannelAccount` | abstract: what a channel promises its depositor |
| `ChannelLedger` | one channel's row, draws, closes and the lock |
| `MCChannelLedger`, `ChannelLedgerProofs` | instances and theorems |
| `ChannelOpen` | the open handler over shared funding transactions |
| `MCChannelOpen` | an instance of it |
| `EscrowProgram` | the on-chain program: deposit, claim, refund, the slot clock |
| `EscrowClaims` | composes it with the claim queue, the processors and the claimer |
| `MCEscrowClaims`, `EscrowProofs` | instances and theorems |
| `Budgets` | the spending counters |
| `ExactPayments` | extends `ChannelOpen` and `Budgets`: purchases of chat, proxy, search and price |
| `A2ATasks` | extends `ExactPayments`: tasks, their lock and both ways to pay them |
| `Faucet`, `FaucetProofs` | the gas faucet, theorems about it |
| `Gateway` | the composition of `A2ATasks` and `Faucet`: all payment surfaces |
| `MCGateway` | instances of it |
| `PaymentsProofs` | theorems about open, purchases and their composition |
| `TasksProofs`, `BudgetProofs` | extend it: theorems about tasks, about the counters |
| `FiniteSums` | lemmas about sums over finite sets, for the ledger's and the counters' proofs |
| `ProviderBreaker`, `MCProviderBreaker` | the circuit breakers behind provider dispatch, an instance |

### RefundWorker

`refunds[c]` is the row: status, the recorded transaction (`tx_signature`, `signed_tx` and
`last_valid_block_height` in one value, since a signature commits to the bytes), attempts,
the accepted marker, and whether `first_broadcast_at` is unset, inside or outside the 24h
window.  A transaction is the record of its contents (memo, wallet, amount, blockhash), so
two equal contents are one transaction: this is what makes the memo of issue 743 matter.
`job[w]` is the snapshot a worker computes from, `pc[w]` the statement it is about to run.
Each database statement or transaction and each RPC call is one action; everything between
two of them is folded into the second.  `Abandon` stands for every early return on an RPC
or database error, an insufficient balance, a missing key and the death of the process: all
of them forget the snapshot and leave the row.

The cluster is environment: heights advance, a transaction in `pool` may execute with or
without error, may get rooted, or expires.  The operator follows `hold_refund`'s runbook:
`Rearm` when the recorded transaction has not landed, `Reinstate` when it has.

Two facts the code needs are parameters, so that both sides are explored.
`ExpiryNeverBetweenReads`: the height does not pass a transaction's last valid block
between a worker's status read and its height read.  `RearmAfterExpiry`: the operator
re-arms only what can no longer land.  With both, the worker is proved safe; without
either one TLC finds a double refund (section 5).

A sweep fetches a batch and handles it row by row; the model lets a worker take up any row
at any time, which has the same effect on one row as a stale batch.  The backoff clock and
the batch limit are therefore not modelled.

### ChannelLedger

The variables are the columns of the `channels` row (`status`, `last`, `realized`), the
draws that have a voucher row (`debited`), the frozen refund, the lock's token, and per
request what its handler holds.  A draw signs any cumulative up to one more than the
deposit and its actual cost may exceed its quote, so rejections and the clamp both happen.
`AdvanceApplies` is the UPDATE's predicate together with the unique index and the CHECK
constraints of migrations 015 and 017.  A handler may be dropped at every await
(`InterruptDraw`: then its guard's `Drop` spawns a release, or the process dies and there
is none), a close too (`InterruptClose`: it has no guard), a release may time out, a COMMIT
may be executed although its answer is lost (`PersistFails`) or although its handler is gone
(`CommitLands`), and the lock may expire (`ExpireLock`).

`LockOutlivesDraw` says that the 900 s TTL does not expire under a running handler, which
the 650 s serve timeout is there to ensure; `CommitOutlivesHandler` says that a COMMIT on
the wire may land after its handler is gone.  The database-only results hold without the
first and with the second; the lock results need the first and not the second.

`Surface[d]` says whose draw it is.  The draws of search, price and the task leg take the
same steps as chat's; they charge their price and not a usage (`flat`), and those of search
and price hold the lock in a local variable, so that nothing releases it when the handler is
dropped (`guarded`).

`settled_atomic` stays zero because `update_settled` has no caller; the expiry, signature
and digest checks of `verify_voucher` are the nondeterministic `NonCharge`.

### ChannelOpen

`chain[f]` is what became of a funding transaction, `channels[f]` the number of rows
crediting it.  Several requests may present one transaction at the same time or after one
another.  `SettleSend` sends; `ConfirmLanded` and `ConfirmFails` are the confirmation poll,
which may always give up; `Create` is the INSERT with its conflict clause.

### EscrowProgram and EscrowClaims

A service is an (agent, service id) pair, the seeds of the escrow's address.  `escrow[s]`
and `vault[s]` are the two accounts, `provider[s]` and `agent[s]` what was paid out for the
service, `deposited[s]` and `dusted[s]` what came in.  An instruction is atomic on chain, so
`Deposit`, `Claim` and `Refund` are one step each.  `Dust` is a transfer to the vault by
anybody at any time.

`EscrowClaims` adds `queue` (the rows of `escrow_claim_queue`), and per processor the rows
of its batch it has not come to (`batch`), the entry whose outcome it is about to record
(`current`) and its breaker (`tripped`).  `FetchPendingClaims` is the one statement that
selects, locks, marks and counts.  `Fetchable` has no clock: a pending row may be due, and an
`in_progress` row may be stale although its processor is alive, because ten rows with three
requests of up to 30 s each outlast the five minutes.  An attempt is a row and its number, so
two processors on one row are told apart.  A submission passes preflight against the current
state, enters `pool`, and executes later or never; its answer may be lost.  `RecordOutcome`
writes the row whatever its status is by then, as the statements do.  The settle endpoint
enqueues any cost for any service, which also covers a chat claim whose deposit the verifier
could not read; chat claims are otherwise capped by an amount once deposited.

### ExactPayments and Budgets

A request presents a transfer (`Pays`), on a surface (`Path`), to a process (`Host`).  The
transfers, what the cluster does with them and the open handler are those of `ChannelOpen`,
which these modules extend, so an open and a purchase compete for one transfer.  `stage[b]`
is the next step of the handler; each surface has a record that gives the order of its steps
(`ChatSteps`, `ProxySteps`, ...): chat serves before it settles, the others after.
`sent[b]` says what became of its transfer as far as the cluster and the request know:
`taken`, or `disowned` when the request was told that its settlement failed (a lost answer to
the send, a poll that saw nothing) although the cluster has the transfer and may execute it
later.  `paid` is a settlement that was confirmed.
`CheckAndRecord` is the replay guard on one store: the Redis keys, the fallback set of the
process when Redis fails (`GuardWithoutRedis`; `GuardAnswerLost` when the `SET` was executed
all the same; an outage is one fault and may meet several requests), or the set of the path in a process started without Redis.  `Until` is when
the store forgets: the fallback set never does, short of a restart, and its capacity of
10,000 is not modelled.  `Restart` ends the requests that are under way in a process, the writes
it spawned and its own sets; a request that arrives afterwards finds those sets empty.  `Tick`
is the clock.  By `Lifetime` a transfer has landed or never
will, and a replay record outlives it; that relation is the assumption `PaymentConstants`.

`counter[w][e]` is the Redis key of a limit in its period `e`; a wallet that changes its team
is a period that ends.  `hold[b]` is the `committed` list of the reservation.  `Commit` is the
Lua script, `Return` one key of `rollback_committed`, `LogWindow` one key of `log_spend`,
which runs as a spawned task after the answer.  `Book` starts it; `BookSkipped` are the exits of
a settled request whose bill cannot be computed (`chat/mod.rs:1649-1666`, `1716-1733`,
`1752-1766`, `1833-1846`, and the amounts a task's quote does not yield,
`a2a/handler.rs:2080-2205`): no spend row and no receipt, and chat keeps the reservation on
purpose.  A request that is dropped keeps what it reserved until the key expires
(`Disconnect`).  `Cost` and `Estimate` are unrelated: the completion is capped to the quote's,
the prompt only to the model's context window (`cost.rs:140`), so a bill may exceed its
estimate by an `Overage`, and the run has a request for which it does.

### A2ATasks

`task[t]` is the state in the record, `lock[t]` who set the settle lock.  `update_task_state`
is a load and a save in two actions.  A Redis call may fail, executed or not (`...Fails`).
The transfer leg continues with the steps of `ExactPayments` between the `Working` marker and
the terminal write, the channel leg with a serve and a persist; the draw inside the channel
leg is in `ChannelLedger`.  The lock may lapse whenever its holder is in a step without a
bound below 120 s (`Brief`: RPC calls time out after 10 s, the confirmation poll after 30 s, a
provider call has no such bound).  `ServeWithinLock` says that a voucher's serve, which may
take 540 s, ends within those 120 s: with it the run `gateway` passes, without it
`a2a_release` shows a task charged twice.  The lock may lapse in the middle of a transfer's
serve in both.  The settlement is a spawned task, so a disconnect does not stop it, but a
restart does.

`Collected(b)` is a charge as the payer sees it: a confirmed settlement or debit, or a transfer
of this request that the cluster took and that landed, whatever the request was told.  The
properties of tasks are about these, and name the one exception, a disowned transfer.

### Faucet

`gasDrips[w]` is the request whose INSERT made the wallet's row.  `checked[r]` remembers the
day on which a request passed the ceiling and `unanswered` who was told that a send had failed
although the cluster took it: both exist for the properties only.  `DayDrips` counts a drip
that is reserved or that the cluster took, whether its row is still there or not.  A transfer is determined by
wallet and blockhash, which is what "already processed" is about.

### ProviderBreaker

A call goes through its candidates.  For each it asks the circuits its entry point asks, calls
the provider, and records the outcome in the same circuits.  Each question and each record
holds the tracker's lock once.  `cooled` is the elapsed cooldown, `ok` and `failed` the
outcomes in the window.  `slots[c]` remembers whose probe slots a call has taken; the code
has only the flag.

## 3. Runs

| Run | Configuration | Bounds | Properties |
|---|---|---|---|
| `refund_races` | `MCRefundRaces.cfg` | 1 channel, 2 workers, heights 0..4, blockhash life 1, 2 attempts, faults throughout | `TypeOK`, `AtMostOneTransfer`, `NoOrphanInFlight`, `IInv`, `ImplementsObligation` |
| `refund_liveness` | `MCRefundLiveness.cfg` | one wallet: an ordinary, an unsendable, a corrupt and a zero row, 1 worker, cap 1, faults at height 0 | `ConfirmedMeansPaid`, `EveryRefundCompletes`, `ReplacedOnlyWhenDead` |
| `refund_reads` | `MCRefundReads.cfg` | as `refund_races`, reads may straddle the expiry | `AtMostOneTransfer` is violated |
| `refund_rearm` | `MCRefundRearm.cfg` | as `refund_races`, re-arm at any time | `AtMostOneTransfer` is violated |
| `ledger_faults` | `MCLedgerFaults.cfg` | a search draw of 1 and a chat draw of 2, 1 close, deposit 3, 2 faults, lock may expire at any time | `TypeOK`, `LedgerReconciles`, `FrozenRefundExact`, `ReceiptMeansDebit`, `LedgerInv`, `ImplementsAccount` |
| `ledger_orderly` | `MCLedgerOrderly.cfg` | a search, a chat and a task draw, 2 closes, deposit 3, 2 faults | `OneRequestAtATime`, `NothingServedFree`, `LockInv`, `CostIsAdvance`, `CloseCompletes` |
| `open_retry` | `MCOpenRetry.cfg` | 2 requests, 1 fault | `SettledIsCredited` is violated |
| `escrow_claims` | `MCEscrowClaims.cfg` | 2 deposits of 2, 1 row within or beyond the deposit, 2 processors, 2 attempts, 1 dust, 2 faults, slots 0..2 | `TypeOK`, `VaultsBalance`, `PaidOnce`, `AttemptsNumbered`, `EscrowInv`, `EveryRowSettles`, `NoFundsStranded` |
| `escrow_delivery` | `MCEscrowDelivery.cfg` | 1 deposit, 1 row, no fault | `CompletedIsDelivered` is violated |
| `gateway` | `MCGateway.cfg` | ten scenarios, below; 1 fault of the payments and 1 of the faucet, replay records and blockhashes of 2 ticks, 2 periods, 2 days, 2 blockhashes | `GatewayTypeOK`, `CreditedMeansLanded`, `TransferBuysOnce`, `BookedMeansLanded`, `TaskPaidOnce`, `ChargedIsNotPayable`, `OneSettler`, `TerminalIsFinal`, `SpendWithinBudget`, `CountersSettle`, `DripOnce`, `DripsWithinCap` |
| `a2a_release` | `MCTaskRelease.cfg` | a task, two transfers and a voucher, no fault, serve longer than the lock | `TaskPaidOnce` is violated |
| `breaker_probe` | `MCProviderBreaker`, `MCBreakerProbe.cfg` | 2 models of one provider, 4 calls, no disconnects | `ProbeIsInFlight` is violated |

The passing runs explore between 40,000 and 750,000 distinct states each and finish in less
than four minutes.

A behaviour of `gateway` is about one of the scenarios in `MCGateway`: one transfer presented
to an open, to chat and to the proxy of another process; to two opens; to two requests of a
process without Redis; to a task and to chat; a task that two transfers and a voucher compete
for, or a transfer, a voucher and a cancellation; two chats that share a limit, of which one has
a second; a chat and a search that share a limit; a chat without a limit; three drips to two
wallets.  Scenarios are what clients can do: no state carries over from one to another, and a
scenario contains every request that can interfere in it.

Why the bounds suffice.  Every race of the worker is between two snapshots of one row, so
two workers and one channel show them; a third height beyond the first transaction's death
lets a second transaction live and die too.  The cap and the memo need two rows and no
time.  The ledger's races are between two requests at once, and a deposit of three with
quotes one and two allows both draws, either, an overdraw and a mismatch.  A behaviour with
two faults already contains a fault and a second one during the recovery from the first.
A row, two processors and two attempts show every race on an attempt: a
stale outcome against a recovered row, two submissions of one claim in flight, the last
attempt recovered after a crash; several rows for one deposit are left to the theorem
`ClaimsPayOnce`.  Two presentations of a transfer show a double purchase, three open, chat and
proxy with a store of each kind.  A task charged twice takes three requests where the lock is
released by a stranger.  Two periods let a reservation and its
bill fall apart.  The proofs remove the bounds for the properties they cover.

Deadlock is checked for the ledger and, alone, the open handler.  The gateway's and the
breaker's instances stop when every request has been answered.  The worker's instances stop at
`MaxHeight` with every row confirmed or waiting for a block that never comes, so those
configurations switch the check off; `EveryRefundCompletes` covers what it would show.  The
escrow instances stop at `MaxSlot` with every row settled and every vault empty, which
`EveryRowSettles` and `NoFundsStranded` cover.

Fairness.  Worker: the interval tick sweeps every due row (strong fairness of taking a row
up, since a peer may have it meanwhile), a handler runs to its end, the cluster produces
blocks and executes and roots what it holds, a held row alerts on every sweep until the
operator acts.  `AdvanceHeight` is strongly fair because the assumption on the two reads
disables it now and then.  Ledger: handlers run to their end (the serve is under a timeout),
the TTL runs out, and the client posts a refused close again.  `RefundConfirmed` and the
start of a draw are not fair.  Open: an unsuccessful request is posted again.  Escrow: slots
pass, the agent asks for an expired deposit, a processor's interval keeps ticking and its
cycle runs to the end (every request has a timeout), and a fetchable row is fetched sooner or
later (strong fairness: rows are taken in the order of creation, and a peer may hold the row's
lock meanwhile).  Deposits, claims by clients and the execution of transactions are not fair.

## 4. Proofs

`RefundWorkerProofs` assumes nothing about the number of channels, workers, attempts, blocks
or the cap.  `TypeCorrect` needs no other assumption either: it rests on `ShapeInv` (a worker's
snapshot is a complete row of the status its step is about).  The rest assumes
`ExpiryNeverBetweenReads` and `RearmAfterExpiry`.  `AtMostOneTransfer` is
not inductive: what makes it true is that a transaction which landed or can still land is
always the one its row records (`LandedIsRecorded`, `NoOrphanInFlight`), that a worker's
stale snapshot never names a transaction that can still land (`StaleMeansDead`), and that
what a worker concluded from its two reads is still true when it acts (`ConclusionsHold`).
`IInv` is their conjunction; TLC checks it in `refund_races` and `Invariance` proves it, one
lemma per action.  From it follow `NoDoubleRefund`, `NoOrphan`, `ConfirmedArePaid`, the action
theorem `ReplacedAreDead` and, step by step, the refinement `WorkerKeepsObligation`.

`ChannelLedgerProofs` has two layers.  `LedgerInv` needs no assumption on the lock: it is
what the row's predicates and constraints guarantee, and gives `LedgerTypes`,
`RefundStaysExact`, `ReceiptsAreDebits` and the refinement `LedgerImplementsAccount`; with the
sum of the advances (`BooksInv`) it gives `BooksBalance`.  `LockInv` (`LockProtects`) adds what
a lock that outlives its holder gives when no COMMIT outlives its
handler: only the holder runs, and the row a voucher was verified against is still the row
when it is persisted.  From it follow `LockExcludes`, `ServedIsCharged` and `CostsAddUp`.

`FiniteSums` is about `MapThenSumSet`.  The community modules define it by a fold, whose
recursive function is a `CHOOSE`; the first half shows that the function exists on the subsets
of a finite set, the second that a sum can be taken apart at any member, updated, compared,
added and restricted.  The induction scheme of the library takes an operator as parameter,
which the provers cannot instantiate; a least counterexample among the subsets of a finite
set, found with `WFMin`, takes its place.

`EscrowProofs` proves `EscrowInv`.  `AttemptsNumbered` needs `AttemptsCounted`: whatever a
processor holds or has sent is at most the count in its row, so the number the next fetch
hands out is new.  `PaidOnce` needs `EscrowLife`: while a service's first escrow is open it
has paid nothing, and a claim closes it.  `VaultsBalance` is inductive with types.  From
`EscrowInv` follow `EscrowTypes`, `VaultsAlwaysBalance`, `ClaimsPayOnce` and
`AttemptsAreNumbered`.

`FaucetProofs` proves `FaucetInv` for any number of requests, wallets, days and faults.
`DripOnce` becomes inductive with `Holds`: a request between its reservation and its last
step, or one whose transfer was taken and that knows it, is the one its wallet's row names, so
two of them for one wallet are the same.  The ceiling needs `RowsWithinCap`, the same for the
rows still present, and the fact that a request not yet past the ceiling is unchecked: only
`CheckDailyCap` adds a checked row, and it counts all rows of the day.  A drip the cluster took
is a row still present, or was rolled back after a lost answer, and those are what
`DripsWithinCap` allows beside the ceiling.  `FaucetSafe`, `NeverDripsTwice` and `CapIsCeiling` follow.

`PaymentsProofs` is about `GatewaySpec`, all surfaces together, for any requests, transfers,
processes, tasks, counters and number of faults.  Its lemmas reduce the next-state relation to
what one request can see of it: `RequestMoves` lists how a request's stage, flags and replay
store change, and `EveryMove` shows that every step of anybody is such a move for every
request.  `GatewayInv` adds to the types that a request's stage belongs to its surface, that a
booked request is at the end of its way, and that a request which reserves or gives back has
something to.  `GatewayTyped` follows, and with the fact that a handler about to insert its
row saw a transfer that landed (`OpenInv`) `CreditsAreFunded` for the open handler alone and
`CreditsStayFunded` in the composition.  `MoneyInv` is for the replay guard.  While a request
is between guard and settlement its transfer's record is in the store that accepted it, and
lasts until the transfer's blockhash is gone or longer than the clock (`Live`, `Kept`): a
second request that passes the same store finds a transfer that has landed or never will, so
of two requests in one store at most one can still be settled or was (`CanPay`).
`OneTransferBuysOnce` and `BooksAreFunded` follow; the only assumption is `PaymentConstants`,
a record's life against a blockhash's.

`TasksProofs` assumes `ServeWithinLock`.  `TaskInv`: a request in a step with a bound below the
lock's life holds its task's lock; a request past its marker is the only one of its task, and the record then
says `Working` or has lapsed; a request that was paid, or whose transfer was taken and not
disowned, is past the point where it could be reverted (`PaidStage`, `TakenStage`: a request
reverts only before it sends or with its transfer disowned, `RevertDisowns`), and the task's
record is then not payable.  A transfer's serve is not among the bounded steps, so the lock may
lapse in it: what protects it then is the record.  A request that collected money and did not
disown it is the one owner of its task (`CollectedOwns`), so two that did are the same.
`SettlesAlone`,
`ChargedOnce`, `ChargedIsClosed` and the action theorem `TerminalStays` follow.

`BudgetProofs` has two layers.  `HoldInv`: a request reserves each window at most once and
before it can log it, only chat holds anything, and without faults a request that is over has
returned what it held or was paid for; the last part needs `MoneyInv`, by which a chat request
that comes to its books has been paid.  On it rests an account of every counter.  `Share` is
what a request holds in a period, less what the log gave back when the bill was below the
estimate; `Owed` the whole difference, and what was logged unreserved.  `BudgetInv`: the shares'
sum is at most the counter and, under a limit, at most the limit; without faults the debts' sum
is the counter.  A reservation raises share and counter alike and was checked against the
counter, which is why a counter that faults leave too high never admits too much, and every
loss (a log or return that fails, a restart) lowers the share only.  No relation of bill and
estimate is assumed: an overage raises the counter and not the share.  `LimitsHold` follows
member by member: the share, or one of the three named exceptions, covers the cost, or the
estimate kept for what could not be billed.  `CountersShowSpend` is the same with equality.

Only model-checked: the liveness properties (`EveryRefundCompletes`, `CloseCompletes`,
`EveryRowSettles`, `NoFundsStranded`), since liveness under fairness is out of the prover's
reach.  Every other property of a passing run is stated by a theorem.

## 5. Where the code and what is said of it differ

1. `refund_reads`: `handle_in_flight` reads the status before the height.  A transaction
   that lands in its last valid block between the two is concluded dead and paid again.
   Reading the height first would close it.
2. `refund_rearm`: a preflight rejection of a rebroadcast does not mean that these bytes can
   never land, since an earlier send may have been accepted; the runbook's history search
   proves only that the transaction has not landed yet.
3. `open_retry`: a deposit whose ledger write failed cannot be credited by opening again.
4. `escrow_delivery`: a claim is marked completed when its transaction was accepted for
   sending.  If it is lost afterwards the row is never retried, although the queue promises
   reliable delivery, and the agent gets the whole deposit back at expiry.

5. `a2a_release`: `release_settle_lock` deletes the key whoever set it.  A voucher's serve may
   outlast the lock; its late revert and release then free a lock that another request holds,
   and two requests settle the same task.  The draw lock's compare-and-delete would close it.
6. `breaker_probe`: dispatch takes the model's probe slot before it asks the provider's circuit
   and keeps it when that one is open.  The model is unavailable from then on.

Smaller ones came up on the way and have no run.  Held refund rows leave the 24h sum
although a held transaction may land: "every held path ... means no USDC left the wallet"
(`channel_refunds.rs:466-471`) is not so after a rejected rebroadcast.  The cap itself is one
condition of the one statement that claims, so it is part of `Claim` and no property restates
it; nor is there one for the escrow's deadline, which is one condition of the claim
instruction.  A debited draw whose handler
is dropped before the spend and receipt are written has no receipt, so only one direction of
the "IFF" in `channel_draw.rs` holds (`ReceiptMeansDebit`).  And `CostIsAdvance` needs
`CommitOutlivesHandler = FALSE`: with TRUE in `MCLedgerOrderly.cfg` TLC finds a successor
whose recorded cost is not the advance of the cumulative.  The header of `escrow_settle.rs`
says that the queue deduplicates claims by service id and agent; `enqueue_claim` is a plain
INSERT, and `PaidOnce` shows that the program makes up for it.  The faucet's header says "We never
delete a reservation once the transfer has been (or may have been) broadcast"
(`faucet.rs:44-45`), but a `sendTransaction` whose answer is lost is an RPC error and rolls
back; a second request can then fund the wallet again with another blockhash, which is the
exception `DripOnce` names.  The rolled back row leaves the day's sum too, so that "a true
ceiling on reserved+sent lamports" (`faucet.rs:286-288`) can be passed by one drip for each such
answer, the exception of `DripsWithinCap`.  The cap is read for
the current day: a request that reserves before midnight and reads after it is not counted on
either, hence the condition in `DripsWithinCap`; and since the total includes the request's own
row, `>=` stops one drip below the ceiling.  A chat whose bill falls into a later period than
its reservation lowers the later counter by the estimate (`SpendWithinBudget` states by how
much a period can be overspent), and a transfer that the replay guard saw in two stores, Redis,
the fallback set of a process or the set of a path in a process without Redis, can buy two
things (`TransferBuysOnce`).

`cost.rs:134-137` says that "billing can never exceed the reservation".  That is so for the
completion; the prompt is billed as the provider counts it (`cost.rs:140`) against an estimate
from characters and a typical image, and `cost.rs:184-189` itself speaks of an overage.  A limit
can be passed by it, which is the third exception of `SpendWithinBudget`.  A settlement that
answers `success=false` is taken to mean "no funds moved" (`a2a/handler.rs:1152`, also
`2013-2018`); after a lost answer or a poll that ran out the transfer can still land, the task
is payable again meanwhile, and a second transfer then charges the payer twice.  `TaskPaidOnce`
and `ChargedIsNotPayable` state this as their one exception; nothing else charges a task twice.
For chat the same belief returns the reservation, so such a transfer is in no counter.

## 6. Not modelled

Metrics, alerts and log lines; the backoff clock and batch limit of the sweep (a batch of rows
that are not due may delay younger ones until they complete or are held); forks of the chain
that undo a transaction the RPC reported as processed, and an RPC that lies; the branches for
rows with a partial claim payload, which `TypeOK` shows to be unreachable; the decoding of
transactions and vouchers and their signature checks; the vetting of a paid request before the
replay guard (model, price, recipient, tenant), which changes no state; durable-nonce
transactions and the capacity of the replay sets; `update_settled` and `set_status`, which
nothing calls; `claim_async` (claims without a database), the choice of fee payer and durable
nonce of a claim, and the claim breaker's counts; the heartbeat, latencies and streams after
their first answer in provider dispatch; the caches of budget configuration; and the
development bypass of payments.  Most of the repository is outside these models because it has
no shared state to get wrong: adapters between wire formats, the router's scoring, SDKs in
several languages, the command line and the dashboard.  The components without a module are
listed in `PROJECT.json` with the reason.

## 7. Plan

1. Done: refund worker with its abstract obligation; channel ledger with its abstract account,
   draws of all four surfaces; channel open; escrow program with claim queue and processors;
   exact payments with the replay guard and budgets; A2A tasks; faucet; circuit breaker.
   Proofs of every invariant and action property of the passing runs.
2. An abstract escrow ("every deposit is paid out once, split between provider and agent")
   with its refinement.
3. An abstract purchase ("a transfer buys at most one thing per store") with the gateway's
   refinement of it.
4. Composition of ledger and worker through the `channel_refunds` row: over the whole life of
   a channel, deposit = realized + refunded.
5. The client side of a channel: the drop-in's tracker with its single-flight draw and its
   resynchronisation of the cumulative.
