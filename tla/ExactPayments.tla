--------------------------- MODULE ExactPayments ---------------------------
(***************************************************************************)
(* Purchases paid by a client-signed transfer: chat (reserve, verify, serve, *)
(* settle), and the settle-first surfaces, proxy, search and price, which   *)
(* verify and settle before they serve.  Every one passes the replay guard  *)
(* first; the guard's record is in Redis, or, when Redis fails, in the      *)
(* process.  The transfers and the cluster are those of ChannelOpen, whose  *)
(* requests may present the same transfers; the spending limits are those   *)
(* of Budgets.  A client's retry is another request.                        *)
(***************************************************************************)
EXTENDS ChannelOpen, Budgets

CONSTANTS
    Pays,        \* Pays[b]: the transfer a request presents
    Path,        \* Path[b]: the surface it is posted to
    Host,        \* Host[b]: the gateway process that serves it
    Hosts,
    Cached,      \* the processes started with a Redis cache
    Scenarios,   \* the sets of requests that clients post in one behaviour
    ReplayTTL,   \* REPLAY_TTL and the EX of check_and_record_tx
    Lifetime,    \* how long a transfer's blockhash stays valid
    MaxTime      \* bound: the clock

\* The surfaces; the last three belong to A2ATasks.
Paths == {"chat", "proxy", "search", "price", "a2a", "voucher", "cancel"}
TaskPaths == {"a2a", "voucher", "cancel"}

\* A replay record outlives the transfer it is about (120 s against about 90 s).
ASSUME PaymentConstants ==
    /\ Pays \in [Buys -> Fundings]
    /\ Path \in [Buys -> Paths]
    /\ Host \in [Buys -> Hosts]
    /\ Cached \subseteq Hosts
    /\ Scenarios # {}
    /\ ReplayTTL \in Nat \ {0} /\ Lifetime \in Nat /\ MaxTime \in Nat
    /\ Lifetime <= ReplayTTL

VARIABLES
    posted,   \* the requests of this behaviour
    now,
    seen,     \* seen[s][f]: until when store s refuses transfer f
    stage,    \* stage[b]: the request's next step
    store,    \* store[b]: the store that accepted its transfer
    sent,     \* sent[b]: whether the cluster took its transfer, and it knows
    paid,     \* the requests whose settlement was confirmed
    served,   \* the requests answered with what they bought
    booked    \* the requests with a spend row and a receipt

payVars == <<posted, now, seen, stage, store, sent, paid, served, booked, budgetVars>>

\* The Redis keys; a process's fallback_replay_set, used when Redis fails; and
\* the per-path sets of a process that has no cache.
Redis == <<"shared", "redis">>
Fallback(i) == <<i, "fallback">>
Local(i, p) == <<i, p>>
NoStore == <<"none", "none">>
Stores == {Redis} \cup (Hosts \X (Paths \cup {"fallback"}))

\* The order of each surface's steps.
ChatSteps ==
    [guard |-> "budget", reserve |-> "verify", verify |-> "serve", serve |-> "send",
     send |-> "confirm", confirm |-> "book", book |-> "done"]
ProxySteps ==
    [guard |-> "verify", verify |-> "send", send |-> "confirm", confirm |-> "book",
     book |-> "serve", serve |-> "done"]
SearchSteps == ProxySteps
PriceSteps == ProxySteps

\* A task's come between those of A2ATasks; its voucher is not a transfer and
\* passes no replay guard.
TaskSteps ==
    [guard |-> "verify", verify |-> "send", send |-> "confirm", confirm |-> "serve",
     serve |-> "book", book |-> "finish"]
VoucherSteps ==
    [verify |-> "serve", serve |-> "persist", persist |-> "book", book |-> "finish"]

Then ==
    [chat |-> ChatSteps, proxy |-> ProxySteps, search |-> SearchSteps,
     price |-> PriceSteps, a2a |-> TaskSteps, voucher |-> VoucherSteps]

\* A request starts where its handler does.
First(b) == IF Path[b] \in TaskPaths THEN "intake" ELSE "guard"

\* A transfer that was taken is disowned by a request that is told its settlement
\* failed; it can land all the same.
Sendings == {"no", "taken", "disowned"}

\* A request's transfer is recorded in Redis or in its own process, there in the
\* set of its own path.
PayTypeOK ==
    /\ TypeOK
    /\ BudgetTypeOK
    /\ posted \in Scenarios
    /\ now \in 0 .. MaxTime
    /\ seen \in [Stores -> [Fundings -> Nat]]
    /\ DOMAIN store = Buys
    /\ \A b \in Buys : store[b] \in {NoStore, Redis, Fallback(Host[b]), Local(Host[b], Path[b])}
    /\ sent \in [Buys -> Sendings]
    /\ paid \subseteq Buys /\ served \subseteq Buys /\ booked \subseteq Buys

PayInit ==
    /\ Init
    /\ BudgetInit
    /\ posted \in Scenarios
    /\ now = 0
    /\ seen = [s \in Stores |-> [f \in Fundings |-> 0]]
    /\ stage = [b \in Buys |-> First(b)]
    /\ store = [b \in Buys |-> NoStore]
    /\ sent = [b \in Buys |-> "no"]
    /\ paid = {} /\ served = {} /\ booked = {}

\* The transfers and the counters this behaviour is about.
Presenters == {b \in posted \cap Buys : Path[b] \notin {"voucher", "cancel"}}
Presented == {Pays[b] : b \in Presenters} \cup {Funding[o] : o \in posted \cap Opens}
Charged == UNION {{Windows[b][i] : i \in DOMAIN Windows[b]} : b \in posted \cap Buys}

Step(b, l) == stage' = [stage EXCEPT ![b] = l]
Proceed(b) == Step(b, Then[Path[b]][stage[b]])

\* An error answer: a task is first made payable again, a reservation returned.
Refuse(b) ==
    Step(b, IF Path[b] \in TaskPaths THEN "revert"
            ELSE IF hold[b] # <<>> THEN "return" ELSE "done")

-----------------------------------------------------------------------------
(* The replay guard *)

\* Mutant: a record that lapses before the transfer does.
UntilSoon(s) == now + 1

\* The fallback set keeps its entries; the other stores for the TTL.
Until(s) == IF \E i \in Hosts : s = Fallback(i) THEN MaxTime + 1 ELSE now + ReplayTTL

\* SET NX, or the get-then-put under the set's mutex: a transfer the store still
\* holds is refused, any other is recorded.
CheckAndRecord(b, s) ==
    LET f == Pays[b] IN
    IF seen[s][f] > now
    THEN Refuse(b) /\ UNCHANGED <<seen, store>>
    ELSE /\ seen' = [seen EXCEPT ![s][f] = Until(s)]
         /\ store' = [store EXCEPT ![b] = s]
         /\ Proceed(b)

\* The store consulted: Redis, or the process's own set for the path when it was
\* started without a cache.
Guard(b) ==
    /\ stage[b] = "guard"
    /\ CheckAndRecord(b, IF Host[b] \in Cached THEN Redis ELSE Local(Host[b], Path[b]))
    /\ UNCHANGED <<chain, channels, pc, faults, posted, now, sent, paid, served, booked, budgetVars>>

\* An outage of Redis is one fault, however many requests it meets.
Outage ==
    \/ Fault
    \/ UNCHANGED faults /\ \E b \in Buys : store[b] = Fallback(Host[b])

\* Redis cannot be reached, or its SET fails: the fallback set decides alone.
GuardWithoutRedis(b) ==
    /\ stage[b] = "guard" /\ Host[b] \in Cached /\ Outage
    /\ CheckAndRecord(b, Fallback(Host[b]))
    /\ UNCHANGED <<chain, channels, pc, posted, now, sent, paid, served, booked, budgetVars>>

\* The SET is executed and its answer lost: the key exists, the fallback decides.
GuardAnswerLost(b) ==
    LET f == Pays[b]  l == Fallback(Host[b])
        key == IF seen[Redis][f] > now THEN seen[Redis][f] ELSE Until(Redis) IN
    /\ stage[b] = "guard" /\ Host[b] \in Cached /\ Outage
    /\ IF seen[l][f] > now
       THEN /\ seen' = [seen EXCEPT ![Redis][f] = key]
            /\ Refuse(b) /\ UNCHANGED store
       ELSE /\ seen' = [seen EXCEPT ![Redis][f] = key, ![l][f] = Until(l)]
            /\ store' = [store EXCEPT ![b] = l]
            /\ Proceed(b)
    /\ UNCHANGED <<chain, channels, pc, posted, now, sent, paid, served, booked, budgetVars>>

-----------------------------------------------------------------------------
(* The chat path's reservation *)

payOnly == <<vars, posted, now, seen, store, sent, paid, served, booked>>
payFaulty == <<chain, channels, pc, posted, now, seen, store, sent, paid, served, booked>>

\* (or a denial before anything is reserved)
StartBudget(b) ==
    /\ stage[b] = "budget"
    /\ \/ CheckBudget(b) /\ Step(b, IF Limited(b) = <<>> THEN "verify" ELSE "reserve")
       \/ Refuse(b) /\ UNCHANGED budgetVars
    /\ UNCHANGED payOnly

Reserve(b) ==
    /\ stage[b] = "reserve"
    /\ Commit(b)
    /\ IF Len(todo[b]) = 1 THEN Proceed(b) ELSE UNCHANGED stage
    /\ UNCHANGED payOnly

\* Mutant: a request over one limit keeps what it reserved under the others.
DenyKeeping(b) ==
    /\ stage[b] = "reserve"
    /\ Exceeded(b)
    /\ Step(b, "done")
    /\ UNCHANGED payOnly

Deny(b) ==
    /\ stage[b] = "reserve"
    /\ Exceeded(b) \/ Rejected(b)
    /\ Refuse(b)
    /\ UNCHANGED payOnly

\* Redis or the database fails: the request is denied.
DenyOnError(b) ==
    /\ stage[b] = "reserve" /\ Fault
    /\ CommitFails(b)
    /\ Refuse(b)
    /\ UNCHANGED payFaulty

\* One key of rollback_committed at a time.
GiveBack(b) ==
    /\ stage[b] = "return"
    /\ Return(b)
    /\ IF Len(hold[b]) = 1 THEN Step(b, "done") ELSE UNCHANGED stage
    /\ UNCHANGED payOnly

GiveBackLost(b) ==
    /\ stage[b] = "return" /\ Fault
    /\ ReturnLost(b)
    /\ IF Len(hold[b]) = 1 THEN Step(b, "done") ELSE UNCHANGED stage
    /\ UNCHANGED payFaulty

-----------------------------------------------------------------------------
(* Verification, settlement, service *)

\* facilitator.verify: the transfer is well formed and its simulation, which
\* replaces the blockhash, succeeds; or it is refused (402).
VerifyPayment(b) ==
    /\ stage[b] = "verify"
    /\ Proceed(b) \/ Refuse(b)
    /\ UNCHANGED <<vars, posted, now, seen, store, sent, paid, served, booked, budgetVars>>

\* What follows a settlement that did not succeed.  Chat has already its answer
\* and delivers it, with no spend row, after the reservation is returned; the
\* settle-first surfaces refuse.
SettleFailed(b) == Refuse(b)

\* success = false is taken to mean that no funds moved, also when the cluster
\* has the transfer and executes it later.
Disown(b) == sent' = [sent EXCEPT ![b] = "disowned"]

\* settle_payment's sendTransaction: refused once the ledger has the transfer or
\* its blockhash is gone.
SendPayment(b) ==
    LET f == Pays[b] IN
    /\ stage[b] = "send"
    /\ IF chain[f] \in {"unseen", "pool"}
       THEN /\ chain' = [chain EXCEPT ![f] = "pool"]
            /\ sent' = [sent EXCEPT ![b] = "taken"]
            /\ Proceed(b)
       ELSE UNCHANGED <<chain, sent>> /\ SettleFailed(b)
    /\ UNCHANGED <<channels, pc, faults, posted, now, seen, store, paid, served, booked, budgetVars>>

\* The send is executed and its answer lost.
SendPaymentLost(b) ==
    LET f == Pays[b] IN
    /\ stage[b] = "send" /\ Fault
    /\ chain[f] \in {"unseen", "pool"}
    /\ chain' = [chain EXCEPT ![f] = "pool"]
    /\ Disown(b)
    /\ SettleFailed(b)
    /\ UNCHANGED <<channels, pc, posted, now, seen, store, paid, served, booked, budgetVars>>

\* Mutant: the answer of sendTransaction is taken for the settlement.
PaymentConfirmedOnSend(b) ==
    /\ stage[b] = "confirm"
    /\ paid' = paid \cup {b}
    /\ Proceed(b)
    /\ UNCHANGED <<vars, posted, now, seen, store, sent, served, booked, budgetVars>>

\* poll_for_confirmation sees the transfer confirmed ...
PaymentConfirmed(b) ==
    /\ stage[b] = "confirm" /\ chain[Pays[b]] = "landed"
    /\ paid' = paid \cup {b}
    /\ Proceed(b)
    /\ UNCHANGED <<vars, posted, now, seen, store, sent, served, booked, budgetVars>>

\* ... or an error, or nothing for thirty seconds.
PaymentUnconfirmed(b) ==
    /\ stage[b] = "confirm"
    /\ Disown(b)
    /\ SettleFailed(b)
    /\ UNCHANGED <<vars, posted, now, seen, store, paid, served, booked, budgetVars>>

\* The provider or the upstream answers.
Serve(b) ==
    /\ stage[b] = "serve"
    /\ served' = served \cup {b}
    /\ Proceed(b)
    /\ UNCHANGED <<vars, posted, now, seen, store, sent, paid, booked, budgetVars>>

\* Mutant: a task whose provider failed is offered for payment again.
ServeFailsPayable(b) ==
    /\ stage[b] = "serve"
    /\ Refuse(b)
    /\ UNCHANGED <<vars, posted, now, seen, store, sent, paid, served, booked, budgetVars>>

\* It does not: chat and a task's voucher are not charged, a settle-first surface
\* keeps the money, and a task that was settled goes on to record it.
ServeFails(b) ==
    /\ stage[b] = "serve"
    /\ IF Path[b] = "a2a" THEN Proceed(b) ELSE Refuse(b)
    /\ UNCHANGED <<vars, posted, now, seen, store, sent, paid, served, booked, budgetVars>>

\* log_spend and record_receipt: each spawns its writes.
Book(b) ==
    /\ stage[b] = "book"
    /\ booked' = booked \cup {b}
    /\ LogSpend(b)
    /\ Proceed(b)
    /\ UNCHANGED <<vars, posted, now, seen, store, sent, paid, served>>

\* The bill cannot be computed from the usage or from the stored quote: what was
\* settled gets no spend row and no receipt, and what it reserved is kept.
BookSkipped(b) ==
    /\ stage[b] = "book" /\ Path[b] \in {"chat", "a2a", "voucher"}
    /\ Proceed(b)
    /\ UNCHANGED <<payOnly, budgetVars>>

\* The spawned task reaches the next counter.
Log(b) ==
    /\ b \in booked /\ todo[b] # <<>>
    /\ LogWindow(b)
    /\ UNCHANGED <<payOnly, stage>>

LogLost(b) ==
    /\ b \in booked /\ todo[b] # <<>> /\ Fault
    /\ LogWindowLost(b)
    /\ UNCHANGED <<payFaulty, stage>>

\* The client disconnects and the handler is dropped; what it reserved stays.
\* (The settlement of a task is spawned and goes on: a2a/handler.rs:580.)
Disconnect(b) ==
    /\ stage[b] # "done" /\ Path[b] \notin {"a2a", "voucher"} /\ Fault
    /\ Step(b, "done")
    /\ UNCHANGED <<chain, channels, pc, posted, now, seen, store, sent, paid, served, booked, budgetVars>>

\* A process restarts: its requests under way are gone, the writes it spawned, and
\* what its own sets held.  Requests still to be posted to it find those empty.
Restart(i) ==
    /\ Fault
    /\ stage' = [b \in Buys |-> IF Host[b] = i /\ stage[b] # First(b)
                               THEN "done" ELSE stage[b]]
    /\ seen' = [s \in Stores |-> IF s # Redis /\ s[1] = i
                                 THEN [f \in Fundings |-> 0] ELSE seen[s]]
    /\ todo' = [b \in Buys |-> IF Host[b] = i THEN <<>> ELSE todo[b]]
    /\ UNCHANGED <<chain, channels, pc, posted, now, store, sent, paid, served, booked,
                   epoch, counter, hold, at>>

\* Time.  A transfer was signed at 0 at the latest, so by Lifetime its blockhash
\* is gone: it has landed or it never will.  (The clock is read by the replay
\* guard only: it stands still where no transfer is presented twice.)
Tick ==
    /\ now < MaxTime
    /\ \E b, c \in Presenters : b # c /\ Pays[b] = Pays[c]
    /\ now + 1 >= Lifetime =>
           \A f \in Presented : chain[f] \notin {"unseen", "pool"}
    /\ now' = now + 1
    /\ UNCHANGED <<vars, posted, seen, stage, store, sent, paid, served, booked, budgetVars>>

-----------------------------------------------------------------------------

BuyStep(b) ==
    \/ Guard(b) \/ GuardWithoutRedis(b) \/ GuardAnswerLost(b)
    \/ VerifyPayment(b) \/ SendPayment(b) \/ SendPaymentLost(b)
    \/ PaymentConfirmed(b) \/ PaymentUnconfirmed(b)
    \/ Serve(b) \/ ServeFails(b) \/ Book(b) \/ BookSkipped(b) \/ Disconnect(b)
    \/ StartBudget(b) \/ Reserve(b) \/ Deny(b) \/ DenyOnError(b)
    \/ GiveBack(b) \/ GiveBackLost(b) \/ Log(b) \/ LogLost(b)

PayNext ==
    \/ \E b \in posted \cap Buys : BuyStep(b)
    \/ \E b \in posted \cap Buys : Restart(Host[b])
    \/ Tick
    \/ \E w \in Charged : Rollover(w) /\ UNCHANGED <<payOnly, stage>>
    \/ /\ \/ \E o \in posted \cap Opens : OpenStep(o) \/ Abandon(o) \/ SendAnswerLost(o)
          \/ \E f \in Presented : Execute(f) \/ Expire(f)
       /\ UNCHANGED payVars

PaySpec == PayInit /\ [][PayNext]_<<vars, payVars>>

-----------------------------------------------------------------------------
(* Properties *)

\* A transfer buys one thing: of two requests settled by the same transfer, the
\* guard accepted them in two different stores: Redis, the fallback set of a
\* process that could not reach it, or the path's own set of a process that has
\* no cache.  Within one store a second request is accepted only when the
\* transfer can no longer be sent, whatever the delay between a request's guard
\* and its settlement, and although a restart empties a process's sets.
TransferBuysOnce ==
    \A b, c \in {d \in paid : Path[d] # "voucher"} :
        b # c /\ Pays[b] = Pays[c] => store[b] # store[c]

\* A spend row and a receipt, and on the settle-first surfaces the service, are
\* given for money that has landed.
BookedMeansLanded ==
    \A b \in Buys :
        /\ Path[b] # "voucher"
        /\ b \in booked \/ (Path[b] # "chat" /\ b \in served)
        => chain[Pays[b]] = "landed"

\* What a limited counter's period is charged, with the estimates kept for what was
\* settled and could not be billed, stays within the limit, but for three things:
\* the requests that reserve nothing; those reserved in one period and logged in
\* a later one, whose estimate is taken from a key it was never added to; and
\* the part of a bill above its estimate, which no limit is asked about.
SpendWithinBudget ==
    \A w \in Counters, e \in Epochs :
        LET logged == LoggedIn(w, e, booked)
            unledgered == {b \in paid \ booked : HeldIn(b, w, e)}
            late == {b \in logged : Reserved(b, w) /\ ~HeldIn(b, w, e)}
            direct == {b \in logged : ~Reserved(b, w)} IN
        Limit[w] # NoLimit =>
            MapThenSumSet(LAMBDA b : Cost[b], logged)
                    + MapThenSumSet(LAMBDA b : Estimate[b], unledgered)
                <= Limit[w] + MapThenSumSet(LAMBDA b : Cost[b], direct)
                            + MapThenSumSet(LAMBDA b : Estimate[b], late)
                            + MapThenSumSet(LAMBDA b : Overage[b], logged \ direct)

\* When no request is under way and nothing failed, a counter shows what was spent:
\* every way out of the handler has logged the request or returned what it
\* reserved, but for a settled request that could not be billed, whose estimate
\* stays.  (An estimate reserved in one period and logged in another is too much
\* in the first and missing in the second.)
CountersSettle ==
    /\ \A b \in Buys : todo[b] = <<>> /\ (b \in posted => stage[b] = "done")
    /\ faults = 0
    => \A w \in Counters, e \in Epochs :
           LET logged == LoggedIn(w, e, booked)
               late == {b \in logged : Reserved(b, w) /\ ~HeldIn(b, w, e)}
               left == {b \in paid \ logged : HeldIn(b, w, e)} IN
           counter[w][e] =
               MapThenSumSet(LAMBDA b : Cost[b], logged)
                   - MapThenSumSet(LAMBDA b : Estimate[b], late)
                   + MapThenSumSet(LAMBDA b : Estimate[b], left)

=============================================================================
