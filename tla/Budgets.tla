------------------------------ MODULE Budgets ------------------------------
(***************************************************************************)
(* Spending limits (crates/gateway/src/usage.rs).  A wallet, its team and a *)
(* tenant of it may have limits per hour, day and month; each is a Redis    *)
(* counter whose key names the period.  A chat request reserves its         *)
(* estimate in every limited counter, then logs what it really cost or      *)
(* gives the reservation back.  The other surfaces only log.                *)
(***************************************************************************)
EXTENDS Integers, Sequences, FiniteSetsExt

CONSTANTS
    Buys,       \* paid requests
    Counters,   \* a wallet's, team's or tenant's window, whatever the period
    Windows,    \* Windows[b]: the counters of a request's payer, in their order
    Limit,      \* Limit[w]; NoLimit when none is configured
    NoLimit,
    Estimate,   \* Estimate[b]: the quote
    Cost,       \* Cost[b]: what is billed; the prompt is not capped to the quote's
    MaxEpoch    \* bound: periods of a counter

\* Each window of a payer is a key of its own.
ASSUME BudgetConstants ==
    /\ IsFiniteSet(Buys)
    /\ Windows \in [Buys -> Seq(Counters)]
    /\ \A b \in Buys : \A i, j \in DOMAIN Windows[b] : Windows[b][i] = Windows[b][j] => i = j
    /\ \A w \in Counters : Limit[w] = NoLimit \/ Limit[w] \in Nat
    /\ Estimate \in [Buys -> Nat] /\ Cost \in [Buys -> Nat] /\ MaxEpoch \in Nat

VARIABLES
    epoch,     \* epoch[w]: the period w is in; another team is another period
    counter,   \* counter[w][e]: the value of the key
    hold,      \* hold[b]: BudgetReservation.committed, a sequence of <<w, e>>
    at,        \* at[b]: the periods as the request, later its log, took them
    todo       \* todo[b]: the counters still to be reserved, or logged

budgetVars == <<epoch, counter, hold, at, todo>>

Epochs == 0 .. MaxEpoch

BudgetTypeOK ==
    /\ epoch \in [Counters -> Epochs]
    /\ counter \in [Counters -> [Epochs -> Int]]
    /\ DOMAIN hold = Buys
    /\ \A b \in Buys : \A i \in DOMAIN hold[b] : hold[b][i] \in Counters \X Epochs
    /\ at \in [Buys -> [Counters -> Epochs]]
    /\ todo \in [Buys -> Seq(Counters)]

BudgetInit ==
    /\ epoch = [w \in Counters |-> 0]
    /\ counter = [w \in Counters |-> [e \in Epochs |-> 0]]
    /\ hold = [b \in Buys |-> <<>>]
    /\ at = [b \in Buys |-> epoch]
    /\ todo = [b \in Buys |-> <<>>]

\* Those of its first n counters that have a limit, and all of them.
LimitedAmong(b) ==
    LET first[n \in 0 .. Len(Windows[b])] ==
            IF n = 0 THEN <<>>
            ELSE IF Limit[Windows[b][n]] = NoLimit THEN first[n - 1]
            ELSE Append(first[n - 1], Windows[b][n])
    IN  first

Limited(b) == LimitedAmong(b)[Len(Windows[b])]

Reserved(b, w) == \E i \in DOMAIN hold[b] : hold[b][i][1] = w

Incr(w, e, amount) == counter' = [counter EXCEPT ![w][e] = @ + amount]
NextWindow(b) == todo' = [todo EXCEPT ![b] = Tail(@)]

-----------------------------------------------------------------------------
(* check_budget *)

\* Read the clock and the limits that apply.
CheckBudget(b) ==
    /\ at' = [at EXCEPT ![b] = epoch]
    /\ todo' = [todo EXCEPT ![b] = Limited(b)]
    /\ UNCHANGED <<epoch, counter, hold>>

Fits(b) ==
    LET w == Head(todo[b]) IN counter[w][at[b][w]] + Estimate[b] <= Limit[w]

\* Mutant: the script returns the total and the caller compares it.
CommitUnchecked(b) ==
    LET w == Head(todo[b])  e == at[b][w] IN
    /\ Incr(w, e, Estimate[b])
    /\ hold' = [hold EXCEPT ![b] = Append(@, <<w, e>>)]
    /\ NextWindow(b)
    /\ UNCHANGED <<epoch, at>>

\* INCR_CHECK_LUA adds the estimate and, over the limit, takes it back, at once.
Commit(b) == Fits(b) /\ CommitUnchecked(b)

\* Over the limit: what this request holds is to be rolled back.
Exceeded(b) ==
    /\ ~Fits(b)
    /\ todo' = [todo EXCEPT ![b] = <<>>]
    /\ UNCHANGED <<epoch, counter, hold, at>>

\* The team or tenant cannot be read, or the request's tenant tag is missing or
\* not provisioned: the same, whatever the limits.
Rejected(b) ==
    /\ todo' = [todo EXCEPT ![b] = <<>>]
    /\ UNCHANGED <<epoch, counter, hold, at>>

\* The script fails, executed or not; in the second case its key is not among
\* those rolled back.
CommitFails(b) ==
    LET w == Head(todo[b]) IN
    /\ \/ UNCHANGED counter
       \/ Fits(b) /\ Incr(w, at[b][w], Estimate[b])
    /\ todo' = [todo EXCEPT ![b] = <<>>]
    /\ UNCHANGED <<epoch, hold, at>>

-----------------------------------------------------------------------------
(* rollback_committed, for check_budget and release_reservation; log_spend *)

\* One key gets its estimate back.
Return(b) ==
    LET k == Head(hold[b]) IN
    /\ Incr(k[1], k[2], -Estimate[b])
    /\ hold' = [hold EXCEPT ![b] = Tail(@)]
    /\ UNCHANGED <<epoch, at, todo>>

\* A key that fails is only logged: it stays over-counted until it expires.
ReturnLost(b) ==
    /\ hold' = [hold EXCEPT ![b] = Tail(@)]
    /\ UNCHANGED <<epoch, counter, at, todo>>

\* log_spend reads the clock and goes through all counters, limited or not.
LogSpend(b) ==
    /\ at' = [at EXCEPT ![b] = epoch]
    /\ todo' = [todo EXCEPT ![b] = Windows[b]]
    /\ UNCHANGED <<epoch, counter, hold>>

\* Mutant: every counter is settled by the difference to the estimate.
WindowAmountDelta(b, w) == Cost[b] - Estimate[b]

\* A reserved counter is settled by the difference, any other by the whole cost.
WindowAmount(b, w) == IF Reserved(b, w) THEN Cost[b] - Estimate[b] ELSE Cost[b]

LogWindow(b) ==
    LET w == Head(todo[b]) IN
    /\ Incr(w, at[b][w], WindowAmount(b, w))
    /\ NextWindow(b)
    /\ UNCHANGED <<epoch, hold, at>>

LogWindowLost(b) ==
    /\ NextWindow(b)
    /\ UNCHANGED <<epoch, counter, hold, at>>

\* The hour, day or month ends, or the wallet changes its team: from now on
\* another key.
Rollover(w) ==
    /\ epoch[w] < MaxEpoch
    /\ epoch' = [epoch EXCEPT ![w] = @ + 1]
    /\ UNCHANGED <<counter, hold, at, todo>>

-----------------------------------------------------------------------------
(* What the counters are for *)

\* The logged requests whose cost belongs to period e of w, and those of them
\* whose estimate was reserved there.
LoggedIn(w, e, logged) ==
    {b \in logged : at[b][w] = e /\ \E i \in DOMAIN Windows[b] : Windows[b][i] = w}

HeldIn(b, w, e) == \E i \in DOMAIN hold[b] : hold[b][i] = <<w, e>>

\* What a bill exceeds its estimate by: a prompt is estimated from its characters
\* and images and billed as the provider counts it.
Overage == [b \in Buys |-> IF Cost[b] > Estimate[b] THEN Cost[b] - Estimate[b] ELSE 0]

=============================================================================
