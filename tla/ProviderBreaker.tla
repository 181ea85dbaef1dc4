-------------------------- MODULE ProviderBreaker --------------------------
(***************************************************************************)
(* Provider dispatch (crates/gateway/src/providers): a call tries the        *)
(* candidates of its chain in turn; each model and each provider has a       *)
(* circuit breaker that opens when too many recent calls failed and, after a *)
(* cooldown, lets one probe through.  Every question to a circuit and every  *)
(* record is a critical section of its own under the tracker's lock.         *)
(***************************************************************************)
EXTENDS Integers, Sequences

CONSTANTS
    Models,
    Providers,
    ProviderOf,    \* ProviderOf[m]
    Calls,
    Chain,         \* Chain[c]: the candidates, models in order
    Entry,         \* Entry[c]: the function the call enters by
    MinRequests,   \* outcomes in the window before the rate is looked at
    MaxOutcomes,   \* bound: outcomes remembered of a circuit
    MaxDrops       \* bound: calls whose client disconnects

Circuits == Models \cup Providers

\* The circuits an entry point asks, in this order, for every candidate.
ChatWithModelFallback == <<"model", "provider">>
StreamWithModelFallback == ChatWithModelFallback
ChatWithChain == ChatWithModelFallback
StreamWithChain == ChatWithModelFallback
ChatWithFallback == <<"provider">>
StreamWithFallback == ChatWithFallback

Asks ==
    [chat_model |-> ChatWithModelFallback, stream_model |-> StreamWithModelFallback,
     chat_chain |-> ChatWithChain, stream_chain |-> StreamWithChain,
     chat |-> ChatWithFallback, stream |-> StreamWithFallback]

VARIABLES
    health,   \* health[k]: a ProviderHealth
    left,     \* left[c]: the candidates not given up yet
    pc,       \* pc[c]: <<what the call does with the first, on which circuit>>
    slots,    \* slots[c]: the circuits whose probe slot it took for it
    drops

vars == <<health, left, pc, slots, drops>>

First(c) == Asks[Entry[c]][1]
Ask1(c) == <<"ask", First(c)>>
Done == <<"done", "none">>

Init ==
    /\ health = [k \in Circuits |->
                    [state |-> "Closed", cooled |-> FALSE, probe |-> FALSE,
                     ok |-> 0, failed |-> 0]]
    /\ left = Chain
    /\ pc = [c \in Calls |-> Ask1(c)]
    /\ slots = [c \in Calls |-> {}]
    /\ drops = 0

Candidate(c) == Head(left[c])
Circuit(c) == IF pc[c][2] = "model" THEN Candidate(c) ELSE ProviderOf[Candidate(c)]

Go(c, l) == pc' = [pc EXCEPT ![c] = l]

\* A candidate is given up: on to the next, or an error when there is none.
Skip(c) ==
    /\ left' = [left EXCEPT ![c] = Tail(@)]
    /\ slots' = [slots EXCEPT ![c] = {}]
    /\ Go(c, IF Len(left[c]) = 1 THEN Done ELSE Ask1(c))

-----------------------------------------------------------------------------
(* is_model_available, and is_available, which is the same on a provider *)

\* The slot goes to the caller that finds the cooldown over, or the circuit half
\* open with no probe.
TakesProbe(k) ==
    \/ health[k].state = "HalfOpen" /\ ~health[k].probe
    \/ health[k].state = "Open" /\ health[k].cooled

IsAvailable(c) ==
    LET k == Circuit(c) IN
    /\ pc[c][1] = "ask"
    /\ health[k].state = "Closed" \/ TakesProbe(k)
    /\ IF TakesProbe(k)
       THEN /\ health' = [health EXCEPT ![k].state = "HalfOpen", ![k].probe = TRUE]
            /\ slots' = [slots EXCEPT ![c] = @ \cup {k}]
       ELSE UNCHANGED <<health, slots>>
    /\ Go(c, IF pc[c][2] = "model" THEN <<"ask", "provider">> ELSE <<"call", "none">>)
    /\ UNCHANGED <<left, drops>>

\* The circuit says no: continue with the next candidate.
SkipOpen(c) ==
    LET k == Circuit(c) IN
    /\ pc[c][1] = "ask"
    /\ health[k].state # "Closed" /\ ~TakesProbe(k)
    /\ Skip(c)
    /\ UNCHANGED <<health, drops>>

-----------------------------------------------------------------------------
(* The upstream call and what is recorded of it *)

\* The provider answers, or fails, or the fast-failover budget is used up.
UpstreamAnswers(c) ==
    /\ pc[c][1] = "call"
    /\ Go(c, <<"ok", First(c)>>) \/ Go(c, <<"err", First(c)>>)
    /\ UNCHANGED <<health, left, slots, drops>>

\* After the model's circuit the provider's.
RecordedThen(c, last) ==
    IF pc[c][2] = "model"
    THEN Go(c, <<pc[c][1], "provider">>) /\ UNCHANGED <<left, slots>>
    ELSE last

\* record_model_success and record_success: a half-open circuit closes; the slot
\* is cleared, whoever took it.
RecordSuccess(c) ==
    LET k == Circuit(c)  h == health[k] IN
    /\ pc[c][1] = "ok" /\ h.ok + h.failed < MaxOutcomes
    /\ health' = [health EXCEPT
           ![k] = [@ EXCEPT !.ok = @ + 1, !.probe = FALSE,
                            !.state = IF @ = "HalfOpen" THEN "Closed" ELSE @]]
    /\ RecordedThen(c, /\ Go(c, Done)
                       /\ slots' = [slots EXCEPT ![c] = {}]
                       /\ UNCHANGED left)
    /\ UNCHANGED drops

\* evaluate_circuit: with enough outcomes in the window, half of them failures.
TooManyFailures(ok, failed) == ok + failed >= MinRequests /\ failed >= ok

\* record_model_failure and record_failure: a half-open circuit opens again, a
\* closed one when the rate says so; the cooldown starts anew.
RecordFailure(c) ==
    LET k == Circuit(c)  h == health[k]
        opens == \/ h.state = "HalfOpen"
                 \/ h.state = "Closed" /\ TooManyFailures(h.ok, h.failed + 1) IN
    /\ pc[c][1] = "err" /\ h.ok + h.failed < MaxOutcomes
    /\ health' = [health EXCEPT
           ![k] = [@ EXCEPT !.failed = @ + 1, !.probe = FALSE,
                            !.state = IF opens THEN "Open" ELSE @,
                            !.cooled = IF opens THEN FALSE ELSE @]]
    /\ RecordedThen(c, Skip(c))
    /\ UNCHANGED drops

\* The client disconnects and the future is dropped where it waits.
Drop(c) ==
    /\ pc[c] # Done /\ drops < MaxDrops
    /\ drops' = drops + 1
    /\ Go(c, Done)
    /\ slots' = [slots EXCEPT ![c] = {}]
    /\ UNCHANGED <<health, left>>

-----------------------------------------------------------------------------
(* Time *)

CooldownElapses(k) ==
    /\ health[k].state = "Open" /\ ~health[k].cooled
    /\ health' = [health EXCEPT ![k].cooled = TRUE]
    /\ UNCHANGED <<left, pc, slots, drops>>

\* Outcomes leave the window.
WindowPasses(k) ==
    /\ health[k].ok + health[k].failed > 0
    /\ health' = [health EXCEPT ![k].ok = 0, ![k].failed = 0]
    /\ UNCHANGED <<left, pc, slots, drops>>

Next ==
    \/ \E c \in Calls :
           \/ IsAvailable(c) \/ SkipOpen(c) \/ UpstreamAnswers(c)
           \/ RecordSuccess(c) \/ RecordFailure(c) \/ Drop(c)
    \/ \E k \in Circuits : CooldownElapses(k) \/ WindowPasses(k)

Spec == Init /\ [][Next]_vars

-----------------------------------------------------------------------------

\* probe_in_flight is true "while a half-open probe request is in flight": some
\* call took the slot and has not recorded its outcome, and the slot will be
\* given back.
ProbeIsInFlight ==
    \A k \in Circuits :
        health[k].probe => \E c \in Calls : k \in slots[c]

=============================================================================
