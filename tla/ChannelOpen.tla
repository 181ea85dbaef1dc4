---------------------------- MODULE ChannelOpen ----------------------------
(***************************************************************************)
(* POST /v1/channel/open (crates/gateway/src/routes/channel.rs): verify the *)
(* client-signed funding transfer, broadcast and confirm it, then insert    *)
(* the channel row.  The same funding transaction may be presented by       *)
(* several requests at once, on several instances, and again later.         *)
(***************************************************************************)
EXTENDS Integers

CONSTANTS
    Opens,      \* open requests, each posted again after its answer
    Fundings,   \* funding transactions
    Funding,    \* Funding[o]: the transaction a request presents
    MaxFaults   \* bound: faults in a behaviour

ASSUME OpenConstants ==
    /\ Funding \in [Opens -> Fundings]
    /\ MaxFaults \in Nat

VARIABLES
    chain,      \* chain[f]: what the cluster has done with the transaction
    channels,   \* channels[f]: rows whose funding_tx_sig is f's signature
    pc,
    faults

vars == <<chain, channels, pc, faults>>

Fate == {"unseen", "pool", "landed", "reverted", "expired"}

\* Types; funding_tx_sig is unique among the rows.
TypeOK ==
    /\ chain \in [Fundings -> Fate]
    /\ channels \in [Fundings -> {0, 1}]
    /\ pc \in [Opens -> {"idle", "settle", "confirm", "create"}]
    /\ faults \in 0 .. MaxFaults

Init ==
    /\ chain = [f \in Fundings |-> "unseen"]
    /\ channels = [f \in Fundings |-> 0]
    /\ pc = [o \in Opens |-> "idle"]
    /\ faults = 0

Goto(o, l) == pc' = [pc EXCEPT ![o] = l]

Fault == faults < MaxFaults /\ faults' = faults + 1

-----------------------------------------------------------------------------
(* The handler *)

\* facilitator.verify, credit_deposit and the deposit cap.  The simulation runs
\* with a replaced blockhash, so it can pass for a transaction that has landed.
Verify(o) ==
    /\ pc[o] = "idle"
    /\ Goto(o, "settle")
    /\ UNCHANGED <<chain, channels, faults>>

\* What settle_payment does with the answer of sendTransaction: only a send that
\* is accepted now is confirmed, one the ledger already has is a failure.
SettleSend(o) ==
    LET f == Funding[o] IN
    /\ pc[o] = "settle"
    /\ IF chain[f] \in {"unseen", "pool"}
       THEN chain' = [chain EXCEPT ![f] = "pool"] /\ Goto(o, "confirm")
       ELSE UNCHANGED chain /\ Goto(o, "idle")
    /\ UNCHANGED <<channels, faults>>

\* Mutant: an expired confirmation poll counts as settled.
ConfirmTimesOutAsSettled(o) ==
    /\ pc[o] = "confirm"
    /\ Goto(o, "create")
    /\ UNCHANGED <<chain, channels, faults>>

\* poll_for_confirmation sees confirmed or finalized ...
ConfirmLanded(o) ==
    /\ pc[o] = "confirm" /\ chain[Funding[o]] = "landed"
    /\ Goto(o, "create")
    /\ UNCHANGED <<chain, channels, faults>>

\* ... or an on-chain error, or nothing for thirty seconds: 402.
ConfirmFails(o) ==
    /\ pc[o] = "confirm"
    /\ Goto(o, "idle")
    /\ UNCHANGED <<chain, channels, faults>>

\* Mutant: the INSERT without its unique funding_tx_sig index.
CreateChannelAlways(o) ==
    channels' = [channels EXCEPT ![Funding[o]] = @ + 1]

\* create_channel: ON CONFLICT (funding_tx_sig) DO NOTHING.
CreateChannel(o) ==
    IF channels[Funding[o]] = 0
    THEN channels' = [channels EXCEPT ![Funding[o]] = 1]
    ELSE UNCHANGED channels

Create(o) ==
    /\ pc[o] = "create"
    /\ CreateChannel(o)
    /\ Goto(o, "idle")
    /\ UNCHANGED <<chain, faults>>

\* The ledger write fails, or any earlier step does, or the handler is dropped.
Abandon(o) ==
    /\ pc[o] # "idle" /\ Fault
    /\ Goto(o, "idle")
    /\ UNCHANGED <<chain, channels>>

\* The send is executed and its answer lost.
SendAnswerLost(o) ==
    LET f == Funding[o] IN
    /\ pc[o] = "settle" /\ Fault
    /\ chain[f] \in {"unseen", "pool"}
    /\ chain' = [chain EXCEPT ![f] = "pool"]
    /\ Goto(o, "idle")
    /\ UNCHANGED channels

-----------------------------------------------------------------------------
(* The cluster *)

Execute(f) ==
    /\ chain[f] = "pool"
    /\ \E r \in {"landed", "reverted"} : chain' = [chain EXCEPT ![f] = r]
    /\ UNCHANGED <<channels, pc, faults>>

Expire(f) ==
    /\ chain[f] \in {"unseen", "pool"}
    /\ chain' = [chain EXCEPT ![f] = "expired"]
    /\ UNCHANGED <<channels, pc, faults>>

-----------------------------------------------------------------------------

OpenStep(o) ==
    Verify(o) \/ SettleSend(o) \/ ConfirmLanded(o) \/ ConfirmFails(o) \/ Create(o)

Next ==
    \/ \E o \in Opens : OpenStep(o) \/ Abandon(o) \/ SendAnswerLost(o)
    \/ \E f \in Fundings : Execute(f) \/ Expire(f)

Spec == Init /\ [][Next]_vars

\* The client posts an unsuccessful open again and a handler runs to its end.
FairSpec == Spec /\ \A o \in Opens : WF_vars(OpenStep(o))

-----------------------------------------------------------------------------
(* Properties *)

\* A channel exists only for money that landed: no request, however it
\* interleaves with others presenting the same transaction, with lost answers
\* and with the transaction's expiry, credits a deposit the gateway never got.
CreditedMeansLanded ==
    \A f \in Fundings : channels[f] > 0 => chain[f] = "landed"

\* "idempotent re-open keys on the same funding tx": a settled deposit whose
\* ledger write failed is credited when the client opens again.
SettledIsCredited ==
    \A o \in Opens : pc[o] = "create" ~> channels[Funding[o]] = 1

=============================================================================
