------------------------------- MODULE Faucet -------------------------------
(***************************************************************************)
(* POST /v1/faucet/gas (crates/gateway/src/routes/faucet.rs): a wallet with  *)
(* USDC is sent a little SOL, once for ever.  A row of gas_drips is inserted *)
(* before the transfer and deleted when the request is declined; a daily     *)
(* ceiling is read after the insert.  Any number of requests, on several     *)
(* instances, may ask for the same wallet.                                   *)
(***************************************************************************)
EXTENDS Integers, FiniteSets

CONSTANTS
    Drips,           \* requests
    Wallet,          \* Wallet[r]: whom it asks for
    Lamports,        \* drip_lamports
    DailyCap,        \* daily_cap_lamports
    MaxDay,          \* bound: UTC days
    MaxBlockhash,    \* bound: blockhashes
    MaxDripFaults,   \* bound: faults in a behaviour
    NoDrip

ASSUME FaucetConstants ==
    /\ IsFiniteSet(Drips)
    /\ Lamports \in Nat /\ DailyCap \in Nat
    /\ MaxDay \in Nat /\ MaxBlockhash \in Nat /\ MaxDripFaults \in Nat
    /\ NoDrip \notin Drips \cup Nat

Wallets == {Wallet[r] : r \in Drips}

VARIABLES
    gasDrips,     \* gasDrips[w]: the request whose INSERT made w's row, or NoDrip
    signed,       \* the wallets whose row has a tx_signature
    created,      \* created[r]: the day of created_at
    checked,      \* checked[r]: the day it passed the ceiling, or NoDrip
    gate,         \* gate[r]: the next check or step of drip
    hash,         \* hash[r]: the blockhash its transfer is signed with
    sends,        \* sends[r]: the blockhash of the transfer the cluster took
    unanswered,   \* the requests that were told their accepted send had failed
    day,
    blockhash,
    dripFaults

faucetVars == <<gasDrips, signed, created, checked, gate, hash, sends, unanswered,
                day, blockhash, dripFaults>>

Gates == {"reserve", "cap", "usdc", "sol", "source", "sign", "send", "record",
          "rollback", "done"}

FaucetTypeOK ==
    /\ gasDrips \in [Wallets -> Drips \cup {NoDrip}]
    /\ signed \subseteq Wallets
    /\ created \in [Drips -> Nat]
    /\ checked \in [Drips -> Nat \cup {NoDrip}]
    /\ gate \in [Drips -> Gates]
    /\ hash \in [Drips -> Nat]
    /\ sends \in [Drips -> Nat \cup {NoDrip}]
    /\ unanswered \subseteq Drips
    /\ day \in Nat /\ blockhash \in Nat /\ dripFaults \in Nat

FaucetInit ==
    /\ gasDrips = [w \in Wallets |-> NoDrip]
    /\ signed = {} /\ unanswered = {}
    /\ created = [r \in Drips |-> 0] /\ hash = [r \in Drips |-> 0]
    /\ checked = [r \in Drips |-> NoDrip] /\ sends = [r \in Drips |-> NoDrip]
    /\ gate = [r \in Drips |-> "reserve"]
    /\ day = 0 /\ blockhash = 0 /\ dripFaults = 0

Pass(r, l) == gate' = [gate EXCEPT ![r] = l]
DripFault == dripFaults < MaxDripFaults /\ dripFaults' = dripFaults + 1

-----------------------------------------------------------------------------
(* The ledger *)

Insert(r) ==
    /\ gasDrips' = [gasDrips EXCEPT ![Wallet[r]] = r]
    /\ created' = [created EXCEPT ![r] = day]

\* Mutant: a row without a signature does not stop the next request.
ReserveUnsigned(r) ==
    /\ gate[r] = "reserve"
    /\ IF gasDrips[Wallet[r]] = NoDrip \/ Wallet[r] \notin signed
       THEN Insert(r) /\ Pass(r, "cap")
       ELSE Pass(r, "done") /\ UNCHANGED <<gasDrips, created>>
    /\ UNCHANGED <<signed, checked, hash, sends, unanswered, day, blockhash, dripFaults>>

\* INSERT ... ON CONFLICT DO NOTHING; a conflict answers already_funded.
ReserveDrip(r) ==
    /\ gate[r] = "reserve"
    /\ IF gasDrips[Wallet[r]] = NoDrip
       THEN Insert(r) /\ Pass(r, "cap")
       ELSE Pass(r, "done") /\ UNCHANGED <<gasDrips, created>>
    /\ UNCHANGED <<signed, checked, hash, sends, unanswered, day, blockhash, dripFaults>>

\* An error ends the request; the row may have been inserted and then stays.
ReserveDripFails(r) ==
    /\ gate[r] = "reserve" /\ DripFault
    /\ \/ UNCHANGED <<gasDrips, created>>
       \/ gasDrips[Wallet[r]] = NoDrip /\ Insert(r)
    /\ Pass(r, "done")
    /\ UNCHANGED <<signed, checked, hash, sends, unanswered, day, blockhash>>

\* The rows a day's total is made of.
DayRows(d) == {r \in Drips : gasDrips[Wallet[r]] = r /\ created[r] = d}

\* Mutant: only rows with a signature are added up.
DayTotalSigned(d) == Lamports * Cardinality({r \in DayRows(d) : Wallet[r] \in signed})

DayTotalLamports(d) == Lamports * Cardinality(DayRows(d))

\* DELETE ... WHERE tx_signature IS NULL, and the answer of the decline.
DeleteReservation(r) ==
    gasDrips' = IF Wallet[r] \in signed THEN gasDrips
                ELSE [gasDrips EXCEPT ![Wallet[r]] = NoDrip]

Rollback(r) ==
    /\ gate[r] = "rollback"
    /\ DeleteReservation(r)
    /\ Pass(r, "done")
    /\ UNCHANGED <<signed, created, checked, hash, sends, unanswered, day, blockhash, dripFaults>>

\* A rollback that fails is only logged.
RollbackFails(r) ==
    /\ gate[r] = "rollback" /\ DripFault
    /\ DeleteReservation(r) \/ UNCHANGED gasDrips
    /\ Pass(r, "done")
    /\ UNCHANGED <<signed, created, checked, hash, sends, unanswered, day, blockhash>>

-----------------------------------------------------------------------------
(* The checks after the reservation *)

\* The day's total, with this request's own row in it if the day is still the same;
\* at the ceiling, or with no answer, it declines.
CheckDailyCap(r) ==
    /\ gate[r] = "cap"
    /\ \/ /\ DayTotalLamports(day) < DailyCap
          /\ Pass(r, "usdc")
          /\ checked' = [checked EXCEPT ![r] = day]
       \/ Pass(r, "rollback") /\ UNCHANGED checked
    /\ UNCHANGED <<gasDrips, signed, created, hash, sends, unanswered, day, blockhash, dripFaults>>

\* The USDC floor; too little, or no answer, declines.
CheckUsdc(r) ==
    /\ gate[r] = "usdc"
    /\ Pass(r, "sol") \/ Pass(r, "rollback")
    /\ UNCHANGED <<gasDrips, signed, created, checked, hash, sends, unanswered, day, blockhash,
                   dripFaults>>

\* The SOL low-water mark; enough SOL declines, no answer keeps the row.
CheckSol(r) ==
    /\ gate[r] = "sol"
    /\ \E l \in {"source", "rollback", "done"} : Pass(r, l)
    /\ UNCHANGED <<gasDrips, signed, created, checked, hash, sends, unanswered, day, blockhash,
                   dripFaults>>

\* The gas wallet; too little declines, no answer goes on.
CheckSource(r) ==
    /\ gate[r] = "source"
    /\ Pass(r, "sign") \/ Pass(r, "rollback")
    /\ UNCHANGED <<gasDrips, signed, created, checked, hash, sends, unanswered, day, blockhash,
                   dripFaults>>

-----------------------------------------------------------------------------
(* send_drip *)

SignDrip(r) ==
    /\ gate[r] = "sign"
    /\ \/ hash' = [hash EXCEPT ![r] = blockhash] /\ Pass(r, "send")
       \/ Pass(r, "rollback") /\ UNCHANGED hash
    /\ UNCHANGED <<gasDrips, signed, created, checked, sends, unanswered, day, blockhash, dripFaults>>

Accepted(r) == sends' = [sends EXCEPT ![r] = hash[r]]

\* sendTransaction answers with the signature ...
SendDrip(r) ==
    /\ gate[r] = "send"
    /\ Accepted(r)
    /\ Pass(r, "record")
    /\ UNCHANGED <<gasDrips, signed, created, checked, hash, unanswered, day, blockhash, dripFaults>>

\* ... or takes the transfer and its answer is lost: an RPC error like any other.
SendDripLost(r) ==
    /\ gate[r] = "send" /\ DripFault
    /\ Accepted(r)
    /\ unanswered' = unanswered \cup {r}
    /\ Pass(r, "rollback")
    /\ UNCHANGED <<gasDrips, signed, created, checked, hash, day, blockhash>>

\* The same bytes, signed for the same wallet with the same blockhash by an
\* earlier request, have been executed: the row is kept.
DripAlreadyProcessed(r) ==
    /\ gate[r] = "send"
    /\ \E s \in Drips : Wallet[s] = Wallet[r] /\ sends[s] = hash[r]
    /\ Pass(r, "done")
    /\ UNCHANGED <<gasDrips, signed, created, checked, hash, sends, unanswered, day, blockhash,
                   dripFaults>>

\* Any other error, the transfer not taken.
SendDripRefused(r) ==
    /\ gate[r] = "send"
    /\ Pass(r, "rollback")
    /\ UNCHANGED <<gasDrips, signed, created, checked, hash, sends, unanswered, day, blockhash,
                   dripFaults>>

\* UPDATE ... SET tx_signature; a failure is only logged.
RecordSignature(r) ==
    /\ gate[r] = "record"
    /\ signed' \in {signed, signed \cup {Wallet[r]}}
    /\ Pass(r, "done")
    /\ UNCHANGED <<gasDrips, created, checked, hash, sends, unanswered, day, blockhash, dripFaults>>

\* The handler is dropped or its process dies, in the middle of a send or not.
DropDrip(r) ==
    /\ gate[r] # "done" /\ DripFault
    /\ Pass(r, "done")
    /\ UNCHANGED sends \/ (gate[r] = "send" /\ Accepted(r))
    /\ UNCHANGED <<gasDrips, signed, created, checked, hash, unanswered, day, blockhash>>

-----------------------------------------------------------------------------

NewDay ==
    /\ day < MaxDay /\ day' = day + 1
    /\ UNCHANGED <<gasDrips, signed, created, checked, gate, hash, sends, unanswered, blockhash,
                   dripFaults>>

NewBlockhash ==
    /\ blockhash < MaxBlockhash /\ blockhash' = blockhash + 1
    /\ UNCHANGED <<gasDrips, signed, created, checked, gate, hash, sends, unanswered, day,
                   dripFaults>>

DripStep(r) ==
    \/ ReserveDrip(r) \/ ReserveDripFails(r) \/ CheckDailyCap(r) \/ CheckUsdc(r)
    \/ CheckSol(r) \/ CheckSource(r) \/ SignDrip(r) \/ SendDrip(r) \/ SendDripLost(r)
    \/ DripAlreadyProcessed(r) \/ SendDripRefused(r) \/ RecordSignature(r)
    \/ Rollback(r) \/ RollbackFails(r) \/ DropDrip(r)

FaucetNext == NewDay \/ NewBlockhash \/ \E r \in Drips : DripStep(r)

FaucetSpec == FaucetInit /\ [][FaucetNext]_faucetVars

-----------------------------------------------------------------------------
(* Properties *)

\* "We never double-drip": two requests have transfers taken for the same wallet
\* only if one of them was told that its send had failed although it had not,
\* and gave its reservation back.
DripOnce ==
    \A r, s \in Drips :
        /\ r # s /\ Wallet[r] = Wallet[s]
        /\ sends[r] # NoDrip /\ sends[s] # NoDrip
        => r \in unanswered \/ s \in unanswered

\* What a day's drips are: reserved, or sent although the row is gone.  (A request
\* that reads the total after midnight is not counted by anybody.)
DayDrips(d) ==
    {r \in Drips : /\ created[r] = d /\ checked[r] = d
                   /\ gasDrips[Wallet[r]] = r \/ sends[r] # NoDrip}

\* Those the rows no longer tell of: taken by the cluster, reported as failed, and
\* their reservation given back.
Forgotten(d) == {r \in unanswered : created[r] = d /\ gasDrips[Wallet[r]] # r}

\* "the cap a true ceiling on reserved+sent lamports for the day": reserved and sent
\* stay within it, in whatever order concurrent requests insert, read and roll
\* back, but for the drips whose send was taken and its answer lost: each of
\* those lets one more through.
DripsWithinCap ==
    \A d \in 0 .. MaxDay :
        Lamports * Cardinality(DayDrips(d))
            <= DailyCap + Lamports * Cardinality(Forgotten(d))

\* The row of a request that may still send, or has sent and knows it, is its own.
Holds(r) ==
    \/ gate[r] \in {"cap", "usdc", "sol", "source", "sign", "send", "record", "rollback"}
    \/ sends[r] # NoDrip /\ r \notin unanswered

\* The rows that passed the check on their own day stay within the ceiling.
RowsWithinCap ==
    \A d \in 0 .. MaxDay :
        Lamports * Cardinality({r \in DayRows(d) : checked[r] = d}) <= DailyCap

FaucetInv ==
    /\ FaucetTypeOK
    /\ \A r \in Drips : Holds(r) => gasDrips[Wallet[r]] = r
    /\ \A r \in Drips : gate[r] \in {"reserve", "cap"} => checked[r] = NoDrip
    /\ \A r \in Drips : sends[r] # NoDrip /\ r \notin unanswered =>
                            gate[r] \in {"record", "done"}
    /\ RowsWithinCap

=============================================================================
