---------------------------- MODULE FaucetProofs ----------------------------
(***************************************************************************)
(* The faucet's two promises, for any number of requests, wallets, days,    *)
(* blockhashes and faults.                                                  *)
(***************************************************************************)
EXTENDS Faucet, FiniteSetTheorems, TLAPS

\* The rows of a day that passed the ceiling on that day.
CheckedRows(d) == {r \in Drips : gasDrips[Wallet[r]] = r /\ created[r] = d /\ checked[r] = d}

\* The part of FaucetInv that does not count.
HoldsOwnRow ==
    /\ FaucetTypeOK
    /\ \A r \in Drips : Holds(r) => gasDrips[Wallet[r]] = r
    /\ \A r \in Drips : gate[r] \in {"reserve", "cap"} => checked[r] = NoDrip
    /\ \A r \in Drips : sends[r] # NoDrip /\ r \notin unanswered =>
                            gate[r] \in {"record", "done"}

\* FaucetInv in the terms of this module.
LEMMA InvParts == FaucetInv <=> HoldsOwnRow /\ RowsWithinCap
  BY DEF FaucetInv, HoldsOwnRow

\* What RowsWithinCap counts.
LEMMA CheckedRowsCounted ==
    RowsWithinCap <=> \A d \in 0 .. MaxDay : Lamports * Cardinality(CheckedRows(d)) <= DailyCap
<1>1. ASSUME NEW d PROVE {r \in DayRows(d) : checked[r] = d} = CheckedRows(d)
  BY DEF DayRows, CheckedRows
<1> QED BY <1>1 DEF RowsWithinCap

\* Fewer requests cost no more.
LEMMA FewerCostLess ==
    ASSUME NEW S \in SUBSET Drips, NEW R, R \subseteq S
    PROVE  /\ Cardinality(R) \in Nat /\ Cardinality(S) \in Nat
           /\ Lamports * Cardinality(R) <= Lamports * Cardinality(S)
<1>1. IsFiniteSet(S) /\ IsFiniteSet(R)
  BY FaucetConstants, FS_Subset
<1>2. Cardinality(R) \in Nat /\ Cardinality(S) \in Nat /\ Cardinality(R) <= Cardinality(S)
  BY <1>1, FS_CardinalityType, FS_Subset
<1>3. ASSUME NEW L \in Nat, NEW a \in Nat, NEW b \in Nat, a <= b PROVE L * a <= L * b
  <2>1. PICK k \in Nat : b = a + k
    <3>1. b - a \in Nat /\ b = a + (b - a)
      BY <1>3
    <3> QED BY <3>1
  <2>2. L * b = L * a + L * k /\ L * k \in Nat /\ L * a \in Nat /\ L * b \in Nat
    BY <2>1
  <2> QED BY <2>2
<1> QED BY <1>2, <1>3, FaucetConstants

\* A request's own step keeps everybody at their own row, if it leaves the rows of
\* others alone.
LEMMA OwnStep ==
    ASSUME HoldsOwnRow, FaucetTypeOK', NEW r \in Drips,
           \A s \in Drips \ {r} : UNCHANGED <<gate[s], sends[s], checked[s]>>,
           \A s \in Drips \ {r} : s \in unanswered' <=> s \in unanswered,
           \A s \in Drips \ {r} : gasDrips[Wallet[s]] = s => gasDrips'[Wallet[s]] = s,
           Holds(r)' => gasDrips'[Wallet[r]] = r,
           gate'[r] \in {"reserve", "cap"} => checked'[r] = NoDrip,
           sends'[r] # NoDrip /\ r \notin unanswered' => gate'[r] \in {"record", "done"}
    PROVE  HoldsOwnRow'
<1>1. \A s \in Drips : Holds(s)' => gasDrips'[Wallet[s]] = s
  BY DEF HoldsOwnRow, Holds
<1> QED BY <1>1 DEF HoldsOwnRow

\* No step of a request moves it, or another one, off its own row.
LEMMA DripKeepsRows ==
    ASSUME HoldsOwnRow, NEW r \in Drips, DripStep(r)
    PROVE  HoldsOwnRow'
<1> USE FaucetConstants DEF Pass, DripFault
<1>t. /\ FaucetTypeOK /\ Wallet[r] \in Wallets
      /\ \A s \in Drips : Wallet[s] \in Wallets
      /\ gate[r] \in Gates
  BY DEF HoldsOwnRow, FaucetTypeOK, Wallets
<1>1. CASE ReserveDrip(r) \/ ReserveDripFails(r)
  <2>1. FaucetTypeOK'
    BY <1>1, <1>t DEF ReserveDrip, ReserveDripFails, Insert, FaucetTypeOK, Gates
  <2>2. \A s \in Drips : gasDrips[Wallet[s]] = s => gasDrips'[Wallet[s]] = s
    BY <1>1, <1>t DEF ReserveDrip, ReserveDripFails, Insert, FaucetTypeOK
  <2>3. checked[r] = NoDrip /\ (sends[r] = NoDrip \/ r \in unanswered)
    BY <1>1 DEF ReserveDrip, ReserveDripFails, HoldsOwnRow
  <2>4. gate'[r] \in {"cap", "done"} /\ (gate'[r] = "cap" => gasDrips'[Wallet[r]] = r)
    BY <1>1, <1>t DEF ReserveDrip, ReserveDripFails, Insert, FaucetTypeOK
  <2>5. /\ \A s \in Drips \ {r} : UNCHANGED <<gate[s], sends[s], checked[s]>>
        /\ UNCHANGED <<unanswered, sends, checked>>
    BY <1>1, <1>t DEF ReserveDrip, ReserveDripFails, FaucetTypeOK
  <2>6. Holds(r)' => gasDrips'[Wallet[r]] = r
    BY <2>3, <2>4, <2>5 DEF Holds
  <2> QED BY <2>1, <2>2, <2>3, <2>4, <2>5, <2>6, OwnStep
<1>2. CASE Rollback(r) \/ RollbackFails(r)
  <2>1. FaucetTypeOK'
    BY <1>2, <1>t DEF Rollback, RollbackFails, DeleteReservation, FaucetTypeOK, Gates
  <2>2. gasDrips[Wallet[r]] = r /\ (sends[r] = NoDrip \/ r \in unanswered)
    BY <1>2 DEF Rollback, RollbackFails, HoldsOwnRow, Holds
  <2>3. \A s \in Drips \ {r} : gasDrips[Wallet[s]] = s => gasDrips'[Wallet[s]] = s
    BY <1>2, <1>t, <2>2 DEF Rollback, RollbackFails, DeleteReservation, FaucetTypeOK
  <2>4. gate'[r] = "done" /\ UNCHANGED <<sends, unanswered, checked>>
        /\ (\A s \in Drips \ {r} : gate'[s] = gate[s])
    BY <1>2, <1>t DEF Rollback, RollbackFails, FaucetTypeOK
  <2>5. ~Holds(r)'
    BY <2>2, <2>4 DEF Holds
  <2> QED BY <2>1, <2>2, <2>3, <2>4, <2>5, OwnStep
<1>3. CASE \/ CheckDailyCap(r) \/ CheckUsdc(r) \/ CheckSol(r) \/ CheckSource(r)
           \/ SignDrip(r) \/ DripAlreadyProcessed(r) \/ SendDripRefused(r)
  <2>1. gate[r] \in {"cap", "usdc", "sol", "source", "sign", "send"}
    BY <1>3 DEF CheckDailyCap, CheckUsdc, CheckSol, CheckSource, SignDrip,
                DripAlreadyProcessed, SendDripRefused
  <2>2. gasDrips[Wallet[r]] = r /\ (sends[r] = NoDrip \/ r \in unanswered)
    BY <2>1 DEF HoldsOwnRow, Holds
  <2>3. PICK l \in {"usdc", "sol", "source", "sign", "send", "rollback", "done"} : Pass(r, l)
    BY <1>3 DEF CheckDailyCap, CheckUsdc, CheckSol, CheckSource, SignDrip,
                DripAlreadyProcessed, SendDripRefused
  <2>4. /\ UNCHANGED <<gasDrips, sends, unanswered, signed, created, day, blockhash, dripFaults>>
        /\ checked' \in [Drips -> Nat \cup {NoDrip}] /\ hash' \in [Drips -> Nat]
        /\ \A s \in Drips \ {r} : checked'[s] = checked[s]
    BY <1>3, <1>t DEF CheckDailyCap, CheckUsdc, CheckSol, CheckSource, SignDrip,
                DripAlreadyProcessed, SendDripRefused, FaucetTypeOK
  <2>5. FaucetTypeOK'
    BY <1>t, <2>3, <2>4 DEF FaucetTypeOK, Gates
  <2>6. gate'[r] = l /\ \A s \in Drips \ {r} : gate'[s] = gate[s]
    BY <1>t, <2>3 DEF FaucetTypeOK
  <2> QED BY <2>2, <2>3, <2>4, <2>5, <2>6, OwnStep
<1>4. CASE SendDrip(r) \/ SendDripLost(r) \/ DropDrip(r) \/ RecordSignature(r)
  <2>1. FaucetTypeOK'
    BY <1>4, <1>t DEF SendDrip, SendDripLost, DropDrip, RecordSignature, Accepted,
                      FaucetTypeOK, Gates
  <2>2. /\ UNCHANGED <<gasDrips, checked>>
        /\ \A s \in Drips \ {r} : UNCHANGED <<gate[s], sends[s]>>
        /\ \A s \in Drips \ {r} : s \in unanswered' <=> s \in unanswered
    BY <1>4, <1>t DEF SendDrip, SendDripLost, DropDrip, RecordSignature, Accepted,
                      FaucetTypeOK
  <2>3. gate[r] \in {"reserve", "done"} \/ gasDrips[Wallet[r]] = r
    BY <1>t DEF HoldsOwnRow, Holds, Gates
  <2>4. /\ gate'[r] \in {"record", "rollback", "done"}
        /\ gate'[r] = "rollback" => r \in unanswered'
    BY <1>4, <1>t DEF SendDrip, SendDripLost, DropDrip, RecordSignature, FaucetTypeOK
  <2>5. gate[r] # "done"
        /\ (gate[r] = "reserve" => gate'[r] = "done" /\ UNCHANGED <<sends, unanswered>>)
    BY <1>4, <1>t DEF SendDrip, SendDripLost, DropDrip, RecordSignature, FaucetTypeOK
  <2>6. Holds(r)' => gasDrips'[Wallet[r]] = r
    BY <2>2, <2>3, <2>4, <2>5 DEF Holds, HoldsOwnRow
  <2> QED BY <2>1, <2>2, <2>4, <2>6, OwnStep
<1> QED BY <1>1, <1>2, <1>3, <1>4 DEF DripStep

\* Rows only leave the count, but for the request that has just read the total
\* with its own row in it.
LEMMA DripKeepsCap ==
    ASSUME HoldsOwnRow, RowsWithinCap, NEW r \in Drips, DripStep(r)
    PROVE  RowsWithinCap'
<1> USE FaucetConstants DEF Pass, DripFault
<1>t. /\ FaucetTypeOK /\ \A s \in Drips : Wallet[s] \in Wallets
      /\ \A d \in 0 .. MaxDay : Lamports * Cardinality(CheckedRows(d)) <= DailyCap
  BY CheckedRowsCounted DEF HoldsOwnRow, Wallets
<1>s. SUFFICES ASSUME NEW d \in 0 .. MaxDay
               PROVE  Lamports * Cardinality(CheckedRows(d)') <= DailyCap
  <2>1. (RowsWithinCap <=> \A d \in 0 .. MaxDay :
                             Lamports * Cardinality(CheckedRows(d)) <= DailyCap)'
    BY CheckedRowsCounted, PTL
  <2> QED BY <2>1
<1>1. ASSUME CheckedRows(d)' \subseteq CheckedRows(d)
      PROVE  Lamports * Cardinality(CheckedRows(d)') <= DailyCap
  <2>1. CheckedRows(d) \in SUBSET Drips
    BY DEF CheckedRows
  <2>2. Lamports * Cardinality(CheckedRows(d)') <= Lamports * Cardinality(CheckedRows(d))
        /\ Cardinality(CheckedRows(d)') \in Nat /\ Cardinality(CheckedRows(d)) \in Nat
    BY <1>1, <2>1, FewerCostLess
  <2> HIDE DEF CheckedRows
  <2>3. ASSUME NEW x \in Nat, NEW y \in Nat, x <= y, y <= DailyCap PROVE x <= DailyCap
    BY <2>3
  <2>4. Lamports * Cardinality(CheckedRows(d)') \in Nat /\ Lamports * Cardinality(CheckedRows(d)) \in Nat
    BY <2>2
  <2> QED BY <1>t, <2>2, <2>3, <2>4
<1>2. CASE CheckDailyCap(r)
  <2>0. UNCHANGED <<gasDrips, created>> /\ checked[r] = NoDrip
    BY <1>2 DEF CheckDailyCap, HoldsOwnRow
  <2>1. CASE d = day /\ DayTotalLamports(day) < DailyCap
    <3>1. CheckedRows(d)' \subseteq DayRows(d) /\ DayRows(d) \in SUBSET Drips
      BY <2>0 DEF CheckedRows, DayRows
    <3>2. Lamports * Cardinality(CheckedRows(d)') <= Lamports * Cardinality(DayRows(d))
          /\ Cardinality(CheckedRows(d)') \in Nat /\ Cardinality(DayRows(d)) \in Nat
      BY <3>1, FewerCostLess
    <3>3. Lamports * Cardinality(CheckedRows(d)') \in Nat /\ Lamports * Cardinality(DayRows(d)) \in Nat
      BY <3>2
    <3>4. Lamports * Cardinality(DayRows(d)) < DailyCap
      BY <2>1 DEF DayTotalLamports
    <3>5. ASSUME NEW x \in Nat, NEW y \in Nat, x <= y, y < DailyCap PROVE x <= DailyCap
      BY <3>5
    <3> QED BY <3>2, <3>3, <3>4, <3>5
  <2>2. CASE ~(d = day /\ DayTotalLamports(day) < DailyCap)
    <3>1. \A s \in Drips : checked'[s] = d => checked[s] = d
      <4>1. CASE UNCHANGED checked
        BY <4>1
      <4>2. CASE checked' = [checked EXCEPT ![r] = day] /\ d # day
        BY <4>2, <1>t DEF FaucetTypeOK
      <4> QED BY <1>2, <2>2, <4>1, <4>2 DEF CheckDailyCap
    <3> QED BY <1>1, <2>0, <3>1 DEF CheckedRows
  <2> QED BY <2>1, <2>2
<1>3. CASE ReserveDrip(r) \/ ReserveDripFails(r)
  <2>1. checked' = checked /\ checked[r] = NoDrip /\ NoDrip # d
    BY <1>3 DEF ReserveDrip, ReserveDripFails, HoldsOwnRow
  <2>2. \A s \in Drips \ {r} : created'[s] = created[s]
    BY <1>3, <1>t DEF ReserveDrip, ReserveDripFails, Insert, FaucetTypeOK
  <2>3. \A s \in Drips \ {r} : gasDrips'[Wallet[s]] = s => gasDrips[Wallet[s]] = s
    BY <1>3, <1>t DEF ReserveDrip, ReserveDripFails, Insert, FaucetTypeOK
  <2> QED BY <1>1, <2>1, <2>2, <2>3 DEF CheckedRows
<1>4. CASE Rollback(r) \/ RollbackFails(r)
  <2>1. UNCHANGED <<checked, created>>
    BY <1>4 DEF Rollback, RollbackFails
  <2>2. \A s \in Drips : gasDrips'[Wallet[s]] = s => gasDrips[Wallet[s]] = s
    BY <1>4, <1>t DEF Rollback, RollbackFails, DeleteReservation, FaucetTypeOK
  <2> QED BY <1>1, <2>1, <2>2 DEF CheckedRows
<1>5. CASE \/ CheckUsdc(r) \/ CheckSol(r) \/ CheckSource(r) \/ SignDrip(r) \/ SendDrip(r)
           \/ SendDripLost(r) \/ DripAlreadyProcessed(r) \/ SendDripRefused(r)
           \/ RecordSignature(r) \/ DropDrip(r)
  <2>1. UNCHANGED <<gasDrips, checked, created>>
    BY <1>5 DEF CheckUsdc, CheckSol, CheckSource, SignDrip, SendDrip, SendDripLost,
                DripAlreadyProcessed, SendDripRefused, RecordSignature, DropDrip
  <2> QED BY <1>1, <2>1 DEF CheckedRows
<1> QED BY <1>2, <1>3, <1>4, <1>5 DEF DripStep

\* An empty table satisfies the invariant.
LEMMA FaucetStart == FaucetInit => FaucetInv
<1> SUFFICES ASSUME FaucetInit PROVE FaucetInv
  OBVIOUS
<1> USE FaucetConstants
<1>1. FaucetTypeOK
  BY DEF FaucetInit, FaucetTypeOK, Wallets, Gates
<1>2. HoldsOwnRow
  BY <1>1 DEF HoldsOwnRow, FaucetInit, Holds
<1>3. \A d : CheckedRows(d) = {}
  BY DEF CheckedRows, FaucetInit, Wallets
<1>4. RowsWithinCap
  <2>1. Lamports * 0 <= DailyCap
    OBVIOUS
  <2> QED BY <1>3, <2>1, FS_EmptySet, CheckedRowsCounted
<1> QED BY <1>2, <1>4, InvParts

\* Every step keeps it: requests that interleave, fail and are dropped, midnight
\* and a new blockhash.
LEMMA FaucetNextKeeps == FaucetInv /\ [FaucetNext]_faucetVars => FaucetInv'
<1> SUFFICES ASSUME FaucetInv, [FaucetNext]_faucetVars PROVE FaucetInv'
  OBVIOUS
<1>0. HoldsOwnRow /\ RowsWithinCap
  BY InvParts
<1>1. ASSUME NEW r \in Drips, DripStep(r) PROVE FaucetInv'
  BY <1>0, <1>1, DripKeepsRows, DripKeepsCap, InvParts DEF FaucetInv, HoldsOwnRow
<1>2. CASE NewDay \/ NewBlockhash \/ UNCHANGED faucetVars
  <2>1. UNCHANGED <<gasDrips, signed, created, checked, gate, hash, sends, unanswered>>
        /\ day' \in Nat /\ blockhash' \in Nat /\ dripFaults' \in Nat
    BY <1>0, <1>2 DEF NewDay, NewBlockhash, faucetVars, HoldsOwnRow, FaucetTypeOK
  <2>2. FaucetTypeOK'
    BY <1>0, <2>1 DEF HoldsOwnRow, FaucetTypeOK
  <2>3. RowsWithinCap'
    BY <1>0, <2>1 DEF RowsWithinCap, DayRows
  <2> QED BY <1>0, <2>1, <2>2, <2>3 DEF FaucetInv, HoldsOwnRow, Holds
<1> QED BY <1>1, <1>2 DEF FaucetNext

\* The faucet's inductive invariant holds in every reachable state.
THEOREM FaucetSafe == FaucetSpec => []FaucetInv
  BY FaucetStart, FaucetNextKeeps, PTL DEF FaucetSpec

\* No wallet is sent two transfers but for a send whose answer was lost: only a
\* request that holds the wallet's row sends, and one that has sent and knows
\* it never gives the row back (Faucet::drip, PgGasLedger::reserve).
THEOREM NeverDripsTwice == FaucetSpec => []DripOnce
<1>1. FaucetInv => DripOnce
  BY DEF FaucetInv, DripOnce, Holds
<1> QED BY <1>1, FaucetSafe, PTL

\* What is reserved and what the cluster took of a day's drips stays within the
\* daily ceiling, but for the sends whose answer was lost, each counted: the
\* total is read after the row is inserted (day_total_lamports), and whoever has
\* sent and knows it keeps its row.
THEOREM CapIsCeiling == FaucetSpec => []DripsWithinCap
<1>1. ASSUME FaucetInv, NEW d \in 0 .. MaxDay
      PROVE  Lamports * Cardinality(DayDrips(d)) <= DailyCap + Lamports * Cardinality(Forgotten(d))
  <2>1. DayDrips(d) \subseteq CheckedRows(d) \cup Forgotten(d)
    <3> SUFFICES ASSUME NEW r \in DayDrips(d), r \notin CheckedRows(d) PROVE r \in Forgotten(d)
      OBVIOUS
    <3>1. r \in Drips /\ created[r] = d /\ gasDrips[Wallet[r]] # r /\ sends[r] # NoDrip
      BY DEF DayDrips, CheckedRows
    <3>2. r \in unanswered
      BY <1>1, <3>1 DEF FaucetInv, Holds
    <3> QED BY <3>1, <3>2 DEF Forgotten
  <2>2. CheckedRows(d) \in SUBSET Drips /\ Forgotten(d) \in SUBSET Drips
    BY <1>1 DEF CheckedRows, Forgotten, FaucetInv, FaucetTypeOK
  <2>3. IsFiniteSet(CheckedRows(d)) /\ IsFiniteSet(Forgotten(d))
    BY <2>2, FaucetConstants, FS_Subset
  <2>4. PICK a, b, c, i :
            /\ a = Cardinality(CheckedRows(d)) /\ b = Cardinality(Forgotten(d))
            /\ c = Cardinality(CheckedRows(d) \cup Forgotten(d))
            /\ i = Cardinality(CheckedRows(d) \cap Forgotten(d))
    OBVIOUS
  <2>n. a \in Nat /\ b \in Nat /\ c \in Nat /\ i \in Nat /\ c = a + b - i
    <3>1. IsFiniteSet(CheckedRows(d) \cup Forgotten(d)) /\ c = a + b - i
      BY <2>3, <2>4, FS_Union
    <3>2. IsFiniteSet(CheckedRows(d) \cap Forgotten(d))
      BY <2>3, FS_Intersection
    <3> QED BY <2>3, <2>4, <3>1, <3>2, FS_CardinalityType
  <2>5. Lamports * Cardinality(DayDrips(d)) <= Lamports * c /\ Cardinality(DayDrips(d)) \in Nat
    BY <2>1, <2>2, <2>4, FewerCostLess
  <2>6. Lamports * a <= DailyCap
    BY <1>1, <2>4, CheckedRowsCounted, InvParts
  <2>7. Lamports * (a + b) = Lamports * c + Lamports * i /\ Lamports * (a + b) = Lamports * a + Lamports * b
    <3>1. a + b = c + i
      BY <2>n
    <3> QED BY <2>n, <3>1, FaucetConstants
  <2>8. /\ Lamports * a \in Nat /\ Lamports * b \in Nat /\ Lamports * c \in Nat
        /\ Lamports * i \in Nat /\ Lamports * Cardinality(DayDrips(d)) \in Nat
        /\ DailyCap \in Nat
    BY <2>n, <2>5, FaucetConstants
  <2>9. ASSUME NEW x \in Nat, NEW la \in Nat, NEW lb \in Nat, NEW lc \in Nat, NEW li \in Nat,
               NEW cap \in Nat, x <= lc, la <= cap, la + lb = lc + li
        PROVE  x <= cap + lb
    BY <2>9
  <2>10. Lamports * a + Lamports * b = Lamports * c + Lamports * i
    BY <2>7
  <2>11. Lamports * Cardinality(DayDrips(d)) <= DailyCap + Lamports * b
    BY <2>5, <2>6, <2>8, <2>9, <2>10
  <2> QED BY <2>4, <2>11
<1>2. FaucetInv => DripsWithinCap
  BY <1>1 DEF DripsWithinCap
<1> QED BY <1>2, FaucetSafe, PTL

=============================================================================
