---------------------------- MODULE EscrowProofs ----------------------------
(***************************************************************************)
(* The safety of escrow collection, for any number of services, rows,       *)
(* processors, deposits and faults, and any limits on attempts and slots.   *)
(***************************************************************************)
EXTENDS EscrowClaims, TLAPS

\* No account, no row and idle processors satisfy the invariant.
LEMMA EscrowInit == Init => EscrowInv
<1> SUFFICES ASSUME Init PROVE EscrowInv
  OBVIOUS
<1> USE ProgramConstants, ClaimConstants DEF Init, ProgramInit, Open
<1>1. TypeOK
  BY DEF TypeOK, ProgramTypeOK
<1>2. VaultsBalance /\ EscrowLife /\ PaidOnce
  BY DEF VaultsBalance, EscrowLife, PaidOnce
<1>3. AttemptsCounted /\ AttemptsNumbered
  BY DEF AttemptsCounted, AttemptsNumbered
<1> QED BY <1>1, <1>2, <1>3 DEF EscrowInv

\* What the instructions of the program keep, whoever sends them.
LEMMA ProgramKeeps ==
    ASSUME EscrowInv, NEW s \in Services,
           \/ \E a \in Amounts, x \in 0 .. MaxSlot + 1 : Deposit(s, a, x)
           \/ Refund(s)
           \/ Dust(s)
    PROVE  ProgramTypeOK' /\ VaultsBalance' /\ EscrowLife'
<1> USE ProgramConstants DEF EscrowInv, TypeOK, ProgramTypeOK, Open
<1>1. CASE \E a \in Amounts, x \in 0 .. MaxSlot + 1 : Deposit(s, a, x)
  <2>1. PICK a \in Amounts, x \in 0 .. MaxSlot + 1 : Deposit(s, a, x)
    BY <1>1
  <2>2. a \in Nat /\ x \in Nat /\ a > 0
    BY <2>1 DEF Deposit
  <2>3. ProgramTypeOK'
    <3>1. [amount |-> a, expiry_slot |-> x] \in [amount : Nat, expiry_slot : Nat]
      BY <2>2
    <3>2. /\ slot' = slot /\ provider' = provider /\ agent' = agent /\ dusted' = dusted
          /\ escrow' = [escrow EXCEPT ![s] = [amount |-> a, expiry_slot |-> x]]
          /\ vault' = [vault EXCEPT ![s] = @ + a]
          /\ deposited' = [deposited EXCEPT ![s] = @ + a]
          /\ deposits' = [deposits EXCEPT ![s] = @ + 1]
          /\ verified' = [verified EXCEPT ![s] = @ \cup {a}]
      BY <2>1 DEF Deposit
    <3>3. verified' \in [Services -> SUBSET Nat]
      BY <2>2, <3>2
    <3>4. escrow' \in [Services -> [amount : Nat, expiry_slot : Nat] \cup {NoEscrow}]
      BY <3>1, <3>2
    <3> QED BY <2>2, <3>2, <3>3, <3>4
  <2>4. VaultsBalance'
    <3> SUFFICES ASSUME NEW z \in Services
                 PROVE  /\ provider'[z] + agent'[z] + vault'[z] = deposited'[z] + dusted'[z]
                        /\ Open(z)' => vault'[z] >= escrow'[z].amount /\ escrow'[z].amount > 0
      BY DEF VaultsBalance
    <3>1. CASE z = s
      <4>1. /\ escrow'[z] = [amount |-> a, expiry_slot |-> x]
            /\ vault'[z] = vault[z] + a /\ deposited'[z] = deposited[z] + a
            /\ provider' = provider /\ agent' = agent /\ dusted' = dusted
        BY <2>1, <3>1 DEF Deposit
      <4>2. escrow'[z].amount = a
        BY <4>1
      <4>3. provider[z] + agent[z] + vault[z] = deposited[z] + dusted[z]
        BY DEF VaultsBalance
      <4>4. /\ provider[z] \in Nat /\ agent[z] \in Nat /\ vault[z] \in Nat
            /\ deposited[z] \in Nat /\ dusted[z] \in Nat
        OBVIOUS
      <4> HIDE DEF EscrowInv, TypeOK, ProgramTypeOK, Open
      <4>5. provider'[z] + agent'[z] + vault'[z] = deposited'[z] + dusted'[z]
        BY <2>2, <4>1, <4>3, <4>4
      <4>6. vault'[z] >= escrow'[z].amount /\ escrow'[z].amount > 0
        BY <2>2, <4>1, <4>2, <4>4
      <4> QED BY <4>5, <4>6
    <3>2. CASE z # s
      BY <2>1, <3>2 DEF Deposit, VaultsBalance
    <3> QED BY <3>1, <3>2
  <2>5. EscrowLife'
    BY <2>1, <2>2 DEF Deposit, EscrowLife
  <2> QED BY <2>3, <2>4, <2>5
<1>2. CASE Refund(s)
  <2>1. ProgramTypeOK'
    BY <1>2 DEF Refund
  <2>2. VaultsBalance'
    BY <1>2 DEF Refund, VaultsBalance
  <2>3. EscrowLife'
    BY <1>2 DEF Refund, EscrowLife
  <2> QED BY <2>1, <2>2, <2>3
<1>3. CASE Dust(s)
  <2>1. ProgramTypeOK' /\ VaultsBalance'
    BY <1>3 DEF Dust, VaultsBalance
  <2>2. EscrowLife'
    BY <1>3 DEF Dust, EscrowLife
  <2> QED BY <2>1, <2>2
<1> QED BY <1>1, <1>2, <1>3

\* Deposits, refunds and dust keep the invariant.
LEMMA ProgramStepKeeps ==
    ASSUME EscrowInv, NEW s \in Services, UNCHANGED queueVars,
           \/ \E a \in Amounts, x \in 0 .. MaxSlot + 1 : Deposit(s, a, x)
           \/ Refund(s)
           \/ Dust(s)
    PROVE  EscrowInv'
<1> USE DEF queueVars
<1>1. ProgramTypeOK' /\ VaultsBalance' /\ EscrowLife'
  BY ProgramKeeps
<1>2. TypeOK' /\ AttemptsCounted' /\ AttemptsNumbered'
  BY <1>1 DEF EscrowInv, TypeOK, AttemptsCounted, AttemptsNumbered
<1>3. /\ provider' = provider
      /\ \A z \in Services : deposits'[z] = deposits[z] \/ deposits'[z] = deposits[z] + 1
  BY ProgramConstants DEF EscrowInv, TypeOK, ProgramTypeOK, Deposit, Refund, Dust
<1>4. PaidOnce'
  BY <1>3 DEF EscrowInv, PaidOnce, TypeOK, ProgramTypeOK
<1> QED BY <1>1, <1>2, <1>4 DEF EscrowInv

\* claim executed for a row in flight keeps the invariant.
LEMMA ExecuteClaimKeeps ==
    ASSUME EscrowInv, NEW e \in pool, ExecuteClaim(e)
    PROVE  EscrowInv'
<1> DEFINE s == queue[e.row].service
           a == queue[e.row].claim_amount
<1>1. e \in ClaimEntry /\ e.row \in Rows /\ queue[e.row] \in ClaimRow /\ s \in Services /\ a \in Nat
  <2>1. e \in ClaimEntry /\ e.row \in Rows
    BY DEF EscrowInv, TypeOK, ClaimEntry
  <2>2. queue[e.row] # NoRow
    BY DEF EscrowInv, AttemptsCounted
  <2>3. queue[e.row] \in ClaimRow
    BY <2>1, <2>2 DEF EscrowInv, TypeOK
  <2> QED BY <2>1, <2>3 DEF ClaimRow
<1>2. Claim(s, a)
  BY DEF ExecuteClaim
<1>3. Open(s) /\ escrow[s] \in [amount : Nat, expiry_slot : Nat] /\ a <= escrow[s].amount /\ a > 0
  BY <1>1, <1>2 DEF Claim, Claimable, Open, EscrowInv, TypeOK, ProgramTypeOK
<1>4. /\ provider' = [provider EXCEPT ![s] = @ + a]
      /\ agent' = [agent EXCEPT ![s] = @ + (escrow[s].amount - a) + (vault[s] - (a + (escrow[s].amount - a)))]
      /\ vault' = [vault EXCEPT ![s] = 0]
      /\ escrow' = [escrow EXCEPT ![s] = NoEscrow]
      /\ UNCHANGED <<slot, deposited, deposits, verified, dusted>>
      /\ vault[s] >= escrow[s].amount
  <2> HIDE DEF s, a
  <2>1. vault[s] \in Nat /\ escrow[s].amount \in Nat
    BY <1>1, <1>3 DEF EscrowInv, TypeOK, ProgramTypeOK
  <2>2. vault[s] - (a + (escrow[s].amount - a)) >= 0
    BY <1>2 DEF Claim
  <2>3. vault[s] >= escrow[s].amount
    BY <1>1, <2>1, <2>2
  <2> QED BY <1>2, <2>3 DEF Claim
<1>5. ProgramTypeOK'
  <2> HIDE DEF s, a
  <2> QED BY <1>1, <1>3, <1>4 DEF EscrowInv, TypeOK, ProgramTypeOK
<1>6. VaultsBalance' /\ EscrowLife'
  <2> HIDE DEF s, a
  <2>1. VaultsBalance'
    BY <1>1, <1>3, <1>4 DEF EscrowInv, TypeOK, ProgramTypeOK, VaultsBalance, Open
  <2>2. deposits[s] # 0
    BY <1>1, <1>3 DEF EscrowInv, EscrowLife
  <2>3. EscrowLife'
    BY <1>1, <1>3, <1>4, <2>2 DEF EscrowInv, TypeOK, ProgramTypeOK, EscrowLife, Open
  <2> QED BY <2>1, <2>3
<1>7. TypeOK'
  BY <1>1, <1>5 DEF EscrowInv, TypeOK, ExecuteClaim
<1>8. AttemptsCounted'
  <2>1. queue[e.row] # NoRow
    BY DEF EscrowInv, AttemptsCounted
  <2> QED BY <2>1 DEF EscrowInv, AttemptsCounted, ExecuteClaim
<1>9. AttemptsNumbered'
  BY DEF EscrowInv, AttemptsNumbered, ExecuteClaim
<1>10. PaidOnce'
  <2> SUFFICES ASSUME NEW z \in Services, deposits'[z] <= 1
               PROVE  \/ provider'[z] = 0
                      \/ \E r \in delivered' : /\ queue'[r].service = z
                                               /\ queue'[r].claim_amount = provider'[z]
    BY DEF PaidOnce
  <2>1. queue' = queue /\ delivered' = delivered \cup {e.row} /\ deposits' = deposits
    BY <1>4 DEF ExecuteClaim
  <2>2. CASE z = s
    <3>1. deposits[s] \in Nat /\ deposits[s] <= 1 /\ deposits[s] # 0
      BY <1>1, <1>3, <2>1, <2>2 DEF EscrowInv, TypeOK, ProgramTypeOK, EscrowLife
    <3>2. provider[s] = 0
      BY <1>1, <1>3, <3>1 DEF EscrowInv, EscrowLife
    <3>3. provider'[s] = a
      <4> HIDE DEF s, a
      <4> QED BY <1>1, <1>4, <3>2 DEF EscrowInv, TypeOK, ProgramTypeOK
    <3> QED BY <2>1, <2>2, <3>3
  <2>3. CASE z # s
    <3>1. provider'[z] = provider[z]
      <4> HIDE DEF s, a
      <4> QED BY <1>4, <2>3 DEF EscrowInv, TypeOK, ProgramTypeOK
    <3> QED BY <2>1, <3>1 DEF EscrowInv, PaidOnce
  <2> QED BY <2>2, <2>3
<1> QED BY <1>6, <1>7, <1>8, <1>9, <1>10 DEF EscrowInv

\* A step of the gateway leaves the program alone, and what was paid stands as
\* long as rows keep their service and amount.
LEMMA GatewayLeavesProgram ==
    ASSUME EscrowInv, UNCHANGED <<programVars, delivered>>,
           \A r \in delivered : /\ queue'[r].service = queue[r].service
                                /\ queue'[r].claim_amount = queue[r].claim_amount
    PROVE  ProgramTypeOK' /\ VaultsBalance' /\ EscrowLife' /\ PaidOnce'
<1> USE DEF EscrowInv, TypeOK, programVars, Open
<1>1. ProgramTypeOK'
  BY DEF ProgramTypeOK
<1>2. VaultsBalance' /\ EscrowLife'
  BY DEF VaultsBalance, EscrowLife
<1>3. PaidOnce'
  BY DEF PaidOnce
<1> QED BY <1>1, <1>2, <1>3

\* enqueue_claim, from either handler.
LEMMA EnqueueKeeps ==
    ASSUME EscrowInv, NEW r \in Rows, NEW s \in Services, NEW amount \in Nat,
           Enqueue(r, s, amount)
    PROVE  EscrowInv'
<1> DEFINE new == [service |-> s, claim_amount |-> amount, status |-> "pending", attempts |-> 0]
<1>1. new \in ClaimRow
  BY DEF ClaimRow, ClaimStatus
<1>2. /\ queue[r] = NoRow /\ queue' = [queue EXCEPT ![r] = new]
      /\ UNCHANGED <<programVars, batch, current, tripped, pool, submitted, delivered, faults>>
  BY DEF Enqueue
<1>3. \A q \in Rows : queue[q] # NoRow => queue'[q] = queue[q]
  BY <1>2 DEF EscrowInv, TypeOK
<1>4. delivered \subseteq Rows /\ \A q \in delivered : queue[q] # NoRow
  BY DEF EscrowInv, TypeOK, AttemptsCounted
<1>5. ProgramTypeOK' /\ VaultsBalance' /\ EscrowLife' /\ PaidOnce'
  <2> HIDE DEF new
  <2> QED BY <1>2, <1>3, <1>4, GatewayLeavesProgram
<1>6. TypeOK'
  <2> HIDE DEF new
  <2> QED BY <1>1, <1>2, <1>5 DEF EscrowInv, TypeOK
<1>7. AttemptsCounted'
  <2> HIDE DEF new
  <2> QED BY <1>2, <1>3 DEF EscrowInv, TypeOK, AttemptsCounted, ClaimEntry
<1>8. AttemptsNumbered'
  BY <1>2 DEF EscrowInv, AttemptsNumbered
<1> QED BY <1>5, <1>6, <1>7, <1>8 DEF EscrowInv

\* What the statements of claim_queue.rs keep of a row.
LEMMA RowUpdates ==
    ASSUME NEW row \in ClaimRow
    PROVE  /\ Fetched(row) \in ClaimRow
           /\ Fetched(row).service = row.service
           /\ Fetched(row).claim_amount = row.claim_amount
           /\ Fetched(row).attempts = row.attempts + 1
           /\ \A st \in ClaimStatus :
                /\ [row EXCEPT !.status = st] \in ClaimRow
                /\ [row EXCEPT !.status = st].service = row.service
                /\ [row EXCEPT !.status = st].claim_amount = row.claim_amount
                /\ [row EXCEPT !.status = st].attempts = row.attempts
<1>1. row.attempts + 1 \in Nat /\ "in_progress" \in ClaimStatus
  BY DEF ClaimRow, ClaimStatus
<1>2. /\ Fetched(row) \in ClaimRow
      /\ Fetched(row).service = row.service
      /\ Fetched(row).claim_amount = row.claim_amount
      /\ Fetched(row).attempts = row.attempts + 1
  BY <1>1 DEF ClaimRow, Fetched
<1>3. \A st \in ClaimStatus :
        /\ [row EXCEPT !.status = st] \in ClaimRow
        /\ [row EXCEPT !.status = st].service = row.service
        /\ [row EXCEPT !.status = st].claim_amount = row.claim_amount
        /\ [row EXCEPT !.status = st].attempts = row.attempts
  BY DEF ClaimRow
<1> QED BY <1>2, <1>3

\* fetch_pending_claims: the attempts it hands out are above every attempt that is
\* held or was submitted.
LEMMA FetchKeeps ==
    ASSUME EscrowInv, NEW w \in Processors, NEW S \in SUBSET Rows, FetchPendingClaims(w, S)
    PROVE  EscrowInv'
<1> DEFINE new == {[row |-> r, attempts |-> Fetched(queue[r]).attempts] : r \in S}
<1>1. /\ batch[w] = {} /\ current[w] = NoClaim
      /\ \A r \in S : Fetchable(r)
      /\ queue' = [r \in Rows |-> IF r \in S THEN Fetched(queue[r]) ELSE queue[r]]
      /\ batch' = [batch EXCEPT ![w] = new]
      /\ UNCHANGED <<programVars, current, tripped, pool, submitted, delivered, faults>>
  BY DEF FetchPendingClaims
<1>2. \A r \in S : queue[r] \in ClaimRow /\ queue[r] # NoRow
  BY <1>1 DEF EscrowInv, TypeOK, Fetchable
<1>3. \A r \in S : /\ Fetched(queue[r]) \in ClaimRow
                   /\ Fetched(queue[r]).service = queue[r].service
                   /\ Fetched(queue[r]).claim_amount = queue[r].claim_amount
                   /\ Fetched(queue[r]).attempts = queue[r].attempts + 1
  BY <1>2, RowUpdates
<1>4. \A r \in S : queue'[r] = Fetched(queue[r]) /\ queue'[r] # NoRow
  BY <1>1, <1>3, ClaimConstants
<1>5. \A r \in Rows \ S : queue'[r] = queue[r]
  BY <1>1
<1>6. delivered \subseteq Rows
  BY DEF EscrowInv, TypeOK
<1>7. ProgramTypeOK' /\ VaultsBalance' /\ EscrowLife' /\ PaidOnce'
  <2>1. \A r \in delivered : /\ queue'[r].service = queue[r].service
                             /\ queue'[r].claim_amount = queue[r].claim_amount
    BY <1>3, <1>4, <1>5, <1>6
  <2> HIDE DEF new
  <2> QED BY <1>1, <2>1, GatewayLeavesProgram
<1>8. new \subseteq ClaimEntry
  <2>1. \A r \in S : r \in Rows /\ Fetched(queue[r]).attempts \in Nat
    BY <1>3 DEF ClaimRow
  <2> QED BY <2>1 DEF ClaimEntry
<1>9. TypeOK'
  <2>1. queue' \in [Rows -> ClaimRow \cup {NoRow}]
    BY <1>1, <1>3 DEF EscrowInv, TypeOK
  <2>2. batch' \in [Processors -> SUBSET ClaimEntry]
    <3> HIDE DEF new
    <3> QED BY <1>1, <1>8 DEF EscrowInv, TypeOK
  <2> QED BY <1>1, <1>7, <2>1, <2>2 DEF EscrowInv, TypeOK
<1>10. \A e \in ClaimEntry :
         queue[e.row] # NoRow /\ e.attempts <= queue[e.row].attempts =>
           /\ queue'[e.row] # NoRow /\ e.attempts <= queue'[e.row].attempts
           /\ e \notin new
  <2> SUFFICES ASSUME NEW e \in ClaimEntry, queue[e.row] # NoRow,
                      e.attempts <= queue[e.row].attempts
               PROVE  /\ queue'[e.row] # NoRow /\ e.attempts <= queue'[e.row].attempts
                      /\ e \notin new
    OBVIOUS
  <2>1. e.row \in Rows /\ e.attempts \in Nat
    BY DEF ClaimEntry
  <2>2. CASE e.row \in S
    <3>1. queue[e.row].attempts \in Nat
      BY <1>2, <2>2 DEF ClaimRow
    <3>2. queue'[e.row] # NoRow /\ queue'[e.row].attempts = queue[e.row].attempts + 1
      BY <1>3, <1>4, <2>2
    <3>3. e.attempts # Fetched(queue[e.row]).attempts
      BY <1>3, <2>1, <2>2, <3>1
    <3> QED BY <2>1, <3>1, <3>2, <3>3
  <2>3. CASE e.row \notin S
    BY <1>5, <2>1, <2>3
  <2> QED BY <2>2, <2>3
<1>11. \A e \in new : queue'[e.row] # NoRow /\ e.attempts <= queue'[e.row].attempts
  <2> SUFFICES ASSUME NEW r \in S
               PROVE queue'[r] # NoRow /\ Fetched(queue[r]).attempts <= queue'[r].attempts
    OBVIOUS
  <2>1. Fetched(queue[r]).attempts \in Nat
    BY <1>3 DEF ClaimRow
  <2> QED BY <1>4, <2>1
<1>12. AttemptsCounted'
  <2> HIDE DEF new
  <2>1. \A v \in Processors : \A e \in batch'[v] :
          queue'[e.row] # NoRow /\ e.attempts <= queue'[e.row].attempts
    BY <1>1, <1>10, <1>11 DEF EscrowInv, TypeOK, AttemptsCounted
  <2>2. \A v \in Processors : current'[v] # NoClaim =>
          /\ queue'[current'[v].entry.row] # NoRow
          /\ current'[v].entry.attempts <= queue'[current'[v].entry.row].attempts
    BY <1>1, <1>10 DEF EscrowInv, TypeOK, AttemptsCounted
  <2>3. \A e \in submitted' \cup pool' :
          queue'[e.row] # NoRow /\ e.attempts <= queue'[e.row].attempts
    BY <1>1, <1>10 DEF EscrowInv, TypeOK, AttemptsCounted
  <2>4. \A r \in delivered' : queue'[r] # NoRow
    BY <1>1, <1>4, <1>5, <1>6 DEF EscrowInv, AttemptsCounted
  <2> QED BY <2>1, <2>2, <2>3, <2>4 DEF AttemptsCounted
<1>13. AttemptsNumbered'
  <2>1. \A v \in Processors : batch[v] \cap new = {}
    BY <1>10 DEF EscrowInv, TypeOK, AttemptsCounted
  <2>2. submitted \cap new = {}
    BY <1>10 DEF EscrowInv, TypeOK, AttemptsCounted
  <2>3. \A v \in Processors : current[v] # NoClaim => current[v].entry \notin new
    BY <1>10 DEF EscrowInv, TypeOK, AttemptsCounted
  <2> HIDE DEF new
  <2> QED BY <1>1, <2>1, <2>2, <2>3 DEF EscrowInv, TypeOK, AttemptsNumbered
<1> QED BY <1>7, <1>9, <1>12, <1>13 DEF EscrowInv

\* An entry leaves the batch: skipped, submitted or rejected.
LEMMA ConcludedKeeps ==
    ASSUME EscrowInv, NEW w \in Processors, NEW e \in batch[w], NEW sent \in BOOLEAN,
           Concluded(w, e, sent),
           \/ UNCHANGED <<pool, submitted>>
           \/ /\ e.attempts <= MAX_CLAIM_ATTEMPTS
              /\ submitted' = submitted \cup {e}
              /\ pool' \in {pool, pool \cup {e}},
           faults' \in 0 .. MaxFaults
    PROVE  EscrowInv'
<1> DEFINE c == [entry |-> e, sent |-> sent]
<1>1. /\ batch' = [batch EXCEPT ![w] = @ \ {e}]
      /\ current' = [current EXCEPT ![w] = c]
      /\ UNCHANGED <<programVars, queue, tripped, delivered>>
  BY DEF Concluded
<1>2. /\ e \in ClaimEntry /\ queue[e.row] # NoRow /\ e.attempts <= queue[e.row].attempts
  BY DEF EscrowInv, TypeOK, AttemptsCounted
<1>3. c \in [entry : ClaimEntry, sent : BOOLEAN] /\ c # NoClaim /\ c.entry = e
  BY <1>2, ClaimConstants
<1>4. ProgramTypeOK' /\ VaultsBalance' /\ EscrowLife' /\ PaidOnce'
  <2> HIDE DEF c
  <2> QED BY <1>1, GatewayLeavesProgram
<1> HIDE DEF c
<1>5. TypeOK'
  BY <1>1, <1>2, <1>3, <1>4 DEF EscrowInv, TypeOK
<1>6. AttemptsCounted'
  BY <1>1, <1>2, <1>3 DEF EscrowInv, TypeOK, AttemptsCounted
<1>7. AttemptsNumbered'
  <2>1. submitted' \subseteq submitted \cup {e}
        /\ \A d \in submitted' : d.attempts <= MAX_CLAIM_ATTEMPTS
    BY DEF EscrowInv, AttemptsNumbered
  <2>2. \A v \in Processors : batch'[v] \subseteq batch[v] /\ e \notin batch'[v]
    BY <1>1 DEF EscrowInv, TypeOK, AttemptsNumbered
  <2>3. \A v \in Processors : current'[v] # NoClaim =>
          \/ current'[v].entry = e
          \/ current[v] # NoClaim /\ current'[v].entry = current[v].entry
    BY <1>1, <1>3 DEF EscrowInv, TypeOK
  <2> QED BY <2>1, <2>2, <2>3 DEF EscrowInv, AttemptsNumbered
<1> QED BY <1>4, <1>5, <1>6, <1>7 DEF EscrowInv

\* A row's status changes, or none does, and processors drop what they hold.
LEMMA ReleaseKeeps ==
    ASSUME EscrowInv, NEW w \in Processors,
           UNCHANGED <<programVars, submitted, delivered>>,
           pool' \subseteq pool,
           batch' \in [Processors -> SUBSET ClaimEntry],
           \A v \in Processors : batch'[v] \subseteq batch[v],
           current' \in [Processors -> [entry : ClaimEntry, sent : BOOLEAN] \cup {NoClaim}],
           \A v \in Processors : current'[v] \in {current[v], NoClaim},
           tripped' \in [Processors -> BOOLEAN],
           faults' \in 0 .. MaxFaults,
           queue' \in [Rows -> ClaimRow \cup {NoRow}],
           \A r \in Rows : queue[r] # NoRow =>
              /\ queue'[r] # NoRow /\ queue'[r].service = queue[r].service
              /\ queue'[r].claim_amount = queue[r].claim_amount
              /\ queue'[r].attempts = queue[r].attempts
    PROVE  EscrowInv'
<1>1. delivered \subseteq Rows /\ \A r \in delivered : queue[r] # NoRow
  BY DEF EscrowInv, TypeOK, AttemptsCounted
<1>2. ProgramTypeOK' /\ VaultsBalance' /\ EscrowLife' /\ PaidOnce'
  BY <1>1, GatewayLeavesProgram
<1>3. TypeOK'
  BY <1>2 DEF EscrowInv, TypeOK
<1>4. AttemptsCounted'
  BY <1>1 DEF EscrowInv, TypeOK, AttemptsCounted, ClaimEntry
<1>5. AttemptsNumbered'
  BY DEF EscrowInv, AttemptsNumbered
<1> QED BY <1>2, <1>3, <1>4, <1>5 DEF EscrowInv

\* mark_completed and mark_attempt_failed.
LEMMA RecordOutcomeKeeps ==
    ASSUME EscrowInv, NEW w \in Processors, RecordOutcome(w)
    PROVE  EscrowInv'
<1> DEFINE c == current[w]
           r == c.entry.row
<1>1. c \in [entry : ClaimEntry, sent : BOOLEAN] /\ r \in Rows /\ queue[r] \in ClaimRow
  <2>1. c \in [entry : ClaimEntry, sent : BOOLEAN] /\ r \in Rows
    BY DEF RecordOutcome, EscrowInv, TypeOK, ClaimEntry
  <2>2. queue[r] # NoRow
    BY DEF RecordOutcome, EscrowInv, AttemptsCounted
  <2> QED BY <2>1, <2>2 DEF EscrowInv, TypeOK
<1>2. PICK st \in ClaimStatus : queue' = [queue EXCEPT ![r] = [@ EXCEPT !.status = st]]
  <2>1. CASE c.sent
    BY <2>1 DEF RecordOutcome, ClaimStatus
  <2>2. CASE ~c.sent
    BY <2>2 DEF RecordOutcome, AttemptFailed, ClaimStatus
  <2> QED BY <2>1, <2>2
<1>3. \A q \in Rows : queue[q] # NoRow =>
        /\ queue'[q] # NoRow /\ queue'[q].service = queue[q].service
        /\ queue'[q].claim_amount = queue[q].claim_amount
        /\ queue'[q].attempts = queue[q].attempts
  <2> HIDE DEF r
  <2> QED BY <1>1, <1>2, RowUpdates, ClaimConstants DEF EscrowInv, TypeOK
<1>4. queue' \in [Rows -> ClaimRow \cup {NoRow}]
  <2> HIDE DEF r
  <2> QED BY <1>1, <1>2, RowUpdates DEF EscrowInv, TypeOK
<1>5. /\ UNCHANGED <<programVars, batch, pool, submitted, delivered, faults>>
      /\ tripped' \in [Processors -> BOOLEAN]
      /\ current' = [current EXCEPT ![w] = NoClaim]
  BY DEF RecordOutcome, EscrowInv, TypeOK
<1>6. /\ current' \in [Processors -> [entry : ClaimEntry, sent : BOOLEAN] \cup {NoClaim}]
      /\ \A v \in Processors : current'[v] \in {current[v], NoClaim}
  BY <1>5 DEF EscrowInv, TypeOK
<1>7. faults' \in 0 .. MaxFaults /\ batch' \in [Processors -> SUBSET ClaimEntry]
  BY <1>5 DEF EscrowInv, TypeOK
<1> QED BY <1>3, <1>4, <1>5, <1>6, <1>7, ReleaseKeeps

\* Every step of a processor, its faults included, keeps the invariant.
LEMMA ProcessorKeeps ==
    ASSUME EscrowInv, NEW w \in Processors, ProcessorStep(w) \/ ProcessorFault(w)
    PROVE  EscrowInv'
<1> DEFINE Typed == /\ batch \in [Processors -> SUBSET ClaimEntry]
                    /\ current \in [Processors -> [entry : ClaimEntry, sent : BOOLEAN] \cup {NoClaim}]
                    /\ tripped \in [Processors -> BOOLEAN]
                    /\ queue \in [Rows -> ClaimRow \cup {NoRow}]
                    /\ faults \in 0 .. MaxFaults
<1>1. Typed
  BY DEF EscrowInv, TypeOK
<1>2. Fault => faults' \in 0 .. MaxFaults
  BY <1>1, ClaimConstants DEF Fault
<1>3. ASSUME NEW e \in batch[w], SkipExceeded(w, e) PROVE EscrowInv'
  BY <1>1, <1>3, ConcludedKeeps DEF SkipExceeded
<1>4. ASSUME NEW e \in batch[w], SubmitAccepted(w, e) PROVE EscrowInv'
  BY <1>1, <1>4, ConcludedKeeps DEF SubmitAccepted, MaySubmit
<1>5. ASSUME NEW e \in batch[w], SubmitRejected(w, e) PROVE EscrowInv'
  BY <1>1, <1>5, ConcludedKeeps DEF SubmitRejected, MaySubmit
<1>6. ASSUME NEW e \in batch[w], SubmitAnswerLost(w, e) PROVE EscrowInv'
  BY <1>1, <1>2, <1>6, ConcludedKeeps DEF SubmitAnswerLost, MaySubmit
<1>7. CASE BreakerCloses(w)
  BY <1>1, <1>7, ReleaseKeeps DEF BreakerCloses
<1>8. CASE RecordOutcomeFails(w)
  <2>1. tripped' \in [Processors -> BOOLEAN]
    BY <1>1, <1>8 DEF RecordOutcomeFails
  <2>2. /\ UNCHANGED <<programVars, queue, batch, pool, submitted, delivered>>
        /\ current' = [current EXCEPT ![w] = NoClaim] /\ Fault
    BY <1>8 DEF RecordOutcomeFails
  <2> QED BY <1>1, <1>2, <2>1, <2>2, ReleaseKeeps
<1>9. CASE Crash(w)
  <2>1. /\ UNCHANGED <<programVars, queue, pool, submitted, delivered>> /\ Fault
        /\ batch' = [batch EXCEPT ![w] = {}]
        /\ current' = [current EXCEPT ![w] = NoClaim]
        /\ tripped' = [tripped EXCEPT ![w] = FALSE]
    BY <1>9 DEF Crash
  <2> QED BY <1>1, <1>2, <2>1, ReleaseKeeps
<1> QED BY <1>3, <1>4, <1>5, <1>6, <1>7, <1>8, <1>9, RecordOutcomeKeeps
        DEF ProcessorStep, ProcessorFault

\* Every step of the composed system keeps the invariant.
LEMMA EscrowStep == EscrowInv /\ [Next]_vars => EscrowInv'
<1> SUFFICES ASSUME EscrowInv, [Next]_vars PROVE EscrowInv'
  OBVIOUS
<1>1. CASE ProgramStep
  <2>1. CASE \E s \in Services : \/ \E a \in Amounts, x \in 0 .. MaxSlot + 1 : Deposit(s, a, x)
                                \/ Refund(s)
                                \/ Dust(s)
    BY <1>1, <2>1, ProgramStepKeeps DEF ProgramStep
  <2>2. CASE AdvanceSlot
    <3>1. UNCHANGED queueVars
      BY <1>1 DEF ProgramStep
    <3>2. TypeOK'
      BY <2>2, <3>1, ProgramConstants DEF EscrowInv, TypeOK, ProgramTypeOK, AdvanceSlot, queueVars
    <3>3. VaultsBalance' /\ EscrowLife'
      BY <2>2 DEF EscrowInv, VaultsBalance, EscrowLife, AdvanceSlot, Open
    <3>4. AttemptsCounted' /\ AttemptsNumbered'
      BY <3>1 DEF EscrowInv, AttemptsCounted, AttemptsNumbered, queueVars
    <3>5. PaidOnce'
      BY <2>2, <3>1 DEF EscrowInv, PaidOnce, AdvanceSlot, queueVars
    <3> QED BY <3>2, <3>3, <3>4, <3>5 DEF EscrowInv
  <2> QED BY <1>1, <2>1, <2>2 DEF ProgramStep
<1>2. ASSUME NEW r \in Rows, NEW s \in Services, NEW c \in Costs, ChatClaims(r, s, c)
      PROVE  EscrowInv'
  <2>1. PICK deposit \in verified[s] : Enqueue(r, s, CapClaimAmount(c, deposit))
    BY <1>2 DEF ChatClaims
  <2>2. CapClaimAmount(c, deposit) \in Nat
    BY <2>1, ClaimConstants DEF CapClaimAmount, EscrowInv, TypeOK, ProgramTypeOK
  <2> QED BY <2>1, <2>2, EnqueueKeeps
<1>3. ASSUME NEW r \in Rows, NEW s \in Services, NEW c \in Costs, SettleClaims(r, s, c)
      PROVE  EscrowInv'
  BY <1>3, ClaimConstants, EnqueueKeeps DEF SettleClaims
<1>4. ASSUME NEW w \in Processors, NEW S \in SUBSET Rows, FetchPendingClaims(w, S)
      PROVE  EscrowInv'
  BY <1>4, FetchKeeps
<1>5. ASSUME NEW w \in Processors, ProcessorStep(w) \/ ProcessorFault(w) PROVE EscrowInv'
  BY <1>5, ProcessorKeeps
<1>6. ASSUME NEW e \in pool, ExecuteClaim(e) PROVE EscrowInv'
  BY <1>6, ExecuteClaimKeeps
<1>7. ASSUME NEW e \in pool, LoseClaim(e) PROVE EscrowInv'
  <2>1. /\ pool' = pool \ {e}
        /\ UNCHANGED <<programVars, queue, batch, current, tripped, submitted, delivered, faults>>
    BY <1>7 DEF LoseClaim
  <2>2. ProgramTypeOK' /\ VaultsBalance' /\ EscrowLife' /\ PaidOnce'
    BY <2>1, GatewayLeavesProgram
  <2>3. TypeOK' /\ AttemptsCounted' /\ AttemptsNumbered'
    BY <2>1, <2>2 DEF EscrowInv, TypeOK, AttemptsCounted, AttemptsNumbered
  <2> QED BY <2>2, <2>3 DEF EscrowInv
<1>8. CASE UNCHANGED vars
  <2>1. UNCHANGED <<programVars, delivered>> /\ queue' = queue
    BY <1>8 DEF vars, programVars
  <2>2. ProgramTypeOK' /\ VaultsBalance' /\ EscrowLife' /\ PaidOnce'
    BY <2>1, GatewayLeavesProgram
  <2>3. TypeOK' /\ AttemptsCounted' /\ AttemptsNumbered'
    BY <1>8, <2>2 DEF vars, EscrowInv, TypeOK, AttemptsCounted, AttemptsNumbered
  <2> QED BY <2>2, <2>3 DEF EscrowInv
<1> QED BY <1>1, <1>2, <1>3, <1>4, <1>5, <1>6, <1>7, <1>8 DEF Next

-----------------------------------------------------------------------------

\* The invariant of escrow program, queue and processors holds in every state.
THEOREM EscrowSafe == Spec => []EscrowInv
  BY EscrowInit, EscrowStep, PTL DEF Spec

\* Every value keeps its type.
THEOREM EscrowTypes == Spec => []TypeOK
<1>1. EscrowInv => TypeOK
  BY DEF EscrowInv
<1> QED BY <1>1, EscrowSafe, PTL

\* claim, refund, deposit and dust lose and create no token, and the vault of an
\* open escrow always covers it.
THEOREM VaultsAlwaysBalance == Spec => []VaultsBalance
<1>1. EscrowInv => VaultsBalance
  BY DEF EscrowInv
<1> QED BY <1>1, EscrowSafe, PTL

\* Duplicate rows, retries and late transactions pay one claim per deposit.
THEOREM ClaimsPayOnce == Spec => []PaidOnce
<1>1. EscrowInv => PaidOnce
  BY DEF EscrowInv
<1> QED BY <1>1, EscrowSafe, PTL

\* fetch_pending_claims hands out every attempt number of a row once.
THEOREM AttemptsAreNumbered == Spec => []AttemptsNumbered
<1>1. EscrowInv => AttemptsNumbered
  BY DEF EscrowInv
<1> QED BY <1>1, EscrowSafe, PTL

=============================================================================
