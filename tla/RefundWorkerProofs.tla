------------------------- MODULE RefundWorkerProofs -------------------------
(***************************************************************************)
(* No refund is paid twice, for any number of channels and workers.  The    *)
(* two assumptions of the theorems on payments are exactly the two          *)
(* behaviours in which the code can pay twice: see the runs with            *)
(* ExpiryNeverBetweenReads or RearmAfterExpiry FALSE.  Types need neither.  *)
(***************************************************************************)
EXTENDS RefundWorker, TLAPS

\* A refund transaction is never None, has a height, and its memo
\* (solvela-refund:<channel_id>) names one obligation only.
LEMMA TransferFacts ==
    /\ \A c \in Channels, h \in 0 .. MaxHeight :
          IsTransferFor(Transfer(c, h), c) /\ Transfer(c, h) # None
    /\ \A t \in Transactions : LastValidBlockHeight(t) \in Int
    /\ \A t, c, d : PaysFor(t, c) /\ PaysFor(t, d) => c = d
<1>1. \A c \in Channels, h \in 0 .. MaxHeight :
          IsTransferFor(Transfer(c, h), c) /\ Transfer(c, h) # None
  BY NoneIsNoTransaction DEF IsTransferFor, Transactions, Transfer, PaysFor
<1>2. \A t \in Transactions : LastValidBlockHeight(t) \in Int
  BY RefundConstants DEF Transactions, Transfer, LastValidBlockHeight
<1>3. \A t, c, d : PaysFor(t, c) /\ PaysFor(t, d) => c = d
  BY DEF PaysFor, RefundMemo
<1> QED BY <1>1, <1>2, <1>3

\* The invariant of one worker.
JobSound(l, j) == JobShape(l, j) /\ StaleMeansDead(l, j) /\ ConclusionsHold(l, j)

\* Worker w alone moves: to step l, with snapshot j.
MovesTo(w, l, j) ==
    /\ pc' = [pc EXCEPT ![w] = l]
    /\ job' = [job EXCEPT ![w] = j]

\* A step that only moves one worker (a fetch, a read, a signing) keeps the
\* invariant when the worker is sound where it goes.
LEMMA LocalStep ==
    ASSUME IInv, NEW w \in Workers, NEW l \in Step, NEW j \in Jobs, JobSound(l, j),
           MovesTo(w, l, j), UNCHANGED <<dbVars, chainVars>>
    PROVE  IInv'
<1> USE DEF IInv, dbVars, chainVars
<1>1. TypeOK'
  BY DEF TypeOK, MovesTo
<1>2. /\ RowShape' /\ LandedIsRecorded' /\ NoOrphanInFlight' /\ ConfirmedIsRecorded'
  BY DEF RowShape, LandedIsRecorded, NoOrphanInFlight, ConfirmedIsRecorded
<1>3. PoolIsLandable'
  BY DEF PoolIsLandable, Landable, Alive, Processed
<1>4. WorkersSound'
  BY DEF TypeOK, WorkersSound, JobSound, MovesTo, JobShape, StaleMeansDead, ConclusionsHold,
         Landable, Alive, Processed
<1> QED BY <1>1, <1>2, <1>3, <1>4

\* Row r may be written for channel c: nothing that landed or can still land
\* for c is lost from it.
RowSafe(c, r) ==
    /\ r \in Rows
    /\ r.status = "in_flight" => r.tx # None
    /\ r.tx # None => r.first_broadcast # "never"
    /\ r.tx # None => IsTransferFor(r.tx, c) /\ Amount[c] > 0
    /\ \A t \in landed \cup pool : PaysFor(t, c) => r.tx = t /\ r.status # "reserved"
    /\ \A v \in Workers :
          /\ pc[v] \in RowTxSteps /\ Landable(job[v].tx)
          /\ job[v].channel = c
          => r.tx = job[v].tx /\ r.status # "reserved"

\* Worker v stays where it is, or goes somewhere sound with r's transaction.
Settled(v, c, r) ==
    \/ pc'[v] = pc[v] /\ job'[v] = job[v]
    \/ /\ JobShape(pc'[v], job'[v]) /\ ConclusionsHold(pc'[v], job'[v])
       /\ pc'[v] \in RowTxSteps =>
             job'[v].channel = c /\ r.tx = job'[v].tx /\ r.status # "reserved"

\* A compare-and-swap on one refund row keeps the invariant when the row it
\* writes is safe and the workers settle.
LEMMA RowStep ==
    ASSUME IInv, NEW c \in Channels, NEW r, RowSafe(c, r),
           refunds' = [refunds EXCEPT ![c] = r],
           UNCHANGED channels \/ channels' = [channels EXCEPT ![c] = "closed"],
           r.status = "confirmed" /\ Amount[c] > 0 => channels'[c] = "closed" /\ r.tx \in landed,
           pc' \in [Workers -> Step], job' \in [Workers -> Jobs],
           \A v \in Workers : Settled(v, c, r),
           UNCHANGED chainVars
    PROVE  IInv'
<1> USE DEF IInv, chainVars
<1>1. TypeOK'
  BY DEF TypeOK, RowSafe
<1>2. /\ RowShape' /\ LandedIsRecorded' /\ NoOrphanInFlight'
  BY DEF TypeOK, RowSafe, RowShape, LandedIsRecorded, NoOrphanInFlight
<1>3. ConfirmedIsRecorded'
  BY DEF TypeOK, RowSafe, ConfirmedIsRecorded, Owing, Rows
<1>4. PoolIsLandable'
  BY DEF PoolIsLandable, Landable, Alive, Processed
<1>5. WorkersSound'
  <2> SUFFICES ASSUME NEW v \in Workers
               PROVE  /\ JobShape(pc[v], job[v])'
                      /\ StaleMeansDead(pc[v], job[v])'
                      /\ ConclusionsHold(pc[v], job[v])'
    BY DEF WorkersSound
  <2>1. JobShape(pc[v], job[v])' /\ ConclusionsHold(pc[v], job[v])'
    BY DEF TypeOK, WorkersSound, Settled, JobShape, ConclusionsHold, Alive
  <2>2. CASE pc'[v] = pc[v] /\ job'[v] = job[v]
    BY <2>1, <2>2 DEF TypeOK, WorkersSound, RowSafe, JobShape, StaleMeansDead, Landable, Alive,
       Processed, RowTxSteps
  <2>3. CASE ~(pc'[v] = pc[v] /\ job'[v] = job[v])
    BY <2>1, <2>3 DEF TypeOK, Settled, StaleMeansDead
  <2> QED BY <2>2, <2>3
<1> QED BY <1>1, <1>2, <1>3, <1>4, <1>5

\* A worker between two rows of its sweep holds no snapshot and is sound.
LEMMA IdleJob == NoJob \in Jobs /\ JobSound("idle", NoJob) /\ "idle" \in Step
  BY RefundConstants DEF NoJob, Jobs, JobSound, JobShape, StaleMeansDead, ConclusionsHold,
     RowTxSteps, Step

\* A worker that gives up its row without having written anything.
LEMMA DoneStep ==
    ASSUME IInv, NEW w \in Workers, Done(w), UNCHANGED <<dbVars, chainVars>>
    PROVE  IInv'
  BY LocalStep, IdleJob DEF Done, MovesTo

\* A worker that goes to its next step with the job it has.
LEMMA GotoStep ==
    ASSUME IInv, NEW w \in Workers, NEW l \in Step, Goto(w, l), UNCHANGED job,
           JobSound(l, job[w]), UNCHANGED <<dbVars, chainVars>>
    PROVE  IInv'
<1>1. job[w] \in Jobs /\ MovesTo(w, l, job[w])
  BY DEF IInv, TypeOK, Goto, MovesTo
<1> QED BY <1>1, LocalStep

\* sweep hands a reserved row to handle_reserved: nothing is written.
LEMMA FetchReservedStep ==
    ASSUME IInv, NEW w \in Workers, NEW c \in Channels, FetchReserved(w, c)
    PROVE  IInv'
<1> DEFINE l == IF Amount[c] = 0 THEN "zero_amount" ELSE "sign"
           j == [NoJob EXCEPT !.channel = c]
<1>1. l \in Step /\ j \in Jobs
  <2>1. l \in Step
    BY DEF Step
  <2>2. j \in Jobs
    BY IdleJob DEF Jobs
  <2> QED BY <2>1, <2>2
<1>2. JobSound(l, j)
  <2>1. j.channel = c /\ Amount[c] \in Nat
    BY RefundConstants DEF NoJob
  <2>2. (l = "zero_amount" /\ Amount[c] = 0) \/ (l = "sign" /\ Amount[c] > 0)
    BY <2>1
  <2> HIDE DEF l, j
  <2> QED BY <2>1, <2>2 DEF JobSound, JobShape, StaleMeansDead, ConclusionsHold, RowTxSteps
<1>3. MovesTo(w, l, j) /\ UNCHANGED <<dbVars, chainVars>>
  BY DEF FetchReserved, MovesTo, Goto
<1> HIDE DEF l, j
<1> QED BY <1>1, <1>2, <1>3, LocalStep

\* sweep hands an in_flight row to handle_in_flight: the snapshot is the row.
LEMMA FetchInFlightStep ==
    ASSUME IInv, NEW w \in Workers, NEW c \in Channels, FetchInFlight(w, c)
    PROVE  IInv'
<1> DEFINE j == [channel |-> c, tx |-> refunds[c].tx, fresh |-> None,
                 attempts |-> refunds[c].attempts, accepted |-> refunds[c].accepted]
<1>1. /\ refunds[c] \in Rows /\ refunds[c].status = "in_flight" /\ refunds[c].tx # None
      /\ IsTransferFor(refunds[c].tx, c) /\ Amount[c] > 0
  BY DEF IInv, TypeOK, FetchInFlight, RowShape
<1>2. "signature_status" \in Step /\ j \in Jobs
  BY <1>1 DEF Step, Jobs, Rows
<1>3. JobSound("signature_status", j)
  BY <1>1, RefundConstants DEF JobSound, JobShape, StaleMeansDead, ConclusionsHold, RowTxSteps
<1>4. MovesTo(w, "signature_status", j) /\ UNCHANGED <<dbVars, chainVars>>
  BY DEF FetchInFlight, MovesTo, Goto
<1> HIDE DEF j
<1> QED BY <1>2, <1>3, <1>4, LocalStep

\* sign_fresh on a reserved row: the bytes are this obligation's transfer.
LEMMA SignReservedStep ==
    ASSUME IInv, NEW w \in Workers, SignReserved(w)
    PROVE  IInv'
<1> DEFINE c == job[w].channel
<1>1. /\ pc[w] = "sign" /\ job[w] \in Jobs /\ c \in Channels /\ Amount[c] > 0
      /\ height \in 0 .. MaxHeight
  BY DEF SignReserved, IInv, TypeOK, WorkersSound, JobShape
<1>2. CASE c \in Corrupt
  <2>1. /\ "hold_from_reserved" \in Step
        /\ JobSound("hold_from_reserved", job[w])
    BY <1>1 DEF Step, JobSound, JobShape, StaleMeansDead, ConclusionsHold, RowTxSteps
  <2> QED BY <1>2, <2>1, GotoStep DEF SignReserved
<1>3. CASE c \notin Corrupt
  <2> DEFINE j == [job[w] EXCEPT !.tx = Transfer(c, height)]
  <2>1. "claim" \in Step /\ j \in Jobs /\ j.channel = c /\ j.tx = Transfer(c, height)
    BY <1>1, TransferFacts DEF Step, Jobs, IsTransferFor
  <2>2. IsTransferFor(Transfer(c, height), c)
    BY <1>1, TransferFacts
  <2>3. JobSound("claim", j)
    BY <1>1, <2>1, <2>2 DEF JobSound, JobShape, StaleMeansDead, ConclusionsHold, RowTxSteps
  <2>4. MovesTo(w, "claim", j) /\ UNCHANGED <<dbVars, chainVars>>
    BY <1>3 DEF SignReserved, MovesTo, Goto
  <2> HIDE DEF j
  <2> QED BY <2>1, <2>3, <2>4, LocalStep
<1> QED BY <1>2, <1>3

\* sign_fresh on a dead transaction's row: the old one stays dead meanwhile.
LEMMA SignAgainStep ==
    ASSUME IInv, NEW w \in Workers, SignAgain(w)
    PROVE  IInv'
<1> DEFINE c == job[w].channel
<1>1. /\ pc[w] = "sign_again" /\ job[w] \in Jobs /\ height \in 0 .. MaxHeight
      /\ JobSound("sign_again", job[w])
  BY DEF SignAgain, IInv, TypeOK, WorkersSound, JobSound
<1>2. c \in Channels /\ Amount[c] > 0 /\ IsTransferFor(job[w].tx, c)
  BY <1>1 DEF JobSound, JobShape, RowTxSteps
<1>3. CASE c \in Corrupt
  <2>1. /\ "hold_from_in_flight" \in Step
        /\ JobSound("hold_from_in_flight", job[w])
    BY <1>1 DEF Step, JobSound, JobShape, StaleMeansDead, ConclusionsHold, RowTxSteps
  <2> QED BY <1>3, <2>1, GotoStep DEF SignAgain
<1>4. CASE c \notin Corrupt
  <2> DEFINE j == [job[w] EXCEPT !.fresh = Transfer(c, height)]
  <2>1. /\ "resign" \in Step /\ j \in Jobs /\ j.channel = c /\ j.tx = job[w].tx
        /\ j.fresh = Transfer(c, height)
    BY <1>1, <1>2, TransferFacts DEF Step, Jobs, IsTransferFor
  <2>2. IsTransferFor(Transfer(c, height), c)
    BY <1>1, <1>2, TransferFacts
  <2>3. JobSound("resign", j)
    BY <1>1, <1>2, <2>1, <2>2
       DEF JobSound, JobShape, StaleMeansDead, ConclusionsHold, RowTxSteps
  <2>4. MovesTo(w, "resign", j) /\ UNCHANGED <<dbVars, chainVars>>
    BY <1>4 DEF SignAgain, MovesTo, Goto
  <2> HIDE DEF j
  <2> QED BY <2>1, <2>3, <2>4, LocalStep
<1> QED BY <1>3, <1>4

\* The signature_status read of handle_in_flight: what it concludes is so.
LEMMA ReadSignatureStatusStep ==
    ASSUME IInv, NEW w \in Workers, ReadSignatureStatus(w)
    PROVE  IInv'
<1> DEFINE t == job[w].tx
<1>1. pc[w] = "signature_status" /\ JobSound("signature_status", job[w])
  BY DEF ReadSignatureStatus, IInv, WorkersSound, JobSound
<1>2. /\ "hold_from_in_flight" \in Step /\ "confirm" \in Step /\ "block_height" \in Step
      /\ JobSound("hold_from_in_flight", job[w])
      /\ t \in landed => JobSound("confirm", job[w])
      /\ t \notin landed => JobSound("block_height", job[w])
  BY <1>1 DEF Step, JobSound, JobShape, StaleMeansDead, ConclusionsHold, RowTxSteps
<1>3. UNCHANGED <<dbVars, chainVars>>
  BY DEF ReadSignatureStatus
<1>4. CASE Goto(w, "hold_from_in_flight") /\ UNCHANGED job
  BY <1>2, <1>3, <1>4, GotoStep
<1>5. CASE t \in rooted /\ Goto(w, "confirm") /\ UNCHANGED job
  BY <1>2, <1>3, <1>5, GotoStep DEF IInv, TypeOK
<1>6. CASE Done(w)
  BY <1>3, <1>6, DoneStep
<1>7. CASE t \notin Processed /\ Goto(w, "block_height") /\ UNCHANGED job
  BY <1>2, <1>3, <1>7, GotoStep DEF Processed
<1> QED BY <1>4, <1>5, <1>6, <1>7 DEF ReadSignatureStatus

\* The block_height read: a transaction past its last valid block height that
\* the status read did not find has not landed.
LEMMA ReadBlockHeightStep ==
    ASSUME IInv, NEW w \in Workers, ReadBlockHeight(w)
    PROVE  IInv'
<1> DEFINE t == job[w].tx
<1>1. /\ pc[w] = "block_height" /\ JobSound("block_height", job[w])
      /\ height \in Int
  BY DEF ReadBlockHeight, IInv, WorkersSound, JobSound, TypeOK
<1>2. LastValidBlockHeight(t) \in Int
  BY <1>1, TransferFacts DEF JobSound, JobShape, RowTxSteps, IsTransferFor
<1>3. CanNoLongerLand(t) <=> ~Alive(t)
  BY <1>1, <1>2 DEF CanNoLongerLand, Alive
<1>4. /\ {"broadcast", "hold_never_accepted", "hold_from_in_flight", "sign_again"} \subseteq Step
      /\ JobSound("broadcast", job[w])
      /\ JobSound("hold_never_accepted", job[w])
      /\ JobSound("hold_from_in_flight", job[w])
      /\ CanNoLongerLand(t) => JobSound("sign_again", job[w])
  BY <1>1, <1>3 DEF Step, JobSound, JobShape, StaleMeansDead, ConclusionsHold, RowTxSteps
<1>5. PICK l \in Step : Goto(w, l) /\ JobSound(l, job[w])
  BY <1>4 DEF ReadBlockHeight, AfterDeath
<1> QED BY <1>5, GotoStep DEF ReadBlockHeight

\* broadcast's arms that only choose the next step.
LEMMA BroadcastAnswerStep ==
    ASSUME IInv, NEW w \in Workers, SendAlreadyProcessed(w) \/ SendRejected(w)
    PROVE  IInv'
<1>1. pc[w] = "broadcast" /\ JobSound("broadcast", job[w])
  BY DEF SendAlreadyProcessed, SendRejected, Sendable, IInv, WorkersSound, JobSound
<1>2. /\ "mark_accepted" \in Step /\ "hold_from_in_flight" \in Step
      /\ JobSound("mark_accepted", job[w]) /\ JobSound("hold_from_in_flight", job[w])
  BY <1>1 DEF Step, JobSound, JobShape, StaleMeansDead, ConclusionsHold, RowTxSteps
<1> QED BY <1>2, GotoStep DEF SendAlreadyProcessed, SendRejected

\* A step that gives w's job up, or keeps every other worker where it is.
LEMMA DoneSettles ==
    ASSUME IInv, NEW w \in Workers, Done(w), NEW c, NEW r
    PROVE  /\ pc' \in [Workers -> Step] /\ job' \in [Workers -> Jobs]
           /\ \A v \in Workers : Settled(v, c, r)
<1>1. pc' \in [Workers -> Step] /\ job' \in [Workers -> Jobs]
  BY IdleJob DEF IInv, TypeOK, Done
<1>2. ASSUME NEW v \in Workers PROVE Settled(v, c, r)
  <2>1. CASE v = w
    BY <2>1, IdleJob DEF Done, IInv, TypeOK, Settled, JobSound, RowTxSteps
  <2>2. CASE v # w
    BY <2>2 DEF Done, IInv, TypeOK, Settled
  <2> QED BY <2>1, <2>2
<1> QED BY <1>1, <1>2

\* Writing anything but the transaction of a row that was not reserved is safe.
LEMMA KeepsTx ==
    ASSUME IInv, NEW c \in Channels, NEW r \in Rows, r.tx = refunds[c].tx,
           r.status = "reserved" => refunds[c].status = "reserved",
           r.status = "in_flight" => r.tx # None,
           r.tx # None => r.first_broadcast # "never"
    PROVE  RowSafe(c, r)
  BY DEF IInv, TypeOK, RowShape, LandedIsRecorded, NoOrphanInFlight, WorkersSound,
     StaleMeansDead, RowSafe

\* The attempts column never passes MAX_CLAIM_ATTEMPTS.
LEMMA AttemptsBounded ==
    ASSUME NEW n \in 0 .. MaxAttempts
    PROVE  OneMoreAttempt(n) \in 0 .. MaxAttempts
  BY RefundConstants DEF OneMoreAttempt

\* The claim's UPDATE writes the whole payload, its cap anchor included.
LEMMA ClaimedRowType ==
    ASSUME NEW row \in Rows, NEW t \in Transactions
    PROVE  /\ ClaimedRow(row, t) \in Rows
           /\ ClaimedRow(row, t).status = "in_flight"
           /\ ClaimedRow(row, t).tx = t
           /\ ClaimedRow(row, t).first_broadcast # "never"
<1> DEFINE n == OneMoreAttempt(row.attempts)
           a == IF row.first_broadcast = "never" THEN "recent" ELSE row.first_broadcast
<1>1. n \in 0 .. MaxAttempts
  BY AttemptsBounded DEF Rows
<1>2. a \in {"recent", "old"}
  BY DEF Rows
<1>3. ClaimedRow(row, t) = [row EXCEPT !.status = "in_flight", !.tx = t, !.attempts = n,
                                       !.accepted = FALSE, !.first_broadcast = a]
  BY DEF ClaimedRow
<1> HIDE DEF n, a
<1> QED BY <1>1, <1>2, <1>3 DEF Rows, RefundStatus

\* claim_refund_for_broadcast keeps the invariant: a reserved row has no
\* transaction that landed or can land.
LEMMA ClaimStep ==
    ASSUME IInv, NEW w \in Workers, ClaimRefundForBroadcast(w)
    PROVE  IInv'
<1> DEFINE c == job[w].channel
           r == ClaimedRow(refunds[c], job[w].tx)
<1>1. /\ pc[w] = "claim" /\ job[w] \in Jobs /\ JobSound("claim", job[w])
  BY DEF ClaimRefundForBroadcast, IInv, WorkersSound, JobSound, TypeOK
<1>2. /\ c \in Channels /\ IsTransferFor(job[w].tx, c) /\ Amount[c] > 0
      /\ refunds[c] \in Rows /\ job[w].tx # None
  BY <1>1, NoneIsNoTransaction DEF JobSound, JobShape, IsTransferFor, IInv, TypeOK
<1>3. CASE Done(w) /\ UNCHANGED refunds
  BY <1>3, DoneStep DEF ClaimRefundForBroadcast, dbVars
<1>4. CASE /\ refunds[c].status = "reserved" /\ Goto(w, "broadcast") /\ UNCHANGED job
           /\ refunds' = [refunds EXCEPT ![c] = r]
  <2>1. r \in Rows /\ r.status = "in_flight" /\ r.tx = job[w].tx /\ r.first_broadcast # "never"
    BY <1>2, ClaimedRowType DEF IsTransferFor
  <2>2. RowSafe(c, r)
    BY <1>2, <1>4, <2>1 DEF IInv, LandedIsRecorded, NoOrphanInFlight, WorkersSound,
       StaleMeansDead, RowSafe
  <2>3. pc' \in [Workers -> Step] /\ job' \in [Workers -> Jobs]
    BY <1>4 DEF IInv, TypeOK, Goto, Step
  <2>4. JobShape("broadcast", job[w]) /\ ConclusionsHold("broadcast", job[w])
    BY <1>1 DEF JobSound, JobShape, ConclusionsHold
  <2>5. \A v \in Workers : Settled(v, c, r)
    BY <1>4, <2>1, <2>4 DEF IInv, TypeOK, Goto, Settled
  <2> HIDE DEF r, c
  <2> QED BY <1>2, <1>4, <2>1, <2>2, <2>3, <2>5, RowStep DEF ClaimRefundForBroadcast
<1> QED BY <1>3, <1>4 DEF ClaimRefundForBroadcast

\* resign_refund keeps the invariant: its predicate on the superseded
\* signature makes the row's transaction the one concluded dead.
LEMMA ResignStep ==
    ASSUME IInv, NEW w \in Workers, ResignRefund(w)
    PROVE  IInv'
<1> DEFINE c == job[w].channel
           t == job[w].fresh
           r == ResignedRow(refunds[c], t)
           j == [job[w] EXCEPT !.tx = t, !.fresh = None]
<1>1. /\ pc[w] = "resign" /\ job[w] \in Jobs /\ JobSound("resign", job[w])
  BY DEF ResignRefund, IInv, WorkersSound, JobSound, TypeOK
<1>2. /\ c \in Channels /\ IsTransferFor(t, c) /\ Amount[c] > 0 /\ refunds[c] \in Rows
      /\ t # None /\ ~Alive(job[w].tx) /\ job[w].tx \notin landed
  BY <1>1, NoneIsNoTransaction
     DEF JobSound, JobShape, ConclusionsHold, IsTransferFor, IInv, TypeOK
<1>3. CASE Done(w) /\ UNCHANGED refunds
  BY <1>3, DoneStep DEF ResignRefund, dbVars
<1>4. CASE /\ refunds[c].status = "in_flight" /\ refunds[c].tx = job[w].tx
           /\ Goto(w, "broadcast")
           /\ job' = [job EXCEPT ![w] = j]
           /\ refunds' = [refunds EXCEPT ![c] = r]
  <2>1. /\ r \in Rows /\ r.status = "in_flight" /\ r.tx = t
        /\ r.first_broadcast = refunds[c].first_broadcast
    <3> DEFINE n == OneMoreAttempt(refunds[c].attempts)
    <3>1. n \in 0 .. MaxAttempts
      BY <1>2, AttemptsBounded DEF Rows
    <3>2. r = [refunds[c] EXCEPT !.tx = t, !.accepted = FALSE, !.attempts = n]
      BY DEF ResignedRow
    <3> HIDE DEF n, r
    <3> QED BY <1>2, <1>4, <3>1, <3>2 DEF Rows, IsTransferFor
  <2>2. j \in Jobs /\ j.channel = c /\ j.tx = t
    BY <1>1, <1>2 DEF Jobs, IsTransferFor
  <2>3. RowSafe(c, r)
    BY <1>2, <1>4, <2>1 DEF IInv, TypeOK, LandedIsRecorded, NoOrphanInFlight, PoolIsLandable,
       WorkersSound, StaleMeansDead, RowSafe, Landable
  <2>4. pc' \in [Workers -> Step] /\ job' \in [Workers -> Jobs]
    BY <1>4, <2>2 DEF IInv, TypeOK, Goto, Step
  <2>5. JobShape("broadcast", j) /\ ConclusionsHold("broadcast", j)
    BY <1>2, <2>2 DEF JobShape, ConclusionsHold
  <2> HIDE DEF r, c, j, t
  <2>6. \A v \in Workers : Settled(v, c, r)
    BY <1>4, <2>1, <2>2, <2>5 DEF IInv, TypeOK, Goto, Settled
  <2>7. UNCHANGED <<channels, chainVars>>
    BY DEF ResignRefund
  <2> QED BY <1>2, <1>4, <2>1, <2>3, <2>4, <2>6, <2>7, RowStep
<1> QED BY <1>3, <1>4 DEF ResignRefund, ResignMatches

\* confirm_refund_and_close_channel keeps the invariant: what is confirmed has
\* landed, although the statement is predicated on the status alone.
LEMMA ConfirmStep ==
    ASSUME IInv, NEW w \in Workers, CompleteZeroAmount(w) \/ ConfirmLanded(w)
    PROVE  IInv'
<1> DEFINE c == job[w].channel
           r == [refunds[c] EXCEPT !.status = "confirmed"]
<1>1. PICK from \in {"reserved", "in_flight"} : ConfirmRefundAndCloseChannel(w, from)
  BY DEF CompleteZeroAmount, ConfirmLanded
<1>2. JobSound(pc[w], job[w]) /\ c \in Channels /\ refunds[c] \in Rows
  BY DEF CompleteZeroAmount, ConfirmLanded, IInv, TypeOK, WorkersSound, JobSound, JobShape
<1>3. CASE UNCHANGED dbVars
  BY <1>1, <1>3, DoneStep DEF ConfirmRefundAndCloseChannel
<1>4. CASE refunds[c].status = from /\ ~UNCHANGED dbVars
  <2>1. /\ r \in Rows /\ r.status = "confirmed" /\ r.tx = refunds[c].tx
        /\ r.first_broadcast = refunds[c].first_broadcast
    BY <1>2 DEF Rows, RefundStatus
  <2>2. Amount[c] > 0 => refunds[c].tx \in landed
    <3>1. Amount[c] \in Nat
      BY <1>2, RefundConstants
    <3>2. CASE pc[w] = "confirm"
      BY <1>2, <3>2 DEF JobSound, JobShape, ConclusionsHold, RowTxSteps, IsTransferFor, IInv,
         LandedIsRecorded
    <3>3. CASE pc[w] = "zero_amount"
      BY <1>2, <3>1, <3>3 DEF JobSound, JobShape
    <3> QED BY <3>2, <3>3 DEF CompleteZeroAmount, ConfirmLanded
  <2>3. RowSafe(c, r)
    BY <1>2, <2>1, KeepsTx DEF IInv, TypeOK
  <2>4. /\ refunds' = [refunds EXCEPT ![c] = r]
        /\ channels' = [channels EXCEPT ![c] = "closed"]
        /\ channels'[c] = "closed"
        /\ Done(w) /\ UNCHANGED chainVars
    BY <1>1, <1>2, <1>4 DEF ConfirmRefundAndCloseChannel, IInv, TypeOK
  <2> HIDE DEF r, c
  <2>5. /\ pc' \in [Workers -> Step] /\ job' \in [Workers -> Jobs]
        /\ \A v \in Workers : Settled(v, c, r)
    BY <2>4, DoneSettles
  <2> QED BY <1>2, <2>1, <2>2, <2>3, <2>4, <2>5, RowStep
<1> QED BY <1>1, <1>3, <1>4 DEF ConfirmRefundAndCloseChannel

\* hold_refund keeps the invariant, whatever its guard.
LEMMA HoldStep ==
    ASSUME IInv, NEW w \in Workers, HoldRefund(w)
    PROVE  IInv'
<1> DEFINE c == job[w].channel
           r == [refunds[c] EXCEPT !.status = "held"]
<1>1. c \in Channels /\ refunds[c] \in Rows
  BY DEF HoldRefund, IInv, TypeOK, WorkersSound, JobShape
<1>2. CASE UNCHANGED refunds
  BY <1>2, DoneStep DEF HoldRefund, dbVars
<1>3. CASE ~UNCHANGED refunds
  <2>1. /\ r \in Rows /\ r.status = "held" /\ r.tx = refunds[c].tx
        /\ r.first_broadcast = refunds[c].first_broadcast
    BY <1>1 DEF Rows, RefundStatus
  <2>2. refunds' = [refunds EXCEPT ![c] = r] /\ Done(w) /\ UNCHANGED <<channels, chainVars>>
    BY <1>3 DEF HoldRefund
  <2> HIDE DEF r, c
  <2>3. RowSafe(c, r)
    BY <1>1, <2>1, KeepsTx DEF IInv, TypeOK
  <2>4. /\ pc' \in [Workers -> Step] /\ job' \in [Workers -> Jobs]
        /\ \A v \in Workers : Settled(v, c, r)
    BY <2>2, DoneSettles
  <2> QED BY <1>1, <2>1, <2>2, <2>3, <2>4, RowStep
<1> QED BY <1>2, <1>3

\* mark_broadcast_accepted keeps the invariant: it keeps the transaction.
LEMMA MarkAcceptedStep ==
    ASSUME IInv, NEW w \in Workers, MarkBroadcastAccepted(w)
    PROVE  IInv'
<1> DEFINE c == job[w].channel
           r == [refunds[c] EXCEPT !.accepted = TRUE]
<1>1. c \in Channels /\ refunds[c] \in Rows
  BY DEF MarkBroadcastAccepted, IInv, TypeOK, WorkersSound, JobShape
<1>2. CASE UNCHANGED refunds
  BY <1>2, DoneStep DEF MarkBroadcastAccepted, dbVars
<1>3. CASE ~UNCHANGED refunds
  <2>1. /\ refunds[c].status = "in_flight"
        /\ refunds[c].tx # None /\ refunds[c].first_broadcast # "never"
    BY <1>1, <1>3 DEF MarkBroadcastAccepted, IInv, TypeOK
  <2>2. /\ r \in Rows /\ r.status = "in_flight" /\ r.tx = refunds[c].tx
        /\ r.first_broadcast = refunds[c].first_broadcast
    BY <1>1, <2>1 DEF Rows
  <2>3. refunds' = [refunds EXCEPT ![c] = r] /\ Done(w) /\ UNCHANGED <<channels, chainVars>>
    BY <1>3 DEF MarkBroadcastAccepted
  <2> HIDE DEF r, c
  <2>4. RowSafe(c, r)
    BY <1>1, <2>1, <2>2, KeepsTx
  <2>5. /\ pc' \in [Workers -> Step] /\ job' \in [Workers -> Jobs]
        /\ \A v \in Workers : Settled(v, c, r)
    BY <2>3, DoneSettles
  <2> QED BY <1>1, <2>2, <2>3, <2>4, <2>5, RowStep
<1> QED BY <1>2, <1>3

\* The passing of 24 hours keeps the invariant.
LEMMA LeaveWindowStep ==
    ASSUME IInv, NEW c \in Channels, LeaveWindow(c)
    PROVE  IInv'
<1> DEFINE r == [refunds[c] EXCEPT !.first_broadcast = "old"]
<1>1. refunds[c] \in Rows
  BY DEF IInv, TypeOK
<1>2. /\ r \in Rows /\ r.status = refunds[c].status /\ r.tx = refunds[c].tx
      /\ r.first_broadcast = "old"
  BY <1>1 DEF Rows
<1>3. refunds' = [refunds EXCEPT ![c] = r] /\ UNCHANGED <<channels, pc, job, chainVars>>
  BY DEF LeaveWindow
<1> HIDE DEF r
<1>4. RowSafe(c, r)
  BY <1>2, KeepsTx DEF IInv, TypeOK
<1>5. r.status = "confirmed" /\ Amount[c] > 0 => channels'[c] = "closed" /\ r.tx \in landed
  BY <1>2, <1>3 DEF IInv, ConfirmedIsRecorded, Owing
<1>6. /\ pc' \in [Workers -> Step] /\ job' \in [Workers -> Jobs]
      /\ \A v \in Workers : Settled(v, c, r)
  BY <1>3 DEF IInv, TypeOK, Settled
<1> QED BY <1>3, <1>4, <1>5, <1>6, RowStep

\* The operator's re-arm is safe because nothing that paid or can still pay
\* this obligation is outstanding.
LEMMA RearmStep ==
    ASSUME IInv, RearmAfterExpiry, NEW c \in Channels, Rearm(c)
    PROVE  IInv'
<1> DEFINE r == [refunds[c] EXCEPT !.status = "reserved"]
<1>1. refunds[c] \in Rows
  BY DEF IInv, TypeOK
<1>2. /\ r \in Rows /\ r.status = "reserved" /\ r.tx = refunds[c].tx
      /\ r.first_broadcast = refunds[c].first_broadcast
  BY <1>1 DEF Rows, RefundStatus
<1>3. /\ refunds' = [refunds EXCEPT ![c] = r] /\ UNCHANGED <<channels, pc, job, chainVars>>
      /\ refunds[c].tx \notin landed
      /\ refunds[c].tx # None => ~Landable(refunds[c].tx)
  BY DEF Rearm
<1> HIDE DEF r
<1>4. \A t \in landed \cup pool : ~PaysFor(t, c)
  <2>1. ASSUME NEW t \in landed, PaysFor(t, c) PROVE FALSE
    BY <1>3, <2>1 DEF IInv, LandedIsRecorded
  <2>2. ASSUME NEW t \in pool, PaysFor(t, c) PROVE FALSE
    BY <1>3, <2>2, NoneIsNoTransaction DEF IInv, TypeOK, NoOrphanInFlight, PoolIsLandable
  <2> QED BY <2>1, <2>2
<1>5. ASSUME NEW v \in Workers, pc[v] \in RowTxSteps, Landable(job[v].tx), job[v].channel = c
      PROVE  FALSE
  BY <1>3, <1>5, NoneIsNoTransaction
     DEF IInv, WorkersSound, StaleMeansDead, JobShape, IsTransferFor
<1>6. RowSafe(c, r)
  BY <1>2, <1>4, <1>5 DEF RowSafe, IInv, TypeOK, RowShape
<1>7. /\ pc' \in [Workers -> Step] /\ job' \in [Workers -> Jobs]
      /\ \A v \in Workers : Settled(v, c, r)
  BY <1>3 DEF IInv, TypeOK, Settled
<1> QED BY <1>2, <1>3, <1>6, <1>7, RowStep

\* The operator who finds the held transaction landed puts it back in flight.
LEMMA ReinstateStep ==
    ASSUME IInv, NEW c \in Channels, Reinstate(c)
    PROVE  IInv'
<1> DEFINE r == [refunds[c] EXCEPT !.status = "in_flight"]
<1>1. refunds[c] \in Rows /\ refunds[c].tx # None
  BY NoneIsNoTransaction DEF IInv, TypeOK, Reinstate
<1>2. /\ r \in Rows /\ r.status = "in_flight" /\ r.tx = refunds[c].tx
      /\ r.first_broadcast = refunds[c].first_broadcast
  BY <1>1 DEF Rows, RefundStatus
<1>3. refunds' = [refunds EXCEPT ![c] = r] /\ UNCHANGED <<channels, pc, job, chainVars>>
  BY DEF Reinstate
<1> HIDE DEF r
<1>4. RowSafe(c, r)
  BY <1>1, <1>2, KeepsTx DEF IInv, TypeOK, RowShape
<1>5. /\ pc' \in [Workers -> Step] /\ job' \in [Workers -> Jobs]
      /\ \A v \in Workers : Settled(v, c, r)
  BY <1>3 DEF IInv, TypeOK, Settled
<1> QED BY <1>2, <1>3, <1>4, <1>5, RowStep

\* Bytes enter the cluster only through a worker at broadcast, and those that
\* can land are the row's.
LEMMA SendStep ==
    ASSUME IInv, NEW w \in Workers, SendAccepted(w) \/ SendAcceptedAnswerLost(w)
    PROVE  IInv'
<1> DEFINE t == job[w].tx
<1>1. /\ pc[w] = "broadcast" /\ JobSound("broadcast", job[w]) /\ Landable(t)
      /\ pool' = pool \cup {t}
      /\ UNCHANGED <<dbVars, height, landed, reverted, rooted>>
  BY DEF SendAccepted, SendAcceptedAnswerLost, Sendable, IInv, WorkersSound, JobSound
<1>2. /\ IsTransferFor(t, job[w].channel) /\ job[w].channel \in Channels
      /\ refunds[job[w].channel].tx = t /\ refunds[job[w].channel].status # "reserved"
  BY <1>1 DEF JobSound, JobShape, StaleMeansDead, RowTxSteps
<1>3. PICK l \in Step, j \in Jobs : MovesTo(w, l, j) /\ JobSound(l, j)
  <2>1. "mark_accepted" \in Step /\ JobSound("mark_accepted", job[w]) /\ job[w] \in Jobs
    BY <1>1 DEF Step, JobSound, JobShape, StaleMeansDead, ConclusionsHold, RowTxSteps, IInv, TypeOK
  <2>2. CASE SendAccepted(w)
    BY <2>1, <2>2 DEF SendAccepted, MovesTo, Goto, IInv, TypeOK
  <2>3. CASE SendAcceptedAnswerLost(w)
    BY <2>3, IdleJob DEF SendAcceptedAnswerLost, MovesTo, Done
  <2> QED BY <2>2, <2>3
<1>4. TypeOK'
  BY <1>1, <1>2, <1>3 DEF IInv, TypeOK, MovesTo, IsTransferFor, dbVars
<1>5. /\ RowShape' /\ LandedIsRecorded' /\ ConfirmedIsRecorded'
  BY <1>1 DEF IInv, RowShape, LandedIsRecorded, ConfirmedIsRecorded, dbVars
<1>6. NoOrphanInFlight'
  BY <1>1, <1>2, TransferFacts DEF IInv, NoOrphanInFlight, IsTransferFor, dbVars
<1>7. PoolIsLandable'
  BY <1>1 DEF IInv, PoolIsLandable, Landable, Alive, Processed
<1>8. WorkersSound'
  BY <1>1, <1>3 DEF IInv, TypeOK, WorkersSound, MovesTo, JobSound, JobShape, StaleMeansDead,
     ConclusionsHold, Landable, Alive, Processed, dbVars
<1> QED BY <1>4, <1>5, <1>6, <1>7, <1>8 DEF IInv

\* The one place where the two reads' timing matters: no worker sees its
\* transaction absent, then expired, while it landed in between.
LEMMA AdvanceHeightStep ==
    ASSUME IInv, ExpiryNeverBetweenReads, AdvanceHeight
    PROVE  IInv'
<1>1. /\ height \in Int /\ height' = height + 1 /\ pool' \subseteq pool
      /\ \A t \in pool' : height' <= LastValidBlockHeight(t)
      /\ UNCHANGED <<refunds, channels, pc, job, landed, reverted, rooted>>
      /\ \A t \in Transactions : Alive(t)' => Alive(t)
  BY TransferFacts DEF AdvanceHeight, dbVars, IInv, TypeOK, Alive, LastValidBlockHeight
<1>2. TypeOK'
  BY <1>1, RefundConstants DEF AdvanceHeight, IInv, TypeOK
<1>3. /\ RowShape' /\ LandedIsRecorded' /\ NoOrphanInFlight' /\ ConfirmedIsRecorded'
  BY <1>1 DEF IInv, RowShape, LandedIsRecorded, NoOrphanInFlight, ConfirmedIsRecorded
<1>4. PoolIsLandable'
  BY <1>1 DEF IInv, PoolIsLandable, Landable, Alive, Processed, LastValidBlockHeight
<1>5. WorkersSound'
  <2> SUFFICES ASSUME NEW w \in Workers
               PROVE  /\ JobShape(pc[w], job[w])'
                      /\ StaleMeansDead(pc[w], job[w])'
                      /\ ConclusionsHold(pc[w], job[w])'
    BY DEF WorkersSound
  <2>1. JobSound(pc[w], job[w])
    BY DEF IInv, WorkersSound, JobSound
  <2>2. pc[w] \in RowTxSteps => job[w].tx \in Transactions /\ LastValidBlockHeight(job[w].tx) \in Int
    BY <2>1, TransferFacts DEF JobSound, JobShape, IsTransferFor
  <2>3. JobShape(pc[w], job[w])'
    BY <1>1, <2>1 DEF JobSound, JobShape
  <2>4. StaleMeansDead(pc[w], job[w])'
    BY <1>1, <2>1, <2>2 DEF JobSound, StaleMeansDead, Landable, Processed
  <2>5. pc[w] = "block_height" => height # LastValidBlockHeight(job[w].tx)
    BY DEF AdvanceHeight, ReadsStraddleExpiry
  <2>6. ConclusionsHold(pc[w], job[w])'
    BY <1>1, <2>1, <2>2, <2>5
       DEF JobSound, ConclusionsHold, Alive, LastValidBlockHeight, RowTxSteps
  <2> QED BY <2>3, <2>4, <2>6
<1> QED BY <1>2, <1>3, <1>4, <1>5 DEF IInv

\* The cluster executes or roots what it holds: the row recorded it already.
LEMMA ExecuteStep ==
    ASSUME IInv, NEW t \in Transactions, Land(t) \/ LandWithError(t) \/ Root(t)
    PROVE  IInv'
<1>1. UNCHANGED <<refunds, channels, pc, job, height>>
  BY DEF Land, LandWithError, Root, dbVars
<1>2. /\ pool' \subseteq pool /\ landed \subseteq landed' /\ reverted \subseteq reverted'
      /\ \A u \in landed' : u \in landed \/ (u \in pool /\ u \notin pool')
      /\ \A u \in reverted' : u \in reverted \/ (u \in pool /\ u \notin pool')
  BY DEF Land, LandWithError, Root
<1>3. \A u \in pool : Alive(u) /\ u \notin Processed
  BY DEF IInv, PoolIsLandable, Landable
<1>4. TypeOK'
  BY <1>1 DEF Land, LandWithError, Root, IInv, TypeOK
<1>5. /\ RowShape' /\ LandedIsRecorded' /\ NoOrphanInFlight'
  BY <1>1, <1>2 DEF IInv, RowShape, LandedIsRecorded, NoOrphanInFlight
<1>6. ConfirmedIsRecorded'
  BY <1>1, <1>2 DEF IInv, ConfirmedIsRecorded
<1>7. PoolIsLandable'
  BY <1>1, <1>2, <1>3 DEF PoolIsLandable, Landable, Alive, Processed
<1>8. WorkersSound'
  <2> SUFFICES ASSUME NEW w \in Workers
               PROVE  /\ JobShape(pc[w], job[w])'
                      /\ StaleMeansDead(pc[w], job[w])'
                      /\ ConclusionsHold(pc[w], job[w])'
    BY DEF WorkersSound
  <2>1. JobSound(pc[w], job[w])
    BY DEF IInv, WorkersSound, JobSound
  <2>2. JobShape(pc[w], job[w])'
    BY <1>1, <2>1 DEF JobSound, JobShape
  <2>3. StaleMeansDead(pc[w], job[w])'
    BY <1>1, <1>2, <2>1 DEF JobSound, StaleMeansDead, Landable, Alive, Processed
  <2>4. ConclusionsHold(pc[w], job[w])'
    BY <1>1, <1>2, <1>3, <2>1 DEF JobSound, ConclusionsHold, Alive
  <2> QED BY <2>2, <2>3, <2>4
<1> QED BY <1>4, <1>5, <1>6, <1>7, <1>8 DEF IInv

-----------------------------------------------------------------------------

\* Freshly reserved rows (close_channel_and_reserve_refund) are sound.
LEMMA InitSound == Init => IInv
<1> SUFFICES ASSUME Init PROVE IInv
  OBVIOUS
<1>1. TypeOK
  BY RefundConstants, IdleJob DEF Init, TypeOK, Rows, RefundStatus
<1>2. /\ RowShape /\ LandedIsRecorded /\ NoOrphanInFlight /\ PoolIsLandable
      /\ ConfirmedIsRecorded
  BY DEF Init, RowShape, LandedIsRecorded, NoOrphanInFlight, PoolIsLandable,
     ConfirmedIsRecorded, Owing
<1>3. WorkersSound
  BY IdleJob DEF Init, WorkersSound, JobSound
<1> QED BY <1>1, <1>2, <1>3 DEF IInv

\* Every step of a worker, of the chain and of the operator keeps the
\* invariant, if expiry never falls between a worker's two reads and the
\* operator re-arms only what can no longer land.
LEMMA NextSound ==
    ASSUME IInv, [Next]_vars, RearmAfterExpiry, ExpiryNeverBetweenReads
    PROVE  IInv'
<1>1. CASE UNCHANGED vars
  BY <1>1 DEF vars, IInv, TypeOK, RowShape, LandedIsRecorded, NoOrphanInFlight, PoolIsLandable,
     WorkersSound, ConfirmedIsRecorded, JobShape, StaleMeansDead, ConclusionsHold, Landable,
     Alive, Processed
<1>2. ASSUME NEW w \in Workers, NEW c \in Channels, FetchReserved(w, c) \/ FetchInFlight(w, c)
      PROVE  IInv'
  BY <1>2, FetchReservedStep, FetchInFlightStep
<1>3. ASSUME NEW w \in Workers, WorkerStep(w)
      PROVE  IInv'
  <2>1. CASE CompleteZeroAmount(w) \/ ConfirmLanded(w)
    BY <2>1, ConfirmStep
  <2>2. CASE SignReserved(w)
    BY <2>2, SignReservedStep
  <2>3. CASE ClaimRefundForBroadcast(w)
    BY <2>3, ClaimStep
  <2>4. CASE ReadSignatureStatus(w)
    BY <2>4, ReadSignatureStatusStep
  <2>5. CASE ReadBlockHeight(w)
    BY <2>5, ReadBlockHeightStep
  <2>6. CASE SignAgain(w)
    BY <2>6, SignAgainStep
  <2>7. CASE ResignRefund(w)
    BY <2>7, ResignStep
  <2>8. CASE HoldRefund(w)
    BY <2>8, HoldStep
  <2>9. CASE MarkBroadcastAccepted(w)
    BY <2>9, MarkAcceptedStep
  <2>10. CASE SendAccepted(w)
    BY <2>10, SendStep
  <2>11. CASE SendAlreadyProcessed(w)
    BY <2>11, BroadcastAnswerStep
  <2>12. CASE SendRefused(w)
    BY <2>12, DoneStep DEF SendRefused
  <2> QED BY <1>3, <2>1, <2>2, <2>3, <2>4, <2>5, <2>6, <2>7, <2>8, <2>9, <2>10, <2>11, <2>12
          DEF WorkerStep
<1>4. ASSUME NEW w \in Workers, SendAcceptedAnswerLost(w) \/ SendRejected(w) \/ Abandon(w)
      PROVE  IInv'
  BY <1>4, SendStep, BroadcastAnswerStep, DoneStep DEF Abandon
<1>5. CASE AdvanceHeight
  BY <1>5, AdvanceHeightStep
<1>6. ASSUME NEW t \in Transactions, Land(t) \/ LandWithError(t) \/ Root(t)
      PROVE  IInv'
  BY <1>6, ExecuteStep
<1>7. ASSUME NEW c \in Channels, LeaveWindow(c) \/ Rearm(c) \/ Reinstate(c)
      PROVE  IInv'
  BY <1>7, LeaveWindowStep, RearmStep, ReinstateStep
<1> QED BY <1>1, <1>2, <1>3, <1>4, <1>5, <1>6, <1>7 DEF Next

\* The inductive invariant of channel_refunds.rs: every transaction that has
\* landed or can still land is the one its row records.
THEOREM Invariance ==
    ASSUME RearmAfterExpiry, ExpiryNeverBetweenReads
    PROVE  Spec => []IInv
<1>1. Init => IInv
  BY InitSound
<1>2. IInv /\ [Next]_vars => IInv'
  BY NextSound
<1> QED BY <1>1, <1>2, PTL DEF Spec

\* No obligation is ever paid twice, for any number of channels, workers,
\* heights and faults (channel_refunds.rs, invariant 13).
THEOREM NoDoubleRefund ==
    ASSUME RearmAfterExpiry, ExpiryNeverBetweenReads
    PROVE  Spec => []AtMostOneTransfer
<1>1. IInv => AtMostOneTransfer
  BY DEF IInv, LandedIsRecorded, AtMostOneTransfer
<1> QED BY <1>1, Invariance, PTL

\* No live transaction is ever orphaned in held or reserved by a stale
\* snapshot (HoldGuard, resign_refund).
THEOREM NoOrphan ==
    ASSUME RearmAfterExpiry, ExpiryNeverBetweenReads
    PROVE  Spec => []NoOrphanInFlight
<1>1. IInv => NoOrphanInFlight
  BY DEF IInv
<1> QED BY <1>1, Invariance, PTL

\* #743: a confirmed refund has its own landed transfer of the frozen tuple.
THEOREM ConfirmedArePaid ==
    ASSUME RearmAfterExpiry, ExpiryNeverBetweenReads
    PROVE  Spec => []ConfirmedMeansPaid
<1>1. IInv => ConfirmedMeansPaid
  <2> SUFFICES ASSUME IInv, NEW c \in Owing, refunds[c].status = "confirmed"
               PROVE  /\ channels[c] = "closed"
                      /\ \E t \in landed : /\ t.dest = Wallet[c] /\ t.amount = Amount[c]
                                           /\ t = refunds[c].tx
                      /\ \A d \in Owing \ {c} :
                            refunds[d].status = "confirmed" => refunds[d].tx # refunds[c].tx
    BY DEF ConfirmedMeansPaid
  <2>1. channels[c] = "closed" /\ refunds[c].tx \in landed /\ c \in Channels
    BY DEF IInv, ConfirmedIsRecorded, Owing
  <2>2. IsTransferFor(refunds[c].tx, c)
    BY <2>1, NoneIsNoTransaction DEF IInv, TypeOK, RowShape
  <2>3. refunds[c].tx.dest = Wallet[c] /\ refunds[c].tx.amount = Amount[c]
    <3>1. PICK d \in Channels, h \in 0 .. MaxHeight : refunds[c].tx = Transfer(d, h)
      BY <2>2 DEF IsTransferFor, Transactions
    <3>2. d = c
      BY <2>1, <2>2, <3>1, TransferFacts DEF IsTransferFor
    <3> QED BY <3>1, <3>2 DEF Transfer
  <2>4. ASSUME NEW d \in Owing \ {c}, refunds[d].status = "confirmed",
               refunds[d].tx = refunds[c].tx
        PROVE  FALSE
    <3>1. IsTransferFor(refunds[d].tx, d)
      BY <2>4, NoneIsNoTransaction DEF IInv, TypeOK, RowShape, ConfirmedIsRecorded, Owing
    <3> QED BY <2>2, <2>4, <3>1, TransferFacts DEF IsTransferFor
  <2> QED BY <2>1, <2>3, <2>4
<1> QED BY <1>1, Invariance, PTL

-----------------------------------------------------------------------------
(* The worker implements the obligation *)

\* Nothing is paid and nothing is discharged when the reservations are fresh.
LEMMA ObligationInit == Init => Obligation!Init
  BY DEF Init, Obligation!Init

\* What is paid and what is confirmed only change when the cluster executes a
\* refund, and when confirm_refund_and_close_channel applies.
LEMMA OtherStepsStutter ==
    ASSUME IInv, UNCHANGED landed,
           \A c \in Channels : refunds'[c].status = "confirmed" <=> refunds[c].status = "confirmed"
    PROVE  UNCHANGED Obligation!vars
<1>1. {c \in Channels : refunds[c].status = "confirmed"}'
        = {c \in Channels : refunds[c].status = "confirmed"}
  OBVIOUS
<1> QED BY <1>1 DEF Obligation!vars, PaysFor, RefundMemo

\* Land is the obligation's one Disburse: the row recorded the transaction, so
\* nothing else had landed for it.
LEMMA LandDisburses ==
    ASSUME IInv, NEW t \in Transactions, Land(t)
    PROVE  Obligation!Next
<1>1. PICK c \in Channels, h \in 0 .. MaxHeight : t = Transfer(c, h)
  BY DEF Transactions
<1>2. PaysFor(t, c) /\ \A d : PaysFor(t, d) => d = c
  BY <1>1, TransferFacts DEF IsTransferFor
<1>3. t \in pool /\ landed' = landed \cup {t} /\ UNCHANGED refunds /\ t \notin landed
  BY DEF Land, dbVars, IInv, PoolIsLandable, Landable, Processed
<1>4. refunds[c].tx = t /\ refunds[c].tx # None
  BY <1>2, <1>3, NoneIsNoTransaction DEF IInv, NoOrphanInFlight
<1>5. c \in Owing
  BY <1>4 DEF IInv, RowShape, Owing
<1>6. \A u \in landed : ~PaysFor(u, c)
  BY <1>3, <1>4 DEF IInv, LandedIsRecorded
<1> DEFINE paid == [d \in Channels |-> {u \in landed : PaysFor(u, d)}]
           paidAfter == [d \in Channels |-> {u \in landed' : PaysFor(u, d)}]
<1>7. paid[c] = {} /\ paidAfter = [paid EXCEPT ![c] = {t}]
  <2>1. \A d \in Channels : paidAfter[d] = IF d = c THEN {t} ELSE paid[d]
    BY <1>2, <1>3, <1>6
  <2> QED BY <2>1, <1>6
<1>8. t \in paidAfter[c]
  BY <1>2, <1>3
<1>9. Obligation!Disburse(c)
  BY <1>3, <1>5, <1>7, <1>8 DEF Obligation!Disburse, PaysFor, RefundMemo
<1> QED BY <1>9 DEF Obligation!Next

\* A confirm that applies is a Discharge, and one that does not is a stutter.
LEMMA ConfirmDischarges ==
    ASSUME IInv, IInv', NEW w \in Workers, CompleteZeroAmount(w) \/ ConfirmLanded(w)
    PROVE  Obligation!Next \/ UNCHANGED Obligation!vars
<1>0. PICK c \in Channels : c = job[w].channel
  BY DEF CompleteZeroAmount, ConfirmLanded, IInv, WorkersSound, JobShape
<1>1. PICK from \in {"reserved", "in_flight"} : ConfirmRefundAndCloseChannel(w, from)
  BY DEF CompleteZeroAmount, ConfirmLanded
<1>2. refunds \in [Channels -> Rows]
  BY DEF IInv, TypeOK
<1>3. UNCHANGED landed
  BY <1>1 DEF ConfirmRefundAndCloseChannel, chainVars
<1>4. CASE refunds[c].status = from
  <2>1. refunds' = [refunds EXCEPT ![c].status = "confirmed"]
    BY <1>0, <1>1, <1>4 DEF ConfirmRefundAndCloseChannel
  <2>2. refunds'[c].status = "confirmed" /\ \A d \in Channels \ {c} : refunds'[d] = refunds[d]
    BY <1>2, <2>1 DEF Rows
  <2>3. {d \in Channels : refunds[d].status = "confirmed"}'
          = {d \in Channels : refunds[d].status = "confirmed"} \cup {c}
    BY <1>2, <2>2
  <2>4. c \notin {d \in Channels : refunds[d].status = "confirmed"}
    BY <1>4
  <2>5. c \in Owing => {t \in landed : PaysFor(t, c)} # {}
    <3> SUFFICES ASSUME c \in Owing PROVE \E t \in landed : PaysFor(t, c)
      OBVIOUS
    <3>1. refunds'[c].tx \in landed
      BY <1>3, <2>2 DEF IInv, ConfirmedIsRecorded, Owing
    <3>2. refunds'[c].tx = refunds[c].tx
      BY <1>2, <2>1 DEF Rows
    <3>3. refunds[c].tx # None
      BY <3>1, <3>2, NoneIsNoTransaction DEF IInv, TypeOK
    <3>4. PaysFor(refunds[c].tx, c)
      BY <1>2, <3>3 DEF IInv, RowShape, IsTransferFor
    <3> QED BY <3>1, <3>2, <3>4
  <2>6. Obligation!Discharge(c)
    BY <1>2, <1>3, <2>3, <2>4, <2>5 DEF Obligation!Discharge, PaysFor, RefundMemo
  <2> QED BY <1>2, <2>6 DEF Obligation!Next
<1>5. CASE refunds[c].status # from
  <2>1. UNCHANGED refunds
    BY <1>0, <1>1, <1>5 DEF ConfirmRefundAndCloseChannel, dbVars
  <2> QED BY <1>3, <2>1, OtherStepsStutter
<1> QED BY <1>4, <1>5

\* Every other step, of a worker, the chain or the operator, is a stutter.
LEMMA ObligationStep ==
    ASSUME IInv, IInv', [Next]_vars
    PROVE  [Obligation!Next]_(Obligation!vars)
<1>t. refunds \in [Channels -> Rows] /\ \A c \in Channels : refunds[c] \in Rows
  BY DEF IInv, TypeOK
<1> DEFINE SameDone == \A c \in Channels :
                 refunds'[c].status = "confirmed" <=> refunds[c].status = "confirmed"
<1>1. ASSUME NEW w \in Workers, NEW c \in Channels, FetchReserved(w, c) \/ FetchInFlight(w, c)
      PROVE  UNCHANGED <<refunds, landed>>
  BY <1>1 DEF FetchReserved, FetchInFlight, dbVars, chainVars
<1>2. ASSUME NEW w \in Workers,
             WorkerStep(w) \/ SendAcceptedAnswerLost(w) \/ SendRejected(w) \/ Abandon(w)
      PROVE  \/ CompleteZeroAmount(w) \/ ConfirmLanded(w)
             \/ SameDone /\ UNCHANGED landed
  <2>j. ASSUME pc[w] # "idle" PROVE job[w].channel \in Channels
    BY <2>j DEF IInv, WorkersSound, JobShape
  <2>0. ASSUME NEW c \in Channels, NEW r, refunds' = [refunds EXCEPT ![c] = r],
               r.status # "confirmed", refunds[c].status # "confirmed"
        PROVE  SameDone
    BY <2>0, <1>t
  <2>1. CASE ClaimRefundForBroadcast(w)
    <3> DEFINE c == job[w].channel
    <3>1. c \in Channels /\ UNCHANGED landed
      BY <2>1, <2>j DEF ClaimRefundForBroadcast, chainVars
    <3>2. ClaimedRow(refunds[c], job[w].tx).status = "in_flight"
      BY <3>1, <1>t DEF ClaimedRow, Rows
    <3>3. \/ UNCHANGED refunds
          \/ /\ refunds[c].status = "reserved"
             /\ refunds' = [refunds EXCEPT ![c] = ClaimedRow(refunds[c], job[w].tx)]
      BY <2>1 DEF ClaimRefundForBroadcast
    <3> HIDE DEF c
    <3> QED BY <3>1, <3>2, <3>3, <2>0
  <2>2. CASE ResignRefund(w)
    <3> DEFINE c == job[w].channel
    <3>1. c \in Channels /\ UNCHANGED landed
      BY <2>2, <2>j DEF ResignRefund, chainVars
    <3>2. ResignedRow(refunds[c], job[w].fresh).status = refunds[c].status
      BY <3>1, <1>t DEF ResignedRow, Rows
    <3>3. \/ UNCHANGED refunds
          \/ /\ refunds[c].status = "in_flight"
             /\ refunds' = [refunds EXCEPT ![c] = ResignedRow(refunds[c], job[w].fresh)]
      BY <2>2 DEF ResignRefund, ResignMatches
    <3> HIDE DEF c
    <3> QED BY <3>1, <3>2, <3>3, <2>0
  <2>3. CASE HoldRefund(w)
    BY <2>3, <2>j, <1>t DEF HoldRefund, HoldMatches, chainVars, Rows
  <2>4. CASE MarkBroadcastAccepted(w)
    BY <2>4, <2>j, <1>t DEF MarkBroadcastAccepted, chainVars, Rows
  <2>5. CASE \/ SignReserved(w) \/ ReadSignatureStatus(w) \/ ReadBlockHeight(w) \/ SignAgain(w)
             \/ SendAccepted(w) \/ SendAlreadyProcessed(w) \/ SendRefused(w)
             \/ SendAcceptedAnswerLost(w) \/ SendRejected(w) \/ Abandon(w)
    BY <2>5 DEF SignReserved, ReadSignatureStatus, ReadBlockHeight, SignAgain, SendAccepted,
       SendAlreadyProcessed, SendRefused, SendAcceptedAnswerLost, SendRejected, Abandon,
       dbVars, chainVars
  <2> QED BY <1>2, <2>1, <2>2, <2>3, <2>4, <2>5 DEF WorkerStep
<1>3. ASSUME NEW t \in Transactions, LandWithError(t) \/ Root(t)
      PROVE  UNCHANGED <<refunds, landed>>
  BY <1>3 DEF LandWithError, Root, dbVars
<1>4. ASSUME NEW c \in Channels, LeaveWindow(c) \/ Rearm(c) \/ Reinstate(c)
      PROVE  SameDone /\ UNCHANGED landed
  BY <1>4, <1>t DEF LeaveWindow, Rearm, Reinstate, chainVars, Rows
<1>5. CASE AdvanceHeight \/ UNCHANGED vars
  BY <1>5, OtherStepsStutter DEF AdvanceHeight, vars, dbVars
<1>6. ASSUME UNCHANGED <<refunds, landed>> PROVE SameDone /\ UNCHANGED landed
  BY <1>6
<1>7. ASSUME SameDone, UNCHANGED landed PROVE UNCHANGED Obligation!vars
  BY <1>7, OtherStepsStutter
<1> HIDE DEF SameDone
<1> QED BY <1>1, <1>2, <1>3, <1>4, <1>5, <1>6, <1>7, LandDisburses, ConfirmDischarges DEF Next

\* The worker keeps the promise RefundObligation states: at most one transfer
\* per obligation, and none is recorded as met before its transfer happened.
THEOREM WorkerKeepsObligation ==
    ASSUME RearmAfterExpiry, ExpiryNeverBetweenReads
    PROVE  Spec => ImplementsObligation
<1>1. IInv /\ IInv' /\ [Next]_vars => [Obligation!Next]_(Obligation!vars)
  BY ObligationStep
<1> QED BY <1>1, Invariance, ObligationInit, PTL DEF Spec, ImplementsObligation, Obligation!Spec


-----------------------------------------------------------------------------
(* What needs neither assumption: types, shapes and the daily ceiling       *)

RowWellFormed(c, r) ==
    /\ r \in Rows
    /\ r.status = "in_flight" => r.tx # None
    /\ r.tx # None => r.first_broadcast # "never"
    /\ r.tx # None => IsTransferFor(r.tx, c) /\ Amount[c] > 0

\* Every row and every snapshot is well formed.
ShapeInv ==
    /\ TypeOK
    /\ \A c \in Channels : RowWellFormed(c, refunds[c])
    /\ \A w \in Workers : JobShape(pc[w], job[w])

\* A step that writes at most one row and moves at most one worker.
OneRow == \/ UNCHANGED refunds
          \/ \E c \in Channels : \E r :
                RowWellFormed(c, r) /\ refunds' = [refunds EXCEPT ![c] = r]

OneMove == \/ UNCHANGED <<pc, job>>
           \/ \E w \in Workers, l \in Step, j \in Jobs :
                 JobShape(l, j) /\ MovesTo(w, l, j)

\* A step that writes one well-formed row and moves one worker to a step its
\* snapshot fits keeps every shape.
LEMMA ShapeFrame ==
    ASSUME ShapeInv, OneRow, OneMove,
           channels' \in [Channels -> {"closing", "closed"}],
           height' \in 0 .. MaxHeight, pool' \subseteq Transactions,
           landed' \subseteq Transactions, reverted' \subseteq Transactions, rooted' \subseteq landed'
    PROVE  ShapeInv'
<1>1. /\ refunds' \in [Channels -> Rows]
      /\ \A c \in Channels : RowWellFormed(c, refunds'[c])
  BY DEF OneRow, ShapeInv, TypeOK, RowWellFormed
<1>2. /\ pc' \in [Workers -> Step] /\ job' \in [Workers -> Jobs]
      /\ \A w \in Workers : JobShape(pc'[w], job'[w])
  BY DEF OneMove, ShapeInv, TypeOK, MovesTo
<1>3. \A c \in Channels :
          /\ refunds'[c].status = "in_flight" => refunds'[c].tx # None
          /\ refunds'[c].tx # None => refunds'[c].first_broadcast # "never"
  BY <1>1 DEF RowWellFormed
<1>4. TypeOK'
  BY <1>1, <1>2, <1>3 DEF TypeOK
<1>5. (\A c \in Channels : RowWellFormed(c, refunds[c]))'
  BY <1>1 DEF RowWellFormed, IsTransferFor, PaysFor
<1>6. (\A w \in Workers : JobShape(pc[w], job[w]))'
  BY <1>2 DEF JobShape, IsTransferFor, PaysFor
<1> QED BY <1>4, <1>5, <1>6 DEF ShapeInv

\* A worker drops its row (NoJob) and moves nothing else.
LEMMA DoneMoves == ASSUME NEW w \in Workers, Done(w) PROVE OneMove
  BY IdleJob DEF Done, OneMove, MovesTo, JobSound

\* A worker goes on with the snapshot it has.
LEMMA GotoMoves ==
    ASSUME ShapeInv, NEW w \in Workers, NEW l \in Step, Goto(w, l), UNCHANGED job,
           JobShape(l, job[w])
    PROVE  OneMove
<1>1. job[w] \in Jobs /\ MovesTo(w, l, job[w])
  BY DEF ShapeInv, TypeOK, Goto, MovesTo
<1> QED BY <1>1 DEF OneMove

\* The snapshot of a worker at work is of a channel and has the transaction
\* its step needs.
LEMMA ShapeOf ==
    ASSUME ShapeInv, NEW w \in Workers
    PROVE  /\ job[w] \in Jobs /\ JobShape(pc[w], job[w])
           /\ pc[w] # "idle" => /\ job[w].channel \in Channels
                                /\ refunds[job[w].channel] \in Rows
                                /\ RowWellFormed(job[w].channel, refunds[job[w].channel])
  BY DEF ShapeInv, TypeOK, JobShape

\* The sweep's two fetches write nothing and take a fitting snapshot.
LEMMA FetchMoves ==
    ASSUME ShapeInv, NEW w \in Workers, NEW c \in Channels,
           FetchReserved(w, c) \/ FetchInFlight(w, c)
    PROVE  OneMove /\ UNCHANGED <<dbVars, chainVars>>
<1>1. CASE FetchReserved(w, c)
  <2> DEFINE l == IF Amount[c] = 0 THEN "zero_amount" ELSE "sign"
             j == [NoJob EXCEPT !.channel = c]
  <2>1. l \in Step /\ Amount[c] \in Nat
    BY RefundConstants DEF Step
  <2>2. j \in Jobs /\ j.channel = c
    BY IdleJob DEF Jobs
  <2>3. MovesTo(w, l, j)
    BY <1>1 DEF FetchReserved, MovesTo, Goto
  <2>4. (l = "zero_amount" /\ Amount[c] = 0) \/ (l = "sign" /\ Amount[c] > 0)
    BY <2>1
  <2> HIDE DEF l, j
  <2>5. JobShape(l, j)
    BY <2>2, <2>4 DEF JobShape, RowTxSteps
  <2> QED BY <1>1, <2>1, <2>2, <2>3, <2>5 DEF OneMove, FetchReserved
<1>2. CASE FetchInFlight(w, c)
  <2> DEFINE j == [channel |-> c, tx |-> refunds[c].tx, fresh |-> None,
                   attempts |-> refunds[c].attempts, accepted |-> refunds[c].accepted]
  <2>1. RowWellFormed(c, refunds[c]) /\ refunds[c].status = "in_flight"
    BY <1>2 DEF ShapeInv, FetchInFlight
  <2>2. j \in Jobs /\ j.channel = c /\ j.tx = refunds[c].tx
    BY <2>1 DEF RowWellFormed, Rows, Jobs
  <2>3. MovesTo(w, "signature_status", j) /\ "signature_status" \in Step
    BY <1>2 DEF FetchInFlight, MovesTo, Goto, Step
  <2> HIDE DEF j
  <2>4. JobShape("signature_status", j)
    BY <2>1, <2>2 DEF RowWellFormed, JobShape
  <2> QED BY <1>2, <2>2, <2>3, <2>4 DEF OneMove, FetchInFlight
<1> QED BY <1>1, <1>2

\* Signing writes nothing and adds this obligation's transfer to the snapshot.
LEMMA SignMoves ==
    ASSUME ShapeInv, NEW w \in Workers, SignReserved(w) \/ SignAgain(w)
    PROVE  OneMove /\ UNCHANGED <<dbVars, chainVars>>
<1> DEFINE c == job[w].channel
           t == Transfer(c, height)
<1>1. /\ pc[w] \in {"sign", "sign_again"} /\ job[w] \in Jobs /\ JobShape(pc[w], job[w])
      /\ c \in Channels /\ height \in 0 .. MaxHeight /\ Amount[c] > 0
  BY ShapeOf DEF SignReserved, SignAgain, ShapeInv, TypeOK, JobShape
<1>2. IsTransferFor(t, c) /\ t \in Transactions
  BY <1>1, TransferFacts DEF IsTransferFor
<1>3. UNCHANGED <<dbVars, chainVars>>
  BY DEF SignReserved, SignAgain
<1>4. CASE \E l \in {"hold_from_reserved", "hold_from_in_flight"} :
              /\ Goto(w, l) /\ UNCHANGED job
              /\ l = "hold_from_in_flight" => pc[w] = "sign_again"
  <2>1. PICK l \in {"hold_from_reserved", "hold_from_in_flight"} :
              /\ Goto(w, l) /\ UNCHANGED job
              /\ l = "hold_from_in_flight" => pc[w] = "sign_again"
    BY <1>4
  <2>2. l \in Step /\ JobShape(l, job[w])
    BY <1>1, <2>1 DEF Step, JobShape, RowTxSteps
  <2> QED BY <1>3, <2>1, <2>2, GotoMoves
<1>5. CASE /\ pc[w] = "sign" /\ Goto(w, "claim")
           /\ job' = [job EXCEPT ![w].tx = t]
  <2> DEFINE j == [job[w] EXCEPT !.tx = t]
  <2>1. j \in Jobs /\ j.channel = c /\ j.tx = t
    BY <1>1, <1>2 DEF Jobs
  <2>2. MovesTo(w, "claim", j) /\ "claim" \in Step
    BY <1>5 DEF MovesTo, Goto, Step
  <2> HIDE DEF j, t, c
  <2>3. JobShape("claim", j)
    BY <1>1, <1>2, <2>1 DEF JobShape, RowTxSteps
  <2> QED BY <1>3, <2>1, <2>2, <2>3 DEF OneMove
<1>6. CASE /\ pc[w] = "sign_again" /\ Goto(w, "resign")
           /\ job' = [job EXCEPT ![w].fresh = t]
  <2> DEFINE j == [job[w] EXCEPT !.fresh = t]
  <2>1. j \in Jobs /\ j.channel = c /\ j.tx = job[w].tx /\ j.fresh = t
    BY <1>1, <1>2 DEF Jobs
  <2>2. MovesTo(w, "resign", j) /\ "resign" \in Step
    BY <1>6 DEF MovesTo, Goto, Step
  <2>3. IsTransferFor(job[w].tx, c)
    BY <1>1, <1>6 DEF JobShape, RowTxSteps
  <2> HIDE DEF j, t, c
  <2>4. JobShape("resign", j)
    BY <1>1, <1>2, <2>1, <2>3 DEF JobShape, RowTxSteps
  <2> QED BY <1>3, <2>1, <2>2, <2>4 DEF OneMove
<1> QED BY <1>4, <1>5, <1>6 DEF SignReserved, SignAgain

\* The reads of handle_in_flight and broadcast's answers write no row.
LEMMA AnswerMoves ==
    ASSUME ShapeInv, NEW w \in Workers,
           \/ ReadSignatureStatus(w) \/ ReadBlockHeight(w) \/ SendAccepted(w)
           \/ SendAlreadyProcessed(w) \/ SendRefused(w) \/ SendAcceptedAnswerLost(w)
           \/ SendRejected(w) \/ Abandon(w)
    PROVE  OneMove /\ UNCHANGED <<dbVars, height, landed, reverted, rooted>>
<1> DEFINE Onward == {"mark_accepted", "block_height", "sign_again", "confirm", "broadcast",
                      "hold_from_in_flight", "hold_never_accepted"}
<1>1. UNCHANGED <<dbVars, height, landed, reverted, rooted>>
  BY DEF ReadSignatureStatus, ReadBlockHeight, SendAccepted, SendAlreadyProcessed, SendRefused,
     SendAcceptedAnswerLost, SendRejected, Abandon, chainVars
<1>2. \/ Done(w)
      \/ /\ pc[w] \in {"signature_status", "block_height", "broadcast"}
         /\ UNCHANGED job /\ \E l \in Onward : Goto(w, l)
  BY DEF ReadSignatureStatus, ReadBlockHeight, AfterDeath, SendAccepted, SendAlreadyProcessed,
     SendRefused, SendAcceptedAnswerLost, SendRejected, Abandon, Sendable
<1>3. ASSUME pc[w] \in {"signature_status", "block_height", "broadcast"}, UNCHANGED job,
             NEW l \in Onward, Goto(w, l)
      PROVE  OneMove
  <2>1. l \in Step /\ JobShape(l, job[w])
    BY <1>3, ShapeOf DEF Step, JobShape, RowTxSteps
  <2> QED BY <1>3, <2>1, GotoMoves
<1> HIDE DEF Onward
<1> QED BY <1>1, <1>2, <1>3, DoneMoves

\* claim_refund_for_broadcast and resign_refund record a transfer for the row's
\* own channel.
LEMMA RecordWrites ==
    ASSUME ShapeInv, NEW w \in Workers, ClaimRefundForBroadcast(w) \/ ResignRefund(w)
    PROVE  OneRow /\ OneMove /\ UNCHANGED <<channels, chainVars>>
<1> DEFINE c == job[w].channel
<1>1. /\ pc[w] \in {"claim", "resign"} /\ job[w] \in Jobs /\ JobShape(pc[w], job[w])
      /\ c \in Channels /\ refunds[c] \in Rows /\ RowWellFormed(c, refunds[c]) /\ Amount[c] > 0
  BY ShapeOf DEF ClaimRefundForBroadcast, ResignRefund, JobShape
<1>2. UNCHANGED <<channels, chainVars>>
  BY DEF ClaimRefundForBroadcast, ResignRefund
<1>3. CASE Done(w) /\ UNCHANGED refunds
  BY <1>2, <1>3, DoneMoves DEF OneRow
<1>4. CASE /\ pc[w] = "claim" /\ Goto(w, "broadcast") /\ UNCHANGED job
           /\ refunds' = [refunds EXCEPT ![c] = ClaimedRow(refunds[c], job[w].tx)]
  <2> DEFINE r == ClaimedRow(refunds[c], job[w].tx)
  <2>1. IsTransferFor(job[w].tx, c) /\ job[w].tx \in Transactions /\ job[w].tx # None
    BY <1>1, <1>4, NoneIsNoTransaction DEF JobShape, IsTransferFor
  <2>2. r \in Rows /\ r.status = "in_flight" /\ r.tx = job[w].tx /\ r.first_broadcast # "never"
    BY <1>1, <2>1, ClaimedRowType
  <2> HIDE DEF r
  <2>3. RowWellFormed(c, r)
    BY <1>1, <2>1, <2>2 DEF RowWellFormed
  <2>4. refunds' = [refunds EXCEPT ![c] = r]
    BY <1>4 DEF r
  <2>5. "broadcast" \in Step /\ JobShape("broadcast", job[w])
    BY <1>1, <2>1 DEF Step, JobShape
  <2> HIDE DEF c
  <2>6. OneRow
    BY <1>1, <2>3, <2>4 DEF OneRow
  <2> QED BY <1>2, <1>4, <2>5, <2>6, GotoMoves
<1>5. CASE /\ pc[w] = "resign" /\ Goto(w, "broadcast")
           /\ job' = [job EXCEPT ![w].tx = job[w].fresh, ![w].fresh = None]
           /\ refunds[c].status = "in_flight"
           /\ refunds' = [refunds EXCEPT ![c] = ResignedRow(refunds[c], job[w].fresh)]
  <2> DEFINE r == ResignedRow(refunds[c], job[w].fresh)
             n == OneMoreAttempt(refunds[c].attempts)
             j == [job[w] EXCEPT !.tx = job[w].fresh, !.fresh = None]
  <2>1. IsTransferFor(job[w].fresh, c) /\ job[w].fresh \in Transactions /\ job[w].fresh # None
    BY <1>1, <1>5, NoneIsNoTransaction DEF JobShape, IsTransferFor
  <2>2. n \in 0 .. MaxAttempts
    BY <1>1, AttemptsBounded DEF Rows
  <2>3. r = [refunds[c] EXCEPT !.tx = job[w].fresh, !.accepted = FALSE, !.attempts = n]
    BY DEF ResignedRow
  <2>4. /\ r \in Rows /\ r.status = "in_flight" /\ r.tx = job[w].fresh
        /\ r.first_broadcast = refunds[c].first_broadcast
    <3> HIDE DEF n, r
    <3> QED BY <1>1, <1>5, <2>1, <2>2, <2>3 DEF Rows
  <2>5. j \in Jobs /\ j.channel = c /\ j.tx = job[w].fresh
    BY <1>1, <2>1 DEF Jobs
  <2>6. MovesTo(w, "broadcast", j) /\ "broadcast" \in Step
    BY <1>5 DEF MovesTo, Goto, Step
  <2>7. refunds' = [refunds EXCEPT ![c] = r]
    BY <1>5
  <2> HIDE DEF r, j, c
  <2>8. RowWellFormed(c, r) /\ JobShape("broadcast", j)
    BY <1>1, <1>5, <2>1, <2>4, <2>5 DEF RowWellFormed, JobShape
  <2>9. OneRow
    BY <1>1, <2>7, <2>8 DEF OneRow
  <2> QED BY <1>2, <2>5, <2>6, <2>8, <2>9 DEF OneMove
<1> QED BY <1>3, <1>4, <1>5 DEF ClaimRefundForBroadcast, ResignRefund, ResignMatches

\* Confirm, hold and the accepted marker write one column and drop the row.
LEMMA ColumnWrites ==
    ASSUME ShapeInv, NEW w \in Workers,
           \/ CompleteZeroAmount(w) \/ ConfirmLanded(w) \/ HoldRefund(w)
           \/ MarkBroadcastAccepted(w)
    PROVE  /\ OneRow /\ OneMove /\ UNCHANGED chainVars
           /\ channels' \in [Channels -> {"closing", "closed"}]
<1> DEFINE c == job[w].channel
<1>1. c \in Channels /\ refunds[c] \in Rows /\ RowWellFormed(c, refunds[c])
  BY ShapeOf DEF CompleteZeroAmount, ConfirmLanded, HoldRefund, MarkBroadcastAccepted
<1>2. Done(w) /\ UNCHANGED chainVars
  BY DEF CompleteZeroAmount, ConfirmLanded, ConfirmRefundAndCloseChannel, HoldRefund,
     MarkBroadcastAccepted
<1>3. channels' \in [Channels -> {"closing", "closed"}]
  BY DEF CompleteZeroAmount, ConfirmLanded, ConfirmRefundAndCloseChannel, HoldRefund,
     MarkBroadcastAccepted, ShapeInv, TypeOK, dbVars
<1>4. \/ UNCHANGED refunds
      \/ refunds' = [refunds EXCEPT ![c].status = "confirmed"]
      \/ refunds' = [refunds EXCEPT ![c].status = "held"]
      \/ refunds' = [refunds EXCEPT ![c].accepted = TRUE]
  BY DEF CompleteZeroAmount, ConfirmLanded, ConfirmRefundAndCloseChannel, HoldRefund,
     MarkBroadcastAccepted, dbVars
<1>5. /\ RowWellFormed(c, [refunds[c] EXCEPT !.status = "confirmed"])
      /\ RowWellFormed(c, [refunds[c] EXCEPT !.status = "held"])
      /\ RowWellFormed(c, [refunds[c] EXCEPT !.accepted = TRUE])
  BY <1>1 DEF RowWellFormed, Rows, RefundStatus
<1> HIDE DEF c
<1>6. OneRow
  BY <1>1, <1>4, <1>5 DEF OneRow
<1> QED BY <1>2, <1>3, <1>6, DoneMoves

\* The operator and the clock write one column of one row.
LEMMA OperatorWrites ==
    ASSUME ShapeInv, NEW c \in Channels, LeaveWindow(c) \/ Rearm(c) \/ Reinstate(c)
    PROVE  OneRow /\ UNCHANGED <<channels, pc, job, chainVars>>
<1>1. /\ UNCHANGED <<channels, pc, job, chainVars>>
      /\ RowWellFormed(c, refunds[c])
  BY DEF LeaveWindow, Rearm, Reinstate, ShapeInv
<1>2. CASE LeaveWindow(c)
  <2>1. RowWellFormed(c, [refunds[c] EXCEPT !.first_broadcast = "old"])
    BY <1>1 DEF RowWellFormed, Rows
  <2> QED BY <1>1, <1>2, <2>1 DEF LeaveWindow, OneRow
<1>3. CASE Rearm(c)
  <2>1. RowWellFormed(c, [refunds[c] EXCEPT !.status = "reserved"])
    BY <1>1 DEF RowWellFormed, Rows, RefundStatus
  <2> QED BY <1>1, <1>3, <2>1 DEF Rearm, OneRow
<1>4. CASE Reinstate(c)
  <2>1. refunds[c].tx # None
    BY <1>4, NoneIsNoTransaction DEF Reinstate, ShapeInv, TypeOK
  <2>2. RowWellFormed(c, [refunds[c] EXCEPT !.status = "in_flight"])
    BY <1>1, <2>1 DEF RowWellFormed, Rows, RefundStatus
  <2> QED BY <1>1, <1>4, <2>2 DEF Reinstate, OneRow
<1> QED BY <1>2, <1>3, <1>4

\* Every step writes at most one row, moves at most one worker, and keeps the
\* shapes: no assumption on expiry or on the operator is needed.
LEMMA ShapeNext ==
    ASSUME ShapeInv, [Next]_vars
    PROVE  ShapeInv' /\ OneRow
<1> DEFINE Chain == /\ height' \in 0 .. MaxHeight /\ pool' \subseteq Transactions
                    /\ landed' \subseteq Transactions /\ reverted' \subseteq Transactions
                    /\ rooted' \subseteq landed'
           Chans == channels' \in [Channels -> {"closing", "closed"}]
<1>1. ASSUME UNCHANGED chainVars PROVE Chain
  BY <1>1 DEF chainVars, ShapeInv, TypeOK
<1>2. ASSUME UNCHANGED channels PROVE Chans
  BY <1>2 DEF ShapeInv, TypeOK
<1>3. ASSUME OneRow, OneMove, Chans, Chain PROVE ShapeInv' /\ OneRow
  BY <1>3, ShapeFrame
<1>4. ASSUME NEW w \in Workers, SendAccepted(w) \/ SendAcceptedAnswerLost(w) PROVE Chain
  <2>1. pc[w] = "broadcast" /\ job[w].tx \in Transactions
    BY <1>4, ShapeOf DEF SendAccepted, SendAcceptedAnswerLost, Sendable, JobShape, RowTxSteps,
       IsTransferFor
  <2> QED BY <1>4, <2>1 DEF SendAccepted, SendAcceptedAnswerLost, ShapeInv, TypeOK
<1>5. ASSUME NEW w \in Workers, NEW c \in Channels, FetchReserved(w, c) \/ FetchInFlight(w, c)
      PROVE  OneRow /\ OneMove /\ Chans /\ Chain
  BY <1>1, <1>2, <1>5, FetchMoves DEF OneRow, dbVars
<1>6. ASSUME NEW w \in Workers,
             WorkerStep(w) \/ SendAcceptedAnswerLost(w) \/ SendRejected(w) \/ Abandon(w)
      PROVE  OneRow /\ OneMove /\ Chans /\ Chain
  <2>1. CASE SignReserved(w) \/ SignAgain(w)
    BY <1>1, <1>2, <2>1, SignMoves DEF OneRow, dbVars
  <2>2. CASE ClaimRefundForBroadcast(w) \/ ResignRefund(w)
    BY <1>1, <1>2, <2>2, RecordWrites
  <2>3. CASE \/ CompleteZeroAmount(w) \/ ConfirmLanded(w) \/ HoldRefund(w)
             \/ MarkBroadcastAccepted(w)
    BY <1>1, <2>3, ColumnWrites
  <2>4. CASE SendAccepted(w) \/ SendAcceptedAnswerLost(w)
    BY <1>2, <1>4, <2>4, AnswerMoves DEF OneRow, dbVars
  <2>5. CASE \/ ReadSignatureStatus(w) \/ ReadBlockHeight(w) \/ SendAlreadyProcessed(w)
             \/ SendRefused(w) \/ SendRejected(w) \/ Abandon(w)
    <3>1. UNCHANGED chainVars
      BY <2>5 DEF ReadSignatureStatus, ReadBlockHeight, SendAlreadyProcessed, SendRefused,
         SendRejected, Abandon
    <3> QED BY <1>1, <1>2, <2>5, <3>1, AnswerMoves DEF OneRow, dbVars
  <2> QED BY <1>6, <2>1, <2>2, <2>3, <2>4, <2>5 DEF WorkerStep
<1>7. CASE AdvanceHeight \/ \E t \in Transactions : Land(t) \/ LandWithError(t) \/ Root(t)
  <2>1. OneRow /\ OneMove /\ UNCHANGED channels
    BY <1>7 DEF AdvanceHeight, Land, LandWithError, Root, OneRow, OneMove, dbVars
  <2>2. Chain
    BY <1>7, RefundConstants DEF AdvanceHeight, Land, LandWithError, Root, ShapeInv, TypeOK
  <2> QED BY <1>2, <1>3, <2>1, <2>2
<1>8. ASSUME NEW c \in Channels, LeaveWindow(c) \/ Rearm(c) \/ Reinstate(c)
      PROVE  OneRow /\ OneMove /\ Chans /\ Chain
  BY <1>1, <1>2, <1>8, OperatorWrites DEF OneMove
<1>9. CASE UNCHANGED vars
  BY <1>1, <1>2, <1>3, <1>9 DEF vars, OneRow, OneMove, chainVars
<1> HIDE DEF Chans, Chain
<1> QED BY <1>3, <1>5, <1>6, <1>7, <1>8, <1>9 DEF Next

\* A fresh reservation is well formed.
LEMMA ShapeInit == Init => ShapeInv
<1> SUFFICES ASSUME Init PROVE ShapeInv
  OBVIOUS
<1>1. IInv
  BY InitSound
<1>2. TypeOK /\ refunds \in [Channels -> Rows]
  BY <1>1 DEF IInv, TypeOK
<1>3. \A c \in Channels : RowWellFormed(c, refunds[c])
  BY <1>1, <1>2 DEF IInv, TypeOK, RowShape, RowWellFormed
<1>4. \A w \in Workers : JobShape(pc[w], job[w])
  BY <1>1 DEF IInv, WorkersSound
<1> QED BY <1>2, <1>3, <1>4 DEF ShapeInv

\* Every variable keeps its type, and an in_flight row always has the payload
\* handle_in_flight expects, whatever the operator does and whenever a
\* transaction expires.
THEOREM TypeCorrect == Spec => []TypeOK
<1>1. ShapeInv => TypeOK
  BY DEF ShapeInv
<1>2. ShapeInv /\ [Next]_vars => ShapeInv'
  BY ShapeNext
<1> QED BY <1>1, <1>2, ShapeInit, PTL DEF Spec

-----------------------------------------------------------------------------
(* A recorded transaction is replaced only when it is dead                  *)

\* A row waits for a claim only when what it recorded cannot land, and of a
\* channel no RPC accepts nothing was ever sent or marked accepted.
ReplaceInv ==
    /\ \A c \in Channels : refunds[c].status = "reserved" /\ refunds[c].tx # None =>
          ~Landable(refunds[c].tx)
    /\ \A c \in Unsendable : /\ ~refunds[c].accepted
                             /\ \A t \in pool \cup Processed : ~PaysFor(t, c)
    /\ \A w \in Workers : job[w].channel \in Unsendable =>
          ~job[w].accepted /\ pc[w] \notin {"mark_accepted", "sign_again", "resign"}

\* Nothing was sent for a fresh reservation.
LEMMA ReplaceInit == Init => ReplaceInv
  BY RefundConstants DEF Init, ReplaceInv, NoJob, Processed

\* The chain only forgets: what is not landable stays so, and only a worker's
\* accepted send brings a transaction to the cluster.
LEMMA ChainFrame ==
    ASSUME IInv, [Next]_vars
    PROVE  /\ \A t \in Transactions : Landable(t)' => Landable(t)
           /\ \A t \in (pool \cup Processed)' :
                 \/ t \in pool \cup Processed
                 \/ \E w \in Workers : Sendable(w) /\ t = job[w].tx
<1> USE DEF Processed
<1>1. CASE UNCHANGED chainVars
  BY <1>1 DEF chainVars, Landable, Alive, LastValidBlockHeight
<1>2. CASE \E w \in Workers : SendAccepted(w) \/ SendAcceptedAnswerLost(w)
  BY <1>2 DEF SendAccepted, SendAcceptedAnswerLost, Landable, Alive, LastValidBlockHeight
<1>3. CASE \E t \in Transactions : Land(t) \/ LandWithError(t) \/ Root(t)
  BY <1>3 DEF Land, LandWithError, Root, Landable, Alive, LastValidBlockHeight
<1>4. CASE AdvanceHeight
  <2>1. height \in Int /\ \A t \in Transactions : LastValidBlockHeight(t) \in Int
    BY TransferFacts DEF IInv, TypeOK
  <2>2. /\ height' = height + 1 /\ pool' \subseteq pool /\ UNCHANGED <<landed, reverted>>
        /\ \A t : LastValidBlockHeight(t)' = LastValidBlockHeight(t)
    BY <1>4 DEF AdvanceHeight, LastValidBlockHeight
  <2> QED BY <2>1, <2>2 DEF Landable, Alive
<1>5. \/ UNCHANGED chainVars
      \/ \E w \in Workers : SendAccepted(w) \/ SendAcceptedAnswerLost(w)
      \/ \E t \in Transactions : Land(t) \/ LandWithError(t) \/ Root(t)
      \/ AdvanceHeight
  <2>1. ASSUME NEW w \in Workers, WorkerStep(w)
        PROVE  UNCHANGED chainVars \/ SendAccepted(w)
    BY <2>1 DEF WorkerStep, CompleteZeroAmount, SignReserved, ClaimRefundForBroadcast,
       ReadSignatureStatus, ReadBlockHeight, SignAgain, ResignRefund, ConfirmLanded, HoldRefund,
       MarkBroadcastAccepted, SendAlreadyProcessed, SendRefused, ConfirmRefundAndCloseChannel
  <2>2. ASSUME NEW w \in Workers, SendRejected(w) \/ Abandon(w) PROVE UNCHANGED chainVars
    BY <2>2 DEF SendRejected, Abandon
  <2>3. ASSUME NEW w \in Workers, NEW c \in Channels, FetchReserved(w, c) \/ FetchInFlight(w, c)
        PROVE  UNCHANGED chainVars
    BY <2>3 DEF FetchReserved, FetchInFlight
  <2>4. ASSUME NEW c \in Channels, LeaveWindow(c) \/ Rearm(c) \/ Reinstate(c)
        PROVE  UNCHANGED chainVars
    BY <2>4 DEF LeaveWindow, Rearm, Reinstate
  <2>5. CASE UNCHANGED vars
    BY <2>5 DEF vars, chainVars
  <2> QED BY <2>1, <2>2, <2>3, <2>4, <2>5 DEF Next
<1> QED BY <1>1, <1>2, <1>3, <1>4, <1>5

\* What a step may do to a row: keep its transaction, mark it accepted, claim
\* it or re-sign it.
LEMMA RowFrame ==
    ASSUME IInv, [Next]_vars, RearmAfterExpiry, NEW c \in Channels
    PROVE  \/ /\ refunds'[c].tx = refunds[c].tx /\ refunds'[c].accepted = refunds[c].accepted
              /\ refunds'[c].status = "reserved" =>
                    \/ refunds[c].status = "reserved" \/ refunds[c].tx = None
                    \/ ~Landable(refunds[c].tx)
           \/ /\ refunds'[c].tx = refunds[c].tx /\ refunds'[c].status = refunds[c].status
              /\ \E w \in Workers : pc[w] = "mark_accepted" /\ job[w].channel = c
           \/ /\ refunds[c].status = "reserved" /\ refunds'[c].status = "in_flight"
              /\ ~refunds'[c].accepted
           \/ /\ refunds[c].status = "in_flight" /\ refunds'[c].status = "in_flight"
              /\ ~refunds'[c].accepted
              /\ \E w \in Workers : /\ pc[w] = "resign" /\ job[w].channel = c
                                    /\ job[w].tx = refunds[c].tx
<1>t. refunds \in [Channels -> Rows] /\ refunds[c] \in Rows
  BY DEF IInv, TypeOK
<1>c. ASSUME NEW w \in Workers, pc[w] # "idle" PROVE job[w].channel \in Channels
  BY <1>c DEF IInv, WorkersSound, JobShape
<1>0. CASE UNCHANGED refunds
  BY <1>0
<1>1. ASSUME NEW w \in Workers, CompleteZeroAmount(w) \/ ConfirmLanded(w) \/ HoldRefund(w)
      PROVE  /\ refunds'[c].tx = refunds[c].tx /\ refunds'[c].accepted = refunds[c].accepted
             /\ refunds'[c].status = "reserved" => refunds[c].status = "reserved"
  <2>1. job[w].channel \in Channels
    BY <1>1, <1>c DEF CompleteZeroAmount, ConfirmLanded, HoldRefund
  <2>2. \/ UNCHANGED refunds
        \/ refunds' = [refunds EXCEPT ![job[w].channel].status = "confirmed"]
        \/ refunds' = [refunds EXCEPT ![job[w].channel].status = "held"]
    BY <1>1 DEF CompleteZeroAmount, ConfirmLanded, ConfirmRefundAndCloseChannel, HoldRefund,
       dbVars
  <2> QED BY <1>t, <2>1, <2>2 DEF Rows
<1>2. ASSUME NEW w \in Workers, MarkBroadcastAccepted(w)
      PROVE  \/ UNCHANGED refunds[c]
             \/ /\ refunds'[c].tx = refunds[c].tx /\ refunds'[c].status = refunds[c].status
                /\ pc[w] = "mark_accepted" /\ job[w].channel = c
  <2>1. job[w].channel \in Channels
    BY <1>2, <1>c DEF MarkBroadcastAccepted
  <2> QED BY <1>2, <1>t, <2>1 DEF MarkBroadcastAccepted, Rows
<1>3. ASSUME NEW w \in Workers, ClaimRefundForBroadcast(w)
      PROVE  \/ UNCHANGED refunds[c]
             \/ /\ refunds[c].status = "reserved" /\ refunds'[c].status = "in_flight"
                /\ ~refunds'[c].accepted
  <2>1. job[w].channel \in Channels
    BY <1>3, <1>c DEF ClaimRefundForBroadcast
  <2>2. \A t : ClaimedRow(refunds[c], t).status = "in_flight" /\ ~ClaimedRow(refunds[c], t).accepted
    BY <1>t DEF ClaimedRow, Rows
  <2> QED BY <1>3, <1>t, <2>1, <2>2 DEF ClaimRefundForBroadcast
<1>4. ASSUME NEW w \in Workers, ResignRefund(w)
      PROVE  \/ UNCHANGED refunds[c]
             \/ /\ refunds[c].status = "in_flight" /\ refunds'[c].status = "in_flight"
                /\ ~refunds'[c].accepted
                /\ pc[w] = "resign" /\ job[w].channel = c /\ job[w].tx = refunds[c].tx
  <2>1. job[w].channel \in Channels
    BY <1>4, <1>c DEF ResignRefund
  <2>2. \A t : /\ ResignedRow(refunds[c], t).status = refunds[c].status
               /\ ~ResignedRow(refunds[c], t).accepted
    BY <1>t DEF ResignedRow, Rows
  <2> QED BY <1>4, <1>t, <2>1, <2>2 DEF ResignRefund, ResignMatches
<1>5. ASSUME NEW d \in Channels, LeaveWindow(d) \/ Rearm(d) \/ Reinstate(d)
      PROVE  /\ refunds'[c].tx = refunds[c].tx /\ refunds'[c].accepted = refunds[c].accepted
             /\ refunds'[c].status = "reserved" =>
                   \/ refunds[c].status = "reserved" \/ refunds[c].tx = None
                   \/ ~Landable(refunds[c].tx)
  BY <1>5, <1>t DEF LeaveWindow, Rearm, Reinstate, Rows
<1>6. ASSUME NEW w \in Workers,
             \/ SignReserved(w) \/ ReadSignatureStatus(w) \/ ReadBlockHeight(w) \/ SignAgain(w)
             \/ SendAccepted(w) \/ SendAlreadyProcessed(w) \/ SendRefused(w)
             \/ SendAcceptedAnswerLost(w) \/ SendRejected(w) \/ Abandon(w)
      PROVE  UNCHANGED refunds
  BY <1>6 DEF SignReserved, ReadSignatureStatus, ReadBlockHeight, SignAgain, SendAccepted,
       SendAlreadyProcessed, SendRefused, SendAcceptedAnswerLost, SendRejected, Abandon, dbVars
<1>7. CASE \/ AdvanceHeight \/ UNCHANGED vars
           \/ \E t \in Transactions : Land(t) \/ LandWithError(t) \/ Root(t)
           \/ \E w \in Workers, d \in Channels : FetchReserved(w, d) \/ FetchInFlight(w, d)
  BY <1>0, <1>7 DEF AdvanceHeight, Land, LandWithError, Root, FetchReserved, FetchInFlight,
     vars, dbVars
<1>8. CASE \E w \in Workers :
              WorkerStep(w) \/ SendAcceptedAnswerLost(w) \/ SendRejected(w) \/ Abandon(w)
  BY <1>0, <1>1, <1>2, <1>3, <1>4, <1>6, <1>8 DEF WorkerStep
<1> QED BY <1>5, <1>7, <1>8 DEF Next

\* What a step may do to a worker, as far as sending and re-signing goes.
LEMMA JobFrame ==
    ASSUME IInv, [Next]_vars, NEW w \in Workers
    PROVE  \/ pc'[w] = pc[w] /\ job'[w] = job[w]
           \/ job'[w] = NoJob /\ pc'[w] = "idle"
           \/ /\ pc'[w] \notin {"mark_accepted", "sign_again", "resign"}
              /\ \/ job'[w].channel = job[w].channel /\ job'[w].accepted = job[w].accepted
                 \/ ~job'[w].accepted
                 \/ \E c \in Channels : /\ job'[w].channel = c
                                        /\ job'[w].accepted = refunds[c].accepted
           \/ /\ pc'[w] = "mark_accepted" /\ job'[w] = job[w] /\ pc[w] = "broadcast"
              /\ job[w].channel \notin Unsendable \/ job[w].tx \in Processed
           \/ pc'[w] = "sign_again" /\ job'[w] = job[w] /\ job[w].accepted
           \/ /\ pc'[w] = "resign" /\ pc[w] = "sign_again"
              /\ job'[w].channel = job[w].channel /\ job'[w].accepted = job[w].accepted
<1>t. pc \in [Workers -> Step] /\ job \in [Workers -> Jobs] /\ job[w] \in Jobs
  BY DEF IInv, TypeOK
<1>0. ASSUME NEW v \in Workers, v # w, NEW l, NEW j, MovesTo(v, l, j)
      PROVE  pc'[w] = pc[w] /\ job'[w] = job[w]
  BY <1>0, <1>t DEF MovesTo
<1>1. CASE UNCHANGED <<pc, job>>
  BY <1>1
<1>2. ASSUME NEW v \in Workers, Done(v)
      PROVE  \/ pc'[w] = pc[w] /\ job'[w] = job[w]
             \/ job'[w] = NoJob /\ pc'[w] = "idle"
  BY <1>2, <1>t DEF Done
<1>3. ASSUME NEW v \in Workers, NEW l, Goto(v, l), UNCHANGED job
      PROVE  \/ pc'[w] = pc[w] /\ job'[w] = job[w]
             \/ v = w /\ pc'[w] = l /\ job'[w] = job[w]
  BY <1>3, <1>t DEF Goto
<1>4. ASSUME NEW v \in Workers, NEW c \in Channels, FetchReserved(v, c) \/ FetchInFlight(v, c)
      PROVE  \/ pc'[w] = pc[w] /\ job'[w] = job[w]
             \/ /\ pc'[w] \in {"zero_amount", "sign", "signature_status"}
                /\ \/ ~job'[w].accepted
                   \/ job'[w].channel = c /\ job'[w].accepted = refunds[c].accepted
  BY <1>4, <1>t DEF FetchReserved, FetchInFlight, Goto, NoJob
<1>5. ASSUME NEW v \in Workers, SignReserved(v) \/ SignAgain(v)
      PROVE  \/ pc'[w] = pc[w] /\ job'[w] = job[w]
             \/ /\ pc'[w] \in {"hold_from_reserved", "hold_from_in_flight", "claim"}
                /\ job'[w].channel = job[w].channel /\ job'[w].accepted = job[w].accepted
             \/ /\ pc'[w] = "resign" /\ pc[w] = "sign_again"
                /\ job'[w].channel = job[w].channel /\ job'[w].accepted = job[w].accepted
  BY <1>5, <1>t DEF SignReserved, SignAgain, Goto, Jobs
<1>6. ASSUME NEW v \in Workers, ClaimRefundForBroadcast(v) \/ ResignRefund(v)
      PROVE  \/ pc'[w] = pc[w] /\ job'[w] = job[w]
             \/ job'[w] = NoJob /\ pc'[w] = "idle"
             \/ /\ pc'[w] = "broadcast"
                /\ job'[w].channel = job[w].channel /\ job'[w].accepted = job[w].accepted
  BY <1>6, <1>t DEF ClaimRefundForBroadcast, ResignRefund, Goto, Done, Jobs
<1>7. ASSUME NEW v \in Workers,
             \/ CompleteZeroAmount(v) \/ ConfirmLanded(v) \/ HoldRefund(v)
             \/ MarkBroadcastAccepted(v) \/ SendRefused(v) \/ SendAcceptedAnswerLost(v)
             \/ Abandon(v)
      PROVE  Done(v)
  BY <1>7 DEF CompleteZeroAmount, ConfirmLanded, ConfirmRefundAndCloseChannel, HoldRefund,
     MarkBroadcastAccepted, SendRefused, SendAcceptedAnswerLost, Abandon
<1>8. ASSUME NEW v \in Workers, ReadSignatureStatus(v) \/ SendRejected(v)
      PROVE  \/ Done(v)
             \/ /\ UNCHANGED job
                /\ \E l \in {"hold_from_in_flight", "confirm", "block_height"} : Goto(v, l)
  BY <1>8 DEF ReadSignatureStatus, SendRejected
<1>9. ASSUME NEW v \in Workers, ReadBlockHeight(v)
      PROVE  /\ UNCHANGED job
             /\ \/ \E l \in {"hold_from_in_flight", "hold_never_accepted", "broadcast"} : Goto(v, l)
                \/ Goto(v, "sign_again") /\ job[v].accepted
  BY <1>9 DEF ReadBlockHeight, AfterDeath
<1>10. ASSUME NEW v \in Workers, SendAccepted(v) \/ SendAlreadyProcessed(v)
       PROVE  /\ UNCHANGED job /\ Goto(v, "mark_accepted") /\ pc[v] = "broadcast"
              /\ job[v].channel \notin Unsendable \/ job[v].tx \in Processed
  BY <1>10 DEF SendAccepted, SendAlreadyProcessed, Sendable
<1>11. CASE \/ AdvanceHeight \/ UNCHANGED vars
            \/ \E t \in Transactions : Land(t) \/ LandWithError(t) \/ Root(t)
            \/ \E c \in Channels : LeaveWindow(c) \/ Rearm(c) \/ Reinstate(c)
  BY <1>1, <1>11 DEF AdvanceHeight, Land, LandWithError, Root, LeaveWindow, Rearm, Reinstate, vars
<1>12. CASE \E v \in Workers :
               \/ CompleteZeroAmount(v) \/ ConfirmLanded(v) \/ HoldRefund(v)
               \/ MarkBroadcastAccepted(v) \/ SendRefused(v) \/ SendAcceptedAnswerLost(v)
               \/ Abandon(v)
  BY <1>2, <1>7, <1>12
<1>13. CASE \E v \in Workers : ReadSignatureStatus(v) \/ SendRejected(v)
  BY <1>2, <1>3, <1>8, <1>13
<1>14. CASE \E v \in Workers : ReadBlockHeight(v)
  BY <1>3, <1>9, <1>14
<1>15. CASE \E v \in Workers : SendAccepted(v) \/ SendAlreadyProcessed(v)
  BY <1>3, <1>10, <1>15
<1>16. CASE \E v \in Workers : SignReserved(v) \/ SignAgain(v)
  BY <1>5, <1>16
<1>17. CASE \E v \in Workers : ClaimRefundForBroadcast(v) \/ ResignRefund(v)
  BY <1>6, <1>17
<1>18. CASE \E v \in Workers, c \in Channels : FetchReserved(v, c) \/ FetchInFlight(v, c)
  BY <1>4, <1>18
<1> QED BY <1>11, <1>12, <1>13, <1>14, <1>15, <1>16, <1>17, <1>18 DEF Next, WorkerStep

\* Re-arming, sending, marking and re-signing keep the replacement invariant.
LEMMA ReplaceNext ==
    ASSUME IInv, IInv', ReplaceInv, [Next]_vars, RearmAfterExpiry
    PROVE  ReplaceInv'
<1>1. ASSUME NEW c \in Channels, refunds'[c].status = "reserved", refunds'[c].tx # None
      PROVE  ~Landable(refunds[c].tx)'
  <2>1. refunds'[c].tx = refunds[c].tx /\ refunds[c].tx \in Transactions
    BY <1>1, RowFrame DEF IInv, TypeOK, Rows
  <2>2. ~Landable(refunds[c].tx)
    BY <1>1, RowFrame DEF ReplaceInv
  <2> QED BY <2>1, <2>2, ChainFrame DEF Landable, Alive, LastValidBlockHeight, Processed
<1>2. ASSUME NEW c \in Unsendable
      PROVE  /\ ~refunds'[c].accepted
             /\ \A t \in (pool \cup Processed)' : ~PaysFor(t, c)
  <2>1. c \in Channels
    BY RefundConstants
  <2>2. ~refunds'[c].accepted
    BY <2>1, RowFrame DEF ReplaceInv
  <2>3. ASSUME NEW t \in (pool \cup Processed)', PaysFor(t, c) PROVE FALSE
    <3>1. PICK w \in Workers : Sendable(w) /\ t = job[w].tx
      BY <2>3, ChainFrame DEF ReplaceInv
    <3>2. PaysFor(t, job[w].channel)
      BY <3>1 DEF Sendable, IInv, WorkersSound, JobShape, IsTransferFor, RowTxSteps
    <3> QED BY <2>3, <3>1, <3>2, TransferFacts DEF Sendable
  <2> QED BY <2>2, <2>3
<1>3. ASSUME NEW w \in Workers, job'[w].channel \in Unsendable
      PROVE  ~job'[w].accepted /\ pc'[w] \notin {"mark_accepted", "sign_again", "resign"}
  <2>1. pc[w] = "broadcast" => PaysFor(job[w].tx, job[w].channel)
    BY DEF IInv, WorkersSound, JobShape, IsTransferFor, RowTxSteps
  <2>2. ~NoJob.accepted
    BY DEF NoJob
  <2>3. job[w].channel \in Unsendable =>
          /\ ~job[w].accepted /\ pc[w] \notin {"mark_accepted", "sign_again", "resign"}
          /\ \A t \in Processed : ~PaysFor(t, job[w].channel)
    BY DEF ReplaceInv
  <2>4. \A c \in Unsendable : ~refunds[c].accepted
    BY DEF ReplaceInv
  <2> QED BY <1>3, <2>1, <2>2, <2>3, <2>4, JobFrame
<1>4. \A t, c : PaysFor(t, c)' = PaysFor(t, c)
  BY DEF PaysFor, RefundMemo
<1> QED BY <1>1, <1>2, <1>3, <1>4 DEF ReplaceInv

\* "re-signing happens ONLY after conclusive death": for any number of
\* instances, when a row's transaction is replaced by a claim or a re-sign, the
\* old one has not landed and cannot land any more (resign_refund,
\* claim_refund_for_broadcast).
THEOREM ReplacedAreDead ==
    ASSUME RearmAfterExpiry, ExpiryNeverBetweenReads
    PROVE  Spec => ReplacedOnlyWhenDead
<1> DEFINE Dead == \A c \in Channels :
          refunds[c].tx # None /\ refunds'[c].tx # refunds[c].tx =>
              /\ refunds[c].tx \notin landed
              /\ ~Landable(refunds[c].tx)
              /\ refunds[c].status = "in_flight" => c \notin Unsendable
<1>1. ASSUME IInv, ReplaceInv, [Next]_vars PROVE Dead
  <2> SUFFICES ASSUME NEW c \in Channels, refunds[c].tx # None, refunds'[c].tx # refunds[c].tx
               PROVE  /\ refunds[c].tx \notin landed
                      /\ ~Landable(refunds[c].tx)
                      /\ refunds[c].status = "in_flight" => c \notin Unsendable
    OBVIOUS
  <2>1. CASE refunds[c].status = "reserved"
    <3>1. PaysFor(refunds[c].tx, c)
      BY <1>1 DEF IInv, RowShape, IsTransferFor
    <3> QED BY <1>1, <2>1, <3>1 DEF IInv, LandedIsRecorded, ReplaceInv
  <2>2. CASE refunds[c].status # "reserved"
    <3>1. PICK w \in Workers : /\ pc[w] = "resign" /\ job[w].channel = c
                               /\ job[w].tx = refunds[c].tx
      BY <1>1, <2>2, RowFrame
    <3> QED BY <1>1, <3>1 DEF IInv, WorkersSound, ConclusionsHold, Landable, ReplaceInv
  <2> QED BY <2>1, <2>2
<1>2. IInv /\ ReplaceInv /\ [Next]_vars => [Dead]_vars
  BY <1>1
<1>3. IInv /\ IInv' /\ ReplaceInv /\ [Next]_vars => ReplaceInv'
  BY ReplaceNext
<1> HIDE DEF Dead
<1>4. Spec => [][Dead]_vars
  BY <1>2, <1>3, ReplaceInit, Invariance, PTL DEF Spec
<1> QED BY <1>4 DEF ReplacedOnlyWhenDead, Dead

=============================================================================
