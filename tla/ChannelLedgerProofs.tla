------------------------- MODULE ChannelLedgerProofs -------------------------
(***************************************************************************)
(* The ledger's safety, for any number of draws and closes, any quotes, any *)
(* deposit and any number of faults.                                        *)
(***************************************************************************)
EXTENDS ChannelLedger, FiniteSums, TLAPS

\* A fresh channel row (create_channel) satisfies the ledger invariant.
LEMMA LedgerInit == Init => LedgerInv
  BY LedgerConstants DEF Init, LedgerInv, TypeOK, FrozenRefundExact, ReceiptMeansDebit, Requests, Step

\* A step that leaves the row, the vouchers and the receipts alone keeps the
\* invariant if it neither enters "record" nor takes a debited draw back.
LEMMA HandlerStep ==
    ASSUME LedgerInv, NEW p \in Requests, NEW l \in Step, Goto(p, l),
           p \in Draws => l \notin {"record", "close"},
           p \in Draws /\ pc[p] \in Persisted => l \in Persisted,
           UNCHANGED <<dbVars, voucher, receipts>>,
           lock' \in Requests \cup {None}, faults' \in 0 .. MaxFaults,
           advance' \in [Draws -> Nat],
           outcome' \in [Draws -> {"none", "charged", "lock_lost", "not_applied", "db_error"}],
           committing' \subseteq Draws,
           \A d \in committing' \ committing : d = p /\ l \in Persisted
    PROVE  LedgerInv'
<1> USE DEF LedgerInv, dbVars
<1>1. TypeOK'
  BY DEF TypeOK, Goto
<1>2. FrozenRefundExact' /\ ReceiptMeansDebit' /\ realized' <= last' /\ last' <= Deposit
  BY DEF FrozenRefundExact, ReceiptMeansDebit
<1>3. \A d \in debited' \cup committing' : pc'[d] \in Persisted
  BY DEF TypeOK, Goto, Requests
<1>4. \A d \in debited' : voucher'[d] <= last'
  OBVIOUS
<1>5. \A d \in Draws : (pc'[d] = "record" => d \in debited') /\ pc'[d] # "close"
  BY DEF TypeOK, Goto, Requests
<1> QED BY <1>1, <1>2, <1>3, <1>4, <1>5

\* persist_voucher_and_advance keeps the invariant wherever it runs: under its
\* handler, or as a COMMIT that outlives it.
LEMMA PersistStep ==
    ASSUME LedgerInv, NEW d \in Draws, PersistVoucherAndAdvance(d),
           d \notin debited \/ pc[d] \in Persisted,
           pc' \in [Requests -> Step],
           pc'[d] \in Persisted, pc'[d] = "record" => d \in debited',
           \A p \in Requests \ {d} : pc'[p] = pc[p],
           UNCHANGED <<lock, voucher, advance, receipts>>,
           outcome' \in [Draws -> {"none", "charged", "lock_lost", "not_applied", "db_error"}],
           faults' \in 0 .. MaxFaults,
           committing' \subseteq committing
    PROVE  LedgerInv'
<1> USE LedgerConstants DEF LedgerInv
<1>1. TypeOK' /\ realized' <= last' /\ last' <= Deposit
  BY DEF TypeOK, PersistVoucherAndAdvance, AdvanceApplies, dbVars
<1>2. FrozenRefundExact' /\ ReceiptMeansDebit'
  BY DEF TypeOK, FrozenRefundExact, ReceiptMeansDebit, PersistVoucherAndAdvance, AdvanceApplies,
         dbVars
<1>3. debited' \subseteq debited \cup {d}
  BY DEF PersistVoucherAndAdvance, dbVars
<1>4. \A e \in debited' \cup committing' : pc'[e] \in Persisted
  BY <1>3 DEF TypeOK, Requests
<1>5. \A e \in debited' : voucher'[e] <= last'
  BY DEF TypeOK, PersistVoucherAndAdvance, AdvanceApplies, dbVars
<1>6. \A e \in Draws : (pc'[e] = "record" => e \in debited') /\ pc'[e] # "close"
  BY DEF TypeOK, PersistVoucherAndAdvance, dbVars, Requests, Persisted
<1> QED BY <1>1, <1>2, <1>4, <1>5, <1>6

\* What a draw realizes is a number, and never more than its quote: the usage
\* chat prices is clamped, the others charge their price.
LEMMA ServeAdvances ==
    ASSUME NEW d \in Draws, Serve(d)
    PROVE  \E a \in Nat : a <= Quote[d] /\ advance' = [advance EXCEPT ![d] = a]
<1>1. Quote[d] \in Nat
  BY LedgerConstants
<1>2. CASE Surface[d].flat
  <2>1. advance' = [advance EXCEPT ![d] = RealizedAdvance(Quote[d], Quote[d])]
    BY <1>2 DEF Serve
  <2>2. RealizedAdvance(Quote[d], Quote[d]) = Quote[d] /\ Quote[d] <= Quote[d]
    BY <1>1 DEF RealizedAdvance
  <2> QED BY <1>1, <2>1, <2>2
<1>3. CASE ~Surface[d].flat
  <2>1. PICK actual \in 0 .. Quote[d] + 1 :
               advance' = [advance EXCEPT ![d] = RealizedAdvance(actual, Quote[d])]
    BY <1>3 DEF Serve
  <2>2. RealizedAdvance(actual, Quote[d]) \in Nat /\ RealizedAdvance(actual, Quote[d]) <= Quote[d]
    BY <1>1 DEF RealizedAdvance
  <2> QED BY <2>1, <2>2
<1> QED BY <1>2, <1>3

\* No step of a draw, its faults included, breaks the ledger invariant.
LEMMA DrawKeepsLedger ==
    ASSUME LedgerInv, NEW d \in Draws,
           AcquireForDraw(d) \/ DrawStep(d) \/ DrawFault(d) \/ CommitLands(d)
    PROVE  LedgerInv'
<1> USE LedgerConstants DEF dbVars, handlerVars
<1>t. /\ TypeOK /\ d \in Requests /\ faults \in 0 .. MaxFaults /\ faults \in Nat
      /\ lock \in Requests \cup {None} /\ pc[d] \in Step
      /\ d \in debited \cup committing => pc[d] \in Persisted
      /\ None \notin Requests
  BY DEF LedgerInv, TypeOK, Requests
<1>1. CASE AcquireForDraw(d)
  <2>1. d \notin debited /\ d \notin committing /\ d \notin receipts
    BY <1>1, <1>t DEF AcquireForDraw, LedgerInv, ReceiptMeansDebit, Persisted
  <2>2. PICK c \in 1 .. Deposit + 1 : voucher' = [voucher EXCEPT ![d] = c]
    BY <1>1 DEF AcquireForDraw
  <2>3. TypeOK'
    BY <1>1, <1>t, <2>2 DEF AcquireForDraw, TypeOK, Goto, AcquireChannelDrawLock, Step
  <2>4. FrozenRefundExact' /\ ReceiptMeansDebit' /\ realized' <= last' /\ last' <= Deposit
    BY <1>1 DEF AcquireForDraw, LedgerInv, FrozenRefundExact, ReceiptMeansDebit
  <2>5. \A e \in Draws \ {d} : pc'[e] = pc[e] /\ voucher'[e] = voucher[e]
    BY <1>1, <1>t, <2>2 DEF AcquireForDraw, TypeOK, Goto, Requests
  <2>6. pc'[d] = "load" /\ debited' = debited /\ committing' = committing /\ last' = last
    BY <1>1, <1>t DEF AcquireForDraw, TypeOK, Goto
  <2> QED BY <2>1, <2>3, <2>4, <2>5, <2>6, <1>t DEF LedgerInv, TypeOK
<1>2. CASE Persist(d)
  <2>1. d \notin debited /\ pc' \in [Requests -> Step]
    BY <1>2, <1>t DEF Persist, Persisted, TypeOK, Goto, DeliverUncharged, Step
  <2>2. pc'[d] \in Persisted /\ (pc'[d] = "record" => d \in debited')
    BY <1>2, <1>t DEF Persist, Persisted, TypeOK, Goto, DeliverUncharged, PersistVoucherAndAdvance
  <2>3. outcome' \in [Draws -> {"none", "charged", "lock_lost", "not_applied", "db_error"}]
    BY <1>2, <1>t DEF Persist, TypeOK, DeliverUncharged
  <2>4. \A p \in Requests \ {d} : pc'[p] = pc[p]
    BY <1>2, <1>t DEF Persist, TypeOK, Goto, DeliverUncharged
  <2> QED BY <1>2, <1>t, <2>1, <2>2, <2>3, <2>4, PersistStep DEF Persist
<1>3. CASE PersistFails(d)
  <2>1. d \notin debited /\ pc' \in [Requests -> Step] /\ pc'[d] = "release"
        /\ (\A p \in Requests \ {d} : pc'[p] = pc[p])
    BY <1>3, <1>t DEF PersistFails, Persisted, TypeOK, Goto, DeliverUncharged, Step
  <2>2. /\ outcome' \in [Draws -> {"none", "charged", "lock_lost", "not_applied", "db_error"}]
        /\ faults' \in 0 .. MaxFaults
    BY <1>3, <1>t DEF PersistFails, TypeOK, DeliverUncharged, Fault
  <2>3. CASE PersistVoucherAndAdvance(d)
    BY <1>3, <1>t, <2>1, <2>2, <2>3, PersistStep DEF PersistFails, Persisted
  <2>4. CASE UNCHANGED dbVars
    BY <1>3, <1>t, <2>2, <2>4, HandlerStep, "release" \in Step
       DEF PersistFails, DeliverUncharged, Persisted, TypeOK, Step
  <2> QED BY <1>3, <2>3, <2>4 DEF PersistFails
<1>4. CASE Record(d)
  <2>1. d \in debited /\ "release" \in Step
    BY <1>4 DEF Record, LedgerInv, Step
  <2>2. TypeOK'
    BY <1>4, <1>t, <2>1 DEF Record, TypeOK, Goto
  <2>3. FrozenRefundExact' /\ ReceiptMeansDebit' /\ realized' <= last' /\ last' <= Deposit
    BY <1>4, <2>1 DEF Record, LedgerInv, FrozenRefundExact, ReceiptMeansDebit
  <2>4. \A e \in Draws : pc'[e] = IF e = d THEN "release" ELSE pc[e]
    BY <1>4, <1>t DEF Record, TypeOK, Goto, Requests
  <2> QED BY <1>4, <2>2, <2>3, <2>4, <1>t DEF Record, LedgerInv, TypeOK, Persisted
<1>5. CASE CommitLands(d)
  <2>1. pc[d] \in Persisted
    BY <1>5, <1>t DEF CommitLands
  <2>2. /\ PersistVoucherAndAdvance(d)
        /\ UNCHANGED <<lock, pc, handlerVars, faults>> /\ committing' \subseteq committing
    BY <1>5 DEF CommitLands
  <2>3. pc'[d] = "record" => d \in debited'
    BY <2>2 DEF LedgerInv, PersistVoucherAndAdvance
  <2>4. /\ pc' \in [Requests -> Step]
        /\ outcome' \in [Draws -> {"none", "charged", "lock_lost", "not_applied", "db_error"}]
    BY <1>t, <2>2 DEF TypeOK
  <2> QED BY <1>t, <2>1, <2>2, <2>3, <2>4, PersistStep
<1>6. CASE \/ LoadAndVerify(d) \/ NonCharge(d) \/ RecheckLock(d) \/ RecheckFails(d)
           \/ Serve(d)
  <2>1. PICK l \in {"serve", "release", "recheck", "persist"} : Goto(d, l)
    BY <1>6 DEF LoadAndVerify, NonCharge, RecheckLock, RecheckFails, Serve, DeliverUncharged
  <2>2. pc[d] \notin Persisted /\ l \in Step /\ l \notin {"record", "close"}
    BY <1>6 DEF LoadAndVerify, NonCharge, RecheckLock, RecheckFails, Serve, Persisted, Step
  <2>3. /\ UNCHANGED <<dbVars, voucher, receipts, lock, committing>>
        /\ faults' \in 0 .. MaxFaults
    BY <1>6, <1>t DEF LoadAndVerify, NonCharge, RecheckLock, RecheckFails, Serve, Fault
  <2>4. outcome' \in [Draws -> {"none", "charged", "lock_lost", "not_applied", "db_error"}]
    BY <1>6, <1>t DEF LoadAndVerify, NonCharge, RecheckLock, RecheckFails, Serve,
                      DeliverUncharged, TypeOK
  <2>5. advance' \in [Draws -> Nat]
    <3>1. CASE Serve(d)
      BY <3>1, <1>t, ServeAdvances DEF TypeOK
    <3>2. CASE ~Serve(d)
      BY <1>6, <1>t, <3>2 DEF LoadAndVerify, NonCharge, RecheckLock, RecheckFails, TypeOK
    <3> QED BY <3>1, <3>2
  <2> QED BY <1>t, <2>1, <2>2, <2>3, <2>4, <2>5, HandlerStep DEF TypeOK
<1>7. CASE \/ RecordFails(d) \/ Release(d) \/ DetachedRelease(d) \/ AcquireAnswerLost(d)
           \/ ReleaseTimesOut(d) \/ InterruptDraw(d)
  <2>1. PICK l \in {"release", "done", "detached"} : Goto(d, l)
    BY <1>7 DEF RecordFails, Release, DetachedRelease, AcquireAnswerLost, ReleaseTimesOut,
                InterruptDraw, Released, Dropped
  <2>2. l \in Step /\ l \in Persisted /\ l \notin {"record", "close"}
    BY DEF Persisted, Step
  <2>3. UNCHANGED <<dbVars, voucher, receipts, advance>> /\ faults' \in 0 .. MaxFaults
    BY <1>7, <1>t DEF RecordFails, Release, DetachedRelease, AcquireAnswerLost,
                      ReleaseTimesOut, InterruptDraw, Fault
  <2>4. outcome' \in [Draws -> {"none", "charged", "lock_lost", "not_applied", "db_error"}]
    BY <1>7, <1>t DEF RecordFails, Release, DetachedRelease, AcquireAnswerLost,
                      ReleaseTimesOut, InterruptDraw, TypeOK
  <2>5. lock' \in Requests \cup {None}
    BY <1>7, <1>t DEF RecordFails, Release, DetachedRelease, AcquireAnswerLost,
       ReleaseTimesOut, InterruptDraw, ReleaseChannelDrawLock, AcquireChannelDrawLock
  <2>6. committing' \subseteq committing \cup {d}
    BY <1>7 DEF RecordFails, Release, DetachedRelease, AcquireAnswerLost,
                ReleaseTimesOut, InterruptDraw
  <2> QED BY <1>t, <2>1, <2>2, <2>3, <2>4, <2>5, <2>6, HandlerStep DEF TypeOK
<1> QED BY <1>1, <1>2, <1>3, <1>4, <1>5, <1>6, <1>7 DEF DrawStep, DrawFault

\* No step of a close, its faults included, breaks the ledger invariant: the
\* flip and the freeze of deposited - realized are one transaction.
LEMMA CloseKeepsLedger ==
    ASSUME LedgerInv, NEW c \in Closers, CloseStep(c) \/ CloseFault(c)
    PROVE  LedgerInv'
<1> USE LedgerConstants DEF dbVars, handlerVars
<1>t. /\ TypeOK /\ c \in Requests /\ c \notin Draws /\ faults \in 0 .. MaxFaults
      /\ lock \in Requests \cup {None}
  BY DEF LedgerInv, TypeOK, Requests
<1>1. CASE CloseChannelAndReserveRefund(c)
  <2>1. Deposit - realized \in Nat /\ Deposit - realized # None
    BY DEF LedgerInv, TypeOK
  <2>2. TypeOK'
    BY <1>1, <1>t, <2>1 DEF CloseChannelAndReserveRefund, ComputeRefundable, TypeOK, Goto, Step
  <2>3. FrozenRefundExact'
    BY <1>1, <1>t, <2>1 DEF CloseChannelAndReserveRefund, ComputeRefundable, TypeOK, LedgerInv,
                       FrozenRefundExact
  <2>4. \A d \in Draws : pc'[d] = pc[d]
    BY <1>1, <1>t DEF CloseChannelAndReserveRefund, TypeOK, Goto, Requests
  <2> QED BY <1>1, <1>t, <2>2, <2>3, <2>4
          DEF CloseChannelAndReserveRefund, LedgerInv, ReceiptMeansDebit, TypeOK
<1>2. CASE ~CloseChannelAndReserveRefund(c)
  <2>1. PICK l \in {"idle", "close", "release"} : Goto(c, l)
    BY <1>2, <1>t DEF CloseStep, CloseFault, AcquireForClose, Release, Released, CloseFails,
                      ReleaseTimesOut, InterruptClose, Dropped
  <2>2. /\ UNCHANGED <<dbVars, voucher, receipts, advance, outcome, committing>>
        /\ faults' \in 0 .. MaxFaults
    BY <1>2, <1>t DEF CloseStep, CloseFault, AcquireForClose, Release, CloseFails,
                      ReleaseTimesOut, InterruptClose, Fault
  <2>3. lock' \in Requests \cup {None}
    BY <1>2, <1>t DEF CloseStep, CloseFault, AcquireForClose, Release, CloseFails,
         ReleaseTimesOut, InterruptClose, ReleaseChannelDrawLock, AcquireChannelDrawLock
  <2>4. l \in Step
    BY DEF Step
  <2> QED BY <1>t, <2>1, <2>2, <2>3, <2>4, HandlerStep DEF TypeOK
<1> QED BY <1>1, <1>2

\* Every step keeps the ledger invariant, the refund worker's confirm and the
\* lock's expiry included.
LEMMA LedgerNext == LedgerInv /\ [Next]_vars => LedgerInv'
<1> SUFFICES ASSUME LedgerInv, [Next]_vars PROVE LedgerInv'
  OBVIOUS
<1>1. ASSUME NEW d \in Draws,
             AcquireForDraw(d) \/ DrawStep(d) \/ DrawFault(d) \/ CommitLands(d)
      PROVE  LedgerInv'
  BY <1>1, DrawKeepsLedger
<1>2. ASSUME NEW c \in Closers, CloseStep(c) \/ CloseFault(c)
      PROVE  LedgerInv'
  BY <1>2, CloseKeepsLedger
<1>3. CASE RefundConfirmed
  BY <1>3 DEF RefundConfirmed, LedgerInv, TypeOK, FrozenRefundExact, ReceiptMeansDebit,
              handlerVars
<1>4. CASE ExpireLock
  BY <1>4 DEF ExpireLock, LedgerInv, TypeOK, FrozenRefundExact, ReceiptMeansDebit,
              handlerVars, dbVars
<1>5. CASE UNCHANGED vars
  BY <1>5 DEF vars, LedgerInv, TypeOK, FrozenRefundExact, ReceiptMeansDebit
<1> QED BY <1>1, <1>2, <1>3, <1>4, <1>5 DEF Next

\* Whatever the draw lock does, the row and its reservation keep the ledger
\* invariant: persist_voucher_and_advance and close_channel_and_reserve_refund
\* guard themselves.
THEOREM LedgerSafe == Spec => []LedgerInv
  BY LedgerInit, LedgerNext, PTL DEF Spec

\* Every variable of the draw and close paths keeps its type; in particular
\* compute_refundable never underflows.
THEOREM LedgerTypes == Spec => []TypeOK
<1>1. LedgerInv => TypeOK
  BY DEF LedgerInv
<1> QED BY <1>1, LedgerSafe, PTL

\* Invariant 11: no draw in flight, on any instance and with any lost lock, can
\* invalidate the refund amount a close has frozen.
THEOREM RefundStaysExact == Spec => []FrozenRefundExact
<1>1. LedgerInv => FrozenRefundExact
  BY DEF LedgerInv
<1> QED BY <1>1, LedgerSafe, PTL

\* log_spend and record_receipt only ever report what the ledger debited.
THEOREM ReceiptsAreDebits == Spec => []ReceiptMeansDebit
<1>1. LedgerInv => ReceiptMeansDebit
  BY DEF LedgerInv
<1> QED BY <1>1, LedgerSafe, PTL

-----------------------------------------------------------------------------
(* The obligation is the sum of what the draws realized *)

\* The books with the sum in the terms of FiniteSums; the debited draws are finitely
\* many because each was persisted by a step.
BooksInv ==
    /\ LedgerInv
    /\ IsFiniteSet(debited)
    /\ realized = Total(advance, debited)
    /\ \A d, e \in debited : d # e => voucher[d] # voucher[e]

\* LedgerReconciles is the part of it that speaks of the row.
LEMMA BooksReconcile == BooksInv => LedgerReconciles
  BY DEF BooksInv, LedgerInv, LedgerReconciles, Total

\* An empty audit log adds up to nothing.
LEMMA BooksInit == Init => BooksInv
<1> SUFFICES ASSUME Init PROVE BooksInv
  OBVIOUS
<1>1. LedgerInv /\ IsFiniteSet(debited) /\ realized = Total(advance, debited)
  BY LedgerInit, FS_EmptySet, TotalEmpty DEF Init
<1> QED BY <1>1 DEF BooksInv, Init

\* A persist that applies (UNIQUE (channel_id, cumulative), last < cumulative) adds
\* a new draw and its realized cost; one that does not leaves the books alone.
LEMMA PersistBalances ==
    ASSUME BooksInv, LedgerInv', NEW d \in Draws, PersistVoucherAndAdvance(d),
           UNCHANGED <<voucher, advance>>
    PROVE  BooksInv'
<1>1. CASE AdvanceApplies(d)
  <2>1. /\ d \notin debited /\ debited' = debited \cup {d}
        /\ realized' = realized + advance[d]
    BY <1>1 DEF PersistVoucherAndAdvance, AdvanceApplies
  <2>2. \A e \in debited \cup {d} : advance[e] \in Int
    BY DEF BooksInv, LedgerInv, TypeOK
  <2>3. IsFiniteSet(debited') /\ Total(advance, debited \cup {d}) = Total(advance, debited) + advance[d]
    BY <2>1, <2>2, TotalAdd, FS_AddElement DEF BooksInv
  <2>4. realized' = Total(advance', debited')
    BY <2>1, <2>3 DEF BooksInv
  <2>5. \A x, e \in debited' : x # e => voucher'[x] # voucher'[e]
    BY <1>1, <2>1 DEF AdvanceApplies, BooksInv
  <2> QED BY <2>3, <2>4, <2>5 DEF BooksInv
<1>2. CASE ~AdvanceApplies(d)
  BY <1>2 DEF PersistVoucherAndAdvance, BooksInv, dbVars
<1> QED BY <1>1, <1>2

\* Every other step leaves the row's total and the debited draws alone: a draw that
\* takes a new voucher or a new cost has not been debited.
LEMMA OthersBalance ==
    ASSUME BooksInv, LedgerInv', UNCHANGED <<debited, realized>>,
           \A d \in debited : voucher'[d] = voucher[d] /\ advance'[d] = advance[d]
    PROVE  BooksInv'
<1>1. \A d \in debited : advance[d] \in Int /\ advance'[d] = advance[d]
  BY DEF BooksInv, LedgerInv, TypeOK
<1>2. Total(advance, debited) = Total(advance', debited)
  BY <1>1, TotalSame DEF BooksInv
<1> QED BY <1>2 DEF BooksInv

\* Every step keeps the books.
LEMMA BooksNext == BooksInv /\ [Next]_vars => BooksInv'
<1> SUFFICES ASSUME BooksInv, [Next]_vars PROVE BooksInv'
  OBVIOUS
<1>0. LedgerInv' /\ TypeOK /\ \A d \in debited : d \in Draws /\ pc[d] \in Persisted
  BY LedgerNext DEF BooksInv, LedgerInv, TypeOK
<1>1. ASSUME NEW d \in Draws, AcquireForDraw(d) \/ Serve(d) PROVE BooksInv'
  <2>1. d \notin debited /\ UNCHANGED <<debited, realized>>
    BY <1>0, <1>1 DEF AcquireForDraw, Serve, Persisted, dbVars
  <2>2. \A e \in Draws \ {d} : voucher'[e] = voucher[e] /\ advance'[e] = advance[e]
    BY <1>0, <1>1 DEF AcquireForDraw, Serve, TypeOK
  <2> QED BY <1>0, <2>1, <2>2, OthersBalance
<1>2. ASSUME NEW d \in Draws, Persist(d) \/ PersistFails(d) \/ CommitLands(d) PROVE BooksInv'
  <2>1. UNCHANGED <<voucher, advance>> /\ (PersistVoucherAndAdvance(d) \/ UNCHANGED dbVars)
    BY <1>2 DEF Persist, PersistFails, CommitLands, handlerVars
  <2> QED BY <1>0, <2>1, PersistBalances, OthersBalance DEF dbVars
<1>3. ASSUME NEW d \in Draws, DrawStep(d) \/ DrawFault(d),
             ~Serve(d), ~Persist(d), ~PersistFails(d)
      PROVE  BooksInv'
  <2>1. UNCHANGED <<debited, realized, voucher, advance>>
    BY <1>3 DEF DrawStep, DrawFault, LoadAndVerify, NonCharge, RecheckLock, Record, Release,
       DetachedRelease, AcquireAnswerLost, RecheckFails, RecordFails, ReleaseTimesOut,
       InterruptDraw, dbVars, handlerVars
  <2> QED BY <1>0, <2>1, OthersBalance
<1>4. ASSUME NEW c \in Closers, CloseStep(c) \/ CloseFault(c) PROVE BooksInv'
  <2>1. UNCHANGED <<debited, realized, voucher, advance>>
    BY <1>4 DEF CloseStep, CloseFault, AcquireForClose, Release, CloseFails, ReleaseTimesOut,
       InterruptClose, CloseChannelAndReserveRefund, dbVars, handlerVars
  <2> QED BY <1>0, <2>1, OthersBalance
<1>5. CASE RefundConfirmed \/ ExpireLock \/ UNCHANGED vars
  <2>1. UNCHANGED <<debited, realized, voucher, advance>>
    BY <1>5 DEF RefundConfirmed, ExpireLock, vars, dbVars, handlerVars
  <2> QED BY <1>0, <2>1, OthersBalance
<1> QED BY <1>1, <1>2, <1>3, <1>4, <1>5 DEF Next, DrawStep, DrawFault

\* The channel row reconciles with its audit log, for any number of draws and
\* whatever the lock does: realized_atomic is the sum of what the rows of
\* channel_vouchers realized, no cumulative is debited twice and none is above
\* last_voucher_cumulative_atomic.
THEOREM BooksBalance == Spec => []LedgerReconciles
  BY BooksInit, BooksNext, BooksReconcile, PTL DEF Spec

-----------------------------------------------------------------------------
(* The ledger implements the depositor's account *)

\* A fresh row is a fresh account.
LEMMA AccountInit == Init => Account!Init
  BY DEF Init, Account!Init

\* A persist is a Spend, a close is a Freeze, the refund worker's confirm is a
\* Settle, and every other step leaves the account alone.
LEMMA AccountStep == LedgerInv /\ LedgerInv' /\ [Next]_vars => [Account!Next]_(Account!vars)
<1> SUFFICES ASSUME LedgerInv, LedgerInv', [Next]_vars
             PROVE  Account!Next \/ UNCHANGED <<realized, refund, status = "closed">>
  BY DEF Account!vars
<1> USE LedgerConstants
<1>1. ASSUME NEW d \in Draws, PersistVoucherAndAdvance(d)
      PROVE  Account!Next \/ UNCHANGED <<realized, refund, status>>
  <2>1. CASE AdvanceApplies(d)
    <3>1. refund = None /\ UNCHANGED <<refund, status>>
      BY <1>1, <2>1 DEF AdvanceApplies, LedgerInv, FrozenRefundExact, PersistVoucherAndAdvance
    <3>2. realized' \in realized .. Deposit
      BY <1>1, <2>1 DEF AdvanceApplies, LedgerInv, TypeOK, PersistVoucherAndAdvance
    <3> QED BY <3>1, <3>2 DEF Account!Next, Account!Spend
  <2>2. CASE ~AdvanceApplies(d)
    BY <1>1, <2>2 DEF PersistVoucherAndAdvance, dbVars
  <2> QED BY <2>1, <2>2
<1>2. ASSUME NEW c \in Closers, CloseChannelAndReserveRefund(c)
      PROVE  Account!Next \/ UNCHANGED <<realized, refund, status = "closed">>
  <2>1. CASE refund = None
    <3>1. status = "open" /\ status' = "closing" /\ refund' = Deposit - realized
      BY <1>2, <2>1 DEF CloseChannelAndReserveRefund, ComputeRefundable, LedgerInv,
                        FrozenRefundExact
    <3> QED BY <1>2, <2>1, <3>1 DEF CloseChannelAndReserveRefund, Account!Next, Account!Freeze
  <2>2. CASE refund # None
    BY <1>2, <2>2 DEF CloseChannelAndReserveRefund, LedgerInv, FrozenRefundExact
  <2> QED BY <2>1, <2>2
<1>3. CASE RefundConfirmed
  BY <1>3 DEF RefundConfirmed, LedgerInv, FrozenRefundExact, Account!Next, Account!Settle
<1>4. ASSUME NEW d \in Draws,
             AcquireForDraw(d) \/ DrawStep(d) \/ DrawFault(d) \/ CommitLands(d)
      PROVE  PersistVoucherAndAdvance(d) \/ UNCHANGED <<realized, refund, status>>
  BY <1>4 DEF AcquireForDraw, DrawStep, DrawFault, CommitLands, LoadAndVerify, NonCharge, Serve,
     RecheckLock, Persist, Record, Release, DetachedRelease, AcquireAnswerLost, RecheckFails,
     PersistFails, RecordFails, ReleaseTimesOut, InterruptDraw, dbVars
<1>5. ASSUME NEW c \in Closers, CloseStep(c) \/ CloseFault(c)
      PROVE  CloseChannelAndReserveRefund(c) \/ UNCHANGED <<realized, refund, status>>
  BY <1>5 DEF CloseStep, CloseFault, AcquireForClose, Release, CloseFails, ReleaseTimesOut,
     InterruptClose, dbVars
<1>6. CASE ExpireLock \/ UNCHANGED vars
  BY <1>6 DEF ExpireLock, vars, dbVars
<1> QED BY <1>1, <1>2, <1>3, <1>4, <1>5, <1>6 DEF Next

\* What the gateway keeps is an account: it spends only while nothing is owed,
\* freezes deposit minus spent once, and settles once (channels.rs,
\* close_channel_and_reserve_refund).
THEOREM LedgerImplementsAccount == Spec => ImplementsAccount
  BY LedgerSafe, AccountInit, AccountStep, PTL DEF Spec, ImplementsAccount, Account!Spec


-----------------------------------------------------------------------------
(* What the lock adds while it outlives its holder *)

\* A fresh channel has no holder and no draw.
LEMMA LockInit == Init => LockInv
<1> SUFFICES ASSUME Init PROVE LockInv
  OBVIOUS
<1>1. \A p \in Requests : pc[p] = "idle"
  BY DEF Init
<1> QED BY <1>1, LedgerInit DEF Init, LockInv, SnapshotCurrent, NothingServedFree, Locked, Requests

\* The holder's own step: everybody else is outside the lock, so only its own
\* position, voucher and advance matter.
LEMMA HolderStep ==
    ASSUME LockInv, LedgerInv', NEW p \in Requests, lock = p \/ pc[p] \notin Locked,
           \A q \in Requests \ {p} : pc'[q] = pc[q],
           \A d \in Draws \ {p} : UNCHANGED <<voucher[d], advance[d], outcome[d]>>,
           pc[p] \in Locked \/ (lock = None \/ UNCHANGED <<status, last>>),
           (lock = p \/ lock = None) => lock' \in {p, None},
           lock # p /\ lock # None => lock' = lock /\ pc'[p] \notin Locked /\ UNCHANGED <<status, last>>,
           pc'[p] \in Locked => lock' = p,
           committing' = {},
           p \in Draws => SnapshotCurrent(p)' /\ outcome'[p] \notin {"lock_lost", "not_applied"}
    PROVE  LockInv'
<1>t. /\ \A q \in Requests : pc[q] \in Locked => lock = q
      /\ \A d \in Draws : SnapshotCurrent(d)
      /\ lock \in Requests \cup {None} /\ None \notin Requests
  BY LedgerConstants DEF LockInv, LedgerInv, TypeOK
<1>1. \A q \in Requests : pc'[q] \in Locked => lock' = q
  BY <1>t
<1>2. \A d \in Draws : SnapshotCurrent(d)'
  <2> SUFFICES ASSUME NEW d \in Draws, d # p PROVE SnapshotCurrent(d)'
    OBVIOUS
  <2>1. pc'[d] = pc[d] /\ voucher'[d] = voucher[d] /\ advance'[d] = advance[d] /\ d \in Requests
    BY DEF Requests
  <2>2. CASE pc[d] \in {"serve", "recheck", "persist"}
    <3>1. lock = d
      BY <1>t, <2>1, <2>2 DEF Locked
    <3>2. UNCHANGED <<status, last>>
      BY <1>t, <3>1, <2>1
    <3> QED BY <1>t, <2>1, <3>2 DEF SnapshotCurrent
  <2>3. CASE pc[d] \notin {"serve", "recheck", "persist"}
    BY <2>1, <2>3 DEF SnapshotCurrent
  <2> QED BY <2>2, <2>3
<1>3. NothingServedFree'
  BY DEF LockInv, NothingServedFree
<1> QED BY <1>1, <1>2, <1>3 DEF LockInv

\* Under the lock the UPDATE of persist_voucher_and_advance always applies: the
\* row is still the one the voucher was verified against.
LEMMA PersistApplies ==
    ASSUME LockInv, NEW d \in Draws, pc[d] = "persist"
    PROVE  AdvanceApplies(d)
<1>1. /\ status = "open" /\ voucher[d] = last + Quote[d] /\ voucher[d] <= Deposit
      /\ advance[d] <= Quote[d]
  BY DEF LockInv, SnapshotCurrent
<1>2. /\ last \in Nat /\ realized \in Nat /\ realized <= last
      /\ Quote[d] \in Nat \ {0} /\ advance[d] \in Nat
  BY LedgerConstants DEF LockInv, LedgerInv, TypeOK
<1>3. \A e \in debited : voucher[e] <= last /\ voucher[e] \in Nat
  BY DEF LockInv, LedgerInv, TypeOK
<1> QED BY <1>1, <1>2, <1>3 DEF AdvanceApplies

\* No step of a draw breaks the lock invariant.
LEMMA DrawKeepsLock ==
    ASSUME LockOutlivesDraw, ~CommitOutlivesHandler, LockInv, LedgerInv', NEW d \in Draws,
           AcquireForDraw(d) \/ DrawStep(d) \/ DrawFault(d)
    PROVE  LockInv'
<1> USE LedgerConstants DEF dbVars, handlerVars
<1>t. /\ d \in Requests /\ pc \in [Requests -> Step] /\ committing = {}
      /\ voucher \in [Draws -> Nat] /\ advance \in [Draws -> Nat]
      /\ outcome \in [Draws -> {"none", "charged", "lock_lost", "not_applied", "db_error"}]
      /\ outcome[d] \notin {"lock_lost", "not_applied"}
      /\ pc[d] \in Locked => lock = d
      /\ SnapshotCurrent(d) /\ None \notin Requests /\ Quote[d] \in Nat
      /\ lock \in Requests \cup {None}
  BY DEF LockInv, LedgerInv, TypeOK, Requests, NothingServedFree
<1>1. CASE AcquireForDraw(d)
  BY <1>1, <1>t, HolderStep DEF AcquireForDraw, AcquireChannelDrawLock, Goto, SnapshotCurrent,
     Locked
<1>2. CASE LoadAndVerify(d) \/ NonCharge(d)
  <2>1. /\ pc[d] \in {"load", "serve"} /\ pc'[d] \in {"serve", "release"}
        /\ pc'[d] = "serve" => status = "open" /\ VerifyVoucher(voucher[d], Quote[d])
        /\ \A q \in Requests \ {d} : pc'[q] = pc[q]
        /\ UNCHANGED <<dbVars, lock, handlerVars, committing>>
    BY <1>2, <1>t DEF LoadAndVerify, NonCharge, Goto
  <2>2. SnapshotCurrent(d)'
    BY <2>1, <1>t DEF SnapshotCurrent, VerifyVoucher, LockInv, LedgerInv, TypeOK
  <2> QED BY <2>1, <2>2, <1>t, HolderStep DEF Locked
<1>3. CASE Serve(d)
  <2>1. PICK a \in Nat : a <= Quote[d] /\ advance' = [advance EXCEPT ![d] = a]
    BY <1>3, ServeAdvances
  <2>2. advance'[d] <= Quote[d]
    BY <2>1, <1>t
  <2>3. /\ pc[d] = "serve" /\ pc'[d] = "recheck"
        /\ \A q \in Requests \ {d} : pc'[q] = pc[q]
        /\ \A e \in Draws \ {d} : advance'[e] = advance[e]
        /\ UNCHANGED <<dbVars, lock, voucher, outcome, committing>>
    BY <1>3, <2>1, <1>t DEF Serve, Goto
  <2>4. SnapshotCurrent(d)'
    BY <2>2, <2>3, <1>t DEF SnapshotCurrent
  <2> QED BY <2>3, <2>4, <1>t, HolderStep DEF Locked
<1>4. CASE RecheckLock(d) \/ RecheckFails(d)
  <2>1. /\ pc[d] = "recheck" /\ pc'[d] = "persist"
        /\ \A q \in Requests \ {d} : pc'[q] = pc[q]
        /\ UNCHANGED <<dbVars, lock, handlerVars, committing>>
    BY <1>4, <1>t DEF RecheckLock, RecheckFails, ChannelDrawLockHeld, Goto, Locked
  <2>2. SnapshotCurrent(d)'
    BY <2>1, <1>t DEF SnapshotCurrent
  <2> QED BY <2>1, <2>2, <1>t, HolderStep DEF Locked
<1>5. CASE Persist(d) \/ PersistFails(d)
  <2>1. /\ pc[d] = "persist" /\ pc'[d] \in {"record", "release"}
        /\ \A q \in Requests \ {d} : pc'[q] = pc[q]
        /\ UNCHANGED <<lock, voucher, advance, committing>>
    BY <1>5, <1>t, PersistApplies DEF Persist, PersistFails, DeliverUncharged, Goto
  <2>2. /\ outcome'[d] \notin {"lock_lost", "not_applied"}
        /\ \A e \in Draws \ {d} : outcome'[e] = outcome[e]
    BY <1>5, <1>t, PersistApplies DEF Persist, PersistFails, DeliverUncharged
  <2>3. SnapshotCurrent(d)'
    BY <2>1 DEF SnapshotCurrent
  <2> QED BY <2>1, <2>2, <2>3, <1>t, HolderStep DEF Locked
<1>6. CASE Record(d) \/ RecordFails(d)
  <2>1. /\ pc[d] = "record" /\ pc'[d] = "release"
        /\ \A q \in Requests \ {d} : pc'[q] = pc[q]
        /\ outcome'[d] = "charged"
        /\ \A e \in Draws \ {d} : outcome'[e] = outcome[e]
        /\ UNCHANGED <<dbVars, lock, voucher, advance, committing>>
    BY <1>6, <1>t DEF Record, RecordFails, Goto
  <2>2. SnapshotCurrent(d)'
    BY <2>1 DEF SnapshotCurrent
  <2> QED BY <2>1, <2>2, <1>t, HolderStep DEF Locked
<1>7. CASE \/ Release(d) \/ DetachedRelease(d) \/ AcquireAnswerLost(d)
           \/ ReleaseTimesOut(d) \/ InterruptDraw(d)
  <2>1. /\ pc'[d] \in {"done", "detached"}
        /\ \A q \in Requests \ {d} : pc'[q] = pc[q]
        /\ UNCHANGED <<dbVars, handlerVars, committing>>
    BY <1>7, <1>t DEF Release, DetachedRelease, AcquireAnswerLost, ReleaseTimesOut,
                      InterruptDraw, Goto, Released, Dropped
  <2>2. /\ (lock = d \/ lock = None) => lock' \in {d, None}
        /\ lock # d /\ lock # None => lock' = lock
    BY <1>7, <1>t DEF Release, DetachedRelease, AcquireAnswerLost, ReleaseTimesOut,
                      InterruptDraw, ReleaseChannelDrawLock, AcquireChannelDrawLock
  <2>3. SnapshotCurrent(d)'
    BY <2>1 DEF SnapshotCurrent
  <2> QED BY <2>1, <2>2, <2>3, <1>t, HolderStep DEF Locked
<1> QED BY <1>1, <1>2, <1>3, <1>4, <1>5, <1>6, <1>7 DEF DrawStep, DrawFault

\* No step of a close breaks the lock invariant: it flips the row only while it
\* holds the lock, so never under a draw that is being served.
LEMMA CloseKeepsLock ==
    ASSUME LockInv, LedgerInv', NEW c \in Closers, CloseStep(c) \/ CloseFault(c)
    PROVE  LockInv'
<1> USE LedgerConstants DEF dbVars, handlerVars
<1>t. /\ c \in Requests /\ c \notin Draws /\ pc \in [Requests -> Step] /\ committing = {}
      /\ pc[c] \in Locked => lock = c
      /\ None \notin Requests /\ lock \in Requests \cup {None}
  BY DEF LockInv, LedgerInv, TypeOK, Requests
<1>1. /\ \A q \in Requests \ {c} : pc'[q] = pc[q]
      /\ UNCHANGED <<handlerVars, committing>>
  BY <1>t DEF CloseStep, CloseFault, AcquireForClose, Release, CloseFails, ReleaseTimesOut,
              InterruptClose, Goto, CloseChannelAndReserveRefund
<1>2. /\ (lock = c \/ lock = None) => lock' \in {c, None}
      /\ lock # c /\ lock # None => lock' = lock /\ pc'[c] \notin Locked
      /\ pc'[c] \in Locked => lock' = c
      /\ lock # c => UNCHANGED <<status, last>>
  BY <1>t DEF CloseStep, CloseFault, AcquireForClose, Release, CloseFails, ReleaseTimesOut,
     InterruptClose, Goto, CloseChannelAndReserveRefund, Locked, Released, Dropped,
     AcquireChannelDrawLock, ReleaseChannelDrawLock
<1>3. pc[c] \in Locked \/ UNCHANGED <<status, last>>
  BY DEF CloseStep, CloseFault, AcquireForClose, Release, CloseFails, ReleaseTimesOut,
     InterruptClose, CloseChannelAndReserveRefund, Locked
<1> QED BY <1>1, <1>2, <1>3, <1>t, HolderStep

\* Every step keeps the lock invariant, if the TTL never expires under a running
\* handler and no COMMIT outlives its handler.
LEMMA LockNext ==
    ASSUME LockOutlivesDraw, ~CommitOutlivesHandler
    PROVE  LockInv /\ [Next]_vars => LockInv'
<1> SUFFICES ASSUME LockInv, [Next]_vars PROVE LockInv'
  OBVIOUS
<1>0. LedgerInv'
  BY LedgerNext DEF LockInv
<1>1. ASSUME NEW d \in Draws, AcquireForDraw(d) \/ DrawStep(d) \/ DrawFault(d)
      PROVE  LockInv'
  BY <1>0, <1>1, DrawKeepsLock
<1>2. ASSUME NEW c \in Closers, CloseStep(c) \/ CloseFault(c)
      PROVE  LockInv'
  BY <1>0, <1>2, CloseKeepsLock
<1>3. ASSUME NEW d \in Draws, CommitLands(d)
      PROVE  LockInv'
  BY <1>3 DEF CommitLands, LockInv
<1>4. CASE RefundConfirmed
  BY <1>0, <1>4 DEF RefundConfirmed, LockInv, SnapshotCurrent, NothingServedFree, handlerVars
<1>5. CASE ExpireLock
  BY <1>0, <1>5 DEF ExpireLock, LockInv, SnapshotCurrent, NothingServedFree, handlerVars, dbVars
<1>6. CASE UNCHANGED vars
  BY <1>0, <1>6 DEF vars, LockInv, SnapshotCurrent, NothingServedFree
<1> QED BY <1>1, <1>2, <1>3, <1>4, <1>5, <1>6 DEF Next

\* While the lock outlives its holder, the holder is alone and the row it verified
\* its voucher against does not move: the whole lock invariant, for any number of
\* draws and closes (ChannelDrawLockGuard, channel_draw_lock_held).
THEOREM LockProtects ==
    ASSUME LockOutlivesDraw, ~CommitOutlivesHandler
    PROVE  Spec => []LockInv
  BY LockInit, LockNext, PTL DEF Spec

\* The draw lock excludes: no two draws, and no draw and close, are ever under
\* it together, and no late release frees a successor's lock.
THEOREM LockExcludes ==
    ASSUME LockOutlivesDraw, ~CommitOutlivesHandler
    PROVE  Spec => []OneRequestAtATime
<1>1. LockInv => OneRequestAtATime
  BY DEF LockInv, OneRequestAtATime
<1> QED BY <1>1, LockInit, LockNext, PTL DEF Spec

\* Invariant 11's grief loop is closed: a served draw is charged unless the
\* database fails, whatever else runs on the channel.
THEOREM ServedIsCharged ==
    ASSUME LockOutlivesDraw, ~CommitOutlivesHandler
    PROVE  Spec => []NothingServedFree
<1>1. LockInv => NothingServedFree
  BY DEF LockInv
<1> QED BY <1>1, LockInit, LockNext, PTL DEF Spec

\* Under the lock the audit log adds up: a persisted voucher's call cost is by
\* how much persist_voucher_and_advance moved the channel's cumulative.
THEOREM CostsAddUp ==
    ASSUME LockOutlivesDraw, ~CommitOutlivesHandler
    PROVE  Spec => CostIsAdvance
<1> DEFINE Advances == \A d \in Draws : d \in debited' \ debited => last' - last = Quote[d]
<1>1. ASSUME LockInv, [Next]_vars
      PROVE  Advances
  <2> SUFFICES ASSUME NEW d \in Draws, d \in debited' \ debited
               PROVE  last' - last = Quote[d]
    OBVIOUS
  <2>1. pc[d] = "persist" /\ PersistVoucherAndAdvance(d)
    <3>1. ASSUME NEW e \in Draws,
                 AcquireForDraw(e) \/ DrawStep(e) \/ DrawFault(e) \/ CommitLands(e)
          PROVE  UNCHANGED debited \/ (pc[e] = "persist" /\ PersistVoucherAndAdvance(e))
      BY <1>1, <3>1 DEF AcquireForDraw, DrawStep, DrawFault, CommitLands, LoadAndVerify,
         NonCharge, Serve, RecheckLock, Persist, Record, Release, DetachedRelease,
         AcquireAnswerLost, RecheckFails, PersistFails, RecordFails, ReleaseTimesOut,
         InterruptDraw, LockInv, dbVars
    <3>2. ASSUME NEW c \in Closers, CloseStep(c) \/ CloseFault(c)
          PROVE  UNCHANGED debited
      BY <3>2 DEF CloseStep, CloseFault, AcquireForClose, Release, CloseFails,
         ReleaseTimesOut, InterruptClose, CloseChannelAndReserveRefund, dbVars
    <3>3. CASE RefundConfirmed \/ ExpireLock \/ UNCHANGED vars
      BY <3>3 DEF RefundConfirmed, ExpireLock, vars, dbVars
    <3>4. PICK e \in Draws : pc[e] = "persist" /\ PersistVoucherAndAdvance(e)
      BY <1>1, <3>1, <3>2, <3>3 DEF Next
    <3>5. e = d
      BY <3>4 DEF PersistVoucherAndAdvance, dbVars
    <3> QED BY <3>4, <3>5
  <2>2. voucher[d] = last + Quote[d] /\ last \in Nat /\ Quote[d] \in Nat
    BY <1>1, <2>1, LedgerConstants DEF LockInv, SnapshotCurrent, LedgerInv, TypeOK
  <2>3. last' = voucher[d]
    BY <1>1, <2>1, PersistApplies DEF PersistVoucherAndAdvance
  <2> QED BY <2>2, <2>3
<1>2. LockInv /\ [Next]_vars => [Advances]_vars
  BY <1>1
<1> HIDE DEF Advances
<1>3. Spec => [][Advances]_vars
  BY <1>2, LockInit, LockNext, PTL DEF Spec
<1> QED BY <1>3 DEF CostIsAdvance, Advances

=============================================================================
