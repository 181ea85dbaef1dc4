---------------------------- MODULE TasksProofs ----------------------------
(***************************************************************************)
(* A task is charged at most once, but for the transfers a request took for  *)
(* failed, for any number of tasks, of requests that pay or cancel them, of   *)
(* lapsing locks and of failed writes, provided a voucher is served within    *)
(* the lock's time.                                                           *)
(***************************************************************************)
EXTENDS PaymentsProofs

\* A request of a task is paid at its settlement, and then only reports it.
PaidStage(b) ==
    b \in paid => \/ stage[b] \in {"book", "finish", "finishSave", "done"}
                  \/ stage[b] = "serve" /\ Path[b] = "a2a"

\* One whose transfer was taken waits for it, has it confirmed or is cut off.
TakenStage(b) ==
    sent[b] = "taken" => \/ stage[b] \in {"confirm", "book", "finish", "finishSave", "done"}
                         \/ stage[b] = "serve" /\ Path[b] = "a2a"

\* The requests that have collected money or may still do, and know it.
Owner(b) == b \in paid \/ sent[b] = "taken"

\* Who holds the lock, what a request is about to overwrite, and what an owner
\* leaves open to the others.
TaskInv ==
    /\ GatewayInv
    /\ \A b \in TaskRequests : Brief(b) => lock[Task[b]] = b
    /\ \A b \in TaskRequests :
          stage[b] \in {"markSave", "cancelSave"} => task[Task[b]] = "InputRequired"
    /\ OneSettler
    /\ \A b \in TaskRequests : PaidStage(b) /\ TakenStage(b)
    /\ \A b \in TaskRequests :
          Owner(b) => task[Task[b]] \notin {"InputRequired", "Canceled"}
    /\ \A b, c \in TaskRequests :
          Owner(b) /\ (Settling(c) \/ Owner(c)) /\ Task[b] = Task[c] => b = c

-----------------------------------------------------------------------------
(* What a step does to locks and records                                    *)

\* A step that touches neither, and brings no request behind the lock.
CalmFor(c) ==
    /\ Brief(c)' => Brief(c)
    /\ Settling(c)' => Settling(c)
    /\ stage'[c] \in {"markSave", "cancelSave"} =>
          stage'[c] = stage[c] \/ task[Task[c]] = "InputRequired"

Calm == UNCHANGED taskVars /\ \A c \in TaskRequests : CalmFor(c)

Alone(b) == \A c \in TaskRequests : c # b => stage'[c] = stage[c]

Locks(b) ==
    /\ stage[b] = "lock" /\ stage'[b] \in {"recheck", "done"} /\ Alone(b)
    /\ lock[Task[b]] = Free /\ lock' = [lock EXCEPT ![Task[b]] = b]
    /\ UNCHANGED task

Unlocks(b) ==
    /\ stage[b] = "release" /\ stage'[b] = "done" /\ Alone(b)
    /\ lock' = [lock EXCEPT ![Task[b]] = Free]
    /\ UNCHANGED task

Saves(b, to) ==
    /\ task' = [task EXCEPT ![Task[b]] = to] /\ UNCHANGED lock /\ Alone(b)
    /\ \/ stage[b] = "markSave" /\ to = "Working" /\ stage'[b] \in {"verify", "guard", "release"}
       \/ stage[b] = "cancelSave" /\ to = "Canceled" /\ stage'[b] \in {"done", "release"}
       \/ stage[b] = "revertSave" /\ to = "InputRequired" /\ stage'[b] = "release"
       \/ stage[b] = "finishSave" /\ to \in {"Completed", "Failed"} /\ stage'[b] = "done"

\* A request that stands still or ends disturbs nothing.
LEMMA SameIsCalm ==
    ASSUME NEW c \in TaskRequests, stage'[c] = stage[c] \/ stage'[c] = "done"
    PROVE  CalmFor(c)
  BY DEF CalmFor, Brief, Settling

\* A purchase's own steps.
LEMMA BuysAreCalm ==
    ASSUME ServeWithinLock, GatewayInv, NEW b \in posted \cap Buys, BuyStep(b), UNCHANGED taskVars
    PROVE  Calm
<1>0. ReqTypes /\ SeenTypes /\ stage \in [Buys -> AllStages]
  BY DEF GatewayInv, ReqTypes, StageInv
<1>1. ASSUME NEW c \in TaskRequests, c # b PROVE CalmFor(c)
  <2>1. stage'[c] = stage[c]
    BY <1>0, <1>1, OwnStage DEF TaskRequests
  <2> QED BY <2>1, SameIsCalm
<1>2. ASSUME b \in TaskRequests PROVE CalmFor(b)
  <2>1. Path[b] \in TaskPaths /\ stage[b] \in StagesOf(Path[b])
    BY <1>0, <1>2 DEF TaskRequests, ReqTypes, StageInv
  <2>2. stage[b] \notin {"budget", "reserve", "return"}
    BY <2>1 DEF StagesOf, SettleFirst, TaskStages, TaskPaths
  <2>3. CASE stage'[b] = stage[b] \/ stage'[b] = "done"
    BY <1>2, <2>3, SameIsCalm
  <2>4. CASE stage[b] \in {"guard", "verify", "send", "confirm", "serve", "book"}
    <3>1. RequestMoves(b)
      BY <1>0, GuardMoves, SettlementMoves, BudgetMoves DEF BuyStep
    <3>2. \/ stage'[b] \in {stage[b], "done"}
          \/ stage'[b] = After(Path[b], stage[b])
          \/ stage'[b] = "revert" /\ ~(Path[b] = "a2a" /\ stage[b] = "serve")
      <4>1. Quiet(Path[b], stage[b], stage'[b]) =>
               \/ stage'[b] = "done"
               \/ stage'[b] = After(Path[b], stage[b])
               \/ stage'[b] = "revert" /\ ~(Path[b] = "a2a" /\ stage[b] = "serve")
        BY <2>1, <2>4 DEF Quiet, After, TaskPaths, SettleFirst, StagesOf
      <4>2. ~Persists(b)
        BY <2>4 DEF Persists
      <4> QED BY <3>1, <4>1, <4>2 DEF RequestMoves
    <3>3. CASE stage'[b] = After(Path[b], stage[b])
      BY <2>1, <2>4, <3>3 DEF CalmFor, Brief, Settling, After, TaskPaths, SettleFirst
    <3>4. CASE stage'[b] = "revert" /\ ~(Path[b] = "a2a" /\ stage[b] = "serve")
      <4>1. stage[b] # "book" /\ (stage[b] = "serve" => Path[b] = "voucher")
        <5>1. Path[b] = "cancel" => stage[b] # "serve"
          BY <2>1 DEF StagesOf, SettleFirst
        <5>2. After(Path[b], "book") # "revert" /\ ~Quiet(Path[b], "book", "revert")
          BY DEF After, Quiet
        <5> QED BY <2>1, <2>4, <3>1, <3>4, <5>1, <5>2 DEF TaskPaths, RequestMoves, Persists
      <4> QED BY <2>4, <3>4, <4>1 DEF CalmFor, Brief, Settling
    <3> QED BY <2>3, <3>2, <3>3, <3>4
  <2>5. \/ stage'[b] = stage[b] \/ stage'[b] = "done"
        \/ stage[b] \in {"guard", "verify", "send", "confirm", "serve", "book"}
    <3>1. CASE Disconnect(b) \/ Log(b) \/ LogLost(b)
      BY <1>0, <3>1 DEF Disconnect, Log, LogLost, Step
    <3>2. CASE ~(Disconnect(b) \/ Log(b) \/ LogLost(b))
      BY <2>2, <3>2 DEF BuyStep, Guard, GuardWithoutRedis, GuardAnswerLost, VerifyPayment,
         SendPayment, SendPaymentLost, PaymentConfirmed, PaymentUnconfirmed, Serve, ServeFails,
         Book, BookSkipped, StartBudget, Reserve, Deny, DenyOnError, GiveBack, GiveBackLost
    <3> QED BY <3>1, <3>2
  <2> QED BY <2>3, <2>4, <2>5
<1> QED BY <1>1, <1>2 DEF Calm

\* A task handler's.
LEMMA TaskDoes ==
    ASSUME ServeWithinLock, GatewayInv, NEW b \in TaskRequests, TaskStep(b)
    PROVE  Calm \/ Locks(b) \/ Unlocks(b) \/ \E to : Saves(b, to)
<1>0. /\ ReqTypes /\ SeenTypes /\ stage \in [Buys -> AllStages] /\ b \in Buys
      /\ Path[b] \in TaskPaths /\ stage[b] \in StagesOf(Path[b])
  BY DEF GatewayInv, ReqTypes, StageInv, TaskRequests
<1>1. Alone(b)
  BY <1>0, OwnStage DEF Alone, TaskRequests
<1>2. ASSUME CalmFor(b), UNCHANGED taskVars PROVE Calm
  BY <1>1, <1>2, SameIsCalm DEF Calm, Alone
<1>3. ASSUME NEW m, Step(b, m) PROVE stage'[b] = m
  BY <1>0, <1>3 DEF Step
<1>4. CASE Intake(b)
  <2>1. stage[b] = "intake" /\ stage'[b] \in {"lock", "done"} /\ UNCHANGED taskVars
    BY <1>3, <1>4 DEF Intake
  <2> QED BY <1>2, <2>1 DEF CalmFor, Brief, Settling
<1>5. CASE AcquireLock(b) \/ AcquireFails(b)
  <2>1. /\ stage[b] = "lock" /\ stage'[b] \in {"recheck", "done"} /\ UNCHANGED task
        /\ \/ stage'[b] = "done" /\ UNCHANGED lock
           \/ lock[Task[b]] = Free /\ lock' = [lock EXCEPT ![Task[b]] = b]
    BY <1>3, <1>5 DEF AcquireLock, AcquireFails, RedisError
  <2>2. CASE stage'[b] = "done" /\ UNCHANGED lock
    BY <1>2, <2>1, <2>2, SameIsCalm DEF taskVars
  <2> QED BY <1>1, <2>1, <2>2 DEF Locks
<1>6. CASE Recheck(b) \/ RecheckFails(b)
  <2>1. /\ stage[b] \in {"recheck", "mark", "cancel"} /\ stage'[b] \in {"release", "cancel", "mark"}
        /\ UNCHANGED taskVars
    BY <1>3, <1>6 DEF Recheck, RecheckFails, RedisError
  <2> QED BY <1>2, <2>1 DEF CalmFor, Brief, Settling
<1>7. CASE Mark(b) \/ Cancel(b)
  <2>1. /\ stage[b] \in {"mark", "cancel"} /\ stage'[b] \in {"release", "markSave", "cancelSave"}
        /\ stage'[b] # "release" => task[Task[b]] = "InputRequired"
        /\ UNCHANGED taskVars
    BY <1>3, <1>7 DEF Mark, Cancel, LoadFor, CanTransition
  <2> QED BY <1>2, <2>1 DEF CalmFor, Brief, Settling
<1>8. CASE Revert(b) \/ ReleaseFails(b)
  <2>1. /\ \/ stage[b] = "revert" /\ stage'[b] \in {"revertSave", "release"}
           \/ stage[b] = "release" /\ stage'[b] = "done"
        /\ UNCHANGED taskVars
    BY <1>3, <1>8 DEF Revert, ReleaseFails, LoadFor, RedisError
  <2> QED BY <1>2, <2>1 DEF CalmFor, Brief, Settling
<1>9. CASE PersistVoucher(b) \/ DeliverFree(b)
  <2>1. stage[b] = "persist" /\ stage'[b] \in {"book", "finish"} /\ UNCHANGED taskVars
    <3>1. PersistVoucher(b) => stage'[b] = "book" /\ stage[b] = "persist"
      BY <1>0, ProceedGoes DEF ReqTypes, PersistVoucher, After
    <3> QED BY <1>3, <1>9, <3>1 DEF PersistVoucher, DeliverFree
  <2> QED BY <1>2, <2>1 DEF CalmFor, Brief, Settling
<1>10. CASE Finish(b)
  <2>1. stage[b] = "finish" /\ stage'[b] \in {"finishSave", "done"} /\ UNCHANGED taskVars
    BY <1>3, <1>10 DEF Finish, LoadFor
  <2> QED BY <1>2, <2>1 DEF CalmFor, Brief, Settling
<1>11. CASE Release(b)
  BY <1>1, <1>3, <1>11 DEF Release, Unlocks
<1>12. CASE MarkSave(b) \/ MarkSaveFails(b)
  <2>1. /\ stage[b] = "markSave" /\ stage'[b] \in {"verify", "guard", "release"}
        /\ \/ UNCHANGED taskVars /\ stage'[b] = "release"
           \/ Save(b, "Working") /\ UNCHANGED lock
    BY <1>3, <1>12 DEF MarkSave, MarkSaveFails, RedisError, taskVars
  <2>2. CASE UNCHANGED taskVars /\ stage'[b] = "release"
    BY <1>2, <2>1, <2>2 DEF CalmFor, Brief, Settling
  <2> QED BY <1>1, <2>1, <2>2 DEF Saves, Save
<1>13. CASE CancelSave(b) \/ CancelSaveFails(b)
  <2>1. /\ stage[b] = "cancelSave" /\ stage'[b] \in {"done", "release"}
        /\ \/ UNCHANGED taskVars
           \/ Save(b, "Canceled") /\ UNCHANGED lock
    BY <1>3, <1>13 DEF CancelSave, CancelSaveFails, RedisError, taskVars
  <2>2. CASE UNCHANGED taskVars
    BY <1>2, <2>1, <2>2 DEF CalmFor, Brief, Settling
  <2> QED BY <1>1, <2>1, <2>2 DEF Saves, Save
<1>14. CASE RevertSave(b) \/ RevertFails(b)
  <2>1. /\ stage[b] \in {"revert", "revertSave"} /\ stage'[b] = "release"
        /\ \/ UNCHANGED taskVars
           \/ stage[b] = "revertSave" /\ Save(b, "InputRequired") /\ UNCHANGED lock
    BY <1>3, <1>14 DEF RevertSave, RevertFails, RedisError, taskVars
  <2>2. CASE UNCHANGED taskVars
    BY <1>2, <2>1, <2>2 DEF CalmFor, Brief, Settling
  <2> QED BY <1>1, <2>1, <2>2 DEF Saves, Save
<1>15. CASE FinishSave(b) \/ FinishFails(b)
  <2>1. /\ stage[b] \in {"finish", "finishSave"} /\ stage'[b] = "done"
        /\ \/ UNCHANGED taskVars
           \/ stage[b] = "finishSave" /\ Save(b, Outcome(b)) /\ UNCHANGED lock
    BY <1>3, <1>15 DEF FinishSave, FinishFails, RedisError, taskVars
  <2>2. CASE UNCHANGED taskVars
    BY <1>2, <2>1, <2>2, SameIsCalm
  <2>3. Outcome(b) \in {"Completed", "Failed"}
    BY DEF Outcome
  <2> QED BY <1>1, <2>1, <2>2, <2>3 DEF Saves, Save
<1> QED BY <1>4, <1>5, <1>6, <1>7, <1>8, <1>9, <1>10, <1>11, <1>12, <1>13, <1>14, <1>15 DEF TaskStep

\* Every step of the gateway.
LEMMA TaskMoves ==
    ASSUME ServeWithinLock, GatewayInv, [GatewayNext]_gatewayVars
    PROVE  \/ Calm
           \/ \E b \in TaskRequests : Locks(b) \/ Unlocks(b) \/ \E to : Saves(b, to)
           \/ \E t \in Tasks : NewRequest(t) \/ LockLapses(t) \/ TaskLapses(t)
<1>1. ASSUME UNCHANGED taskVars, \A c \in TaskRequests : stage'[c] \in {stage[c], "done"}
      PROVE  Calm
  BY <1>1, SameIsCalm DEF Calm
<1>2. ASSUME NEW i, Restart(i), UNCHANGED taskVars PROVE Calm
  BY <1>1, <1>2 DEF Restart, TaskRequests
<1>3. Tick /\ UNCHANGED taskVars => Calm
  BY <1>1 DEF Tick
<1>4. CASE Elsewhere
  <2>1. UNCHANGED stage
    BY <1>4, ElsewhereFrame
  <2>2. \/ UNCHANGED taskVars
        \/ \E t \in Tasks : NewRequest(t) \/ LockLapses(t) \/ TaskLapses(t)
    BY <1>4 DEF Elsewhere, taskSystem
  <2> QED BY <1>1, <2>1, <2>2
<1> QED BY <1>2, <1>3, <1>4, BuysAreCalm, TaskDoes, GatewayCases

-----------------------------------------------------------------------------
(* The invariant                                                            *)

\* A request's move keeps that, and pays it in two stages only.
LEMMA PaidStageKeeps ==
    ASSUME ReqTypes, NEW b \in TaskRequests, PaidStage(b), RequestMoves(b)
    PROVE  /\ PaidStage(b)'
           /\ b \in paid' /\ b \notin paid => stage[b] \in {"confirm", "persist"}
           /\ b \in paid => b \in paid'
<1>1. Path[b] \in TaskPaths /\ stage[b] \in StagesOf(Path[b])
  BY DEF ReqTypes, StageInv, TaskRequests
<1>2. stage[b] = "confirm" => Path[b] = "a2a"
  BY <1>1 DEF StagesOf, SettleFirst, TaskStages, TaskPaths
<1>3. CASE SameFlags(b) /\ stage'[b] = stage[b]
  BY <1>3 DEF PaidStage, SameFlags
<1>4. CASE SameFlags(b) /\ Quiet(Path[b], stage[b], stage'[b])
  BY <1>1, <1>4 DEF PaidStage, SameFlags, Quiet, After, TaskPaths
<1>5. CASE (Settles(b) \/ Persists(b) \/ Serves(b) \/ Books(b)) /\ stage'[b] = After(Path[b], stage[b])
  BY <1>1, <1>2, <1>5 DEF PaidStage, Settles, Persists, Serves, Books, After, TaskPaths, SettleFirst
<1>6. CASE (Admits(b) \/ Sends(b)) /\ stage'[b] = After(Path[b], stage[b])
  BY <1>1, <1>6 DEF PaidStage, Admits, Sends, SameFlags, After
<1>7. CASE Persists(b) /\ stage'[b] = "finish"
  BY <1>7 DEF PaidStage, Persists
<1> QED BY <1>3, <1>4, <1>5, <1>6, <1>7 DEF RequestMoves

\* A request whose transfer was taken leaves the poll with an error only when it
\* disowns the transfer.
LEMMA RevertDisowns ==
    ASSUME GatewayInv, [GatewayNext]_gatewayVars, NEW b \in TaskRequests,
           stage[b] = "confirm", stage'[b] = "revert"
    PROVE  sent'[b] = "disowned"
<1>0. /\ ReqTypes /\ SeenTypes /\ stage \in [Buys -> AllStages] /\ b \in Buys
      /\ sent \in [Buys -> Sendings]
  BY DEF GatewayInv, ReqTypes, StageInv, TaskRequests
<1>1. ~(\E i : Restart(i)) /\ ~Tick /\ ~Elsewhere
  BY <1>0, ElsewhereFrame DEF Restart, Tick
<1>2. PICK c \in Buys : BuyStep(c) \/ (c \in TaskRequests /\ TaskStep(c))
  BY <1>1, GatewayCases DEF TaskRequests
<1>3. c = b
  BY <1>0, <1>2, OwnStage
<1>4. ~TaskStep(b)
  BY DEF TaskStep, Intake, AcquireLock, AcquireFails, Recheck, RecheckFails, Mark, MarkSave,
     MarkSaveFails, Cancel, CancelSave, CancelSaveFails, Revert, RevertSave, RevertFails, Release,
     ReleaseFails, PersistVoucher, DeliverFree, Finish, FinishSave, FinishFails
<1>5. ~PaymentConfirmed(b)
  <2>1. After(Path[b], "confirm") # "revert"
    BY DEF After
  <2> QED BY <1>0, <2>1, ProceedGoes DEF ReqTypes, PaymentConfirmed
<1>6. ~Disconnect(b) /\ ~Log(b) /\ ~LogLost(b)
  BY <1>0 DEF Disconnect, Log, LogLost, Step
<1>7. PaymentUnconfirmed(b)
  BY <1>2, <1>3, <1>4, <1>5, <1>6 DEF BuyStep, Guard, GuardWithoutRedis, GuardAnswerLost,
     VerifyPayment, SendPayment, SendPaymentLost, Serve, ServeFails, Book, BookSkipped, StartBudget,
     Reserve, Deny, DenyOnError, GiveBack, GiveBackLost
<1> QED BY <1>0, <1>7 DEF PaymentUnconfirmed, Disown

\* So a request that knows its transfer as taken is where TakenStage says.
LEMMA TakenStageKeeps ==
    ASSUME GatewayInv, [GatewayNext]_gatewayVars, NEW b \in TaskRequests, TakenStage(b),
           sent'[b] = "taken"
    PROVE  TakenStage(b)' /\ (sent[b] = "taken" \/ stage[b] = "send")
<1>0. ReqTypes /\ sent \in [Buys -> Sendings] /\ b \in Buys /\ Path[b] \in TaskPaths
      /\ stage[b] \in StagesOf(Path[b])
  BY DEF GatewayInv, ReqTypes, StageInv, TaskRequests
<1>1. CASE sent[b] # "taken"
  <2>1. SendTaken(b)
    BY <1>0, <1>1, SentMoves DEF SendTaken, SendDisowned
  <2> QED BY <2>1 DEF SendTaken, TakenStage
<1>2. CASE sent[b] = "taken"
  <2>1. \/ stage[b] \in {"confirm", "book", "finish", "finishSave", "done"}
        \/ stage[b] = "serve" /\ Path[b] = "a2a"
    BY <1>2 DEF TakenStage
  <2>2. ~(stage[b] = "confirm" /\ stage'[b] = "revert")
    BY RevertDisowns
  <2>3. RequestMoves(b)
    BY <1>0, EveryMove
  <2>4. stage[b] = "confirm" => Path[b] = "a2a"
    BY <1>0 DEF StagesOf, SettleFirst, TaskStages, TaskPaths
  <2>5. \/ stage'[b] \in {"confirm", "book", "finish", "finishSave", "done"}
        \/ stage'[b] = "serve" /\ Path[b] = "a2a"
    <3>1. CASE stage'[b] = stage[b]
      BY <2>1, <3>1
    <3>2. CASE Quiet(Path[b], stage[b], stage'[b])
      BY <1>0, <2>1, <2>2, <3>2 DEF Quiet, After, TaskPaths
    <3>3. CASE stage[b] \in {"confirm", "serve", "book"} /\ stage'[b] = After(Path[b], stage[b])
      BY <1>0, <2>1, <2>4, <3>3 DEF After, TaskPaths, SettleFirst
    <3> QED BY <2>1, <2>3, <3>1, <3>2, <3>3 DEF RequestMoves, Admits, Sends, Settles, Persists,
               Serves, Books
  <2> QED BY <1>2, <2>5 DEF TakenStage
<1> QED BY <1>1, <1>2

\* At the start no request has got past its intake.
LEMMA TaskStart == GatewayInit => TaskInv
<1> SUFFICES ASSUME GatewayInit PROVE TaskInv
  OBVIOUS
<1>1. GatewayInv
  BY GatewayStart
<1>2. paid = {} /\ \A b \in TaskRequests : stage[b] = "intake" /\ sent[b] = "no"
  BY DEF GatewayInit, TaskInit, PayInit, TaskRequests, First
<1> QED BY <1>1, <1>2 DEF TaskInv, Brief, OneSettler, Settling, Owner, PaidStage, TakenStage

\* The parts that speak of one task's record and lock, as one step leaves them.
LEMMA TaskKeeps ==
    ASSUME ServeWithinLock, TaskInv, [GatewayNext]_gatewayVars
    PROVE  TaskInv'
<1>0. /\ GatewayInv /\ GatewayInv' /\ ReqTypes
      /\ task \in [Tasks -> TaskState \cup {"None"}] /\ lock \in [Tasks -> Buys \cup {Free}]
      /\ \A b \in TaskRequests : b \in Buys /\ Task[b] \in Tasks /\ b # Free
  BY GatewayStep, TaskConstants DEF TaskInv, GatewayInv, TaskTypes, TaskRequests
<1>i1. \A b \in TaskRequests : Brief(b) => lock[Task[b]] = b
  BY DEF TaskInv
<1>i2. \A b \in TaskRequests :
          stage[b] \in {"markSave", "cancelSave"} => task[Task[b]] = "InputRequired"
  BY DEF TaskInv
<1>i3. \A b, c \in TaskRequests :
          /\ Settling(b) => task[Task[b]] \in {"Working", "None"}
          /\ Settling(b) /\ Settling(c) /\ Task[b] = Task[c] => b = c
  BY DEF TaskInv, OneSettler
<1>i4. \A b \in TaskRequests : PaidStage(b) /\ TakenStage(b)
  BY DEF TaskInv
<1>i5. \A b \in TaskRequests : Owner(b) => task[Task[b]] \notin {"InputRequired", "Canceled"}
  BY DEF TaskInv
<1>i6. \A b, c \in TaskRequests :
          Owner(b) /\ (Settling(c) \/ Owner(c)) /\ Task[b] = Task[c] => b = c
  BY DEF TaskInv
<1>p. \A b \in TaskRequests :
         /\ PaidStage(b)' /\ TakenStage(b)'
         /\ Owner(b)' => Owner(b) \/ stage[b] \in {"send", "confirm", "persist"}
  <2> SUFFICES ASSUME NEW b \in TaskRequests
               PROVE  /\ PaidStage(b)' /\ TakenStage(b)'
                      /\ Owner(b)' => Owner(b) \/ stage[b] \in {"send", "confirm", "persist"}
    OBVIOUS
  <2>1. RequestMoves(b)
    BY <1>0, EveryMove
  <2>2. PaidStage(b)' /\ (b \in paid' => b \in paid \/ stage[b] \in {"confirm", "persist"})
    BY <1>0, <1>i4, <2>1, PaidStageKeeps
  <2>3. CASE sent'[b] = "taken"
    <3>1. TakenStage(b)' /\ (sent[b] = "taken" \/ stage[b] = "send")
      BY <1>0, <1>i4, <2>3, TakenStageKeeps
    <3> QED BY <2>2, <3>1 DEF Owner
  <2>4. CASE sent'[b] # "taken"
    BY <2>2, <2>4 DEF Owner, TakenStage
  <2> QED BY <2>3, <2>4
<1>n. \A b \in TaskRequests : Owner(b)' => Owner(b) \/ Settling(b)
  BY <1>p DEF Settling
<1>u. \A b, c \in TaskRequests :
         Owner(b)' /\ (Settling(c) \/ Owner(c)') /\ Task[b] = Task[c] => b = c
  BY <1>i3, <1>i6, <1>n
<1> DEFINE J1 == \A b \in TaskRequests : Brief(b)' => lock'[Task[b]] = b
           J2 == \A b \in TaskRequests :
                    stage'[b] \in {"markSave", "cancelSave"} => task'[Task[b]] = "InputRequired"
           J3 == \A b, c \in TaskRequests :
                    /\ Settling(b)' => task'[Task[b]] \in {"Working", "None"}
                    /\ Settling(b)' /\ Settling(c)' /\ Task[b] = Task[c] => b = c
           J5 == \A b \in TaskRequests :
                    Owner(b)' => task'[Task[b]] \notin {"InputRequired", "Canceled"}
           J6 == \A b, c \in TaskRequests :
                    Owner(b)' /\ (Settling(c)' \/ Owner(c)') /\ Task[b] = Task[c] => b = c
<1>1. ASSUME Calm PROVE J1 /\ J2 /\ J3 /\ J5 /\ J6
  <2>1. UNCHANGED <<task, lock>>
    BY <1>1 DEF Calm, taskVars
  <2>2. \A c \in TaskRequests : /\ Brief(c)' => Brief(c)
                                /\ Settling(c)' => Settling(c)
                                /\ stage'[c] \in {"markSave", "cancelSave"} =>
                                      stage'[c] = stage[c] \/ task[Task[c]] = "InputRequired"
    BY <1>1 DEF Calm, CalmFor
  <2>3. J1 /\ J2 /\ J3
    BY <1>i1, <1>i2, <1>i3, <2>1, <2>2
  <2>4. J5
    BY <1>i3, <1>i5, <1>n, <2>1
  <2>5. J6
    BY <1>u, <2>2
  <2> QED BY <2>3, <2>4, <2>5
<1>2. ASSUME NEW d \in TaskRequests, Locks(d) PROVE J1 /\ J2 /\ J3 /\ J5 /\ J6
  <2>1. \A c \in TaskRequests : /\ Brief(c)' => Brief(c) \/ c = d
                                /\ Settling(c)' => Settling(c)
                                /\ stage'[c] \in {"markSave", "cancelSave"} => stage'[c] = stage[c]
    BY <1>2 DEF Locks, Alone, Brief, Settling
  <2>2. lock[Task[d]] = Free /\ lock' = [lock EXCEPT ![Task[d]] = d] /\ UNCHANGED task
    BY <1>2 DEF Locks
  <2>3. J1
    BY <1>0, <1>i1, <2>1, <2>2
  <2>4. J2 /\ J3
    BY <1>i2, <1>i3, <2>1, <2>2
  <2>5. J5
    BY <1>i3, <1>i5, <1>n, <2>2
  <2>6. J6
    BY <1>u, <2>1
  <2> QED BY <2>3, <2>4, <2>5, <2>6
<1>3. ASSUME NEW d \in TaskRequests, Unlocks(d) PROVE J1 /\ J2 /\ J3 /\ J5 /\ J6
  <2>1. \A c \in TaskRequests : /\ Brief(c)' => Brief(c) /\ c # d
                                /\ Settling(c)' => Settling(c)
                                /\ stage'[c] \in {"markSave", "cancelSave"} => stage'[c] = stage[c]
    BY <1>3 DEF Unlocks, Alone, Brief, Settling
  <2>2. lock' = [lock EXCEPT ![Task[d]] = Free] /\ UNCHANGED task /\ lock[Task[d]] = d
    BY <1>3, <1>i1 DEF Unlocks, Brief
  <2>3. J1
    BY <1>0, <1>i1, <2>1, <2>2
  <2>4. J2 /\ J3
    BY <1>i2, <1>i3, <2>1, <2>2
  <2>5. J5
    BY <1>i3, <1>i5, <1>n, <2>2
  <2>6. J6
    BY <1>u, <2>1
  <2> QED BY <2>3, <2>4, <2>5, <2>6
<1>4. ASSUME NEW d \in TaskRequests, NEW to, Saves(d, to) PROVE J1 /\ J2 /\ J3 /\ J5 /\ J6
  <2>1. /\ task' = [task EXCEPT ![Task[d]] = to] /\ UNCHANGED lock
        /\ \A c \in TaskRequests : c # d => stage'[c] = stage[c]
        /\ task'[Task[d]] = to
        /\ \A c \in TaskRequests : Task[c] # Task[d] => task'[Task[c]] = task[Task[c]]
    BY <1>0, <1>4 DEF Saves, Alone
  <2>2. /\ stage'[d] \notin {"markSave", "cancelSave"}
        /\ Brief(d)' => Brief(d)
    BY <1>4 DEF Saves, Brief
  <2>3. \A c \in TaskRequests : c # d => /\ Brief(c)' <=> Brief(c)
                                         /\ Settling(c)' <=> Settling(c)
    BY <2>1 DEF Brief, Settling
  <2>4. J1
    BY <1>i1, <2>1, <2>2, <2>3
  <2>5. \A c \in TaskRequests : c # d /\ Task[c] = Task[d] => stage[c] \notin {"markSave", "cancelSave"}
    <3> SUFFICES ASSUME NEW c \in TaskRequests, c # d, Task[c] = Task[d],
                        stage[c] \in {"markSave", "cancelSave"}
                 PROVE  FALSE
      OBVIOUS
    <3>1. Brief(c) /\ task[Task[c]] = "InputRequired"
      BY <1>i2 DEF Brief
    <3>2. CASE stage[d] = "finishSave"
      BY <1>i3, <3>1, <3>2 DEF Settling
    <3>3. CASE stage[d] \in {"markSave", "cancelSave", "revertSave"}
      BY <1>i1, <3>1, <3>3 DEF Brief
    <3> QED BY <1>4, <3>2, <3>3 DEF Saves
  <2>6. J2
    BY <1>i2, <2>1, <2>2, <2>5
  <2>7. \A c \in TaskRequests : c # d /\ Task[c] = Task[d] => ~Settling(c)
    BY <1>4, <1>i2, <1>i3 DEF Saves, Settling
  <2>8. Settling(d)' => to = "Working" /\ stage[d] = "markSave"
    BY <1>4 DEF Saves, Settling
  <2>9. J3
    BY <1>i3, <2>1, <2>3, <2>7, <2>8
  <2>10. \A c \in TaskRequests :
            Owner(c)' /\ Task[c] = Task[d] => c = d /\ stage[d] = "finishSave"
    <3> SUFFICES ASSUME NEW c \in TaskRequests, Owner(c)', Task[c] = Task[d]
                 PROVE  c = d /\ stage[d] = "finishSave"
      OBVIOUS
    <3>1. CASE stage[d] \in {"markSave", "cancelSave"}
      BY <1>i2, <1>i3, <1>i5, <1>n, <3>1
    <3>2. CASE stage[d] \in {"revertSave", "finishSave"}
      <4>1. Settling(d)
        BY <3>2 DEF Settling
      <4>2. c = d
        BY <1>u, <4>1
      <4>3. Owner(d)
        BY <1>p, <3>2, <4>2
      <4>4. stage[d] # "revertSave"
        BY <1>i4, <4>3 DEF Owner, PaidStage, TakenStage
      <4> QED BY <3>2, <4>2, <4>4
    <3> QED BY <1>4, <3>1, <3>2 DEF Saves
  <2>11. J5
    <3> SUFFICES ASSUME NEW c \in TaskRequests, Owner(c)'
                 PROVE  task'[Task[c]] \notin {"InputRequired", "Canceled"}
      OBVIOUS
    <3>1. CASE Task[c] # Task[d]
      BY <1>i3, <1>i5, <1>n, <2>1, <3>1
    <3>2. CASE Task[c] = Task[d]
      BY <1>4, <2>1, <2>10, <3>2 DEF Saves
    <3> QED BY <3>1, <3>2
  <2>12. J6
    <3> SUFFICES ASSUME NEW b \in TaskRequests, NEW c \in TaskRequests, Owner(b)',
                        Settling(c)' \/ Owner(c)', Task[b] = Task[c]
                 PROVE  b = c
      OBVIOUS
    <3>1. CASE c # d
      BY <1>u, <2>3, <3>1
    <3>2. CASE c = d /\ Settling(d)'
      BY <2>8, <2>10, <3>2
    <3> QED BY <1>u, <3>1, <3>2
  <2> QED BY <2>4, <2>6, <2>9, <2>11, <2>12
<1>5. ASSUME NEW t \in Tasks, NewRequest(t) \/ LockLapses(t) \/ TaskLapses(t)
      PROVE  J1 /\ J2 /\ J3 /\ J5 /\ J6
  <2>1. UNCHANGED <<stage, paid, sent>>
    BY <1>5 DEF NewRequest, LockLapses, TaskLapses, payVars
  <2>2. \A c \in TaskRequests : /\ Brief(c)' <=> Brief(c)
                                /\ Settling(c)' <=> Settling(c)
                                /\ Owner(c)' <=> Owner(c)
    BY <2>1 DEF Brief, Settling, Owner
  <2>3. J6
    BY <1>i6, <2>1, <2>2
  <2>4. CASE NewRequest(t)
    <3>1. /\ \A b \in TaskRequests : Task[b] = t => stage[b] = "intake"
          /\ task' = [task EXCEPT ![t] = "InputRequired"] /\ UNCHANGED lock
      BY <2>4 DEF NewRequest
    <3>2. \A b \in TaskRequests : Task[b] # t => task'[Task[b]] = task[Task[b]]
      BY <1>0, <3>1
    <3>3. \A b \in TaskRequests : Task[b] = t => ~Settling(b) /\ ~Owner(b)
      BY <1>i4, <3>1 DEF Settling, Owner, PaidStage, TakenStage
    <3> QED BY <1>i1, <1>i2, <1>i3, <1>i5, <2>1, <2>2, <2>3, <3>1, <3>2, <3>3
  <2>5. CASE LockLapses(t)
    <3>1. ~Brief(lock[t]) /\ lock' = [lock EXCEPT ![t] = Free] /\ UNCHANGED task
      BY <2>5 DEF LockLapses
    <3>2. J1
      BY <1>0, <1>i1, <2>2, <3>1
    <3> QED BY <1>i2, <1>i3, <1>i5, <2>1, <2>2, <2>3, <3>1, <3>2
  <2>6. CASE TaskLapses(t)
    <3>1. /\ \A b \in TaskRequests :
                Task[b] = t => stage[b] \notin {"markSave", "cancelSave", "revertSave", "finishSave"}
          /\ task' = [task EXCEPT ![t] = "None"] /\ UNCHANGED lock
      BY <2>6 DEF TaskLapses
    <3>2. \A b \in TaskRequests : task'[Task[b]] = task[Task[b]] \/ (Task[b] = t /\ task'[Task[b]] = "None")
      BY <1>0, <3>1
    <3> QED BY <1>i1, <1>i2, <1>i3, <1>i5, <2>1, <2>2, <2>3, <3>1, <3>2
  <2> QED BY <1>5, <2>4, <2>5, <2>6
<1>6. J1 /\ J2 /\ J3 /\ J5 /\ J6
  <2> HIDE DEF J1, J2, J3, J5, J6
  <2> QED BY <1>0, <1>1, <1>2, <1>3, <1>4, <1>5, TaskMoves
<1>7. OneSettler'
  BY <1>6 DEF OneSettler
<1> QED BY <1>0, <1>p, <1>6, <1>7 DEF TaskInv

-----------------------------------------------------------------------------
(* The properties                                                           *)

\* The invariant, under the assumption the voucher path rests on.
LEMMA TaskAlways ==
    ASSUME ServeWithinLock
    PROVE  TaskInv /\ [GatewayNext]_gatewayVars => TaskInv'
  BY TaskKeeps

\* Between its marker and its outcome a task belongs to one request, and its record
\* says Working or has lapsed: no cancellation, second payer or failed write
\* changes it meanwhile.
THEOREM SettlesAlone == ASSUME ServeWithinLock PROVE GatewaySpec => []OneSettler
<1>1. TaskInv => OneSettler
  BY DEF TaskInv
<1> QED BY <1>1, TaskStart, TaskAlways, PTL DEF GatewaySpec, gatewayVars

\* Whoever collected money for a task and did not disown its transfer owns the task.
LEMMA CollectedOwns ==
    ASSUME TaskInv, NEW b \in TaskRequests, Collected(b), sent[b] # "disowned"
    PROVE  Owner(b)
<1>1. sent[b] \in Sendings
  BY DEF TaskInv, GatewayInv, TaskRequests
<1> QED BY <1>1 DEF Collected, Owner, Sendings

\* Of two requests that collect money for one task, one was told that its settlement
\* had failed and its transfer landed later; nothing else charges a task twice.
THEOREM ChargedOnce == ASSUME ServeWithinLock PROVE GatewaySpec => []TaskPaidOnce
<1>1. TaskInv => TaskPaidOnce
  BY CollectedOwns DEF TaskInv, TaskPaidOnce
<1> QED BY <1>1, TaskStart, TaskAlways, PTL DEF GatewaySpec, gatewayVars

\* A task for which money was collected is neither payable nor canceled afterwards,
\* unless it was by a transfer that its request had taken for failed.
THEOREM ChargedIsClosed == ASSUME ServeWithinLock PROVE GatewaySpec => []ChargedIsNotPayable
<1>1. TaskInv => ChargedIsNotPayable
  BY CollectedOwns DEF TaskInv, ChargedIsNotPayable
<1> QED BY <1>1, TaskStart, TaskAlways, PTL DEF GatewaySpec, gatewayVars

\* A task that completed, failed or was canceled stays so until its record lapses:
\* what is written over a record was decided while it said something else.
THEOREM TerminalStays == ASSUME ServeWithinLock PROVE GatewaySpec => TerminalIsFinal
<1> DEFINE Final == \A t \in Tasks : task[t] \in Terminal => task'[t] \in {task[t], "None"}
<1>1. ASSUME TaskInv, [GatewayNext]_gatewayVars PROVE [Final]_taskSystem
  <2> SUFFICES ASSUME NEW t \in Tasks, task[t] \in Terminal
               PROVE  task'[t] \in {task[t], "None"}
    OBVIOUS
  <2>0. /\ task \in [Tasks -> TaskState \cup {"None"}] /\ GatewayInv
        /\ \A b \in TaskRequests : Task[b] \in Tasks
    BY <1>1, TaskConstants DEF TaskInv, GatewayInv, TaskTypes
  <2>1. CASE Calm \/ \E b \in TaskRequests : Locks(b) \/ Unlocks(b)
    BY <2>1 DEF Calm, Locks, Unlocks, taskVars
  <2>2. ASSUME NEW b \in TaskRequests, NEW to, Saves(b, to)
        PROVE  task'[t] = task[t]
    <3>1. task[Task[b]] \in {"InputRequired", "Working", "None"}
      BY <1>1, <2>2 DEF TaskInv, OneSettler, Saves, Settling
    <3>2. Task[b] # t
      BY <3>1 DEF Terminal
    <3> QED BY <2>0, <2>2, <3>2 DEF Saves
  <2>3. ASSUME NEW u \in Tasks, NewRequest(u) \/ LockLapses(u) \/ TaskLapses(u)
        PROVE  task'[t] \in {task[t], "None"}
    BY <2>0, <2>3 DEF NewRequest, LockLapses, TaskLapses, Terminal
  <2> QED BY <1>1, <2>0, <2>1, <2>2, <2>3, TaskMoves
<1>2. GatewaySpec => [][Final]_taskSystem
  <2> HIDE DEF Final
  <2> QED BY <1>1, TaskStart, TaskAlways, PTL DEF GatewaySpec, gatewayVars
<1> QED BY <1>2 DEF TerminalIsFinal
=============================================================================
