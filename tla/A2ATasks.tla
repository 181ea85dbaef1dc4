----------------------------- MODULE A2ATasks -----------------------------
(***************************************************************************)
(* The agent-to-agent surface (crates/gateway/src/a2a): message/send makes a *)
(* task that asks for payment; a second message/send pays it by a transfer  *)
(* or by a channel voucher; tasks/cancel withdraws it.  A task is a Redis   *)
(* record that is read and written separately, behind a per-task lock that  *)
(* lapses after 120 seconds and is released by whoever deletes the key.     *)
(***************************************************************************)
EXTENDS ExactPayments

CONSTANTS
    Tasks,
    Task,             \* Task[b]: the task a request of TaskPaths names
    Free,             \* no holder
    ServeWithinLock   \* a voucher's serve ends within the lock's 120 seconds

TaskRequests == {b \in Buys : Path[b] \in TaskPaths}

ASSUME TaskConstants ==
    /\ Task \in [TaskRequests -> Tasks]
    /\ Free \notin Buys
    /\ ServeWithinLock \in BOOLEAN

VARIABLES
    task,   \* task[t]: the record's TaskState; "None" when there is no record
    lock    \* lock[t]: the request whose SET NX took the settle lock

taskVars == <<task, lock>>

TaskState == {"InputRequired", "Working", "Completed", "Failed", "Canceled"}
Terminal == {"Completed", "Failed", "Canceled"}

TaskTypeOK ==
    /\ PayTypeOK
    /\ task \in [Tasks -> TaskState \cup {"None"}]
    /\ lock \in [Tasks -> Buys \cup {Free}]

TaskInit ==
    /\ PayInit
    /\ task = [t \in Tasks |-> "None"]
    /\ lock = [t \in Tasks |-> Free]

CanTransition(from, to) ==
    \/ from = "InputRequired" /\ to \in {"Working", "Canceled"}
    \/ from = "Working" /\ to \in {"InputRequired", "Completed", "Failed"}

payRest == <<vars, posted, now, seen, store, sent, paid, served, booked, budgetVars>>

\* The first half of update_task_state: load the record and check the
\* transition.  The save is a second round trip.
LoadFor(b, to, ok, refused) ==
    /\ Step(b, IF CanTransition(task[Task[b]], to) THEN ok ELSE refused)
    /\ UNCHANGED <<payRest, taskVars>>

Save(b, to) == task' = [task EXCEPT ![Task[b]] = to]

\* Any of the Redis calls fails, executed or not.
RedisError(b, next) ==
    /\ Fault
    /\ Step(b, next)
    /\ UNCHANGED <<chain, channels, pc, posted, now, seen, store, sent, paid, served, booked,
                   budgetVars>>

-----------------------------------------------------------------------------
(* The handlers up to the settlement *)

\* handle_new_request: quote, and save the record.
NewRequest(t) ==
    /\ task[t] = "None" /\ lock[t] = Free
    /\ \A b \in TaskRequests : Task[b] = t => stage[b] = "intake"
    /\ task' = [task EXCEPT ![t] = "InputRequired"]
    /\ UNCHANGED <<vars, payVars, lock>>

\* handle_payment_submitted and handle_tasks_cancel: the early check.
Intake(b) ==
    /\ stage[b] = "intake"
    /\ Step(b, IF task[Task[b]] = "InputRequired" THEN "lock" ELSE "done")
    /\ UNCHANGED <<payRest, taskVars>>

\* Mutant: SET without NX.
AcquireLockAlways(b) ==
    /\ stage[b] = "lock"
    /\ lock' = [lock EXCEPT ![Task[b]] = b]
    /\ Step(b, "recheck")
    /\ UNCHANGED <<payRest, task>>

\* acquire_settle_lock: SET NX EX 120; a lock that is held rejects the request.
AcquireLock(b) ==
    LET t == Task[b] IN
    /\ stage[b] = "lock"
    /\ IF lock[t] = Free
       THEN lock' = [lock EXCEPT ![t] = b] /\ Step(b, "recheck")
       ELSE UNCHANGED lock /\ Step(b, "done")
    /\ UNCHANGED <<payRest, task>>

\* An error fails closed; the SET may have been executed.
AcquireFails(b) ==
    LET t == Task[b] IN
    /\ stage[b] = "lock" /\ RedisError(b, "done")
    /\ \/ UNCHANGED lock
       \/ lock[t] = Free /\ lock' = [lock EXCEPT ![t] = b]
    /\ UNCHANGED task

\* Mutant: the decision rests on the state read at intake.
RecheckSkipped(b) ==
    /\ stage[b] = "recheck"
    /\ Step(b, IF Path[b] = "cancel" THEN "cancelSave" ELSE "markSave")
    /\ UNCHANGED <<payRest, taskVars>>

\* The state is read again under the lock.
Recheck(b) ==
    /\ stage[b] = "recheck"
    /\ Step(b, IF task[Task[b]] # "InputRequired" THEN "release"
               ELSE IF Path[b] = "cancel" THEN "cancel" ELSE "mark")
    /\ UNCHANGED <<payRest, taskVars>>

RecheckFails(b) ==
    /\ stage[b] \in {"recheck", "mark", "cancel"} /\ RedisError(b, "release")
    /\ UNCHANGED taskVars

\* The Working marker, before any money moves.
Mark(b) == stage[b] = "mark" /\ LoadFor(b, "Working", "markSave", "release")

MarkSave(b) ==
    /\ stage[b] = "markSave"
    /\ Save(b, "Working")
    /\ Step(b, IF Path[b] = "voucher" THEN "verify" ELSE "guard")
    /\ UNCHANGED <<payRest, lock>>

\* The save fails, or is executed and its answer lost: rejected, not reverted.
MarkSaveFails(b) ==
    /\ stage[b] = "markSave" /\ RedisError(b, "release")
    /\ Save(b, "Working") \/ UNCHANGED task
    /\ UNCHANGED lock

\* cancel_under_lock: Canceled is written and the lock kept.
Cancel(b) == stage[b] = "cancel" /\ LoadFor(b, "Canceled", "cancelSave", "release")

CancelSave(b) ==
    /\ stage[b] = "cancelSave"
    /\ Save(b, "Canceled")
    /\ Step(b, "done")
    /\ UNCHANGED <<payRest, lock>>

CancelSaveFails(b) ==
    /\ stage[b] = "cancelSave" /\ RedisError(b, "release")
    /\ Save(b, "Canceled") \/ UNCHANGED task
    /\ UNCHANGED lock

-----------------------------------------------------------------------------
(* After the settlement *)

\* revert_working_and_release: the task is payable again ...
Revert(b) ==
    stage[b] = "revert" /\ LoadFor(b, "InputRequired", "revertSave", "release")

RevertSave(b) ==
    /\ stage[b] = "revertSave"
    /\ Save(b, "InputRequired")
    /\ Step(b, "release")
    /\ UNCHANGED <<payRest, lock>>

\* (a revert that fails leaves the task Working; the lock is released anyway)
RevertFails(b) ==
    /\ stage[b] \in {"revert", "revertSave"} /\ RedisError(b, "release")
    /\ \/ UNCHANGED task
       \/ stage[b] = "revertSave" /\ Save(b, "InputRequired")
    /\ UNCHANGED lock

\* ... and the key is deleted, whoever has set it.
Release(b) ==
    /\ stage[b] = "release"
    /\ lock' = [lock EXCEPT ![Task[b]] = Free]
    /\ Step(b, "done")
    /\ UNCHANGED <<payRest, task>>

\* A DEL that fails leaves the key to its TTL.
ReleaseFails(b) ==
    /\ stage[b] = "release" /\ RedisError(b, "done")
    /\ UNCHANGED taskVars

\* persist_voucher_and_advance debits the channel ...
PersistVoucher(b) ==
    /\ stage[b] = "persist"
    /\ paid' = paid \cup {b}
    /\ Proceed(b)
    /\ UNCHANGED <<vars, posted, now, seen, store, sent, served, booked, budgetVars, taskVars>>

\* ... or the draw lock was lost, the close won or the statement failed (perhaps
\* after its commit): complete_deliver_free, without a charge on the books.
DeliverFree(b) ==
    /\ stage[b] = "persist"
    /\ \/ UNCHANGED <<paid, faults>>
       \/ Fault /\ paid' = paid \cup {b}
    /\ Step(b, "finish")
    /\ UNCHANGED <<chain, channels, pc, posted, now, seen, store, sent, served, booked, budgetVars, taskVars>>

\* Completed, or Failed when no provider answered after the settlement.
Outcome(b) == IF b \in served THEN "Completed" ELSE "Failed"

Finish(b) ==
    stage[b] = "finish" /\ LoadFor(b, Outcome(b), "finishSave", "done")

\* With the references persist_terminal_refs adds; the lock stays.
FinishSave(b) ==
    /\ stage[b] = "finishSave"
    /\ Save(b, Outcome(b))
    /\ Step(b, "done")
    /\ UNCHANGED <<payRest, lock>>

FinishFails(b) ==
    /\ stage[b] \in {"finish", "finishSave"} /\ RedisError(b, "done")
    /\ \/ UNCHANGED task
       \/ stage[b] = "finishSave" /\ Save(b, Outcome(b))
    /\ UNCHANGED lock

-----------------------------------------------------------------------------
(* Time *)

\* What a holder does within the lock's TTL: round trips to Redis and a transfer's
\* verification, send and 30-second poll with 10-second RPC calls; a provider call
\* has no such bound.
Brief(b) ==
    \/ stage[b] \in {"recheck", "mark", "markSave", "guard", "verify", "send",
                     "confirm", "revert", "revertSave", "release", "cancel",
                     "cancelSave"}
    \/ ServeWithinLock /\ Path[b] = "voucher" /\ stage[b] = "serve"

LockLapses(t) ==
    /\ lock[t] # Free /\ ~Brief(lock[t])
    /\ lock' = [lock EXCEPT ![t] = Free]
    /\ UNCHANGED <<vars, payVars, task>>

\* TASK_TTL, renewed by every save: not between a load and its save, and not
\* while a voucher is served (540 s, validated at start, against 600 s).
TaskLapses(t) ==
    /\ task[t] # "None"
    /\ \A b \in TaskRequests :
           Task[b] = t =>
               /\ stage[b] \notin {"markSave", "cancelSave", "revertSave", "finishSave"}
               /\ Path[b] = "voucher" => stage[b] # "serve"
    /\ task' = [task EXCEPT ![t] = "None"]
    /\ UNCHANGED <<vars, payVars, lock>>

-----------------------------------------------------------------------------

TaskStep(b) ==
    \/ Intake(b) \/ AcquireLock(b) \/ AcquireFails(b) \/ Recheck(b) \/ RecheckFails(b)
    \/ Mark(b) \/ MarkSave(b) \/ MarkSaveFails(b)
    \/ Cancel(b) \/ CancelSave(b) \/ CancelSaveFails(b)
    \/ Revert(b) \/ RevertSave(b) \/ RevertFails(b) \/ Release(b) \/ ReleaseFails(b)
    \/ PersistVoucher(b) \/ DeliverFree(b)
    \/ Finish(b) \/ FinishSave(b) \/ FinishFails(b)

TaskNext ==
    \/ \E b \in posted \cap TaskRequests : TaskStep(b)
    \/ \E t \in {Task[b] : b \in posted \cap TaskRequests} :
           NewRequest(t) \/ LockLapses(t) \/ TaskLapses(t)
    \/ PayNext /\ UNCHANGED taskVars

taskSystem == <<vars, payVars, taskVars>>

TaskSpec == TaskInit /\ [][TaskNext]_taskSystem

-----------------------------------------------------------------------------
(* Properties *)

\* The payer's money is gone for this request: its voucher is debited, or its
\* transfer was taken and landed, whatever the request was told.
Collected(b) == b \in paid \/ (sent[b] # "no" /\ chain[Pays[b]] = "landed")

\* A task is charged once: of two requests that pay it and collect money, one was
\* told that its settlement had failed, and its transfer landed later.  Nothing
\* else does it: not the locks that lapse while a provider is called, the
\* writes that fail, the cancellations that race them or the restarts.
TaskPaidOnce ==
    \A b, c \in TaskRequests :
        b # c /\ Task[b] = Task[c] /\ Collected(b) /\ Collected(c)
            => "disowned" \in {sent[b], sent[c]}

\* A task is neither payable nor canceled once money was collected for it, unless
\* by a transfer that the request had taken for failed.
ChargedIsNotPayable ==
    \A b \in TaskRequests :
        Collected(b) /\ sent[b] # "disowned" =>
            task[Task[b]] \notin {"InputRequired", "Canceled"}

\* While a request may move money its task is marked Working, and no other
\* request of the task is past its own marker.
Settling(b) ==
    stage[b] \in {"guard", "verify", "send", "confirm", "serve", "persist", "book",
                  "finish", "finishSave", "revert", "revertSave"}

OneSettler ==
    \A b, c \in TaskRequests :
        /\ Settling(b) => task[Task[b]] \in {"Working", "None"}
        /\ Settling(b) /\ Settling(c) /\ Task[b] = Task[c] => b = c

\* A task that completed, failed or was canceled stays so until it lapses.
TerminalIsFinal ==
    [][\A t \in Tasks : task[t] \in Terminal => task'[t] \in {task[t], "None"}]_taskSystem

=============================================================================
