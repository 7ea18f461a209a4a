------------------------------- MODULE Payouts -------------------------------
(***************************************************************************)
(* The payout service of the backend                                       *)
(* (BackEnd/src/modules/payouts/payouts.service.ts): payout rows in the    *)
(* database, the requests and background jobs that load a row, await, and  *)
(* save it, and the payments they make.                                    *)
(*                                                                         *)
(* The service is one Node process: code between two awaits runs alone, so *)
(* every action below is the code of one handler from one await to the     *)
(* next.  A running handler is a task with the copy of the row it loaded   *)
(* (the TypeORM entity); saving an entity writes every column that differs *)
(* from the stored row, so the copy replaces whatever other tasks have     *)
(* written since it was loaded.                                            *)
(***************************************************************************)
EXTENDS Naturals, FiniteSets

CONSTANTS
    Ids,         \* payout ids
    Tasks,       \* slots for handlers in flight (bounds the concurrency)
    NodeEnvs,    \* the values of NODE_ENV the service is started with
    MaxFaults    \* bound on failed database calls and restarts

ASSUME PayoutsAssumption ==
    /\ NodeEnvs \subseteq {"development", "production"}
    /\ MaxFaults \in Nat

VARIABLES
    rows,        \* the payouts table: id -> row
    tasks,       \* the handlers in flight
    nodeEnv,     \* the NODE_ENV of the running process
    payments,    \* payments made on the network, per payout
    faults       \* failed database calls and restarts so far

vars == <<rows, tasks, nodeEnv, payments, faults>>

PayoutStatus ==
    {"PENDING", "PROCESSING", "COMPLETED", "FAILED", "RETRY_SCHEDULED"}

(* "tx" is the transactionHash: the number of the payment, 0 for null;     *)
(* "claimed" says whether claimedAt is set.                                *)
Row == [status : PayoutStatus, retryCount : Nat, maxRetries : Nat,
        claimed : BOOLEAN, tx : Nat]

NewRow == [status |-> "PENDING", retryCount |-> 0, maxRetries |-> 3,
           claimed |-> FALSE, tx |-> 0]

(* What a task does next: save an accepted claim or retry as PROCESSING    *)
(* and go on with processPayout, load the row, pay, or save the outcome.   *)
Steps == {"saveClaim", "saveRetry", "load", "pay", "saveCompleted", "saveFailed"}

Idle == [step |-> "idle"]

Running(t) == tasks[t] # Idle

Task == {Idle} \cup [step : Steps, id : Ids, entity : Row]

Goto(t, s, id, entity) ==
    tasks' = [tasks EXCEPT ![t] = [step |-> s, id |-> id, entity |-> entity]]

Finish(t) == tasks' = [tasks EXCEPT ![t] = Idle]

-----------------------------------------------------------------------------
CreatePayout(id) ==
    /\ id \notin DOMAIN rows
    /\ rows' = [i \in DOMAIN rows \cup {id} |->
                  IF i = id THEN NewRow ELSE rows[i]]
    /\ UNCHANGED <<tasks, nodeEnv, payments, faults>>

IsClaimable(row) == row.status = "PENDING" /\ ~row.claimed

CanRetry(row) == row.status = "FAILED" /\ row.retryCount < row.maxRetries

(* claimPayout up to its save.                                             *)
ClaimPayout(t, id) ==
    /\ ~Running(t)
    /\ id \in DOMAIN rows
    /\ IsClaimable(rows[id])
    /\ Goto(t, "saveClaim", id,
            [rows[id] EXCEPT !.status = "PROCESSING", !.claimed = TRUE])
    /\ UNCHANGED <<rows, nodeEnv, payments, faults>>

(* Mutant: the manual retry goes on counting.                              *)
RetryKeepsCount(t, id) ==
    /\ ~Running(t)
    /\ id \in DOMAIN rows
    /\ rows[id].status = "FAILED"
    /\ Goto(t, "saveRetry", id, [rows[id] EXCEPT !.status = "PROCESSING"])
    /\ UNCHANGED <<rows, nodeEnv, payments, faults>>

(* retryPayout up to its save.                                             *)
RetryPayout(t, id) ==
    /\ ~Running(t)
    /\ id \in DOMAIN rows
    /\ rows[id].status = "FAILED"
    /\ Goto(t, "saveRetry", id,
            [rows[id] EXCEPT !.status = "PROCESSING", !.retryCount = 0,
                             !.maxRetries = 3])
    /\ UNCHANGED <<rows, nodeEnv, payments, faults>>

(* processScheduledRetries takes up the rows whose retry is due (a row may *)
(* be due as soon as it is scheduled); without any it returns.             *)
DueRetries == {id \in DOMAIN rows : rows[id].status = "RETRY_SCHEDULED"}

ProcessScheduledRetries(t) ==
    IF DueRetries = {}
      THEN UNCHANGED vars
      ELSE /\ ~Running(t)
           /\ \E id \in DueRetries :
                Goto(t, "saveRetry", id,
                     [rows[id] EXCEPT !.status = "PROCESSING"])
           /\ UNCHANGED <<rows, nodeEnv, payments, faults>>

(* Mutant: the row is saved but not processed.                             *)
StartForgets(t) ==
    /\ Running(t) /\ tasks[t].step \in {"saveClaim", "saveRetry"}
    /\ rows' = [rows EXCEPT ![tasks[t].id] = tasks[t].entity]
    /\ IF tasks[t].step = "saveClaim"
         THEN Goto(t, "load", tasks[t].id, tasks[t].entity)
         ELSE Finish(t)
    /\ UNCHANGED <<nodeEnv, payments, faults>>

(* The save of claimPayout, retryPayout or the cron job, which then calls  *)
(* processPayout without awaiting it.                                      *)
StartProcessing(t) ==
    /\ Running(t) /\ tasks[t].step \in {"saveClaim", "saveRetry"}
    /\ rows' = [rows EXCEPT ![tasks[t].id] = tasks[t].entity]
    /\ Goto(t, "load", tasks[t].id, tasks[t].entity)
    /\ UNCHANGED <<nodeEnv, payments, faults>>

-----------------------------------------------------------------------------
(* processPayout.                                                          *)

(* A payout that is not being processed any more is skipped.               *)
LoadPayout(t) ==
    /\ Running(t) /\ tasks[t].step = "load"
    /\ LET id == tasks[t].id
       IN  IF rows[id].status = "PROCESSING"
             THEN Goto(t, "pay", id, rows[id])
             ELSE Finish(t)
    /\ UNCHANGED <<rows, nodeEnv, payments, faults>>

(* Mutants: the failed payout keeps its status, or loses its hash.         *)
FailureKeepsStatus(entity) == [entity EXCEPT !.retryCount = @ + 1]

FailureLosesHash(entity) ==
    [entity EXCEPT !.retryCount = @ + 1, !.status = "FAILED", !.tx = 0]

(* handlePayoutFailure up to its save.  canRetry looks at the status the   *)
(* entity still has.                                                       *)
AfterFailure(entity) ==
    LET e == [entity EXCEPT !.retryCount = @ + 1]
    IN  [e EXCEPT !.status = IF CanRetry(e) THEN "RETRY_SCHEDULED" ELSE "FAILED"]

(* Mutant: the hash of the transaction is not kept.                        *)
ExecutePaymentLosesHash(t) ==
    /\ Running(t) /\ tasks[t].step = "pay" /\ nodeEnv # "production"
    /\ LET id == tasks[t].id
       IN  /\ payments' = [payments EXCEPT ![id] = @ + 1]
           /\ Goto(t, "saveCompleted", id,
                   [tasks[t].entity EXCEPT !.status = "COMPLETED"])
    /\ UNCHANGED <<rows, nodeEnv, faults>>

(* executeStellarPayment pays outside production and throws in production. *)
ExecutePayment(t) ==
    /\ Running(t) /\ tasks[t].step = "pay" /\ nodeEnv # "production"
    /\ LET id == tasks[t].id
       IN  /\ payments' = [payments EXCEPT ![id] = @ + 1]
           /\ Goto(t, "saveCompleted", id,
                   [tasks[t].entity EXCEPT !.status = "COMPLETED",
                                           !.tx = payments'[id]])
    /\ UNCHANGED <<rows, nodeEnv, faults>>

PaymentThrows(t) ==
    /\ Running(t) /\ tasks[t].step = "pay" /\ nodeEnv = "production"
    /\ Goto(t, "saveFailed", tasks[t].id, AfterFailure(tasks[t].entity))
    /\ UNCHANGED <<rows, nodeEnv, payments, faults>>

SaveOutcome(t) ==
    /\ Running(t) /\ tasks[t].step \in {"saveCompleted", "saveFailed"}
    /\ rows' = [rows EXCEPT ![tasks[t].id] = tasks[t].entity]
    /\ Finish(t)
    /\ UNCHANGED <<nodeEnv, payments, faults>>

-----------------------------------------------------------------------------
(* Faults.                                                                 *)

(* A database call of the task fails.  The save of a completed payout is   *)
(* inside the try block, so its failure is handled like a failed payment;  *)
(* any other failure ends the task.                                        *)
DatabaseError(t) ==
    /\ faults < MaxFaults
    /\ Running(t) /\ tasks[t].step # "pay"
    /\ IF tasks[t].step = "saveCompleted"
         THEN Goto(t, "saveFailed", tasks[t].id, AfterFailure(tasks[t].entity))
         ELSE Finish(t)
    /\ faults' = faults + 1
    /\ UNCHANGED <<rows, nodeEnv, payments>>

(* The process ends and is started again; nothing looks for payouts that   *)
(* were being processed.                                                   *)
Restart ==
    /\ faults < MaxFaults
    /\ tasks' = [t \in Tasks |-> Idle]
    /\ nodeEnv' \in NodeEnvs
    /\ faults' = faults + 1
    /\ UNCHANGED <<rows, payments>>

-----------------------------------------------------------------------------
Init ==
    /\ rows = [i \in {} |-> NewRow]
    /\ tasks = [t \in Tasks |-> Idle]
    /\ nodeEnv \in NodeEnvs
    /\ payments = [i \in Ids |-> 0]
    /\ faults = 0

(* What the event loop does on its own once a handler runs.                *)
TaskStep(t) ==
    \/ StartProcessing(t)
    \/ LoadPayout(t)
    \/ ExecutePayment(t)
    \/ PaymentThrows(t)
    \/ SaveOutcome(t)

Next ==
    \/ \E id \in Ids : CreatePayout(id)
    \/ \E t \in Tasks, id \in Ids : ClaimPayout(t, id) \/ RetryPayout(t, id)
    \/ \E t \in Tasks :
         \/ ProcessScheduledRetries(t)
         \/ TaskStep(t)
         \/ DatabaseError(t)
    \/ Restart

Spec == Init /\ [][Next]_vars

(* Every promise that settles is continued.                                *)
FairSpec == Spec /\ \A t \in Tasks : WF_vars(TaskStep(t))

-----------------------------------------------------------------------------
(* Rows, tasks and payments have their types, tasks and payments belong to *)
(* payouts that exist, and no payout fails more than maxRetries times      *)
(* between two manual retries.                                             *)
PayoutsTypeOK ==
    /\ DOMAIN rows \subseteq Ids
    /\ rows \in [DOMAIN rows -> Row]
    /\ tasks \in [Tasks -> Task]
    /\ \A t \in Tasks : Running(t) => tasks[t].id \in DOMAIN rows
    /\ nodeEnv \in NodeEnvs
    /\ payments \in [Ids -> Nat]
    /\ \A id \in Ids \ DOMAIN rows : payments[id] = 0
    /\ \A id \in DOMAIN rows : rows[id].retryCount <= rows[id].maxRetries
    /\ faults \in 0..MaxFaults

(* A completed payout names a payment that was made for it, however many   *)
(* tasks wrote its row (payouts.service.ts:117-123).                       *)
CompletedIsPaid ==
    \A id \in DOMAIN rows :
        rows[id].status = "COMPLETED" => rows[id].tx \in 1..payments[id]

(* A payout nobody claimed is pending and unpaid.                          *)
UnclaimedIsUnpaid ==
    \A id \in DOMAIN rows :
        ~rows[id].claimed => rows[id].status = "PENDING" /\ payments[id] = 0

(* A payout that is marked as failed although it was paid still carries    *)
(* the hash of a payment, so whoever retries it can see that it was paid:  *)
(* the save that failed comes after transactionHash was assigned, and the  *)
(* failure path saves the same entity (payouts.service.ts:117-139).        *)
FailedIsTraceable ==
    \A id \in DOMAIN rows :
        rows[id].status = "FAILED" /\ payments[id] > 0 => rows[id].tx > 0

(* Until a database call fails or the process restarts, every payout that  *)
(* is marked as being processed has a task that will finish it, although   *)
(* tasks skip payouts others have finished.                                *)
ProcessingIsAttended ==
    faults = 0 =>
        \A id \in DOMAIN rows : rows[id].status = "PROCESSING" =>
            \E t \in Tasks : /\ Running(t)
                             /\ tasks[t].id = id
                             /\ tasks[t].step \notin {"saveClaim", "saveRetry"}

(* A payout that is being processed when no task knows it any more stays   *)
(* so for ever: neither claim nor retry nor the cron job takes it up, and  *)
(* nothing writes its row.                                                 *)
Orphaned(id) ==
    /\ id \in DOMAIN rows
    /\ rows[id].status = "PROCESSING"
    /\ \A t \in Tasks : Running(t) => tasks[t].id # id

OrphansStay ==
    [][\A id \in Ids : Orphaned(id) => Orphaned(id)' /\ rows'[id] = rows[id]]_vars

HasStatus(id, S) == id \in DOMAIN rows /\ rows[id].status \in S

(* Every payout that is being processed is completed or fails, unless a    *)
(* database call fails or the process restarts.                            *)
ProcessingEnds ==
    \A id \in Ids :
        HasStatus(id, {"PROCESSING"}) ~>
            HasStatus(id, {"COMPLETED", "FAILED"}) \/ faults > 0

=============================================================================
