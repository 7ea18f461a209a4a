---------------------------- MODULE PayoutsProofs ----------------------------
(***************************************************************************)
(* Proofs about Payouts for any number of payouts, handlers in flight and  *)
(* faults.  The inductive invariant says what the entity of a handler can  *)
(* be at each of its steps, and what a restart into the other environment  *)
(* can leave behind.                                                       *)
(***************************************************************************)
EXTENDS Payouts, TLAPS

Saving == {"saveClaim", "saveRetry"}

(* What rows and entities look like, given the payments made so far: they  *)
(* fail at most once between two manual retries, so no retry is scheduled. *)
Sound(r, paid) ==
    /\ r \in Row
    /\ r.maxRetries = 3
    /\ r.tx <= paid
    /\ r.status # "RETRY_SCHEDULED"
    /\ r.retryCount = (IF r.status = "FAILED" THEN 1 ELSE 0)
    /\ r.claimed <=> r.status # "PENDING"
    /\ r.status = "COMPLETED" => r.tx > 0

EntityStatus(step) ==
    CASE step = "saveCompleted" -> "COMPLETED"
      [] step = "saveFailed" -> "FAILED"
      [] OTHER -> "PROCESSING"

RowsSound ==
    \A id \in DOMAIN rows :
        /\ Sound(rows[id], payments[id])
        /\ ~rows[id].claimed => payments[id] = 0

TasksSound ==
    \A t \in Tasks : Running(t) =>
        /\ tasks[t].id \in DOMAIN rows
        /\ Sound(tasks[t].entity, payments[tasks[t].id])
        /\ tasks[t].entity.status = EntityStatus(tasks[t].step)
        /\ tasks[t].step \notin Saving => rows[tasks[t].id].claimed

(* In production nobody pays, and whoever works on a paid payout has seen  *)
(* its hash.                                                               *)
ProductionTraces ==
    nodeEnv = "production" =>
        \A t \in Tasks : Running(t) /\ payments[tasks[t].id] > 0 =>
            /\ tasks[t].entity.tx > 0
            /\ tasks[t].step \notin Saving => rows[tasks[t].id].tx > 0

(* Elsewhere every outcome follows a payment, and while a row is failed    *)
(* without a hash nobody is about to pay it.                               *)
DevelopmentTraces ==
    nodeEnv # "production" =>
        \A t \in Tasks : Running(t) =>
            /\ tasks[t].step \in {"saveCompleted", "saveFailed"} =>
                   tasks[t].entity.tx > 0
            /\ rows[tasks[t].id].status = "FAILED" /\ rows[tasks[t].id].tx = 0 =>
                   tasks[t].step \in Saving

PayoutsInv ==
    /\ PayoutsTypeOK
    /\ RowsSound
    /\ TasksSound
    /\ ProductionTraces
    /\ DevelopmentTraces
    /\ FailedIsTraceable
    /\ ProcessingIsAttended

-----------------------------------------------------------------------------
(* Tasks.                                                                  *)

(* A task in flight has a step, a payout and an entity.                    *)
LEMMA RunningFacts ==
  ASSUME tasks \in [Tasks -> Task], NEW t \in Tasks, Running(t)
  PROVE  tasks[t].step \in Steps /\ tasks[t].id \in Ids /\ tasks[t].entity \in Row
  BY DEF Task, Running

(* Goto changes one task and keeps it running.                             *)
LEMMA GotoFacts ==
  ASSUME tasks \in [Tasks -> Task], NEW t \in Tasks, NEW s \in Steps,
         NEW id \in Ids, NEW e \in Row, Goto(t, s, id, e)
  PROVE  /\ tasks' \in [Tasks -> Task]
         /\ Running(t)'
         /\ tasks'[t].step = s /\ tasks'[t].id = id /\ tasks'[t].entity = e
         /\ \A x \in Tasks : x # t => tasks'[x] = tasks[x]
  <1> DEFINE r == [step |-> s, id |-> id, entity |-> e]
  <1>1. r \in Task /\ r # Idle
    <2>1. r.step # "idle"
      BY DEF Steps
    <2> QED
      BY <2>1 DEF Task, Idle
  <1>2. tasks' = [tasks EXCEPT ![t] = r]
    BY DEF Goto
  <1>3. r.step = s /\ r.id = id /\ r.entity = e
    OBVIOUS
  <1> HIDE DEF r
  <1> QED
    BY <1>1, <1>2, <1>3 DEF Running

LEMMA FinishFacts ==
  ASSUME tasks \in [Tasks -> Task], NEW t \in Tasks, Finish(t)
  PROVE  /\ tasks' \in [Tasks -> Task]
         /\ ~Running(t)'
         /\ \A x \in Tasks : x # t => tasks'[x] = tasks[x]
  BY DEF Finish, Task, Running

(* What was sound stays sound when another payment is made.                *)
LEMMA SoundGrows ==
  ASSUME NEW r, NEW paid \in Nat, NEW more \in Nat, paid <= more, Sound(r, paid)
  PROVE  Sound(r, more)
  BY DEF Sound, Row

(* A failure is final: the entity is PROCESSING or COMPLETED when canRetry *)
(* is asked.                                                               *)
LEMMA AfterFailureFacts ==
  ASSUME NEW e, NEW paid \in Nat, Sound(e, paid),
         e.status \in {"PROCESSING", "COMPLETED"}
  PROVE  /\ Sound(AfterFailure(e), paid)
         /\ AfterFailure(e).status = "FAILED"
         /\ AfterFailure(e).tx = e.tx
  <1> DEFINE f == [e EXCEPT !.retryCount = e.retryCount + 1]
             g == [f EXCEPT !.status = "FAILED"]
  <1>1. e \in Row /\ e.retryCount = 0 /\ e.maxRetries = 3 /\ e.claimed
        /\ e.tx <= paid
    BY DEF Sound
  <1>2. /\ f \in Row /\ f.status = e.status /\ f.retryCount = 1
        /\ f.maxRetries = 3 /\ f.claimed /\ f.tx = e.tx
    BY <1>1 DEF Row
  <1>3. AfterFailure(e) = [f EXCEPT !.status = IF CanRetry(f) THEN "RETRY_SCHEDULED"
                                                             ELSE "FAILED"]
    BY DEF AfterFailure
  <1> HIDE DEF f
  <1>4. ~CanRetry(f)
    BY <1>2 DEF CanRetry
  <1>5. AfterFailure(e) = g
    BY <1>3, <1>4
  <1>6. /\ g \in Row /\ g.status = "FAILED" /\ g.retryCount = 1
        /\ g.maxRetries = 3 /\ g.claimed /\ g.tx = e.tx
    BY <1>2 DEF Row, PayoutStatus
  <1> HIDE DEF g
  <1> QED
    BY <1>1, <1>5, <1>6 DEF Sound

-----------------------------------------------------------------------------
(* Steps that write no row.                                                *)

(* A task is started or goes on, with an entity that fits its next step.   *)
LEMMA TaskGoesOn ==
  ASSUME PayoutsInv, NEW t \in Tasks, NEW id \in DOMAIN rows, NEW s \in Steps,
         NEW e, Sound(e, payments[id]), e.status = EntityStatus(s),
         s \notin Saving => rows[id].claimed,
         nodeEnv = "production" /\ payments[id] > 0 =>
            e.tx > 0 /\ (s \notin Saving => rows[id].tx > 0),
         nodeEnv # "production" =>
            /\ s \in {"saveCompleted", "saveFailed"} => e.tx > 0
            /\ rows[id].status = "FAILED" /\ rows[id].tx = 0 => s \in Saving,
         Running(t) => tasks[t].id = id /\ s \notin Saving,
         Goto(t, s, id, e), UNCHANGED <<rows, nodeEnv, payments>>,
         faults' \in {faults, faults + 1} \cap (0..MaxFaults)
  PROVE  PayoutsInv'
  <1>1. /\ PayoutsTypeOK /\ RowsSound /\ TasksSound /\ ProductionTraces
        /\ DevelopmentTraces /\ FailedIsTraceable /\ ProcessingIsAttended
    BY DEF PayoutsInv
  <1>2. /\ tasks \in [Tasks -> Task] /\ id \in Ids /\ e \in Row
        /\ payments \in [Ids -> Nat] /\ faults \in Nat
    BY <1>1, PayoutsAssumption DEF PayoutsTypeOK, Sound
  <1>3. /\ tasks' \in [Tasks -> Task]
        /\ Running(t)'
        /\ tasks'[t].step = s /\ tasks'[t].id = id /\ tasks'[t].entity = e
        /\ \A x \in Tasks : x # t => tasks'[x] = tasks[x]
    BY <1>2, GotoFacts
  <1>4. \A x \in Tasks : x # t => (Running(x)' <=> Running(x))
    BY <1>3 DEF Running
  <1>5. PayoutsTypeOK'
    <2>1. \A x \in Tasks : Running(x)' => tasks'[x].id \in DOMAIN rows
      BY <1>1, <1>3, <1>4 DEF PayoutsTypeOK
    <2> QED
      BY <1>1, <1>3, <2>1 DEF PayoutsTypeOK
  <1>6. RowsSound'
    BY <1>1 DEF RowsSound, Sound
  <1>7. TasksSound'
    BY <1>1, <1>3, <1>4 DEF TasksSound, Sound, EntityStatus
  <1>8. ProductionTraces'
    BY <1>1, <1>3, <1>4 DEF ProductionTraces
  <1>9. DevelopmentTraces'
    BY <1>1, <1>3, <1>4 DEF DevelopmentTraces
  <1>10. FailedIsTraceable'
    BY <1>1 DEF FailedIsTraceable
  <1>11. ProcessingIsAttended'
    <2> SUFFICES ASSUME faults' = 0, NEW p \in DOMAIN rows,
                        rows[p].status = "PROCESSING"
                 PROVE  \E x \in Tasks : /\ Running(x)' /\ tasks'[x].id = p
                                         /\ tasks'[x].step \notin Saving
      BY DEF ProcessingIsAttended, Saving
    <2>1. PICK x \in Tasks : /\ Running(x) /\ tasks[x].id = p
                             /\ tasks[x].step \notin Saving
      BY <1>1, <1>2 DEF ProcessingIsAttended, Saving
    <2> QED
      BY <1>3, <1>4, <2>1
  <1> QED
    BY <1>5, <1>6, <1>7, <1>8, <1>9, <1>10, <1>11 DEF PayoutsInv

(* A task ends without having written; if no database call failed, its     *)
(* payout is not being processed any more.                                 *)
LEMMA TaskEnds ==
  ASSUME PayoutsInv, NEW t \in Tasks, Running(t), Finish(t),
         UNCHANGED <<rows, nodeEnv, payments>>,
         faults' \in {faults, faults + 1} \cap (0..MaxFaults),
         faults' = faults => rows[tasks[t].id].status # "PROCESSING"
  PROVE  PayoutsInv'
  <1>1. /\ PayoutsTypeOK /\ RowsSound /\ TasksSound /\ ProductionTraces
        /\ DevelopmentTraces /\ FailedIsTraceable /\ ProcessingIsAttended
    BY DEF PayoutsInv
  <1>2. tasks \in [Tasks -> Task] /\ faults \in Nat
    BY <1>1, PayoutsAssumption DEF PayoutsTypeOK
  <1>3. /\ tasks' \in [Tasks -> Task]
        /\ ~Running(t)'
        /\ \A x \in Tasks : x # t => tasks'[x] = tasks[x]
    BY <1>2, FinishFacts
  <1>4. \A x \in Tasks : x # t => (Running(x)' <=> Running(x))
    BY <1>3 DEF Running
  <1>5. PayoutsTypeOK'
    <2>1. \A x \in Tasks : Running(x)' => tasks'[x].id \in DOMAIN rows
      BY <1>1, <1>3, <1>4 DEF PayoutsTypeOK
    <2> QED
      BY <1>1, <1>3, <2>1 DEF PayoutsTypeOK
  <1>6. RowsSound'
    BY <1>1 DEF RowsSound, Sound
  <1>7. TasksSound'
    BY <1>1, <1>3, <1>4 DEF TasksSound, Sound, EntityStatus
  <1>8. ProductionTraces' /\ DevelopmentTraces'
    BY <1>1, <1>3, <1>4 DEF ProductionTraces, DevelopmentTraces
  <1>9. FailedIsTraceable'
    BY <1>1 DEF FailedIsTraceable
  <1>10. ProcessingIsAttended'
    <2> SUFFICES ASSUME faults' = 0, NEW p \in DOMAIN rows,
                        rows[p].status = "PROCESSING"
                 PROVE  \E x \in Tasks : /\ Running(x)' /\ tasks'[x].id = p
                                         /\ tasks'[x].step \notin Saving
      BY DEF ProcessingIsAttended, Saving
    <2>1. PICK x \in Tasks : /\ Running(x) /\ tasks[x].id = p
                             /\ tasks[x].step \notin Saving
      BY <1>1, <1>2 DEF ProcessingIsAttended, Saving
    <2> QED
      BY <1>2, <1>3, <1>4, <2>1
  <1> QED
    BY <1>5, <1>6, <1>7, <1>8, <1>9, <1>10 DEF PayoutsInv

-----------------------------------------------------------------------------
(* Steps that write a row or pay.                                          *)

(* A task saves its entity and goes on to process the payout, or ends.     *)
LEMMA RowSaved ==
  ASSUME PayoutsInv, NEW t \in Tasks, Running(t),
         rows' = [rows EXCEPT ![tasks[t].id] = tasks[t].entity],
         \/ /\ tasks[t].step \in Saving
            /\ Goto(t, "load", tasks[t].id, tasks[t].entity)
         \/ /\ tasks[t].step \in {"saveCompleted", "saveFailed"}
            /\ Finish(t),
         UNCHANGED <<nodeEnv, payments, faults>>
  PROVE  PayoutsInv'
  <1> DEFINE id == tasks[t].id
             e == tasks[t].entity
  <1>1. /\ PayoutsTypeOK /\ RowsSound /\ TasksSound /\ ProductionTraces
        /\ DevelopmentTraces /\ FailedIsTraceable /\ ProcessingIsAttended
    BY DEF PayoutsInv
  <1>2. /\ tasks \in [Tasks -> Task] /\ id \in DOMAIN rows /\ id \in Ids
        /\ Sound(e, payments[id]) /\ e \in Row
        /\ e.status = EntityStatus(tasks[t].step)
    BY <1>1 DEF PayoutsTypeOK, TasksSound, Sound
  <1>3. /\ DOMAIN rows' = DOMAIN rows /\ rows'[id] = e
        /\ \A p \in DOMAIN rows : p # id => rows'[p] = rows[p]
        /\ rows' \in [DOMAIN rows -> Row]
    BY <1>1, <1>2 DEF PayoutsTypeOK
  <1>4. /\ tasks' \in [Tasks -> Task]
        /\ \A x \in Tasks : x # t => tasks'[x] = tasks[x]
        /\ Running(t)' => /\ tasks[t].step \in Saving
                          /\ tasks'[t].step = "load" /\ tasks'[t].id = id
                          /\ tasks'[t].entity = e
        /\ tasks[t].step \in Saving => Running(t)'
    <2>1. CASE /\ tasks[t].step \in Saving
               /\ Goto(t, "load", tasks[t].id, tasks[t].entity)
      BY <1>2, <2>1, GotoFacts DEF Steps
    <2>2. CASE /\ tasks[t].step \in {"saveCompleted", "saveFailed"}
               /\ Finish(t)
      BY <1>2, <2>2, FinishFacts DEF Saving
    <2> QED
      BY <2>1, <2>2
  <1>5. \A x \in Tasks : x # t => (Running(x)' <=> Running(x))
    BY <1>4 DEF Running
  <1>6. /\ e.status \in {"PROCESSING", "COMPLETED", "FAILED"}
        /\ e.claimed
        /\ tasks[t].step \in Saving => e.status = "PROCESSING"
        /\ tasks[t].step \notin Saving => e.status # "PROCESSING"
        /\ e.status = "FAILED" => tasks[t].step = "saveFailed"
    BY <1>2 DEF EntityStatus, Saving, Sound
  <1> HIDE DEF id, e
  <1>7. PayoutsTypeOK'
    <2>1. \A x \in Tasks : Running(x)' => tasks'[x].id \in DOMAIN rows'
      BY <1>1, <1>2, <1>3, <1>4, <1>5 DEF PayoutsTypeOK
    <2>2. \A p \in DOMAIN rows' : rows'[p].retryCount <= rows'[p].maxRetries
      BY <1>1, <1>2, <1>3 DEF PayoutsTypeOK, Sound
    <2> QED
      BY <1>1, <1>3, <1>4, <2>1, <2>2 DEF PayoutsTypeOK
  <1>8. RowsSound'
    <2> SUFFICES ASSUME NEW p \in DOMAIN rows
                 PROVE  /\ Sound(rows'[p], payments[p])
                        /\ ~rows'[p].claimed => payments[p] = 0
      BY <1>3 DEF RowsSound, Sound
    <2> QED
      BY <1>1, <1>2, <1>3, <1>6 DEF RowsSound
  <1>9. TasksSound'
    <2> SUFFICES ASSUME NEW x \in Tasks, Running(x)'
                 PROVE  /\ tasks'[x].id \in DOMAIN rows
                        /\ Sound(tasks'[x].entity, payments[tasks'[x].id])
                        /\ tasks'[x].entity.status = EntityStatus(tasks'[x].step)
                        /\ tasks'[x].step \notin Saving =>
                               rows'[tasks'[x].id].claimed
      BY <1>3 DEF TasksSound, Sound, EntityStatus
    <2>1. CASE x = t
      BY <1>2, <1>3, <1>4, <1>6, <2>1 DEF EntityStatus
    <2>2. CASE x # t
      BY <1>1, <1>3, <1>4, <1>5, <1>6, <2>2 DEF TasksSound
    <2> QED
      BY <2>1, <2>2
  <1>10. ProductionTraces'
    <2> SUFFICES ASSUME nodeEnv = "production", NEW x \in Tasks, Running(x)',
                        payments[tasks'[x].id] > 0
                 PROVE  /\ tasks'[x].entity.tx > 0
                        /\ tasks'[x].step \notin Saving =>
                               rows'[tasks'[x].id].tx > 0
      BY DEF ProductionTraces
    <2>1. payments[id] > 0 => e.tx > 0
      BY <1>1 DEF ProductionTraces, id, e
    <2>2. CASE x = t
      BY <1>3, <1>4, <2>1, <2>2
    <2>3. CASE x # t
      BY <1>1, <1>3, <1>4, <1>5, <2>1, <2>3 DEF ProductionTraces, TasksSound
    <2> QED
      BY <2>2, <2>3
  <1>11. DevelopmentTraces'
    <2> SUFFICES ASSUME nodeEnv # "production", NEW x \in Tasks, Running(x)'
                 PROVE  /\ tasks'[x].step \in {"saveCompleted", "saveFailed"} =>
                              tasks'[x].entity.tx > 0
                        /\ /\ rows'[tasks'[x].id].status = "FAILED"
                           /\ rows'[tasks'[x].id].tx = 0
                           => tasks'[x].step \in Saving
      BY DEF DevelopmentTraces
    <2>1. e.status = "FAILED" => e.tx > 0
      BY <1>1, <1>6 DEF DevelopmentTraces, e
    <2>2. e \in Row /\ (e.tx > 0 => e.tx # 0)
      BY <1>2 DEF Row
    <2>3. CASE x = t
      BY <1>3, <1>4, <1>6, <2>1, <2>2, <2>3
    <2>4. CASE x # t
      BY <1>1, <1>3, <1>4, <1>5, <2>1, <2>2, <2>4 DEF DevelopmentTraces, TasksSound
    <2> QED
      BY <2>3, <2>4
  <1>12. FailedIsTraceable'
    <2> SUFFICES ASSUME NEW p \in DOMAIN rows, rows'[p].status = "FAILED",
                        payments[p] > 0
                 PROVE  rows'[p].tx > 0
      BY <1>3 DEF FailedIsTraceable
    <2>1. CASE p = id
      <3>1. CASE nodeEnv = "production"
        BY <1>1, <1>3, <2>1, <3>1 DEF ProductionTraces, id, e
      <3>2. CASE nodeEnv # "production"
        BY <1>1, <1>3, <1>6, <2>1, <3>2 DEF DevelopmentTraces, e
      <3> QED
        BY <3>1, <3>2
    <2>2. CASE p # id
      BY <1>1, <1>3, <2>2 DEF FailedIsTraceable
    <2> QED
      BY <2>1, <2>2
  <1>13. ProcessingIsAttended'
    <2> SUFFICES ASSUME faults = 0, NEW p \in DOMAIN rows,
                        rows'[p].status = "PROCESSING"
                 PROVE  \E x \in Tasks : /\ Running(x)' /\ tasks'[x].id = p
                                         /\ tasks'[x].step \notin Saving
      BY <1>3 DEF ProcessingIsAttended, Saving
    <2>1. CASE p = id
      <3>1. /\ Running(t)' /\ tasks'[t].id = p
            /\ tasks'[t].step \notin Saving
        BY <1>3, <1>4, <1>6, <2>1 DEF Saving
      <3> QED
        BY <3>1
    <2>2. CASE p # id
      <3>1. PICK x \in Tasks : /\ Running(x) /\ tasks[x].id = p
                               /\ tasks[x].step \notin Saving
        BY <1>1, <1>3, <2>2 DEF ProcessingIsAttended, Saving
      <3>2. x # t
        BY <2>2, <3>1 DEF id
      <3> QED
        BY <1>4, <1>5, <3>1, <3>2
    <2> QED
      BY <2>1, <2>2
  <1> QED
    BY <1>7, <1>8, <1>9, <1>10, <1>11, <1>12, <1>13 DEF PayoutsInv

(* A payment is made: only its task knows the new hash, and every other    *)
(* entity and row stays sound.                                             *)
LEMMA PaymentMade ==
  ASSUME PayoutsInv, NEW t \in Tasks, ExecutePayment(t)
  PROVE  PayoutsInv'
  <1> DEFINE id == tasks[t].id
             e == [tasks[t].entity EXCEPT !.status = "COMPLETED",
                                          !.tx = payments'[id]]
  <1>1. /\ PayoutsTypeOK /\ RowsSound /\ TasksSound /\ DevelopmentTraces
        /\ FailedIsTraceable /\ ProcessingIsAttended
    BY DEF PayoutsInv
  <1>2. /\ Running(t) /\ tasks[t].step = "pay" /\ nodeEnv # "production"
        /\ payments' = [payments EXCEPT ![id] = @ + 1]
        /\ Goto(t, "saveCompleted", id, e)
        /\ UNCHANGED <<rows, nodeEnv, faults>>
    BY DEF ExecutePayment
  <1>3. /\ tasks \in [Tasks -> Task] /\ id \in DOMAIN rows /\ id \in Ids
        /\ payments \in [Ids -> Nat]
        /\ Sound(tasks[t].entity, payments[id])
        /\ tasks[t].entity.status = "PROCESSING"
        /\ rows[id].claimed
    BY <1>1, <1>2 DEF PayoutsTypeOK, TasksSound, EntityStatus, Saving
  <1>4. /\ payments' \in [Ids -> Nat]
        /\ payments'[id] = payments[id] + 1
        /\ \A p \in Ids : p # id => payments'[p] = payments[p]
        /\ \A p \in Ids : payments[p] <= payments'[p]
    BY <1>2, <1>3
  <1>5. Sound(e, payments'[id]) /\ e.status = "COMPLETED" /\ e.tx > 0
    <2>1. /\ e.status = "COMPLETED" /\ e.tx = payments'[id]
          /\ e.retryCount = tasks[t].entity.retryCount
          /\ e.maxRetries = tasks[t].entity.maxRetries
          /\ e.claimed = tasks[t].entity.claimed
          /\ e \in Row
      BY <1>3, <1>4 DEF Sound, Row, PayoutStatus
    <2> HIDE DEF e
    <2>2. payments'[id] \in Nat /\ payments'[id] > 0
      BY <1>3, <1>4
    <2> QED
      BY <1>3, <2>1, <2>2 DEF Sound
  <1> HIDE DEF e
  <1>6. /\ tasks' \in [Tasks -> Task]
        /\ Running(t)'
        /\ tasks'[t].step = "saveCompleted" /\ tasks'[t].id = id
        /\ tasks'[t].entity = e
        /\ \A x \in Tasks : x # t => tasks'[x] = tasks[x]
    BY <1>2, <1>3, <1>5, GotoFacts DEF Steps, Sound
  <1>7. \A x \in Tasks : x # t => (Running(x)' <=> Running(x))
    BY <1>6 DEF Running
  <1>8. PayoutsTypeOK'
    <2>1. \A x \in Tasks : Running(x)' => tasks'[x].id \in DOMAIN rows
      BY <1>1, <1>3, <1>6, <1>7 DEF PayoutsTypeOK
    <2>2. \A p \in Ids \ DOMAIN rows : payments'[p] = 0
      BY <1>1, <1>3, <1>4 DEF PayoutsTypeOK
    <2> QED
      BY <1>1, <1>2, <1>4, <1>6, <2>1, <2>2 DEF PayoutsTypeOK
  <1>9. RowsSound'
    <2> SUFFICES ASSUME NEW p \in DOMAIN rows
                 PROVE  /\ Sound(rows[p], payments'[p])
                        /\ ~rows[p].claimed => payments'[p] = 0
      BY <1>2 DEF RowsSound, Sound
    <2>1. p \in Ids /\ payments[p] \in Nat /\ payments'[p] \in Nat
      BY <1>1, <1>3, <1>4 DEF PayoutsTypeOK
    <2>2. Sound(rows[p], payments'[p])
      BY <1>1, <1>4, <2>1, SoundGrows DEF RowsSound
    <2> QED
      BY <1>1, <1>3, <1>4, <2>1, <2>2 DEF RowsSound
  <1>10. TasksSound'
    <2> SUFFICES ASSUME NEW x \in Tasks, Running(x)'
                 PROVE  /\ tasks'[x].id \in DOMAIN rows
                        /\ Sound(tasks'[x].entity, payments'[tasks'[x].id])
                        /\ tasks'[x].entity.status = EntityStatus(tasks'[x].step)
                        /\ tasks'[x].step \notin Saving =>
                               rows[tasks'[x].id].claimed
      BY <1>2 DEF TasksSound, Sound, EntityStatus
    <2>1. CASE x = t
      BY <1>3, <1>5, <1>6, <2>1 DEF EntityStatus
    <2>2. CASE x # t
      <3> DEFINE p == tasks[x].id
      <3>1. /\ tasks'[x] = tasks[x] /\ Running(x)
            /\ p \in DOMAIN rows /\ p \in Ids
            /\ Sound(tasks[x].entity, payments[p])
            /\ payments[p] \in Nat /\ payments'[p] \in Nat
            /\ payments[p] <= payments'[p]
        BY <1>1, <1>3, <1>4, <1>6, <1>7, <2>2 DEF TasksSound, PayoutsTypeOK
      <3>2. Sound(tasks[x].entity, payments'[p])
        BY <3>1, SoundGrows
      <3> QED
        BY <1>1, <3>1, <3>2 DEF TasksSound
    <2> QED
      BY <2>1, <2>2
  <1>11. ProductionTraces'
    BY <1>2 DEF ProductionTraces
  <1>12. DevelopmentTraces'
    <2>1. ~(rows[id].status = "FAILED" /\ rows[id].tx = 0)
      BY <1>1, <1>2 DEF DevelopmentTraces, Saving
    <2> QED
      BY <1>1, <1>2, <1>5, <1>6, <1>7, <2>1 DEF DevelopmentTraces
  <1>13. FailedIsTraceable'
    <2> SUFFICES ASSUME NEW p \in DOMAIN rows, rows[p].status = "FAILED",
                        payments'[p] > 0
                 PROVE  rows[p].tx > 0
      BY <1>2 DEF FailedIsTraceable
    <2>1. p \in Ids /\ rows[p].tx \in Nat
      BY <1>1 DEF PayoutsTypeOK, Row
    <2>2. CASE p = id
      BY <1>1, <1>2, <2>1, <2>2 DEF DevelopmentTraces, Saving
    <2>3. CASE p # id
      BY <1>1, <1>4, <2>1, <2>3 DEF FailedIsTraceable
    <2> QED
      BY <2>2, <2>3
  <1>14. ProcessingIsAttended'
    <2> SUFFICES ASSUME faults = 0, NEW p \in DOMAIN rows,
                        rows[p].status = "PROCESSING"
                 PROVE  \E x \in Tasks : /\ Running(x)' /\ tasks'[x].id = p
                                         /\ tasks'[x].step \notin Saving
      BY <1>2 DEF ProcessingIsAttended, Saving
    <2>1. PICK x \in Tasks : /\ Running(x) /\ tasks[x].id = p
                             /\ tasks[x].step \notin Saving
      BY <1>1 DEF ProcessingIsAttended, Saving
    <2> QED
      BY <1>6, <1>7, <2>1 DEF Saving
  <1> QED
    BY <1>8, <1>9, <1>10, <1>11, <1>12, <1>13, <1>14 DEF PayoutsInv

(* A new payout is pending, unclaimed and unpaid.                          *)
LEMMA PayoutCreated ==
  ASSUME PayoutsInv, NEW id \in Ids, CreatePayout(id)
  PROVE  PayoutsInv'
  <1>1. /\ PayoutsTypeOK /\ RowsSound /\ TasksSound /\ ProductionTraces
        /\ DevelopmentTraces /\ FailedIsTraceable /\ ProcessingIsAttended
    BY DEF PayoutsInv
  <1>2. /\ id \notin DOMAIN rows /\ payments[id] = 0
        /\ UNCHANGED <<tasks, nodeEnv, payments, faults>>
    BY <1>1 DEF CreatePayout, PayoutsTypeOK
  <1>3. /\ DOMAIN rows' = DOMAIN rows \cup {id} /\ rows'[id] = NewRow
        /\ \A p \in DOMAIN rows : rows'[p] = rows[p]
    BY DEF CreatePayout
  <1>4. /\ NewRow \in Row /\ NewRow.status = "PENDING" /\ ~NewRow.claimed
        /\ NewRow.retryCount <= NewRow.maxRetries /\ Sound(NewRow, 0)
    BY DEF NewRow, Row, PayoutStatus, Sound
  <1>5. \A x \in Tasks : Running(x)' <=> Running(x)
    BY <1>2 DEF Running
  <1>6. PayoutsTypeOK'
    <2>1. rows' \in [DOMAIN rows' -> Row]
      BY <1>1, <1>4 DEF CreatePayout, PayoutsTypeOK
    <2>2. \A p \in DOMAIN rows' : rows'[p].retryCount <= rows'[p].maxRetries
      BY <1>1, <1>3, <1>4 DEF PayoutsTypeOK
    <2> QED
      BY <1>1, <1>2, <1>3, <1>5, <2>1, <2>2 DEF PayoutsTypeOK
  <1>7. RowsSound'
    <2> SUFFICES ASSUME NEW p \in DOMAIN rows'
                 PROVE  /\ Sound(rows'[p], payments[p])
                        /\ ~rows'[p].claimed => payments[p] = 0
      BY <1>2 DEF RowsSound, Sound
    <2> QED
      BY <1>1, <1>2, <1>3, <1>4 DEF RowsSound
  <1>8. TasksSound'
    BY <1>1, <1>2, <1>3, <1>5 DEF TasksSound, Sound, EntityStatus
  <1>9. ProductionTraces' /\ DevelopmentTraces'
    BY <1>1, <1>2, <1>3, <1>5
       DEF ProductionTraces, DevelopmentTraces, TasksSound
  <1>10. FailedIsTraceable'
    BY <1>1, <1>2, <1>3, <1>4 DEF FailedIsTraceable
  <1>11. ProcessingIsAttended'
    BY <1>1, <1>2, <1>3, <1>4, <1>5 DEF ProcessingIsAttended
  <1> QED
    BY <1>6, <1>7, <1>8, <1>9, <1>10, <1>11 DEF PayoutsInv

(* A restart drops every task.                                             *)
LEMMA Restarted ==
  ASSUME PayoutsInv, Restart
  PROVE  PayoutsInv'
  <1>1. PayoutsTypeOK /\ RowsSound /\ FailedIsTraceable
    BY DEF PayoutsInv
  <1>2. /\ \A x \in Tasks : ~Running(x)'
        /\ tasks' \in [Tasks -> Task]
        /\ nodeEnv' \in NodeEnvs
        /\ UNCHANGED <<rows, payments>>
    BY DEF Restart, Running, Task
  <1>3. faults' \in 0..MaxFaults /\ faults' # 0
    BY <1>1, PayoutsAssumption DEF Restart, PayoutsTypeOK
  <1>4. PayoutsTypeOK'
    BY <1>1, <1>2, <1>3 DEF PayoutsTypeOK
  <1>5. RowsSound' /\ FailedIsTraceable'
    BY <1>1, <1>2 DEF RowsSound, FailedIsTraceable, Sound
  <1>6. TasksSound' /\ ProductionTraces' /\ DevelopmentTraces'
    BY <1>2 DEF TasksSound, ProductionTraces, DevelopmentTraces
  <1>7. ProcessingIsAttended'
    BY <1>3 DEF ProcessingIsAttended
  <1> QED
    BY <1>4, <1>5, <1>6, <1>7 DEF PayoutsInv

-----------------------------------------------------------------------------
(* The remaining actions.                                                  *)

(* A claimable payout is pending, hence unpaid.                            *)
LEMMA PayoutClaimed ==
  ASSUME PayoutsInv, NEW t \in Tasks, NEW id \in Ids, ClaimPayout(t, id)
  PROVE  PayoutsInv'
  <1> DEFINE e == [rows[id] EXCEPT !.status = "PROCESSING", !.claimed = TRUE]
  <1>1. PayoutsTypeOK /\ RowsSound
    BY DEF PayoutsInv
  <1>2. /\ ~Running(t) /\ id \in DOMAIN rows
        /\ rows[id].status = "PENDING" /\ ~rows[id].claimed
        /\ Goto(t, "saveClaim", id, e)
        /\ UNCHANGED <<rows, nodeEnv, payments, faults>>
    BY DEF ClaimPayout, IsClaimable
  <1>3. Sound(rows[id], payments[id]) /\ payments[id] = 0
    BY <1>1, <1>2 DEF RowsSound
  <1>4. /\ e \in Row /\ e.status = "PROCESSING" /\ e.claimed
        /\ e.retryCount = rows[id].retryCount
        /\ e.maxRetries = rows[id].maxRetries /\ e.tx = rows[id].tx
    BY <1>3 DEF Sound, Row, PayoutStatus
  <1> HIDE DEF e
  <1>5. Sound(e, payments[id])
    BY <1>2, <1>3, <1>4 DEF Sound
  <1>6. e.status = EntityStatus("saveClaim")
    BY <1>4 DEF EntityStatus
  <1>7. faults' \in {faults, faults + 1} \cap (0..MaxFaults)
    BY <1>1, <1>2 DEF PayoutsTypeOK
  <1> QED
    BY <1>2, <1>3, <1>5, <1>6, <1>7, TaskGoesOn DEF Steps, Saving

(* A failed payout that was paid carries its hash into the retry.          *)
LEMMA PayoutRetried ==
  ASSUME PayoutsInv, NEW t \in Tasks, NEW id \in Ids, RetryPayout(t, id)
  PROVE  PayoutsInv'
  <1> DEFINE e == [rows[id] EXCEPT !.status = "PROCESSING", !.retryCount = 0,
                                   !.maxRetries = 3]
  <1>1. PayoutsTypeOK /\ RowsSound /\ FailedIsTraceable
    BY DEF PayoutsInv
  <1>2. /\ ~Running(t) /\ id \in DOMAIN rows /\ rows[id].status = "FAILED"
        /\ Goto(t, "saveRetry", id, e)
        /\ UNCHANGED <<rows, nodeEnv, payments, faults>>
    BY DEF RetryPayout
  <1>3. Sound(rows[id], payments[id])
    BY <1>1, <1>2 DEF RowsSound
  <1>4. /\ e \in Row /\ e.status = "PROCESSING"
        /\ e.claimed = rows[id].claimed
        /\ e.retryCount = 0 /\ e.maxRetries = 3 /\ e.tx = rows[id].tx
    BY <1>3 DEF Sound, Row, PayoutStatus
  <1> HIDE DEF e
  <1>5. Sound(e, payments[id])
    BY <1>2, <1>3, <1>4 DEF Sound
  <1>6. e.status = EntityStatus("saveRetry")
    BY <1>4 DEF EntityStatus
  <1>7. faults' \in {faults, faults + 1} \cap (0..MaxFaults)
    BY <1>1, <1>2 DEF PayoutsTypeOK
  <1>8. payments[id] > 0 => e.tx > 0
    BY <1>1, <1>2, <1>4 DEF FailedIsTraceable
  <1> QED
    BY <1>2, <1>5, <1>6, <1>7, <1>8, TaskGoesOn DEF Steps, Saving

(* No retry is ever due: the cron job does nothing.                        *)
LEMMA NothingDue ==
  ASSUME PayoutsInv
  PROVE  DueRetries = {}
  BY DEF PayoutsInv, RowsSound, Sound, DueRetries

(* A handler goes on with the row it loads, or skips it.                   *)
LEMMA PayoutLoaded ==
  ASSUME PayoutsInv, NEW t \in Tasks, LoadPayout(t)
  PROVE  PayoutsInv'
  <1> DEFINE id == tasks[t].id
  <1>1. PayoutsTypeOK /\ RowsSound /\ TasksSound /\ ProductionTraces
    BY DEF PayoutsInv
  <1>2. /\ Running(t) /\ tasks[t].step = "load"
        /\ UNCHANGED <<rows, nodeEnv, payments, faults>>
    BY DEF LoadPayout
  <1>3. /\ id \in DOMAIN rows /\ id \in Ids
        /\ Sound(rows[id], payments[id]) /\ rows[id].claimed
    BY <1>1, <1>2 DEF PayoutsTypeOK, RowsSound, TasksSound, Saving
  <1>4. faults' \in {faults, faults + 1} \cap (0..MaxFaults)
    BY <1>1, <1>2 DEF PayoutsTypeOK
  <1>5. CASE rows[id].status = "PROCESSING"
    <2>1. Goto(t, "pay", id, rows[id])
      BY <1>5 DEF LoadPayout
    <2>2. rows[id].status = EntityStatus("pay")
      BY <1>5 DEF EntityStatus
    <2>3. nodeEnv = "production" /\ payments[id] > 0 => rows[id].tx > 0
      BY <1>1, <1>2 DEF ProductionTraces, Saving
    <2> HIDE DEF id
    <2>4. Running(t) => tasks[t].id = id /\ "pay" \notin Saving
      BY DEF id, Saving
    <2> QED
      BY <1>2, <1>3, <1>4, <1>5, <2>1, <2>2, <2>3, <2>4, TaskGoesOn DEF Steps
  <1>6. CASE rows[id].status # "PROCESSING"
    <2>1. Finish(t)
      BY <1>6 DEF LoadPayout
    <2> QED
      BY <1>2, <1>4, <1>6, <2>1, TaskEnds
  <1> QED
    BY <1>5, <1>6

(* A failed payment keeps the hash its entity had.                         *)
LEMMA PaymentFailed ==
  ASSUME PayoutsInv, NEW t \in Tasks, PaymentThrows(t)
  PROVE  PayoutsInv'
  <1> DEFINE id == tasks[t].id
             e == AfterFailure(tasks[t].entity)
  <1>1. PayoutsTypeOK /\ TasksSound /\ ProductionTraces
    BY DEF PayoutsInv
  <1>2. /\ Running(t) /\ tasks[t].step = "pay" /\ nodeEnv = "production"
        /\ Goto(t, "saveFailed", id, e)
        /\ UNCHANGED <<rows, nodeEnv, payments, faults>>
    BY DEF PaymentThrows
  <1>3. /\ id \in DOMAIN rows /\ id \in Ids /\ payments[id] \in Nat
        /\ Sound(tasks[t].entity, payments[id]) /\ rows[id].claimed
        /\ tasks[t].entity.status = "PROCESSING"
    BY <1>1, <1>2 DEF PayoutsTypeOK, TasksSound, Saving, EntityStatus
  <1>4. /\ Sound(e, payments[id]) /\ e.status = "FAILED"
        /\ e.tx = tasks[t].entity.tx
    BY <1>3, AfterFailureFacts
  <1>5. faults' \in {faults, faults + 1} \cap (0..MaxFaults)
    BY <1>1, <1>2 DEF PayoutsTypeOK
  <1>6. payments[id] > 0 => e.tx > 0 /\ rows[id].tx > 0
    BY <1>1, <1>2, <1>4 DEF ProductionTraces, Saving
  <1>7. Running(t) => tasks[t].id = id /\ "saveFailed" \notin Saving
    BY DEF Saving
  <1>8. e.status = EntityStatus("saveFailed")
    BY <1>4 DEF EntityStatus
  <1> HIDE DEF id, e
  <1> QED
    BY <1>2, <1>3, <1>4, <1>5, <1>6, <1>7, <1>8, TaskGoesOn DEF Steps

(* A failed database call ends the task, except that a payout whose        *)
(* completion cannot be saved is failed with the hash it got.              *)
LEMMA CallFailed ==
  ASSUME PayoutsInv, NEW t \in Tasks, DatabaseError(t)
  PROVE  PayoutsInv'
  <1> DEFINE id == tasks[t].id
             e == AfterFailure(tasks[t].entity)
  <1>1. PayoutsTypeOK /\ TasksSound /\ ProductionTraces /\ DevelopmentTraces
    BY DEF PayoutsInv
  <1>2. /\ faults < MaxFaults /\ faults' = faults + 1
        /\ Running(t) /\ tasks[t].step # "pay"
        /\ UNCHANGED <<rows, nodeEnv, payments>>
    BY DEF DatabaseError
  <1>3. /\ faults' \in {faults, faults + 1} \cap (0..MaxFaults)
        /\ faults' # faults
    BY <1>1, <1>2, PayoutsAssumption DEF PayoutsTypeOK
  <1>4. CASE tasks[t].step = "saveCompleted"
    <2>1. Goto(t, "saveFailed", id, e)
      BY <1>4 DEF DatabaseError
    <2>2. /\ id \in DOMAIN rows /\ id \in Ids /\ payments[id] \in Nat
          /\ Sound(tasks[t].entity, payments[id]) /\ rows[id].claimed
          /\ tasks[t].entity.status = "COMPLETED"
          /\ tasks[t].entity.tx > 0
      BY <1>1, <1>2, <1>4
         DEF PayoutsTypeOK, TasksSound, Saving, EntityStatus, Sound
    <2>3. /\ Sound(e, payments[id]) /\ e.status = "FAILED" /\ e.tx > 0
      BY <2>2, AfterFailureFacts
    <2>4. nodeEnv = "production" /\ payments[id] > 0 => rows[id].tx > 0
      BY <1>1, <1>2, <1>4 DEF ProductionTraces, Saving
    <2>5. nodeEnv # "production" =>
            ~(rows[id].status = "FAILED" /\ rows[id].tx = 0)
      BY <1>1, <1>2, <1>4 DEF DevelopmentTraces, Saving
    <2>6. Running(t) => tasks[t].id = id /\ "saveFailed" \notin Saving
      BY DEF Saving
    <2>7. e.status = EntityStatus("saveFailed")
      BY <2>3 DEF EntityStatus
    <2> HIDE DEF id, e
    <2> QED
      BY <1>2, <1>3, <2>1, <2>2, <2>3, <2>4, <2>5, <2>6, <2>7, TaskGoesOn
         DEF Steps
  <1>5. CASE tasks[t].step # "saveCompleted"
    <2>1. Finish(t)
      BY <1>5 DEF DatabaseError
    <2> QED
      BY <1>2, <1>3, <2>1, TaskEnds
  <1> QED
    BY <1>4, <1>5

(* Every step preserves the invariant.                                     *)
LEMMA PayoutsStep ==
  ASSUME PayoutsInv, [Next]_vars
  PROVE  PayoutsInv'
  <1>1. CASE UNCHANGED vars
    BY <1>1 DEF vars, PayoutsInv, PayoutsTypeOK, RowsSound, TasksSound,
                ProductionTraces, DevelopmentTraces, FailedIsTraceable,
                ProcessingIsAttended, Running, Sound, EntityStatus
  <1>2. ASSUME NEW id \in Ids, CreatePayout(id)
        PROVE  PayoutsInv'
    BY <1>2, PayoutCreated
  <1>3. ASSUME NEW t \in Tasks, NEW id \in Ids,
               ClaimPayout(t, id) \/ RetryPayout(t, id)
        PROVE  PayoutsInv'
    BY <1>3, PayoutClaimed, PayoutRetried
  <1>4. ASSUME NEW t \in Tasks, ProcessScheduledRetries(t)
        PROVE  PayoutsInv'
    <2>1. UNCHANGED vars
      BY <1>4, NothingDue DEF ProcessScheduledRetries
    <2> QED
      BY <1>1, <2>1
  <1>5. ASSUME NEW t \in Tasks, TaskStep(t)
        PROVE  PayoutsInv'
    <2>1. CASE StartProcessing(t)
      BY <2>1, RowSaved DEF StartProcessing, Saving
    <2>2. CASE LoadPayout(t)
      BY <2>2, PayoutLoaded
    <2>3. CASE ExecutePayment(t)
      BY <2>3, PaymentMade
    <2>4. CASE PaymentThrows(t)
      BY <2>4, PaymentFailed
    <2>5. CASE SaveOutcome(t)
      BY <2>5, RowSaved DEF SaveOutcome
    <2> QED
      BY <1>5, <2>1, <2>2, <2>3, <2>4, <2>5 DEF TaskStep
  <1>6. ASSUME NEW t \in Tasks, DatabaseError(t)
        PROVE  PayoutsInv'
    BY <1>6, CallFailed
  <1>7. CASE Restart
    BY <1>7, Restarted
  <1> QED
    BY <1>1, <1>2, <1>3, <1>4, <1>5, <1>6, <1>7 DEF Next

(* The service starts without payouts and tasks.                           *)
LEMMA PayoutsStart ==
  ASSUME Init
  PROVE  PayoutsInv
  <1>1. /\ DOMAIN rows = {} /\ rows \in [DOMAIN rows -> Row]
        /\ \A t \in Tasks : ~Running(t)
        /\ tasks \in [Tasks -> Task]
    BY DEF Init, Running, Task
  <1>2. PayoutsTypeOK
    BY <1>1, PayoutsAssumption DEF Init, PayoutsTypeOK
  <1> QED
    BY <1>1, <1>2 DEF PayoutsInv, RowsSound, TasksSound, ProductionTraces,
                      DevelopmentTraces, FailedIsTraceable, ProcessingIsAttended

-----------------------------------------------------------------------------
(* Theorems.                                                               *)

(* PayoutsInv is inductive: rows and entities in flight agree with the     *)
(* payments made, however handlers of payouts.service.ts interleave.       *)
THEOREM PayoutsInvariance == Spec => []PayoutsInv
  <1>1. Init => PayoutsInv
    BY PayoutsStart
  <1>2. PayoutsInv /\ [Next]_vars => PayoutsInv'
    BY PayoutsStep
  <1> QED
    BY <1>1, <1>2, PTL DEF Spec

(* Types, and at most maxRetries failures between two manual retries.      *)
THEOREM PayoutsTyped == Spec => []PayoutsTypeOK
  <1>1. PayoutsInv => PayoutsTypeOK
    BY DEF PayoutsInv
  <1> QED
    BY <1>1, PayoutsInvariance, PTL

(* The hash of a completed payout is that of a payment made for it, even   *)
(* when several handlers pay and overwrite each other's row.               *)
THEOREM CompletedWasPaid == Spec => []CompletedIsPaid
  <1>1. PayoutsInv => CompletedIsPaid
    <2> SUFFICES ASSUME PayoutsInv, NEW id \in DOMAIN rows,
                        rows[id].status = "COMPLETED"
                 PROVE  rows[id].tx \in 1..payments[id]
      BY DEF CompletedIsPaid
    <2>1. Sound(rows[id], payments[id]) /\ payments[id] \in Nat
      BY DEF PayoutsInv, PayoutsTypeOK, RowsSound
    <2> QED
      BY <2>1 DEF Sound, Row
  <1> QED
    BY <1>1, PayoutsInvariance, PTL

(* Nothing is paid before a claim is saved.                                *)
THEOREM UnclaimedNotPaid == Spec => []UnclaimedIsUnpaid
  <1>1. PayoutsInv => UnclaimedIsUnpaid
    BY DEF PayoutsInv, RowsSound, Sound, UnclaimedIsUnpaid
  <1> QED
    BY <1>1, PayoutsInvariance, PTL

(* A paid payout that is marked as failed carries the hash of a payment,   *)
(* also after a restart into the other environment.                        *)
THEOREM FailedCarriesHash == Spec => []FailedIsTraceable
  <1>1. PayoutsInv => FailedIsTraceable
    BY DEF PayoutsInv
  <1> QED
    BY <1>1, PayoutsInvariance, PTL

(* Without faults, whatever is being processed has a handler that has      *)
(* saved its row and will finish it.                                       *)
THEOREM ProcessingHasHandler == Spec => []ProcessingIsAttended
  <1>1. PayoutsInv => ProcessingIsAttended
    BY DEF PayoutsInv
  <1> QED
    BY <1>1, PayoutsInvariance, PTL

(* A payout in PROCESSING without a handler is never touched again: claims *)
(* want PENDING, retries FAILED, and the cron job RETRY_SCHEDULED.         *)
THEOREM OrphansStayStuck == Spec => OrphansStay
  <1>1. PayoutsInv /\ [Next]_vars =>
          [\A id \in Ids : Orphaned(id) => Orphaned(id)' /\ rows'[id] = rows[id]]_vars
    <2> SUFFICES ASSUME PayoutsInv, Next, NEW id \in Ids, Orphaned(id)
                 PROVE  Orphaned(id)' /\ rows'[id] = rows[id]
      OBVIOUS
    <2>1. /\ id \in DOMAIN rows /\ rows[id].status = "PROCESSING"
          /\ \A t \in Tasks : Running(t) => tasks[t].id # id
          /\ tasks \in [Tasks -> Task]
      BY DEF Orphaned, PayoutsInv, PayoutsTypeOK
    <2>2. /\ DueRetries = {}
          /\ \A t \in Tasks : Running(t) => tasks[t].id \in DOMAIN rows
      BY NothingDue DEF PayoutsInv, PayoutsTypeOK
    <2> DEFINE Stays == /\ id \in DOMAIN rows' /\ rows'[id] = rows[id]
                        /\ \A t \in Tasks : Running(t)' => tasks'[t].id # id
    <2>3. ASSUME NEW p \in Ids, CreatePayout(p)
          PROVE  Stays
      BY <2>1, <2>3 DEF CreatePayout, Running
    <2>4. ASSUME NEW t \in Tasks, NEW p \in Ids,
                 ClaimPayout(t, p) \/ RetryPayout(t, p)
          PROVE  Stays
      BY <2>1, <2>4 DEF ClaimPayout, RetryPayout, IsClaimable, Goto, Running
    <2>5. ASSUME NEW t \in Tasks, ProcessScheduledRetries(t)
          PROVE  Stays
      BY <2>1, <2>2, <2>5 DEF ProcessScheduledRetries, vars, Running
    <2>6. ASSUME NEW t \in Tasks, TaskStep(t)
          PROVE  Stays
      BY <2>1, <2>2, <2>6
         DEF TaskStep, StartProcessing, LoadPayout, ExecutePayment,
             PaymentThrows, SaveOutcome, Goto, Finish, Running
    <2>7. ASSUME NEW t \in Tasks, DatabaseError(t)
          PROVE  Stays
      BY <2>1, <2>7 DEF DatabaseError, Goto, Finish, Running
    <2>8. ASSUME Restart
          PROVE  Stays
      BY <2>1, <2>8 DEF Restart, Running
    <2>9. Stays
      BY <2>3, <2>4, <2>5, <2>6, <2>7, <2>8 DEF Next
    <2> QED
      BY <2>1, <2>9 DEF Orphaned
  <1> QED
    BY <1>1, PayoutsInvariance, PTL DEF Spec, OrphansStay

(* No retry is ever due (payouts.service.ts:197): the first failure of a   *)
(* payout is final, and processScheduledRetries never finds anything.      *)
THEOREM RetriesNeverDue == Spec => [](DueRetries = {})
  <1>1. PayoutsInv => DueRetries = {}
    BY NothingDue
  <1> QED
    BY <1>1, PayoutsInvariance, PTL

=============================================================================
