----------------------------- MODULE EmailProofs -----------------------------
(***************************************************************************)
(* Proofs about the emails, for every set of messages and of addresses,    *)
(* every limit of attempts and every number of faults.                     *)
(***************************************************************************)
EXTENDS Email, SumTheorems

-----------------------------------------------------------------------------
(* Types, and how requests, jobs and the worker's hand hang together.      *)

(* The worker holds the job of m.                                          *)
Held(m) == hand # EmptyHand /\ hand.id = m

(* The job in the worker's hand is active; a job that is not at its end    *)
(* has attempts left; a request that Redis has not been asked to store has *)
(* no job, and one not yet taken up has no record.                         *)
JobsSound ==
    \A m \in Messages :
        /\ Held(m) => jobs[m].state = "active"
        /\ jobs[m].state \in {"waiting", "active", "delayed"} =>
              jobs[m].attemptsMade < AttemptsOf(jobs[m])
        /\ requests[m] \in {"new", "adding"} => jobs[m] = NoJob
        /\ requests[m] = "new" => deliveryLog[m] = NoRecord
        /\ jobs[m].state = "none" => jobs[m] = NoJob

TypeInv == EmailTypeOK /\ JobsSound

(* What At says of the hand.                                               *)
LEMMA HandAt ==
  ASSUME NEW m \in Messages, NEW s \in Steps, At(s, m)
  PROVE  /\ hand.step = s
         /\ hand.id = m
         /\ hand # EmptyHand
         /\ Held(m)
         /\ \A t : [hand EXCEPT !.step = t] = [step |-> t, id |-> m]
  BY DEF At, EmptyHand, Steps, Held

(* A hand that is not empty is at some step of some job.                   *)
LEMMA HandCases ==
  ASSUME EmailTypeOK, hand # EmptyHand
  PROVE  \E m \in Messages, s \in Steps : At(s, m)
  BY DEF EmailTypeOK, At

(* An attempt that fails sets the job back or ends it.                     *)
LEMMA AttemptStep ==
  ASSUME TypeInv, NEW m \in Messages, NEW s \in Steps, At(s, m), AttemptFails(m)
  PROVE  /\ jobs' \in [Messages -> Job]
         /\ hand' = EmptyHand
         /\ failing' \subseteq Messages
         /\ failing \subseteq failing'
         /\ \A n \in Messages : n # m => jobs'[n] = jobs[n]
         /\ jobs'[m].state \in {"delayed", "failed"}
         /\ jobs'[m].state = "delayed" => jobs'[m].attemptsMade < AttemptsOf(jobs'[m])
         /\ jobs'[m].state = "failed" => jobs'[m].attempts = 0 \/ m \in failing'
         /\ jobs'[m].attemptsMade <= AttemptsOf(jobs'[m])
         /\ jobs'[m].to = jobs[m].to
         /\ jobs'[m].attempts = jobs[m].attempts
  <1>1. /\ jobs \in [Messages -> Job] /\ failing \subseteq Messages
        /\ jobs[m].attemptsMade \in Nat /\ jobs[m].attemptsMade < AttemptsOf(jobs[m])
        /\ jobs[m].attempts \in Nat /\ AttemptsOf(jobs[m]) \in Nat
    BY HandAt DEF TypeInv, EmailTypeOK, JobsSound, Job, AttemptsOf
  <1> DEFINE made == jobs[m].attemptsMade + 1
             after == IF GivesUp(m, made) THEN "failed" ELSE "delayed"
             job == [jobs[m] EXCEPT !.attemptsMade = made, !.state = after]
  <1>2. jobs' = [jobs EXCEPT ![m] = job]
    <2>1. jobs' = [jobs EXCEPT ![m].attemptsMade = made, ![m].state = after]
      BY Zenon DEF AttemptFails
    <2> QED
      BY <1>1, <2>1
  <1>3. /\ job \in Job /\ job.state = after /\ job.attemptsMade = made
        /\ job.to = jobs[m].to /\ job.attempts = jobs[m].attempts
    <2>1. jobs[m] \in Job
      BY <1>1
    <2>2. made \in Nat /\ after \in {"failed", "delayed"}
      BY <1>1
    <2> HIDE DEF made, after
    <2> QED
      BY <2>1, <2>2 DEF Job
  <1>4. hand' = EmptyHand
    BY Zenon DEF AttemptFails
  <1>5. failing' = IF Buries(m, made) THEN failing \cup {m} ELSE failing
    BY Zenon DEF AttemptFails
  <1>6. /\ after = "failed" => jobs[m].attempts = 0 \/ Buries(m, made)
        /\ after = "delayed" => made < AttemptsOf(jobs[m])
        /\ made <= AttemptsOf(jobs[m]) /\ after \in {"delayed", "failed"}
    BY <1>1 DEF GivesUp, Buries, AttemptsOf
  <1>7. AttemptsOf(job) = AttemptsOf(jobs[m])
    BY <1>3 DEF AttemptsOf
  <1> HIDE DEF job, made, after
  <1> QED
    BY <1>1, <1>2, <1>3, <1>4, <1>5, <1>6, <1>7

(* A change of status leaves the recipients, and makes no record.          *)
LEMMA StatusStep ==
  ASSUME EmailTypeOK, NEW m \in Messages,
         NEW s \in {"SENDING", "SENT", "FAILED", "DROPPED"},
         deliveryLog' = Status(m, s)
  PROVE  /\ deliveryLog' \in [Messages -> Record]
         /\ \A n \in Messages :
               /\ deliveryLog'[n].to = deliveryLog[n].to
               /\ deliveryLog'[n] = NoRecord <=> deliveryLog[n] = NoRecord
               /\ n # m => deliveryLog'[n] = deliveryLog[n]
         /\ deliveryLog[m] # NoRecord => deliveryLog'[m].status = s
  <1>1. deliveryLog \in [Messages -> Record]
    BY DEF EmailTypeOK
  <1>2. CASE deliveryLog[m] = NoRecord
    BY <1>1, <1>2 DEF Status
  <1>3. CASE deliveryLog[m] # NoRecord
    <2>1. deliveryLog[m] \in [status : {"QUEUED", "SENDING", "SENT", "FAILED", "DROPPED"},
                              to : SUBSET Addresses]
      BY <1>1, <1>3 DEF Record
    <2>2. deliveryLog' = [deliveryLog EXCEPT ![m].status = s]
      BY <1>3 DEF Status
    <2>3. deliveryLog'[m] = [status |-> s, to |-> deliveryLog[m].to]
      BY <1>1, <2>1, <2>2
    <2>4. deliveryLog'[m] # NoRecord
      BY <2>3 DEF NoRecord
    <2>5. \A n \in Messages : n # m => deliveryLog'[n] = deliveryLog[n]
      BY <1>1, <2>2
    <2>6. deliveryLog' \in [Messages -> Record]
      BY <1>1, <2>1, <2>2 DEF Record
    <2> QED
      BY <1>3, <2>3, <2>4, <2>5, <2>6
  <1> QED
    BY <1>2, <1>3

(* A new fault is counted.                                                 *)
LEMMA FaultStep ==
  ASSUME EmailTypeOK, NEW kind \in FaultKinds, Fault(kind)
  PROVE  /\ faults' \in [FaultKinds -> Nat]
         /\ faults'[kind] = faults[kind] + 1
         /\ \A k \in FaultKinds : k # kind => faults'[k] = faults[k]
  BY DEF EmailTypeOK, Fault
(* The variables that no part of JobsSound is about.                       *)
RestTyped ==
    /\ phase \in Phases
    /\ unsubscribed \subseteq Addresses
    /\ failing \subseteq Messages
    /\ deadLetters \subseteq Messages
    /\ copies \in [Messages -> Nat]
    /\ mailed \subseteq Addresses
    /\ refused \subseteq Addresses
    /\ faults \in [FaultKinds -> Nat]

(* A step of the queue or of the worker with the job of m: it stays a job, *)
(* keeps its recipients and has attempts left unless it ends, and nothing  *)
(* else comes into the worker's hand.                                      *)
JobMoves(m) ==
    /\ requests' = requests
    /\ deliveryLog' \in [Messages -> Record]
    /\ \A n \in Messages :
          /\ deliveryLog'[n].to = deliveryLog[n].to
          /\ deliveryLog'[n] = NoRecord <=> deliveryLog[n] = NoRecord
    /\ jobs' \in [Messages -> Job]
    /\ \A n \in Messages : n # m => jobs'[n] = jobs[n]
    /\ jobs[m].state # "none" /\ jobs'[m].state # "none"
    /\ jobs'[m].to = jobs[m].to /\ jobs'[m].attempts = jobs[m].attempts
    /\ jobs'[m].attemptsMade <= AttemptsOf(jobs'[m])
    /\ jobs'[m].state \in {"waiting", "active", "delayed"} =>
          jobs'[m].attemptsMade < AttemptsOf(jobs'[m])
    /\ \/ hand' = EmptyHand
       \/ jobs'[m].state = "active" /\ \E s \in Steps : hand' = [step |-> s, id |-> m]
       \/ hand' = hand /\ (Held(m) => jobs'[m].state = "active")
    /\ RestTyped'

LEMMA MovesKeepType ==
  ASSUME TypeInv, NEW m \in Messages, JobMoves(m)
  PROVE  TypeInv'
  <1>1. /\ requests \in [Messages -> Stages]
        /\ jobs \in [Messages -> Job]
        /\ hand \in {EmptyHand} \cup [step : Steps, id : Messages]
        /\ deliveryLog \in [Messages -> Record]
        /\ \A n \in Messages :
              /\ jobs[n].attemptsMade <= AttemptsOf(jobs[n])
              /\ jobs[n] # NoJob /\ deliveryLog[n] # NoRecord =>
                    jobs[n].to = deliveryLog[n].to
    BY DEF TypeInv, EmailTypeOK
  <1>2. hand' \in {EmptyHand} \cup [step : Steps, id : Messages]
    BY <1>1 DEF JobMoves
  <1>3. \A n \in Messages : jobs'[n].attemptsMade <= AttemptsOf(jobs'[n])
    BY <1>1 DEF JobMoves
  <1>4. jobs[m] # NoJob /\ jobs'[m] # NoJob
    BY DEF JobMoves, NoJob
  <1>5. ASSUME NEW n \in Messages, jobs'[n] # NoJob, deliveryLog'[n] # NoRecord
        PROVE  jobs'[n].to = deliveryLog'[n].to
    <2>1. deliveryLog[n] # NoRecord /\ deliveryLog'[n].to = deliveryLog[n].to
      BY <1>5 DEF JobMoves
    <2>2. jobs[n] # NoJob /\ jobs'[n].to = jobs[n].to
      BY <1>4, <1>5 DEF JobMoves
    <2> QED
      BY <1>1, <2>1, <2>2
  <1>6. EmailTypeOK'
    <2>1. /\ requests' \in [Messages -> Stages]
          /\ jobs' \in [Messages -> Job]
          /\ deliveryLog' \in [Messages -> Record]
          /\ RestTyped'
      BY <1>1 DEF JobMoves
    <2> QED
      BY <1>2, <1>3, <1>5, <2>1 DEF EmailTypeOK, RestTyped
  <1>7. ASSUME NEW n \in Messages
        PROVE  /\ (Held(n))' => jobs'[n].state = "active"
               /\ jobs'[n].state \in {"waiting", "active", "delayed"} =>
                     jobs'[n].attemptsMade < AttemptsOf(jobs'[n])
               /\ requests'[n] \in {"new", "adding"} => jobs'[n] = NoJob
               /\ requests'[n] = "new" => deliveryLog'[n] = NoRecord
               /\ jobs'[n].state = "none" => jobs'[n] = NoJob
    <2>1. /\ Held(n) => jobs[n].state = "active"
          /\ jobs[n].state \in {"waiting", "active", "delayed"} =>
                jobs[n].attemptsMade < AttemptsOf(jobs[n])
          /\ requests[n] \in {"new", "adding"} => jobs[n] = NoJob
          /\ requests[n] = "new" => deliveryLog[n] = NoRecord
          /\ jobs[n].state = "none" => jobs[n] = NoJob
      BY DEF TypeInv, JobsSound
    <2>2. (Held(n))' => jobs'[n].state = "active"
      <3>1. CASE hand' = EmptyHand
        BY <3>1 DEF Held
      <3>2. CASE \E s \in Steps : hand' = [step |-> s, id |-> m]
        BY <3>2, <2>1 DEF Held, JobMoves, EmptyHand, Steps
      <3>3. CASE hand' = hand /\ (Held(m) => jobs'[m].state = "active")
        BY <3>3, <2>1 DEF Held, JobMoves
      <3> QED
        BY <3>1, <3>2, <3>3 DEF JobMoves
    <2>3. CASE n = m
      BY <1>4, <2>1, <2>2, <2>3 DEF JobMoves
    <2>4. CASE n # m
      BY <2>1, <2>2, <2>4 DEF JobMoves
    <2> QED
      BY <2>3, <2>4
  <1>8. JobsSound'
    BY <1>7 DEF JobsSound
  <1> QED
    BY <1>6, <1>8 DEF TypeInv
(* Only the state and the stalled mark of the job of m change.             *)
LEMMA StateMoves ==
  ASSUME TypeInv, NEW m \in Messages, NEW state \in {"waiting", "active", "completed", "failed"},
         NEW stalled \in BOOLEAN, jobs[m].state # "none",
         state \in {"waiting", "active"} => jobs[m].attemptsMade < AttemptsOf(jobs[m]),
         \/ jobs' = [jobs EXCEPT ![m].state = state]
         \/ jobs' = [jobs EXCEPT ![m].stalled = stalled, ![m].state = state]
  PROVE  /\ jobs' \in [Messages -> Job]
         /\ \A n \in Messages : n # m => jobs'[n] = jobs[n]
         /\ jobs[m].state # "none" /\ jobs'[m].state = state
         /\ jobs'[m].to = jobs[m].to /\ jobs'[m].attempts = jobs[m].attempts
         /\ jobs'[m].attemptsMade = jobs[m].attemptsMade
         /\ jobs'[m].attemptsMade <= AttemptsOf(jobs'[m])
         /\ jobs'[m].state \in {"waiting", "active", "delayed"} =>
               jobs'[m].attemptsMade < AttemptsOf(jobs'[m])
  <1>1. /\ jobs \in [Messages -> Job] /\ jobs[m].attemptsMade <= AttemptsOf(jobs[m])
        /\ jobs[m] \in Job
    BY DEF TypeInv, EmailTypeOK
  <1>2. PICK b \in BOOLEAN :
          jobs' = [jobs EXCEPT ![m] = [jobs[m] EXCEPT !.stalled = b, !.state = state]]
    <2>1. CASE jobs' = [jobs EXCEPT ![m].stalled = stalled, ![m].state = state]
      BY <1>1, <2>1
    <2>2. CASE jobs' = [jobs EXCEPT ![m].state = state]
      <3>1. jobs[m] = [jobs[m] EXCEPT !.stalled = jobs[m].stalled]
        BY <1>1 DEF Job
      <3>2. jobs[m].stalled \in BOOLEAN
        BY <1>1 DEF Job
      <3> QED
        BY <1>1, <2>2, <3>1, <3>2
    <2> QED
      BY <2>1, <2>2
  <1> DEFINE job == [jobs[m] EXCEPT !.stalled = b, !.state = state]
  <1>3. /\ job \in Job /\ job.state = state /\ job.to = jobs[m].to
        /\ job.attemptsMade = jobs[m].attemptsMade /\ job.attempts = jobs[m].attempts
    BY <1>1 DEF Job
  <1>4. jobs' = [jobs EXCEPT ![m] = job]
    BY <1>2
  <1> HIDE DEF job
  <1>5. AttemptsOf(job) = AttemptsOf(jobs[m])
    BY <1>3 DEF AttemptsOf
  <1> QED
    BY <1>1, <1>3, <1>4, <1>5

(* What stays is still typed.                                              *)
LEMMA RestNow == TypeInv => RestTyped
  BY DEF TypeInv, EmailTypeOK, RestTyped

LEMMA QueueMoves ==
  ASSUME TypeInv, NEW m \in Messages, TakeJob(m) \/ BackoffEnds(m) \/ StalledCheck(m)
  PROVE  JobMoves(m)
  <1>1. /\ requests' = requests /\ deliveryLog' = deliveryLog /\ RestTyped'
        /\ deliveryLog' \in [Messages -> Record]
    <2>1. UNCHANGED <<phase, requests, deliveryLog, unsubscribed, failing,
                      deadLetters, copies, mailed, refused, faults>>
      BY Zenon DEF TakeJob, BackoffEnds, StalledCheck
    <2> QED
      BY <2>1, RestNow DEF RestTyped, TypeInv, EmailTypeOK
  <1>2. jobs[m].state \in {"waiting", "active", "delayed"} =>
          jobs[m].attemptsMade < AttemptsOf(jobs[m])
    BY DEF TypeInv, JobsSound
  <1>3. CASE TakeJob(m)
    <2>1. /\ jobs' = [jobs EXCEPT ![m].state = "active"] /\ jobs[m].state = "waiting"
          /\ hand' = [step |-> "progress10", id |-> m]
      BY <1>3 DEF TakeJob
    <2> QED
      BY <1>1, <1>2, <2>1, StateMoves DEF JobMoves, Steps
  <1>4. CASE BackoffEnds(m)
    <2>1. /\ jobs' = [jobs EXCEPT ![m].state = "waiting"] /\ jobs[m].state = "delayed"
          /\ hand' = hand /\ ~Held(m)
      BY <1>4 DEF BackoffEnds, TypeInv, JobsSound
    <2> QED
      BY <1>1, <1>2, <2>1, StateMoves DEF JobMoves
  <1>5. CASE StalledCheck(m)
    <2> DEFINE after == IF jobs[m].stalled THEN "failed" ELSE "waiting"
    <2>1. /\ jobs' = [jobs EXCEPT ![m].stalled = TRUE, ![m].state = after]
          /\ jobs[m].state = "active" /\ after \in {"failed", "waiting"}
          /\ hand' = hand
      BY <1>5, Zenon DEF StalledCheck, Abandoned
    <2>2. ~Held(m)
      <3>1. ASSUME Held(m)
            PROVE  FALSE
        <4>1. PICK n \in Messages, s \in Steps : At(s, n)
          BY <3>1, HandCases DEF Held, TypeInv
        <4>2. n = m
          BY <3>1, <4>1, HandAt DEF Held
        <4> QED
          BY <1>5, <4>1, <4>2 DEF StalledCheck, Abandoned
      <3> QED
        BY <3>1
    <2> HIDE DEF after
    <2> QED
      BY <1>1, <1>2, <2>1, <2>2, StateMoves DEF JobMoves
  <1> QED
    BY <1>3, <1>4, <1>5

LEMMA WorkerMoves ==
  ASSUME TypeInv, NEW m \in Messages, Worker(m)
  PROVE  JobMoves(m)
  <1>1. /\ RestTyped /\ EmailTypeOK /\ jobs \in [Messages -> Job]
        /\ deliveryLog \in [Messages -> Record]
    BY RestNow DEF TypeInv, EmailTypeOK
  <1>2. PICK s \in Steps : At(s, m)
    BY DEF Worker, HandleEmail, RenderFails, ProgressFails, SendGridAccepts, SendReturns,
           SendFails, Complete, Steps
  <1>3. /\ jobs[m].state = "active" /\ jobs[m].attemptsMade < AttemptsOf(jobs[m])
        /\ jobs[m].attemptsMade <= AttemptsOf(jobs[m])
    BY <1>1, <1>2, HandAt DEF TypeInv, JobsSound, EmailTypeOK
  <1>4. requests' = requests
    BY Zenon DEF Worker, HandleEmail, RenderFails, ProgressFails, SendGridAccepts,
                 SendReturns, SendFails, Complete
  <1>5. /\ deliveryLog' \in [Messages -> Record]
        /\ \A n \in Messages :
              /\ deliveryLog'[n].to = deliveryLog[n].to
              /\ deliveryLog'[n] = NoRecord <=> deliveryLog[n] = NoRecord
    <2>1. \/ deliveryLog' = deliveryLog
          \/ \E status \in {"SENDING", "SENT", "FAILED", "DROPPED"} :
                deliveryLog' = Status(m, status)
      BY DEF Worker, HandleEmail, RenderFails, ProgressFails, SendGridAccepts, SendReturns,
             SendFails, Complete
    <2>2. CASE deliveryLog' = deliveryLog
      BY <1>1, <2>2
    <2> QED
      BY <1>1, <2>1, <2>2, StatusStep
  <1>6. CASE AttemptFails(m) /\ RestTyped'
    BY <1>2, <1>3, <1>4, <1>5, <1>6, AttemptStep DEF JobMoves
  <1>7. CASE UNCHANGED <<jobs, failing>> /\ RestTyped' /\ \E t \in Steps : hand' = [step |-> t, id |-> m]
    BY <1>1, <1>3, <1>4, <1>5, <1>7 DEF JobMoves
  <1>8. CASE HandleEmail(m)
    <2>1. UNCHANGED <<jobs, failing>> /\ RestTyped'
      BY <1>1, <1>8 DEF HandleEmail, RestTyped
    <2>2. \E t \in Steps : hand' = [step |-> t, id |-> m]
      BY <1>8, <1>2, HandAt DEF HandleEmail, Steps
    <2> QED
      BY <1>7, <2>1, <2>2
  <1>9. CASE SendGridAccepts(m)
    <2>1. UNCHANGED <<jobs, failing>> /\ RestTyped'
      BY <1>1, <1>3, <1>9 DEF SendGridAccepts, RestTyped, Job
    <2>2. \E t \in Steps : hand' = [step |-> t, id |-> m]
      BY <1>9, <1>2, HandAt DEF SendGridAccepts, Steps
    <2> QED
      BY <1>7, <2>1, <2>2
  <1>10. CASE SendReturns(m)
    <2>1. UNCHANGED <<jobs, failing>> /\ RestTyped'
      BY <1>1, <1>10 DEF SendReturns, RestTyped
    <2>2. \E t \in Steps : hand' = [step |-> t, id |-> m]
      BY <1>10, <1>2, HandAt DEF SendReturns, Steps
    <2> QED
      BY <1>7, <2>1, <2>2
  <1>11. CASE RenderFails(m)
    <2>1. AttemptFails(m) /\ UNCHANGED <<phase, unsubscribed, deadLetters, copies, mailed,
                                         refused, faults>>
      BY <1>11, Zenon DEF RenderFails
    <2>2. RestTyped'
      BY <1>1, <1>2, <2>1, AttemptStep DEF RestTyped
    <2> QED
      BY <1>6, <2>1, <2>2
  <1>12. CASE ProgressFails(m)
    <2>1. AttemptFails(m) /\ UNCHANGED <<phase, unsubscribed, deadLetters, copies, mailed,
                                         refused>>
      BY <1>12, Zenon DEF ProgressFails
    <2>2. faults' \in [FaultKinds -> Nat]
      BY <1>1, <1>12, FaultStep DEF ProgressFails, FaultKinds
    <2>3. RestTyped'
      BY <1>1, <1>2, <2>1, <2>2, AttemptStep DEF RestTyped
    <2> QED
      BY <1>6, <2>1, <2>3
  <1>13. CASE SendFails(m)
    <2>1. AttemptFails(m) /\ UNCHANGED <<phase, unsubscribed, deadLetters, copies, mailed,
                                         refused>>
      BY <1>13, Zenon DEF SendFails
    <2>2. faults' \in [FaultKinds -> Nat]
      BY <1>1, <1>13, FaultStep DEF SendFails, FaultKinds
    <2>3. RestTyped'
      BY <1>1, <1>2, <2>1, <2>2, AttemptStep DEF RestTyped
    <2> QED
      BY <1>6, <2>1, <2>3
  <1>14. CASE Complete(m)
    <2>1. /\ jobs' = [jobs EXCEPT ![m].state = "completed"] /\ hand' = EmptyHand
          /\ RestTyped'
      BY <1>1, <1>14 DEF Complete, RestTyped
    <2> QED
      BY <1>3, <1>4, <1>5, <2>1, StateMoves DEF JobMoves
  <1> QED
    BY <1>8, <1>9, <1>10, <1>11, <1>12, <1>13, <1>14 DEF Worker
-----------------------------------------------------------------------------
(* TypeInv is inductive.                                                   *)
LEMMA TypeInit == Init => TypeInv
  <1> SUFFICES ASSUME Init
               PROVE  TypeInv
    OBVIOUS
  <1>1. EmailTypeOK
    BY EmailAssumption DEF Init, EmailTypeOK, Phases, Stages, Record, Job, NoJob, NoRecord,
                           EmptyHand, FaultKinds, AttemptsOf
  <1>2. JobsSound
    BY DEF Init, JobsSound, NoJob, Held
  <1> QED
    BY <1>1, <1>2 DEF TypeInv

(* The steps that leave requests, records, jobs and hand alone.            *)
LEMMA OtherSteps ==
  ASSUME TypeInv, RestTyped', UNCHANGED <<requests, deliveryLog, jobs, hand>>
  PROVE  TypeInv'
  BY DEF TypeInv, EmailTypeOK, JobsSound, RestTyped, Held

(* The end of the process forgets what only the process knew.              *)
LEMMA DeathKeepsType ==
  ASSUME TypeInv, NEW kind \in FaultKinds, Fault(kind), ProcessDies
  PROVE  TypeInv'
  <1> USE RestNow
  <1>0. /\ EmailTypeOK /\ RestTyped
        /\ requests \in [Messages -> Stages]
        /\ \A n \in Messages : jobs[n].attemptsMade <= AttemptsOf(jobs[n])
    BY DEF TypeInv, EmailTypeOK
  <1>00. \A n \in Messages :
           /\ jobs[n].state \in {"waiting", "active", "delayed"} =>
                 jobs[n].attemptsMade < AttemptsOf(jobs[n])
           /\ requests[n] \in {"new", "adding"} => jobs[n] = NoJob
           /\ jobs[n].state = "none" => jobs[n] = NoJob
    BY DEF TypeInv, JobsSound
  <1>1. faults' \in [FaultKinds -> Nat]
    BY <1>0, FaultStep
  <1>2. RestTyped'
    BY <1>0, <1>1 DEF ProcessDies, RestTyped, Phases
  <1>3. /\ jobs' = jobs /\ hand' = EmptyHand
        /\ deliveryLog' = [m \in Messages |-> NoRecord]
        /\ requests' = [m \in Messages |->
             IF requests[m] \in {"adding", "added"} THEN "LOST" ELSE requests[m]]
    BY Zenon DEF ProcessDies
  <1>4. requests' \in [Messages -> Stages]
    BY <1>0, <1>3 DEF Stages
  <1>5. EmailTypeOK'
    BY <1>0, <1>2, <1>3, <1>4 DEF EmailTypeOK, RestTyped, Record
  <1>6. \A n \in Messages : ~(Held(n))'
    BY <1>3 DEF Held
  <1>7. \A n \in Messages : requests'[n] \in {"new", "adding"} => requests[n] = "new"
    BY <1>3
  <1>8. \A n \in Messages : deliveryLog'[n] = NoRecord
    BY <1>3
  <1>9. JobsSound'
    BY <1>00, <1>3, <1>6, <1>7, <1>8 DEF JobsSound
  <1> QED
    BY <1>5, <1>9 DEF TypeInv

LEMMA TypeStep == TypeInv /\ [Next]_vars => TypeInv'
  <1> SUFFICES ASSUME TypeInv, [Next]_vars
               PROVE  TypeInv'
    OBVIOUS
  <1> USE RestNow
  <1>0. /\ EmailTypeOK /\ RestTyped
        /\ requests \in [Messages -> Stages]
        /\ jobs \in [Messages -> Job]
        /\ deliveryLog \in [Messages -> Record]
        /\ hand \in {EmptyHand} \cup [step : Steps, id : Messages]
        /\ \A n \in Messages : jobs[n].attemptsMade <= AttemptsOf(jobs[n])
        /\ \A n \in Messages :
              jobs[n] # NoJob /\ deliveryLog[n] # NoRecord => jobs[n].to = deliveryLog[n].to
    BY DEF TypeInv, EmailTypeOK
  <1>00. \A n \in Messages :
           /\ Held(n) => jobs[n].state = "active"
           /\ jobs[n].state \in {"waiting", "active", "delayed"} =>
                 jobs[n].attemptsMade < AttemptsOf(jobs[n])
           /\ requests[n] \in {"new", "adding"} => jobs[n] = NoJob
           /\ requests[n] = "new" => deliveryLog[n] = NoRecord
           /\ jobs[n].state = "none" => jobs[n] = NoJob
    BY DEF TypeInv, JobsSound
  <1>1. CASE RegisterProcessor
    BY <1>1, OtherSteps DEF RegisterProcessor, RestTyped, Phases
  <1>2. CASE SdkLoaded
    BY <1>2, OtherSteps DEF SdkLoaded, RestTyped, Phases
  <1>3. CASE Restart
    BY <1>3, DeathKeepsType DEF Restart, FaultKinds
  <1>4. ASSUME NEW m \in Messages, NEW to \in SUBSET Addresses, QueueEmail(m, to)
        PROVE  TypeInv'
    <2>1. /\ RestTyped' /\ jobs' = jobs /\ hand' = hand /\ requests[m] = "new"
          /\ jobs[m] = NoJob
      BY <1>0, <1>00, <1>4 DEF QueueEmail, RestTyped
    <2>2. /\ requests' \in [Messages -> Stages]
          /\ \A n \in Messages : n # m => requests'[n] = requests[n]
          /\ requests'[m] \in {"DROPPED", "adding"}
      BY <1>0, <1>4 DEF QueueEmail, Stages
    <2>3. /\ deliveryLog' \in [Messages -> Record]
          /\ \A n \in Messages : n # m => deliveryLog'[n] = deliveryLog[n]
      BY <1>0, <1>4 DEF QueueEmail, Record
    <2>4. EmailTypeOK'
      BY <1>0, <2>1, <2>2, <2>3 DEF EmailTypeOK, RestTyped
    <2>5. JobsSound'
      BY <1>00, <2>1, <2>2, <2>3 DEF JobsSound, Held
    <2> QED
      BY <2>4, <2>5 DEF TypeInv
  <1>5. ASSUME NEW m \in Messages, AddJob(m)
        PROVE  TypeInv'
    <2> DEFINE job == [NoJob EXCEPT !.state = "waiting", !.to = deliveryLog[m].to,
                                    !.attempts = MaxAttempts]
    <2>1. /\ RestTyped' /\ deliveryLog' = deliveryLog /\ hand' = hand
          /\ requests[m] = "adding" /\ jobs' = [jobs EXCEPT ![m] = job]
      BY <1>0, <1>5 DEF AddJob, RestTyped
    <2>2. /\ requests' \in [Messages -> Stages]
          /\ \A n \in Messages : n # m => requests'[n] = requests[n]
          /\ requests'[m] = "added"
      BY <1>0, <1>5 DEF AddJob, Stages
    <2>3. /\ job \in Job /\ job.state = "waiting" /\ job.to = deliveryLog[m].to
          /\ job.attemptsMade = 0 /\ job.attemptsMade < AttemptsOf(job)
      <3>1. deliveryLog[m].to \in SUBSET Addresses
        BY <1>0 DEF Record, NoRecord
      <3>2. NoJob \in Job /\ NoJob.attemptsMade = 0
        BY DEF NoJob, Job
      <3>3. /\ job.state = "waiting" /\ job.attemptsMade = 0 /\ job.attempts = MaxAttempts
            /\ job.to = deliveryLog[m].to
        BY DEF NoJob
      <3> QED
        <4>1. job \in Job
          BY <3>1, <3>2, EmailAssumption DEF Job
        <4>2. 0 < AttemptsOf(job)
          BY <3>3, EmailAssumption DEF AttemptsOf
        <4> QED
          BY <3>3, <4>1, <4>2
    <2>4. jobs[m] = NoJob /\ ~Held(m)
      BY <1>00, <2>1 DEF NoJob
    <2> HIDE DEF job
    <2>5. EmailTypeOK'
      <3>1. /\ jobs' \in [Messages -> Job]
            /\ \A n \in Messages : n # m => jobs'[n] = jobs[n]
            /\ jobs'[m] = job
        BY <1>0, <2>1, <2>3
      <3>2. \A n \in Messages : jobs'[n].attemptsMade <= AttemptsOf(jobs'[n])
        BY <1>0, <2>3, <3>1 DEF AttemptsOf, Job
      <3>3. \A n \in Messages :
              jobs'[n] # NoJob /\ deliveryLog'[n] # NoRecord => jobs'[n].to = deliveryLog'[n].to
        BY <1>0, <2>1, <2>3, <3>1
      <3> QED
        BY <1>0, <2>1, <2>2, <3>1, <3>2, <3>3 DEF EmailTypeOK, RestTyped
    <2>6. JobsSound'
      BY <1>0, <1>00, <2>1, <2>2, <2>3, <2>4 DEF JobsSound, Held
    <2> QED
      BY <2>5, <2>6 DEF TypeInv
  <1>6. ASSUME NEW m \in Messages, QueueEmailReturns(m)
        PROVE  TypeInv'
    <2>1. /\ RestTyped' /\ UNCHANGED <<deliveryLog, jobs, hand>>
          /\ requests' \in [Messages -> Stages]
          /\ \A n \in Messages : n # m => requests'[n] = requests[n]
          /\ requests'[m] = "QUEUED"
      BY <1>0, <1>6 DEF QueueEmailReturns, RestTyped, Stages
    <2>2. EmailTypeOK'
      BY <1>0, <2>1 DEF EmailTypeOK, RestTyped
    <2>3. JobsSound'
      BY <1>00, <2>1 DEF JobsSound, Held
    <2> QED
      BY <2>2, <2>3 DEF TypeInv
  <1>7. ASSUME NEW m \in Messages, AddJobFails(m)
        PROVE  TypeInv'
    <2>1. /\ UNCHANGED <<jobs, hand>> /\ deliveryLog' = Status(m, "FAILED")
          /\ requests' \in [Messages -> Stages]
          /\ \A n \in Messages : n # m => requests'[n] = requests[n]
          /\ requests'[m] = "FAILED"
      BY <1>0, <1>7 DEF AddJobFails, Stages
    <2>2. faults' \in [FaultKinds -> Nat]
      BY <1>0, <1>7, FaultStep DEF AddJobFails, FaultKinds
    <2>3. RestTyped'
      BY <1>0, <1>7, <2>2 DEF AddJobFails, RestTyped
    <2>4. /\ deliveryLog' \in [Messages -> Record]
          /\ \A n \in Messages : /\ deliveryLog'[n].to = deliveryLog[n].to
                                 /\ deliveryLog'[n] = NoRecord <=> deliveryLog[n] = NoRecord
      BY <1>0, <2>1, StatusStep
    <2>5. EmailTypeOK'
      BY <1>0, <2>1, <2>3, <2>4 DEF EmailTypeOK, RestTyped
    <2>6. JobsSound'
      BY <1>00, <2>1, <2>4 DEF JobsSound, Held
    <2> QED
      BY <2>5, <2>6 DEF TypeInv
  <1>8. ASSUME NEW m \in Messages,
               TakeJob(m) \/ BackoffEnds(m) \/ StalledCheck(m) \/ Worker(m)
        PROVE  TypeInv'
    BY <1>8, QueueMoves, WorkerMoves, MovesKeepType
  <1>9. ASSUME NEW m \in Messages, DeadLetter(m)
        PROVE  TypeInv'
    BY <1>0, <1>9, OtherSteps DEF DeadLetter, RestTyped
  <1>10. ASSUME NEW m \in Messages, DeadLetterFails(m)
         PROVE  TypeInv'
    BY <1>10, DeathKeepsType DEF DeadLetterFails, FaultKinds
  <1>13. ASSUME NEW m \in Messages, NEW to \in SUBSET Addresses, NEW k \in DirectAttempts,
                AddDirectly(m, to, k)
         PROVE  TypeInv'
    <2> DEFINE job == [NoJob EXCEPT !.state = "waiting", !.to = to, !.attempts = k]
    <2>1. /\ RestTyped' /\ deliveryLog' = deliveryLog /\ hand' = hand
          /\ requests[m] = "new" /\ jobs' = [jobs EXCEPT ![m] = job]
      BY <1>0, <1>13 DEF AddDirectly, RestTyped
    <2>2. /\ requests' \in [Messages -> Stages]
          /\ \A n \in Messages : n # m => requests'[n] = requests[n]
          /\ requests'[m] = "DIRECT"
      BY <1>0, <1>13 DEF AddDirectly, Stages
    <2>3. /\ job \in Job /\ job.state = "waiting"
          /\ job.attemptsMade = 0 /\ job.attemptsMade < AttemptsOf(job)
      <3>1. k \in Nat
        BY EmailAssumption
      <3>2. NoJob \in Job /\ NoJob.attemptsMade = 0
        BY DEF NoJob, Job
      <3>3. job.state = "waiting" /\ job.attemptsMade = 0 /\ job.attempts = k
        BY DEF NoJob
      <3> QED
        <4>1. job \in Job
          BY <3>1, <3>2 DEF Job
        <4>2. 0 < AttemptsOf(job)
          BY <3>1, <3>3 DEF AttemptsOf
        <4> QED
          BY <3>3, <4>1, <4>2
    <2>4. jobs[m] = NoJob /\ ~Held(m) /\ deliveryLog[m] = NoRecord
      BY <1>00, <2>1 DEF NoJob
    <2> HIDE DEF job
    <2>5. EmailTypeOK'
      <3>1. /\ jobs' \in [Messages -> Job]
            /\ \A n \in Messages : n # m => jobs'[n] = jobs[n]
            /\ jobs'[m] = job
        BY <1>0, <2>1, <2>3
      <3>2. \A n \in Messages : jobs'[n].attemptsMade <= AttemptsOf(jobs'[n])
        BY <1>0, <2>3, <3>1 DEF AttemptsOf, Job
      <3>3. \A n \in Messages :
              jobs'[n] # NoJob /\ deliveryLog'[n] # NoRecord => jobs'[n].to = deliveryLog'[n].to
        BY <1>0, <2>1, <2>4, <3>1
      <3> QED
        BY <1>0, <2>1, <2>2, <3>1, <3>2, <3>3 DEF EmailTypeOK, RestTyped
    <2>6. JobsSound'
      BY <1>0, <1>00, <2>1, <2>2, <2>3, <2>4 DEF JobsSound, Held
    <2> QED
      BY <2>5, <2>6 DEF TypeInv
  <1>11. ASSUME NEW a \in Addresses,
                ProcessUnsubscribeToken(a) \/ HandleWebhookEvent(a) \/ Resubscribe(a)
         PROVE  TypeInv'
    <2>1. UNCHANGED <<phase, requests, deliveryLog, jobs, hand, failing, deadLetters,
                      copies, mailed, faults>>
      BY <1>11, Zenon DEF ProcessUnsubscribeToken, HandleWebhookEvent, Resubscribe
    <2>2. unsubscribed' \subseteq Addresses /\ refused' \subseteq Addresses
      BY <1>0, <1>11 DEF ProcessUnsubscribeToken, HandleWebhookEvent, Resubscribe, RestTyped
    <2> QED
      BY <1>0, <2>1, <2>2, OtherSteps DEF RestTyped
  <1>12. CASE UNCHANGED vars
    BY <1>0, <1>12, OtherSteps DEF vars, RestTyped
  <1> QED
    BY <1>1, <1>2, <1>3, <1>4, <1>5, <1>6, <1>7, <1>8, <1>9, <1>10, <1>11, <1>12, <1>13,
       Zenon DEF Next

(* The types of the emails: every record has the recipients of its job and *)
(* no job has more attempts than the queue allows (email.service.ts:90-98, *)
(* 111-117).                                                               *)
THEOREM EmailTypes == Spec => []EmailTypeOK
  <1>1. TypeInv => EmailTypeOK
    BY DEF TypeInv
  <1> QED
    BY <1>1, TypeInit, TypeStep, PTL DEF Spec
-----------------------------------------------------------------------------
(* The first process: none has ended yet.                                  *)

(* In the first process every job that queueEmail has made, and every      *)
(* request that Redis is asked to store, has its record; an active job is  *)
(* in the worker's hand; there are no jobs before requests are served; and *)
(* only a job sends mails.                                                 *)
FirstProcess ==
    FirstRun =>
      \A m \in Messages :
        /\ (jobs[m].state # "none" /\ requests[m] # "DIRECT") \/ requests[m] = "adding" =>
              deliveryLog[m] # NoRecord
        /\ jobs[m].state = "active" => Held(m)
        /\ phase # "ready" => jobs[m] = NoJob /\ requests[m] = "new"
        /\ copies[m] > 0 => jobs[m].state # "none"

(* The counters of faults only grow.                                       *)
LEMMA FaultsGrow ==
  ASSUME TypeInv, [Next]_vars
  PROVE  \A k \in FaultKinds : faults[k] \in Nat /\ faults'[k] \in Nat /\ faults[k] <= faults'[k]
  <1>1. EmailTypeOK /\ faults \in [FaultKinds -> Nat]
    BY DEF TypeInv, EmailTypeOK
  <1>2. faults' = faults \/ \E kind \in FaultKinds : Fault(kind)
    <2>1. ASSUME Restart \/ \E m \in Messages : DeadLetterFails(m)
          PROVE  \E kind \in FaultKinds : Fault(kind)
      BY <2>1 DEF Restart, DeadLetterFails, FaultKinds
    <2>2. CASE RegisterProcessor \/ SdkLoaded
      BY <2>2 DEF RegisterProcessor, SdkLoaded
    <2>3. ASSUME NEW m \in Messages, NEW to \in SUBSET Addresses, QueueEmail(m, to)
          PROVE  faults' = faults
      BY <2>3 DEF QueueEmail
    <2>10. ASSUME NEW m \in Messages, NEW to \in SUBSET Addresses, NEW k \in DirectAttempts,
                  AddDirectly(m, to, k)
           PROVE  faults' = faults
      BY <2>10 DEF AddDirectly
    <2>4. ASSUME NEW m \in Messages,
                 AddJob(m) \/ QueueEmailReturns(m) \/ TakeJob(m) \/ BackoffEnds(m)
                   \/ StalledCheck(m) \/ DeadLetter(m)
          PROVE  faults' = faults
      BY <2>4, Zenon DEF AddJob, QueueEmailReturns, TakeJob, BackoffEnds, StalledCheck, DeadLetter
    <2>5. ASSUME NEW m \in Messages, AddJobFails(m)
          PROVE  Fault("redis")
      BY <2>5 DEF AddJobFails
    <2>6. ASSUME NEW m \in Messages, Worker(m)
          PROVE  faults' = faults \/ Fault("redis") \/ Fault("sendgrid")
      BY <2>6, Zenon DEF Worker, HandleEmail, RenderFails, ProgressFails, SendGridAccepts,
                         SendReturns, SendFails, Complete
    <2>7. ASSUME NEW a \in Addresses,
                 ProcessUnsubscribeToken(a) \/ HandleWebhookEvent(a) \/ Resubscribe(a)
          PROVE  faults' = faults
      BY <2>7, Zenon DEF ProcessUnsubscribeToken, HandleWebhookEvent, Resubscribe
    <2>8. CASE UNCHANGED vars
      BY <2>8, Zenon DEF vars
    <2>9. "redis" \in FaultKinds /\ "sendgrid" \in FaultKinds
      BY DEF FaultKinds
    <2> QED
      BY <2>1, <2>2, <2>3, <2>4, <2>5, <2>6, <2>7, <2>8, <2>9, <2>10, Zenon DEF Next
  <1>3. ASSUME NEW kind \in FaultKinds, Fault(kind)
        PROVE  \A k \in FaultKinds : faults'[k] \in Nat /\ faults[k] <= faults'[k]
    BY <1>1, <1>3, FaultStep
  <1> QED
    BY <1>1, <1>2, <1>3

(* The end of a process is counted.                                        *)
LEMMA DeathBreaks ==
  ASSUME TypeInv, Restart \/ \E m \in Messages : DeadLetterFails(m)
  PROVE  ~FirstRun'
  <1>1. PICK kind \in {"restart", "exit"} : Fault(kind)
    BY DEF Restart, DeadLetterFails
  <1>2. EmailTypeOK /\ faults[kind] \in Nat /\ kind \in FaultKinds
    BY DEF TypeInv, EmailTypeOK, FaultKinds
  <1>3. faults'[kind] = faults[kind] + 1
    BY <1>1, <1>2, FaultStep
  <1> QED
    BY <1>2, <1>3 DEF FirstRun

LEMMA FirstInit == Init => FirstProcess /\ LinkIsHonoured
  BY DEF Init, FirstProcess, LinkIsHonoured, NoJob

LEMMA FirstStep == TypeInv /\ FirstProcess /\ [Next]_vars => FirstProcess'
  <1> DEFINE Goal(n) ==
        /\ (jobs[n].state # "none" /\ requests[n] # "DIRECT") \/ requests[n] = "adding" =>
              deliveryLog[n] # NoRecord
        /\ jobs[n].state = "active" => Held(n)
        /\ phase # "ready" => jobs[n] = NoJob /\ requests[n] = "new"
        /\ copies[n] > 0 => jobs[n].state # "none"
  <1> SUFFICES ASSUME TypeInv, FirstProcess, [Next]_vars, FirstRun'
               PROVE  \A n \in Messages : (Goal(n))'
    BY DEF FirstProcess
  <1>1. FirstRun
    BY FaultsGrow DEF FirstRun, FaultKinds
  <1>2. \A n \in Messages : Goal(n)
    BY <1>1 DEF FirstProcess
  <1>3. /\ EmailTypeOK
        /\ requests \in [Messages -> Stages]
        /\ jobs \in [Messages -> Job]
        /\ deliveryLog \in [Messages -> Record]
        /\ copies \in [Messages -> Nat]
    BY DEF TypeInv, EmailTypeOK
  <1>4. /\ \A m \in Messages : requests[m] \in {"new", "adding"} => jobs[m] = NoJob
        /\ \A m \in Messages : Held(m) => jobs[m].state = "active"
    BY DEF TypeInv, JobsSound
  <1>5. NoJob.state = "none"
    BY DEF NoJob
  <1>6. ~Restart /\ \A m \in Messages : ~DeadLetterFails(m)
    BY DeathBreaks
  <1>7. ASSUME RegisterProcessor \/ SdkLoaded
        PROVE  \A n \in Messages : (Goal(n))'
    <2>1. UNCHANGED <<requests, deliveryLog, jobs, hand, copies>> /\ phase # "ready"
      BY <1>7 DEF RegisterProcessor, SdkLoaded
    <2> QED
      BY <1>2, <1>5, <2>1 DEF Held
  <1>8. ASSUME NEW m \in Messages, NEW to \in SUBSET Addresses, QueueEmail(m, to)
        PROVE  \A n \in Messages : (Goal(n))'
    <2>1. UNCHANGED <<phase, jobs, hand, copies>> /\ phase = "ready" /\ requests[m] = "new"
      BY <1>8 DEF QueueEmail
    <2>2. /\ \A n \in Messages : n # m => requests'[n] = requests[n]
          /\ \A n \in Messages : n # m => deliveryLog'[n] = deliveryLog[n]
          /\ requests'[m] = "adding" => deliveryLog'[m] # NoRecord
      BY <1>3, <1>8 DEF QueueEmail, NoRecord
    <2>3. jobs[m].state = "none"
      BY <1>4, <1>5, <2>1
    <2> QED
      BY <1>2, <2>1, <2>2, <2>3 DEF Held
  <1>9. ASSUME NEW m \in Messages, AddJob(m)
        PROVE  \A n \in Messages : (Goal(n))'
    <2>1. UNCHANGED <<phase, deliveryLog, hand, copies>> /\ requests[m] = "adding"
      BY <1>9 DEF AddJob
    <2>2. /\ \A n \in Messages : n # m => requests'[n] = requests[n] /\ jobs'[n] = jobs[n]
          /\ requests'[m] = "added" /\ jobs'[m].state = "waiting"
      BY <1>3, <1>9 DEF AddJob, NoJob
    <2> QED
      BY <1>2, <2>1, <2>2 DEF Held
  <1>17. ASSUME NEW m \in Messages, NEW to \in SUBSET Addresses, NEW k \in DirectAttempts,
                AddDirectly(m, to, k)
         PROVE  \A n \in Messages : (Goal(n))'
    <2>1. UNCHANGED <<phase, deliveryLog, hand, copies>> /\ phase = "ready"
      BY <1>17 DEF AddDirectly
    <2>2. /\ \A n \in Messages : n # m => requests'[n] = requests[n] /\ jobs'[n] = jobs[n]
          /\ requests'[m] = "DIRECT" /\ jobs'[m].state = "waiting"
      BY <1>3, <1>17 DEF AddDirectly, NoJob
    <2> QED
      BY <1>2, <2>1, <2>2 DEF Held
  <1>10. ASSUME NEW m \in Messages, QueueEmailReturns(m) \/ AddJobFails(m)
         PROVE  \A n \in Messages : (Goal(n))'
    <2>1. /\ UNCHANGED <<phase, jobs, hand, copies>>
          /\ requests[m] \in {"adding", "added"}
          /\ \A n \in Messages : n # m => requests'[n] = requests[n]
          /\ requests'[m] \in {"QUEUED", "FAILED"}
      BY <1>3, <1>10 DEF QueueEmailReturns, AddJobFails
    <2>2. \A n \in Messages : deliveryLog'[n] = NoRecord <=> deliveryLog[n] = NoRecord
      BY <1>3, <1>10, StatusStep DEF QueueEmailReturns, AddJobFails
    <2> QED
      BY <1>2, <2>1, <2>2 DEF Held
  <1>11. ASSUME NEW m \in Messages,
                TakeJob(m) \/ BackoffEnds(m) \/ StalledCheck(m) \/ Worker(m)
         PROVE  \A n \in Messages : (Goal(n))'
    <2>1. JobMoves(m)
      BY <1>11, QueueMoves, WorkerMoves
    <2>2. /\ requests' = requests
          /\ \A n \in Messages : deliveryLog'[n] = NoRecord <=> deliveryLog[n] = NoRecord
          /\ \A n \in Messages : n # m => jobs'[n] = jobs[n]
          /\ jobs[m].state # "none" /\ jobs'[m].state # "none"
      BY <2>1 DEF JobMoves
    <2>3. phase' = phase
      BY <1>11, Zenon DEF TakeJob, BackoffEnds, StalledCheck, Worker, HandleEmail, RenderFails,
                          ProgressFails, SendGridAccepts, SendReturns, SendFails, Complete
    <2>4. phase' = "ready"
      BY <1>2, <1>5, <2>2, <2>3
    <2>5. \A n \in Messages : n # m => copies'[n] = copies[n]
      <3>1. copies' = copies \/ copies' = [copies EXCEPT ![m] = @ + 1]
        BY <1>11, Zenon
           DEF TakeJob, BackoffEnds, StalledCheck, Worker, HandleEmail, RenderFails,
               ProgressFails, SendGridAccepts, SendReturns, SendFails, Complete
      <3> QED
        BY <1>3, <3>1
    <2>8. ~StalledCheck(m)
      <3>1. ASSUME StalledCheck(m)
            PROVE  FALSE
        <4>1. Held(m) /\ Abandoned(m)
          BY <1>2, <3>1 DEF StalledCheck, Abandoned
        <4>2. PICK n \in Messages, s \in Steps : At(s, n)
          BY <1>3, <4>1, HandCases DEF Held
        <4>3. n = m
          BY <4>1, <4>2, HandAt DEF Held
        <4> QED
          BY <4>1, <4>2, <4>3 DEF Abandoned
      <3> QED
        BY <3>1
    <2>9. ASSUME NEW n \in Messages, jobs'[n].state = "active"
          PROVE  (Held(n))'
      <3>1. CASE TakeJob(m)
        <4>1. hand' = [step |-> "progress10", id |-> m] /\ hand = EmptyHand
          BY <3>1 DEF TakeJob
        <4>2. n = m
          BY <1>2, <2>2, <2>9, <4>1 DEF Held
        <4> QED
          BY <4>1, <4>2 DEF Held, EmptyHand
      <3>2. CASE BackoffEnds(m)
        <4>1. hand' = hand /\ jobs'[m].state = "waiting"
          BY <1>3, <3>2 DEF BackoffEnds
        <4> QED
          BY <1>2, <2>2, <2>9, <4>1 DEF Held
      <3>3. CASE Worker(m)
        <4>1. PICK s \in Steps : At(s, m)
          BY <3>3 DEF Worker, HandleEmail, RenderFails, ProgressFails, SendGridAccepts,
                      SendReturns, SendFails, Complete, Steps
        <4>2. n = m
          BY <1>2, <2>2, <2>9, <4>1, HandAt DEF Held
        <4>3. \/ hand' = EmptyHand /\ jobs'[m].state \in {"delayed", "failed", "completed"}
              \/ \E t \in Steps : hand' = [step |-> t, id |-> m]
          <5>1. CASE AttemptFails(m)
            BY <4>1, <5>1, AttemptStep
          <5>2. CASE Complete(m)
            BY <1>3, <5>2 DEF Complete
          <5>3. CASE HandleEmail(m) \/ SendGridAccepts(m) \/ SendReturns(m)
            BY <4>1, <5>3, HandAt DEF HandleEmail, SendGridAccepts, SendReturns, Steps
          <5> QED
            BY <3>3, <5>1, <5>2, <5>3 DEF Worker, RenderFails, ProgressFails, SendFails
        <4> QED
          BY <2>9, <4>2, <4>3 DEF Held, EmptyHand, Steps
      <3> QED
        BY <1>11, <2>8, <3>1, <3>2, <3>3
    <2> QED
      BY <1>2, <2>2, <2>4, <2>5, <2>9
  <1>12. ASSUME UNCHANGED <<phase, requests, deliveryLog, jobs, hand, copies>>
         PROVE  \A n \in Messages : (Goal(n))'
    BY <1>2, <1>12 DEF Held
  <1>13. ASSUME NEW m \in Messages, DeadLetter(m)
         PROVE  UNCHANGED <<phase, requests, deliveryLog, jobs, hand, copies>>
    BY <1>13 DEF DeadLetter
  <1>14. ASSUME NEW a \in Addresses,
                ProcessUnsubscribeToken(a) \/ HandleWebhookEvent(a) \/ Resubscribe(a)
         PROVE  UNCHANGED <<phase, requests, deliveryLog, jobs, hand, copies>>
    BY <1>14, Zenon DEF ProcessUnsubscribeToken, HandleWebhookEvent, Resubscribe
  <1>15. ASSUME UNCHANGED vars
         PROVE  UNCHANGED <<phase, requests, deliveryLog, jobs, hand, copies>>
    BY <1>15, Zenon DEF vars
  <1> HIDE DEF Goal
  <1> QED
    BY <1>6, <1>7, <1>8, <1>9, <1>10, <1>11, <1>12, <1>13, <1>14, <1>15, <1>17, Zenon
       DEF Next

(* Only a refused token adds to refused, and then its address is in no     *)
(* record.                                                                 *)
LEMMA LinkStep ==
  TypeInv /\ FirstProcess /\ LinkIsHonoured /\ [Next]_vars => LinkIsHonoured'
  <1> SUFFICES ASSUME TypeInv, FirstProcess, LinkIsHonoured, [Next]_vars, FirstRun'
               PROVE  refused' = {}
    BY DEF LinkIsHonoured
  <1>1. FirstRun /\ refused = {}
    BY FaultsGrow DEF FirstRun, FaultKinds, LinkIsHonoured
  <1>2. ASSUME NEW a \in Addresses, HasLink(a)
        PROVE  DecodeUnsubscribeToken(a)
    <2>1. PICK m \in Messages : copies[m] > 0 /\ requests[m] # "DIRECT" /\ a \in jobs[m].to
      BY <1>2 DEF HasLink
    <2>2. jobs[m].state # "none" /\ deliveryLog[m] # NoRecord
      BY <1>1, <2>1 DEF FirstProcess
    <2>3. jobs[m] # NoJob
      BY <2>2 DEF NoJob
    <2>4. jobs[m].to = deliveryLog[m].to
      BY <2>2, <2>3 DEF TypeInv, EmailTypeOK
    <2> QED
      BY <2>1, <2>4 DEF DecodeUnsubscribeToken
  <1>3. ASSUME NEW a \in Addresses, ProcessUnsubscribeToken(a)
        PROVE  refused' = refused
    BY <1>2, <1>3 DEF ProcessUnsubscribeToken
  <1>4. ASSUME NEW a \in Addresses, HandleWebhookEvent(a) \/ Resubscribe(a)
        PROVE  refused' = refused
    BY <1>4 DEF HandleWebhookEvent, Resubscribe
  <1>5. ASSUME NEW m \in Messages, NEW to \in SUBSET Addresses,
               QueueEmail(m, to) \/ \E k \in DirectAttempts : AddDirectly(m, to, k)
        PROVE  refused' = refused
    BY <1>5, Zenon DEF QueueEmail, AddDirectly
  <1>6. ASSUME NEW m \in Messages,
               AddJob(m) \/ QueueEmailReturns(m) \/ AddJobFails(m) \/ TakeJob(m) \/ Worker(m)
                 \/ BackoffEnds(m) \/ StalledCheck(m) \/ DeadLetter(m) \/ DeadLetterFails(m)
        PROVE  refused' = refused
    BY <1>6, Zenon DEF AddJob, QueueEmailReturns, AddJobFails, TakeJob, Worker, BackoffEnds,
                       StalledCheck, DeadLetter, DeadLetterFails, ProcessDies, HandleEmail,
                       RenderFails, ProgressFails, SendGridAccepts, SendReturns, SendFails,
                       Complete
  <1>7. ASSUME RegisterProcessor \/ SdkLoaded \/ Restart \/ UNCHANGED vars
        PROVE  refused' = refused
    BY <1>7, Zenon DEF RegisterProcessor, SdkLoaded, Restart, ProcessDies, vars
  <1> QED
    BY <1>1, <1>3, <1>4, <1>5, <1>6, <1>7, Zenon DEF Next

(* As long as its process lives the unsubscribe link of every mail it has  *)
(* sent is honoured (email.service.ts:385-399); it may end by itself over  *)
(* a dead letter it cannot add (jobs.service.ts:68, main.ts:30-37).        *)
THEOREM LinksAreHonoured == Spec => []LinkIsHonoured
  <1> DEFINE Inv == TypeInv /\ FirstProcess /\ LinkIsHonoured
  <1>1. Init => Inv
    BY TypeInit, FirstInit
  <1>2. Inv /\ [Next]_vars => Inv'
    BY TypeStep, FirstStep, LinkStep
  <1>3. Inv => LinkIsHonoured
    OBVIOUS
  <1> HIDE DEF Inv
  <1> QED
    BY <1>1, <1>2, <1>3, PTL DEF Spec

-----------------------------------------------------------------------------
(* The outcome of a job when neither Redis nor the process fails.          *)

Quiet == FirstRun /\ faults["redis"] = 0

(* Between SendGrid's acceptance and the end of the job the mail is out,   *)
(* and once the send has returned the record, if there is one, says so.    *)
Outcomes ==
    Quiet =>
      \A m \in Messages :
        /\ At("accepted", m) => copies[m] > 0
        /\ At("progress100", m) =>
              copies[m] > 0 /\ (requests[m] = "DIRECT" \/ deliveryLog[m].status = "SENT")

LEMMA OutcomeInit == Init => Outcomes /\ OutcomeIsReported
  <1> SUFFICES ASSUME Init, NEW m \in Messages
               PROVE  /\ ~At("accepted", m) /\ ~At("progress100", m)
                      /\ jobs[m].state = "none"
    BY DEF Outcomes, OutcomeIsReported
  <1>1. hand = EmptyHand /\ jobs[m].state = "none"
    BY DEF Init, NoJob
  <1> QED
    BY <1>1, HandAt DEF Steps

LEMMA OutcomeStep ==
  TypeInv /\ FirstProcess /\ Outcomes /\ OutcomeIsReported /\ [Next]_vars
    => Outcomes' /\ OutcomeIsReported'
  <1> DEFINE Tells(n) == requests[n] = "DIRECT" \/ deliveryLog[n].status = "SENT"
             Out(n) ==
               /\ At("accepted", n) => copies[n] > 0
               /\ At("progress100", n) => copies[n] > 0 /\ Tells(n)
               /\ jobs[n].state = "completed" => copies[n] > 0 /\ Tells(n)
               /\ jobs[n].state = "failed" =>
                     /\ deliveryLog[n].status # "SENT"
                     /\ jobs[n].attempts = 0 \/ n \in failing \cup deadLetters
  <1> SUFFICES ASSUME TypeInv, FirstProcess, Outcomes, OutcomeIsReported, [Next]_vars, Quiet'
               PROVE  \A n \in Messages : Out(n)'
    BY DEF Outcomes, OutcomeIsReported, Quiet
  <1>1. Quiet /\ FirstRun
    BY FaultsGrow DEF Quiet, FirstRun, FaultKinds
  <1>2. \A n \in Messages : Out(n)
    BY <1>1 DEF Outcomes, OutcomeIsReported, Quiet
  <1>3. \A m \in Messages :
           /\ jobs[m].state # "none" => requests[m] = "DIRECT" \/ deliveryLog[m] # NoRecord
           /\ jobs[m].state = "active" => Held(m)
           /\ phase # "ready" => jobs[m] = NoJob /\ requests[m] = "new"
    BY <1>1 DEF FirstProcess
  <1>4. /\ EmailTypeOK
        /\ jobs \in [Messages -> Job]
        /\ deliveryLog \in [Messages -> Record]
        /\ copies \in [Messages -> Nat]
        /\ requests \in [Messages -> Stages]
        /\ \A m \in Messages : requests[m] \in {"new", "adding"} => jobs[m] = NoJob
        /\ \A m \in Messages : Held(m) => jobs[m].state = "active"
        /\ NoJob.state = "none"
    BY DEF TypeInv, EmailTypeOK, JobsSound, NoJob
  <1>5. ~Fault("redis") /\ ~Fault("restart") /\ ~Fault("exit")
    <2>1. ASSUME NEW k \in {"redis", "restart", "exit"}, Fault(k)
          PROVE  FALSE
      <3>1. k \in FaultKinds /\ faults[k] = 0 /\ faults'[k] = 0
        BY <1>1 DEF Quiet, FirstRun, FaultKinds
      <3> QED
        BY <1>4, <2>1, <3>1, FaultStep
    <2> QED
      BY <2>1
  <1>6. ASSUME UNCHANGED <<jobs, hand, copies, deliveryLog>>,
               failing' \cup deadLetters' = failing \cup deadLetters,
               \A n \in Messages : requests[n] = "DIRECT" => requests'[n] = "DIRECT"
        PROVE  \A n \in Messages : Out(n)'
    BY <1>2, <1>6 DEF At
  <1>7. ASSUME NEW m \in Messages, NEW to \in SUBSET Addresses, QueueEmail(m, to)
        PROVE  \A n \in Messages : Out(n)'
    <2>1. UNCHANGED <<jobs, hand, copies, failing, deadLetters>> /\ jobs[m].state = "none"
      BY <1>4, <1>7 DEF QueueEmail
    <2>2. \A n \in Messages : n # m => deliveryLog'[n] = deliveryLog[n] /\ requests'[n] = requests[n]
      BY <1>4, <1>7 DEF QueueEmail
    <2>3. ~Held(m)
      BY <1>4, <2>1
    <2>4. Out(m)'
      BY <2>1, <2>3, HandAt DEF At, Steps, Held, EmptyHand
    <2> QED
      BY <1>2, <2>1, <2>2, <2>4 DEF At
  <1>17. ASSUME NEW m \in Messages,
                UNCHANGED <<deliveryLog, hand, copies, failing, deadLetters>>,
                jobs[m] = NoJob, jobs'[m].state = "waiting",
                \A n \in Messages : n # m => jobs'[n] = jobs[n] /\ requests'[n] = requests[n]
         PROVE  \A n \in Messages : Out(n)'
    <2>1. ~Held(m)
      BY <1>4, <1>17
    <2>2. Out(m)'
      BY <1>17, <2>1, HandAt DEF At, Steps, Held, EmptyHand
    <2> QED
      BY <1>2, <1>17, <2>2 DEF At
  <1>8. ASSUME NEW m \in Messages, AddJob(m)
        PROVE  \A n \in Messages : Out(n)'
    <2>1. /\ UNCHANGED <<deliveryLog, hand, copies, failing, deadLetters>>
          /\ requests[m] = "adding"
      BY <1>8 DEF AddJob
    <2>2. /\ \A n \in Messages : n # m => jobs'[n] = jobs[n] /\ requests'[n] = requests[n]
          /\ jobs'[m].state = "waiting"
      BY <1>4, <1>8 DEF AddJob, NoJob
    <2> QED
      BY <1>4, <1>17, <2>1, <2>2
  <1>18. ASSUME NEW m \in Messages, NEW to \in SUBSET Addresses, NEW k \in DirectAttempts,
                AddDirectly(m, to, k)
         PROVE  \A n \in Messages : Out(n)'
    <2>1. /\ UNCHANGED <<deliveryLog, hand, copies, failing, deadLetters>>
          /\ requests[m] = "new"
      BY <1>18 DEF AddDirectly
    <2>2. /\ \A n \in Messages : n # m => jobs'[n] = jobs[n] /\ requests'[n] = requests[n]
          /\ jobs'[m].state = "waiting"
      BY <1>4, <1>18 DEF AddDirectly, NoJob
    <2> QED
      BY <1>4, <1>17, <2>1, <2>2
  <1>9. ASSUME NEW m \in Messages, TakeJob(m) \/ BackoffEnds(m)
        PROVE  \A n \in Messages : Out(n)'
    <2>1. UNCHANGED <<requests, deliveryLog, copies, failing, deadLetters>>
      BY <1>9, Zenon DEF TakeJob, BackoffEnds
    <2>2. /\ \A n \in Messages : n # m => jobs'[n] = jobs[n]
          /\ jobs'[m].state \in {"active", "waiting"}
          /\ hand' = hand \/ hand' = [step |-> "progress10", id |-> m]
      <3>1. /\ jobs' = [jobs EXCEPT ![m].state = "active"] \/ jobs' = [jobs EXCEPT ![m].state = "waiting"]
            /\ hand' = hand \/ hand' = [step |-> "progress10", id |-> m]
        BY <1>9, Zenon DEF TakeJob, BackoffEnds
      <3>2. jobs[m] \in Job
        BY <1>4
      <3> QED
        BY <1>4, <3>1, <3>2 DEF Job
    <2> QED
      BY <1>2, <2>1, <2>2 DEF At
  <1>10. ASSUME NEW m \in Messages, StalledCheck(m)
         PROVE  FALSE
    <2>1. Held(m) /\ Abandoned(m)
      BY <1>3, <1>10 DEF StalledCheck, Abandoned
    <2>2. PICK n \in Messages, s \in Steps : At(s, n)
      BY <1>4, <2>1, HandCases DEF Held
    <2>3. n = m
      BY <2>1, <2>2, HandAt DEF Held
    <2> QED
      BY <2>1, <2>2, <2>3 DEF Abandoned
  <1>11. ASSUME NEW m \in Messages, Worker(m)
         PROVE  \A n \in Messages : Out(n)'
    <2>1. PICK s \in Steps : At(s, m)
      BY <1>11 DEF Worker, HandleEmail, RenderFails, ProgressFails, SendGridAccepts,
                   SendReturns, SendFails, Complete, Steps
    <2>2. /\ jobs[m].state = "active" /\ phase = "ready"
          /\ requests[m] = "DIRECT" \/ deliveryLog[m] # NoRecord
      BY <1>3, <1>4, <2>1, HandAt
    <2>3. UNCHANGED <<requests, deadLetters>>
      BY <1>11, Zenon DEF Worker, HandleEmail, RenderFails, ProgressFails, SendGridAccepts,
                          SendReturns, SendFails, Complete
    <2>4. ASSUME \A n \in Messages : /\ n # m => jobs'[n] = jobs[n]
                                     /\ n # m => deliveryLog'[n] = deliveryLog[n]
                                     /\ n # m => copies'[n] = copies[n],
                 failing \subseteq failing', 
                 hand' = EmptyHand \/ \E t \in Steps : hand' = [step |-> t, id |-> m],
                 Out(m)'
          PROVE  \A n \in Messages : Out(n)'
      <3> SUFFICES ASSUME NEW n \in Messages, n # m
                   PROVE  Out(n)'
        BY <2>4
      <3>1. ~At("accepted", n)' /\ ~At("progress100", n)'
        BY <2>4 DEF At, EmptyHand
      <3> QED
        BY <1>2, <2>3, <2>4, <3>1
    <2>5. CASE HandleEmail(m)
      <3>1. /\ hand' = [step |-> "sending", id |-> m] /\ deliveryLog' = Status(m, "SENDING")
            /\ UNCHANGED <<jobs, failing, copies>>
        BY <2>1, <2>2, <2>5, HandAt DEF HandleEmail
      <3>2. \A n \in Messages : n # m => deliveryLog'[n] = deliveryLog[n]
        BY <1>4, <3>1, StatusStep
      <3>3. Out(m)'
        BY <2>2, <3>1 DEF At
      <3> QED
        BY <2>4, <3>1, <3>2, <3>3 DEF Steps
    <2>6. CASE RenderFails(m) \/ SendFails(m)
      <3>1. AttemptFails(m) /\ UNCHANGED copies
        BY <2>6, Zenon DEF RenderFails, SendFails
      <3>2. PICK status \in {"SENDING", "FAILED"} : deliveryLog' = Status(m, status)
        BY <2>6 DEF RenderFails, SendFails
      <3>3. /\ \A n \in Messages : n # m => deliveryLog'[n] = deliveryLog[n]
            /\ deliveryLog'[m].status # "SENT"
        BY <1>4, <3>2, StatusStep DEF NoRecord
      <3>4. /\ \A n \in Messages : n # m => jobs'[n] = jobs[n]
            /\ hand' = EmptyHand
            /\ failing \subseteq failing'
            /\ jobs'[m].state \in {"delayed", "failed"}
            /\ jobs'[m].state = "failed" => jobs'[m].attempts = 0 \/ m \in failing'
        BY <2>1, <3>1, AttemptStep
      <3>5. Out(m)'
        BY <3>3, <3>4 DEF At, EmptyHand
      <3> QED
        BY <2>4, <3>1, <3>3, <3>4, <3>5
    <2>7. CASE SendGridAccepts(m)
      <3>1. /\ hand' = [step |-> "accepted", id |-> m]
            /\ UNCHANGED <<jobs, failing, deliveryLog>>
        BY <2>1, <2>7, HandAt DEF SendGridAccepts
      <3>2. /\ \A n \in Messages : n # m => copies'[n] = copies[n]
            /\ copies'[m] > 0
        BY <1>4, <2>7 DEF SendGridAccepts
      <3>3. Out(m)'
        BY <2>2, <3>1, <3>2 DEF At
      <3> QED
        BY <2>4, <3>1, <3>2, <3>3 DEF Steps
    <2>8. CASE SendReturns(m)
      <3>1. /\ At("accepted", m) /\ hand' = [step |-> "progress100", id |-> m]
            /\ deliveryLog' = Status(m, "SENT")
            /\ UNCHANGED <<jobs, failing, copies>>
        BY <2>1, <2>8, HandAt DEF SendReturns
      <3>2. /\ \A n \in Messages : n # m => deliveryLog'[n] = deliveryLog[n]
            /\ requests'[m] = "DIRECT" \/ deliveryLog'[m].status = "SENT"
        BY <1>4, <2>2, <2>3, <3>1, StatusStep
      <3>3. Out(m)'
        BY <1>2, <2>2, <3>1, <3>2 DEF At
      <3> QED
        BY <2>4, <3>1, <3>2, <3>3 DEF Steps
    <2>9. CASE Complete(m)
      <3>1. /\ At("progress100", m) /\ hand' = EmptyHand
            /\ UNCHANGED <<deliveryLog, failing, copies>>
        BY <2>9 DEF Complete
      <3>2. /\ \A n \in Messages : n # m => jobs'[n] = jobs[n]
            /\ jobs'[m].state = "completed"
        BY <1>4, <2>9 DEF Complete
      <3>3. Out(m)'
        BY <1>2, <2>3, <3>1, <3>2 DEF At, EmptyHand
      <3> QED
        BY <2>4, <3>1, <3>2, <3>3
    <2>10. CASE ProgressFails(m)
      BY <1>5, <2>10 DEF ProgressFails
    <2> QED
      BY <1>11, <2>5, <2>6, <2>7, <2>8, <2>9, <2>10 DEF Worker
  <1>12. ASSUME NEW m \in Messages, DeadLetter(m) \/ QueueEmailReturns(m)
         PROVE  /\ UNCHANGED <<jobs, hand, copies, deliveryLog>>
                /\ failing' \cup deadLetters' = failing \cup deadLetters
                /\ \A n \in Messages : requests[n] = "DIRECT" => requests'[n] = "DIRECT"
    BY <1>4, <1>12 DEF DeadLetter, QueueEmailReturns
  <1>13. ASSUME NEW m \in Messages, DeadLetterFails(m) \/ AddJobFails(m)
         PROVE  FALSE
    BY <1>5, <1>13 DEF DeadLetterFails, AddJobFails
  <1>14. ASSUME NEW a \in Addresses,
                ProcessUnsubscribeToken(a) \/ HandleWebhookEvent(a) \/ Resubscribe(a)
         PROVE  UNCHANGED <<requests, jobs, hand, copies, deliveryLog, failing, deadLetters>>
    BY <1>14, Zenon DEF ProcessUnsubscribeToken, HandleWebhookEvent, Resubscribe
  <1>15. ASSUME RegisterProcessor \/ SdkLoaded \/ UNCHANGED vars
         PROVE  UNCHANGED <<requests, jobs, hand, copies, deliveryLog, failing, deadLetters>>
    BY <1>15, Zenon DEF RegisterProcessor, SdkLoaded, vars
  <1>16. ~Restart
    BY <1>5 DEF Restart
  <1> HIDE DEF Out
  <1> QED
    BY <1>6, <1>7, <1>8, <1>9, <1>10, <1>11, <1>12, <1>13, <1>14, <1>15, <1>16, <1>18
       DEF Next

(* When neither Redis nor the process fails, a completed job was accepted  *)
(* by SendGrid and its record, if it has one, says SENT; one out of        *)
(* attempts is on its way to the dead letters or there unless it asked for *)
(* zero of them, and its record does not say SENT (email.service.ts:179,   *)
(* jobs.service.ts:65-69).                                                 *)
THEOREM OutcomesAreReported == Spec => []OutcomeIsReported
  <1> DEFINE Inv == TypeInv /\ FirstProcess /\ Outcomes /\ OutcomeIsReported
  <1>1. Init => Inv
    BY TypeInit, FirstInit, OutcomeInit
  <1>2. Inv /\ [Next]_vars => Inv'
    BY TypeStep, FirstStep, OutcomeStep
  <1>3. Inv => OutcomeIsReported
    OBVIOUS
  <1> HIDE DEF Inv
  <1> QED
    BY <1>1, <1>2, <1>3, PTL DEF Spec
-----------------------------------------------------------------------------
(* Resends: what each message has been accepted for beyond what is still   *)
(* needed, against the faults.                                             *)

(* The end of the job of m does not yet follow from an accepted copy.      *)
Open(m) == /\ jobs[m].state \notin {"completed", "failed"}
           /\ ~At("accepted", m) /\ ~At("progress100", m)

ExcessOf(m) == IF Open(m) THEN copies[m] ELSE IF copies[m] = 0 THEN 0 ELSE copies[m] - 1

Excess == [m \in Messages |-> ExcessOf(m)]

(* An open message may be accepted once more without a further fault, so   *)
(* all its copies count.                                                   *)
ExcessPaid == SumFunctionOnSet(Excess, Messages) <= SumFunctionOnSet(faults, FaultKinds)

LEMMA ExcessNat ==
  ASSUME TypeInv
  PROVE  /\ \A m \in Messages : ExcessOf(m) \in Nat /\ Excess[m] = ExcessOf(m)
         /\ \A m \in Messages : Excess[m] \in Int
         /\ IsFiniteSet(Messages) /\ IsFiniteSet(FaultKinds)
  <1>1. \A m \in Messages : copies[m] \in Nat
    BY DEF TypeInv, EmailTypeOK
  <1>2. \A m \in Messages : ExcessOf(m) \in Nat
    BY <1>1 DEF ExcessOf
  <1>3. IsFiniteSet(FaultKinds)
    <2>1. FaultKinds = ((({} \cup {"restart"}) \cup {"redis"}) \cup {"sendgrid"}) \cup {"exit"}
      BY DEF FaultKinds
    <2> QED
      BY <2>1, FS_EmptySet, FS_AddElement, Zenon
  <1> QED
    BY <1>2, <1>3, EmailAssumption DEF Excess

(* A message that does not open again has no greater excess.               *)
LEMMA ExcessKept ==
  ASSUME TypeInv, NEW m \in Messages, copies'[m] = copies[m], (Open(m))' => Open(m)
  PROVE  (ExcessOf(m))' <= ExcessOf(m)
  <1>1. copies[m] \in Nat
    BY DEF TypeInv, EmailTypeOK
  <1> QED
    BY <1>1 DEF ExcessOf

(* One that opens again has one more.                                      *)
LEMMA ExcessOpened ==
  ASSUME TypeInv, NEW m \in Messages, copies'[m] = copies[m]
  PROVE  (ExcessOf(m))' <= ExcessOf(m) + 1
  <1>1. copies[m] \in Nat
    BY DEF TypeInv, EmailTypeOK
  <1> QED
    BY <1>1 DEF ExcessOf

(* A job that is neither moved nor dropped from the hand does not open.    *)
LEMMA StaysShut ==
  ASSUME NEW m \in Messages, jobs'[m] = jobs[m], hand' = hand \/ ~Held(m)
  PROVE  (Open(m))' => Open(m)
  <1>1. CASE hand' = hand
    BY <1>1 DEF Open, At
  <1>2. CASE ~Held(m)
    <2>1. ~At("accepted", m) /\ ~At("progress100", m)
      BY <1>2, HandAt DEF Steps
    <2> QED
      BY <2>1 DEF Open
  <1> QED
    BY <1>1, <1>2

(* A step adds to the excess of one message at most, by one at most, and   *)
(* only with a fault.                                                      *)
NoMore == \A n \in Messages : (ExcessOf(n))' <= ExcessOf(n)

OneMore(m) ==
    /\ (ExcessOf(m))' <= ExcessOf(m) + 1
    /\ \A n \in Messages : n # m => (ExcessOf(n))' <= ExcessOf(n)

LEMMA ExcessStep ==
  ASSUME TypeInv, [Next]_vars
  PROVE  \/ NoMore
         \/ \E k \in FaultKinds : Fault(k) /\ (NoMore \/ \E m \in Messages : OneMore(m))
  <1>1. /\ EmailTypeOK
        /\ jobs \in [Messages -> Job]
        /\ copies \in [Messages -> Nat]
        /\ \A m \in Messages : requests[m] \in {"new", "adding"} => jobs[m] = NoJob
        /\ \A m \in Messages : Held(m) => jobs[m].state = "active"
        /\ NoJob.state = "none"
    BY DEF TypeInv, EmailTypeOK, JobsSound, NoJob
  <1>2. ASSUME UNCHANGED <<jobs, hand, copies>>
        PROVE  NoMore
    BY <1>2, StaysShut, ExcessKept DEF NoMore
  <1>3. ASSUME Restart \/ \E m \in Messages : DeadLetterFails(m)
        PROVE  \E k \in FaultKinds : Fault(k) /\ (NoMore \/ \E m \in Messages : OneMore(m))
    <2>1. /\ UNCHANGED <<jobs, copies>> /\ hand' = EmptyHand
          /\ \E k \in FaultKinds : Fault(k)
      BY <1>3 DEF Restart, DeadLetterFails, ProcessDies, FaultKinds
    <2>2. CASE hand = EmptyHand
      BY <1>2, <2>1, <2>2
    <2>3. CASE hand # EmptyHand
      <3>1. PICK m \in Messages, s \in Steps : At(s, m)
        BY <1>1, <2>3, HandCases
      <3>2. \A n \in Messages : n # m => ~Held(n)
        BY <3>1, HandAt DEF Held
      <3>3. \A n \in Messages : n # m => (ExcessOf(n))' <= ExcessOf(n)
        BY <2>1, <3>2, StaysShut, ExcessKept
      <3>4. (ExcessOf(m))' <= ExcessOf(m) + 1
        BY <2>1, ExcessOpened
      <3> QED
        BY <2>1, <3>3, <3>4 DEF OneMore
    <2> QED
      BY <2>2, <2>3
  <1>4. ASSUME RegisterProcessor \/ SdkLoaded \/ UNCHANGED vars
        PROVE  UNCHANGED <<jobs, hand, copies>>
    BY <1>4, Zenon DEF RegisterProcessor, SdkLoaded, vars
  <1>5. ASSUME NEW m \in Messages, NEW to \in SUBSET Addresses, QueueEmail(m, to)
        PROVE  UNCHANGED <<jobs, hand, copies>>
    BY <1>5 DEF QueueEmail
  <1>6. ASSUME NEW m \in Messages,
               QueueEmailReturns(m) \/ AddJobFails(m) \/ DeadLetter(m)
        PROVE  UNCHANGED <<jobs, hand, copies>>
    BY <1>6, Zenon DEF QueueEmailReturns, AddJobFails, DeadLetter
  <1>7. ASSUME NEW a \in Addresses,
               ProcessUnsubscribeToken(a) \/ HandleWebhookEvent(a) \/ Resubscribe(a)
        PROVE  UNCHANGED <<jobs, hand, copies>>
    BY <1>7, Zenon DEF ProcessUnsubscribeToken, HandleWebhookEvent, Resubscribe
  <1>8. ASSUME NEW m \in Messages,
               \/ AddJob(m)
               \/ \E to \in SUBSET Addresses, k \in DirectAttempts : AddDirectly(m, to, k)
        PROVE  NoMore
    <2>1. UNCHANGED <<hand, copies>> /\ jobs[m].state = "none"
      BY <1>1, <1>8 DEF AddJob, AddDirectly
    <2>2. \A n \in Messages : n # m => jobs'[n] = jobs[n]
      BY <1>1, <1>8 DEF AddJob, AddDirectly
    <2>3. Open(m)
      <3>1. ~Held(m)
        BY <1>1, <2>1
      <3> QED
        BY <2>1, <3>1, HandAt DEF Open, Steps
    <2> QED
      BY <2>1, <2>2, <2>3, StaysShut, ExcessKept DEF NoMore
  <1>9. ASSUME NEW m \in Messages, TakeJob(m) \/ BackoffEnds(m) \/ StalledCheck(m)
        PROVE  NoMore
    <2>1. /\ UNCHANGED copies
          /\ jobs[m].state \in {"waiting", "delayed", "active"}
          /\ \A n \in Messages : n # m => jobs'[n] = jobs[n]
      <3>1. JobMoves(m)
        BY <1>9, QueueMoves
      <3>2. UNCHANGED copies /\ jobs[m].state \in {"waiting", "delayed", "active"}
        BY <1>9, Zenon DEF TakeJob, BackoffEnds, StalledCheck, Abandoned
      <3> QED
        BY <3>1, <3>2 DEF JobMoves
    <2>2. hand' = hand \/ hand = EmptyHand
      BY <1>9, Zenon DEF TakeJob, BackoffEnds, StalledCheck
    <2>3. ~At("accepted", m) /\ ~At("progress100", m)
      <3>1. CASE TakeJob(m) \/ BackoffEnds(m)
        <4>1. jobs[m].state # "active"
          BY <3>1 DEF TakeJob, BackoffEnds
        <4> QED
          BY <1>1, <4>1, HandAt DEF Steps
      <3>2. CASE StalledCheck(m)
        BY <3>2 DEF StalledCheck, Abandoned, Steps
      <3> QED
        BY <1>9, <3>1, <3>2
    <2>4. Open(m)
      BY <2>1, <2>3 DEF Open
    <2>5. \A n \in Messages : hand' = hand \/ ~Held(n)
      BY <2>2 DEF Held
    <2> QED
      BY <2>1, <2>4, <2>5, StaysShut, ExcessKept DEF NoMore
  <1>10. ASSUME NEW m \in Messages, Worker(m)
         PROVE  \/ NoMore
                \/ \E k \in FaultKinds : Fault(k) /\ OneMore(m)
    <2>1. PICK s \in Steps : At(s, m)
      BY <1>10 DEF Worker, HandleEmail, RenderFails, ProgressFails, SendGridAccepts,
                   SendReturns, SendFails, Complete, Steps
    <2>2. jobs[m].state = "active" /\ \A n \in Messages : n # m => ~Held(n)
      BY <1>1, <2>1, HandAt DEF Held
    <2>3. \A n \in Messages : n # m => jobs'[n] = jobs[n]
      BY <1>10, WorkerMoves DEF JobMoves
    <2>4. \A n \in Messages : n # m => copies'[n] = copies[n]
      BY <1>1, <1>10 DEF Worker, HandleEmail, RenderFails, ProgressFails, SendGridAccepts,
                         SendReturns, SendFails, Complete
    <2>5. \A n \in Messages : n # m => (ExcessOf(n))' <= ExcessOf(n)
      BY <2>2, <2>3, <2>4, StaysShut, ExcessKept
    <2>6. ASSUME (ExcessOf(m))' <= ExcessOf(m)
          PROVE  NoMore
      BY <2>5, <2>6 DEF NoMore
    <2>7. CASE SendGridAccepts(m)
      <3>1. /\ At("sending", m) /\ hand' = [step |-> "accepted", id |-> m]
            /\ copies'[m] = copies[m] + 1
        BY <1>1, <2>1, <2>7, HandAt DEF SendGridAccepts
      <3>2. Open(m)
        <4>1. hand.step = "sending"
          BY <3>1, HandAt DEF Steps
        <4>2. ~At("accepted", m) /\ ~At("progress100", m)
          BY <4>1, HandAt DEF Steps
        <4> QED
          BY <2>2, <4>2 DEF Open
      <3>3. ~(Open(m))'
        BY <3>1 DEF Open, At
      <3>4. (ExcessOf(m))' <= ExcessOf(m)
        BY <1>1, <3>1, <3>2, <3>3 DEF ExcessOf
      <3> QED
        BY <2>6, <3>4
    <2>8. CASE copies' = copies /\ \E k \in FaultKinds : Fault(k)
      <3>1. (ExcessOf(m))' <= ExcessOf(m) + 1
        BY <2>8, ExcessOpened
      <3> QED
        BY <2>5, <2>8, <3>1 DEF OneMore
    <2>9. CASE copies' = copies /\ ((Open(m))' => Open(m))
      BY <2>6, <2>9, ExcessKept
    <2>10. CASE ProgressFails(m) \/ SendFails(m)
      BY <2>8, <2>10 DEF ProgressFails, SendFails, FaultKinds
    <2>11. CASE HandleEmail(m) \/ RenderFails(m)
      <3>1. At("progress10", m) /\ copies' = copies
        BY <2>11, Zenon DEF HandleEmail, RenderFails
      <3>2. hand.step = "progress10"
        BY <3>1, HandAt DEF Steps
      <3>3. ~At("accepted", m) /\ ~At("progress100", m)
        BY <3>2, HandAt DEF Steps
      <3> QED
        BY <2>2, <2>9, <3>1, <3>3 DEF Open
    <2>12. CASE SendReturns(m) \/ Complete(m)
      <3>1. copies' = copies /\ ~(Open(m))'
        <4>1. CASE SendReturns(m)
          BY <2>1, <4>1, HandAt DEF SendReturns, Open, At
        <4>2. CASE Complete(m)
          BY <1>1, <4>2 DEF Complete, Open
        <4> QED
          BY <2>12, <4>1, <4>2
      <3> QED
        BY <2>9, <3>1
    <2> QED
      BY <1>10, <2>7, <2>10, <2>11, <2>12 DEF Worker
  <1> QED
    BY <1>2, <1>3, <1>4, <1>5, <1>6, <1>7, <1>8, <1>9, <1>10, Zenon DEF Next

LEMMA ExcessPaidInit == Init => ExcessPaid
  <1> SUFFICES ASSUME Init
               PROVE  ExcessPaid
    OBVIOUS
  <1>1. TypeInv
    BY TypeInit
  <1>2. \A m \in Messages : Excess[m] = 0
    <2>1. \A m \in Messages : copies[m] = 0
      BY DEF Init
    <2> QED
      BY <2>1 DEF Excess, ExcessOf
  <1>3. SumFunctionOnSet(Excess, Messages) = SumFunctionOnSet(Excess, {})
    BY <1>1, <1>2, ExcessNat, SumSupport
  <1>4. \A k \in FaultKinds : faults[k] \in Nat
    BY <1>1 DEF TypeInv, EmailTypeOK
  <1>5. SumFunctionOnSet(faults, FaultKinds) \in Nat
    BY <1>1, <1>4, ExcessNat, SumNat
  <1> QED
    BY <1>3, <1>5, SumEmpty DEF ExcessPaid

LEMMA ExcessPaidStep == TypeInv /\ ExcessPaid /\ [Next]_vars => ExcessPaid'
  <1> SUFFICES ASSUME TypeInv, ExcessPaid, [Next]_vars
               PROVE  ExcessPaid'
    OBVIOUS
  <1> DEFINE Total == SumFunctionOnSet(Excess, Messages)
             Paid == SumFunctionOnSet(faults, FaultKinds)
  <1>1. /\ TypeInv' /\ IsFiniteSet(Messages) /\ IsFiniteSet(FaultKinds)
        /\ \A m \in Messages : Excess[m] \in Int /\ Excess[m] = ExcessOf(m)
    BY TypeStep, ExcessNat
  <1>2. \A m \in Messages : Excess'[m] \in Int /\ Excess'[m] = (ExcessOf(m))'
    <2>1. \A m \in Messages : copies'[m] \in Nat
      BY <1>1 DEF TypeInv, EmailTypeOK
    <2> QED
      BY <2>1 DEF Excess, ExcessOf
  <1>3. Total \in Int /\ Total' \in Int
    BY <1>1, <1>2, SumInt
  <1>4. /\ \A k \in FaultKinds : faults[k] \in Int /\ faults'[k] \in Int
        /\ EmailTypeOK
    BY FaultsGrow DEF TypeInv
  <1>5. Paid \in Int /\ Paid' \in Int
    BY <1>1, <1>4, SumInt
  <1>6. Total <= Paid
    BY DEF ExcessPaid
  <1>7. Paid <= Paid'
    BY <1>1, <1>4, FaultsGrow, SumMonotone
  <1>8. ASSUME NoMore
        PROVE  Total' <= Total
    BY <1>1, <1>2, <1>8, SumMonotone DEF NoMore
  <1>9. ASSUME NEW k \in FaultKinds, Fault(k)
        PROVE  Paid' = Paid + 1
    <2>1. faults'[k] = faults[k] + 1 /\ \A j \in FaultKinds \ {k} : faults[j] = faults'[j]
      BY <1>4, <1>9, FaultStep
    <2>2. Paid' = Paid + (faults'[k] - faults[k])
      BY <1>1, <1>4, <2>1, SumChangeOne
    <2> QED
      BY <1>4, <1>5, <2>1, <2>2
  <1>10. ASSUME NEW m \in Messages, OneMore(m)
         PROVE  Total' <= Total + 1
    <2> DEFINE More == [n \in Messages |-> IF n = m THEN Excess[n] + 1 ELSE Excess[n]]
    <2>1. \A n \in Messages : More[n] \in Int /\ Excess'[n] <= More[n]
      BY <1>1, <1>2, <1>10 DEF OneMore
    <2>2. More[m] = Excess[m] + 1 /\ \A n \in Messages \ {m} : Excess[n] = More[n]
      OBVIOUS
    <2> HIDE DEF More
    <2>3. Total' <= SumFunctionOnSet(More, Messages)
      BY <1>1, <1>2, <2>1, SumMonotone
    <2>4. SumFunctionOnSet(More, Messages) = Total + (More[m] - Excess[m])
      BY <1>1, <2>1, <2>2, SumChangeOne
    <2>5. More[m] - Excess[m] = 1
      BY <1>1, <2>2
    <2> QED
      BY <2>3, <2>4, <2>5
  <1>11. Total' <= Paid'
    <2> HIDE DEF Total, Paid
    <2>1. CASE NoMore
      BY <1>3, <1>5, <1>6, <1>7, <1>8, <2>1
    <2>2. ASSUME NEW k \in FaultKinds, Fault(k), NEW m \in Messages, OneMore(m)
          PROVE  Total' <= Paid'
      <3>1. Paid' = Paid + 1 /\ Total' <= Total + 1
        BY <1>9, <1>10, <2>2
      <3> QED
        BY <1>3, <1>5, <1>6, <3>1
    <2> QED
      BY <2>1, <2>2, ExcessStep
  <1> QED
    BY <1>11 DEF ExcessPaid

(* Every copy of a mail beyond the first is paid for by a lost answer of   *)
(* SendGrid, a failed progress call after the send (jobs.service.ts:119)   *)
(* or the end of a process, by itself over a dead letter or not.           *)
THEOREM ResendsHaveCause == Spec => []ResendHasCause
  <1> DEFINE Inv == TypeInv /\ ExcessPaid
  <1>1. Init => Inv
    BY TypeInit, ExcessPaidInit
  <1>2. Inv /\ [Next]_vars => Inv'
    BY TypeStep, ExcessPaidStep
  <1>3. Inv => ResendHasCause
    <2> SUFFICES ASSUME TypeInv, ExcessPaid
                 PROVE  ResendHasCause
      OBVIOUS
    <2> DEFINE again == [m \in Messages |-> IF copies[m] > 1 THEN copies[m] - 1 ELSE 0]
    <2>1. \A m \in Messages : copies[m] \in Nat
      BY DEF TypeInv, EmailTypeOK
    <2>2. \A m \in Messages : again[m] \in Int /\ again[m] <= ExcessOf(m)
      BY <2>1 DEF ExcessOf
    <2>3. DOMAIN again = Messages /\ DOMAIN faults = FaultKinds
      BY DEF TypeInv, EmailTypeOK
    <2>4. \A k \in FaultKinds : faults[k] \in Int
      BY DEF TypeInv, EmailTypeOK
    <2> HIDE DEF again
    <2>5. SumFunctionOnSet(again, Messages) <= SumFunctionOnSet(Excess, Messages)
      BY <2>2, ExcessNat, SumMonotone
    <2>6. /\ SumFunctionOnSet(again, Messages) \in Int
          /\ SumFunctionOnSet(Excess, Messages) \in Int
          /\ SumFunctionOnSet(faults, FaultKinds) \in Int
      BY <2>2, <2>4, ExcessNat, SumInt
    <2>7. SumFunctionOnSet(again, Messages) <= SumFunctionOnSet(faults, FaultKinds)
      BY <2>5, <2>6 DEF ExcessPaid
    <2> QED
      BY <2>3, <2>7 DEF ResendHasCause, SumFunction, again
  <1> HIDE DEF Inv
  <1> QED
    BY <1>1, <1>2, <1>3, PTL DEF Spec
-----------------------------------------------------------------------------
(* The queue implements MailDelivery.                                      *)

(* What Redis is asked to store has recipients.                            *)
HasRecipients == \A m \in Messages : requests[m] = "adding" => deliveryLog[m].to # {}

StageMap == [m \in Messages |-> StageOf(m)]

RecipientMap == [m \in Messages |-> jobs[m].to]

(* The recipients of a record change only when a request is taken up or    *)
(* the process restarts.                                                   *)
LEMMA HasRecipientsStep == TypeInv /\ HasRecipients /\ [Next]_vars => HasRecipients'
  <1> SUFFICES ASSUME TypeInv, HasRecipients, [Next]_vars
               PROVE  HasRecipients'
    OBVIOUS
  <1>1. /\ EmailTypeOK /\ requests \in [Messages -> Stages]
        /\ deliveryLog \in [Messages -> Record]
    BY DEF TypeInv, EmailTypeOK
  <1>2. ASSUME \A n \in Messages : /\ requests'[n] = "adding" => requests[n] = "adding"
                                   /\ deliveryLog'[n].to = deliveryLog[n].to
        PROVE  HasRecipients'
    BY <1>2 DEF HasRecipients
  <1>3. ASSUME UNCHANGED <<requests, deliveryLog>>
        PROVE  HasRecipients'
    BY <1>3 DEF HasRecipients
  <1>4. ASSUME Restart \/ \E m \in Messages : DeadLetterFails(m)
        PROVE  HasRecipients'
    BY <1>1, <1>4 DEF Restart, DeadLetterFails, ProcessDies, HasRecipients
  <1>5. ASSUME NEW m \in Messages, NEW to \in SUBSET Addresses, QueueEmail(m, to)
        PROVE  HasRecipients'
    <2>1. CASE requests' = [requests EXCEPT ![m] = "DROPPED"] /\ UNCHANGED deliveryLog
      BY <1>1, <1>2, <2>1
    <2>2. CASE /\ to \ unsubscribed # {}
               /\ requests' = [requests EXCEPT ![m] = "adding"]
               /\ deliveryLog' = [deliveryLog EXCEPT ![m] =
                     [status |-> "QUEUED", to |-> to \ unsubscribed]]
      BY <1>1, <2>2 DEF HasRecipients
    <2> QED
      BY <1>5, <2>1, <2>2 DEF QueueEmail
  <1>6. ASSUME NEW m \in Messages,
               \/ AddJob(m) \/ QueueEmailReturns(m)
               \/ \E to \in SUBSET Addresses, k \in DirectAttempts : AddDirectly(m, to, k)
        PROVE  HasRecipients'
    BY <1>1, <1>2, <1>6 DEF AddJob, QueueEmailReturns, AddDirectly
  <1>7. ASSUME NEW m \in Messages, AddJobFails(m)
        PROVE  HasRecipients'
    <2>1. requests' = [requests EXCEPT ![m] = "FAILED"] /\ deliveryLog' = Status(m, "FAILED")
      BY <1>7 DEF AddJobFails
    <2> QED
      BY <1>1, <1>2, <2>1, StatusStep
  <1>8. ASSUME NEW m \in Messages, JobMoves(m)
        PROVE  HasRecipients'
    BY <1>2, <1>8 DEF JobMoves
  <1>9. ASSUME NEW m \in Messages,
               TakeJob(m) \/ Worker(m) \/ BackoffEnds(m) \/ StalledCheck(m)
        PROVE  HasRecipients'
    BY <1>8, <1>9, QueueMoves, WorkerMoves
  <1>10. ASSUME NEW m \in Messages, DeadLetter(m)
         PROVE  HasRecipients'
    BY <1>3, <1>10 DEF DeadLetter
  <1>11. ASSUME NEW a \in Addresses,
                ProcessUnsubscribeToken(a) \/ HandleWebhookEvent(a) \/ Resubscribe(a)
         PROVE  HasRecipients'
    BY <1>3, <1>11, Zenon DEF ProcessUnsubscribeToken, HandleWebhookEvent, Resubscribe
  <1>12. CASE RegisterProcessor \/ SdkLoaded \/ UNCHANGED vars
    BY <1>3, <1>12, Zenon DEF RegisterProcessor, SdkLoaded, vars
  <1> QED
    BY <1>4, <1>5, <1>6, <1>7, <1>9, <1>10, <1>11, <1>12, Zenon DEF Next

-----------------------------------------------------------------------------
(* The stage of a message follows its job and the worker's hand.           *)

LEMMA StageStays ==
  ASSUME NEW n \in Messages, jobs'[n] = jobs[n],
         hand' = hand \/ (~Held(n) /\ ~(Held(n))')
  PROVE  (StageOf(n))' = StageOf(n)
  <1>1. CASE hand' = hand
    BY <1>1 DEF StageOf, Settled, Shut, At
  <1>2. CASE ~Held(n) /\ ~(Held(n))'
    <2>1. ~Shut(n)
      BY <1>2, HandAt DEF Shut, Steps
    <2>2. ~(Shut(n))'
      BY <1>2 DEF Shut, At, Held, EmptyHand
    <2> QED
      BY <2>1, <2>2 DEF StageOf, Settled
  <1> QED
    BY <1>1, <1>2

(* The stages of all messages when one of them moves.                      *)
LEMMA StageMoves ==
  ASSUME NEW m \in Messages, NEW s, (StageOf(m))' = s,
         \A n \in Messages : n # m => (StageOf(n))' = StageOf(n)
  PROVE  /\ StageMap' = [StageMap EXCEPT ![m] = s]
         /\ s = StageOf(m) => StageMap' = StageMap
  BY DEF StageMap

(* A step with the job of m changes no other stage and no recipients.      *)
LEMMA JobMovesStage ==
  ASSUME TypeInv, NEW m \in Messages, JobMoves(m),
         hand = EmptyHand \/ Held(m) \/ hand' = hand
  PROVE  /\ \A n \in Messages : n # m => (StageOf(n))' = StageOf(n)
         /\ RecipientMap' = RecipientMap
         /\ (StageOf(m))' = IF (Settled(m))' THEN "settled"
                            ELSE IF (Shut(m))' THEN "shut" ELSE "open"
  <1>1. \A n \in Messages : n # m => jobs'[n] = jobs[n]
    BY DEF JobMoves
  <1>2. \A n \in Messages : n # m => hand' = hand \/ (~Held(n) /\ ~(Held(n))')
    BY DEF JobMoves, Held
  <1>3. \A n \in Messages : n # m => (StageOf(n))' = StageOf(n)
    BY <1>1, <1>2, StageStays
  <1>4. RecipientMap' = RecipientMap
    BY <1>1 DEF JobMoves, RecipientMap
  <1> QED
    BY <1>3, <1>4 DEF JobMoves, StageOf

(* A fault moves one message at most, and only one that is open or shut.   *)
LEMMA TroubleStep ==
  ASSUME NEW kind \in FaultKinds, Fault(kind), UNCHANGED <<copies, mailed>>,
         RecipientMap' = RecipientMap,
         \/ StageMap' = StageMap
         \/ \E m \in Messages : /\ StageOf(m) \in {"open", "shut"}
                                /\ \/ StageMap' = [StageMap EXCEPT ![m] = "open"]
                                   \/ StageMap' = [StageMap EXCEPT ![m] = "settled"]
  PROVE  Delivery!MailNext
  <1>1. \A m \in Messages : StageMap[m] = StageOf(m)
    BY DEF StageMap
  <1>2. faults' = [faults EXCEPT ![kind] = @ + 1]
    BY DEF Fault
  <1>3. Delivery!Trouble(kind)
    BY <1>1, <1>2 DEF Delivery!Trouble, Delivery!Goes, StageMap, RecipientMap
  <1> QED
    BY <1>3 DEF Delivery!MailNext

(* A job that enters the queue is a request for its recipients.            *)
LEMMA EntersDelivery ==
  ASSUME TypeInv, NEW m \in Messages, jobs[m] = NoJob,
         NEW kept \in SUBSET Addresses, kept # {},
         NEW job, job.state = "waiting", job.to = kept,
         jobs' = [jobs EXCEPT ![m] = job], UNCHANGED <<hand, copies, mailed, faults>>
  PROVE  Delivery!MailNext
  <1>1. jobs \in [Messages -> Job] /\ NoJob.state = "none" /\ ~Held(m)
    BY DEF TypeInv, EmailTypeOK, JobsSound, NoJob
  <1>2. /\ jobs'[m] = job /\ \A n \in Messages : n # m => jobs'[n] = jobs[n]
    BY <1>1
  <1>3. StageOf(m) = "none"
    BY <1>1 DEF StageOf
  <1>4. (StageOf(m))' = "open"
    <2>1. ~(Shut(m))'
      BY <1>1, HandAt DEF Shut, Steps, At
    <2> QED
      BY <1>2, <2>1 DEF StageOf, Settled
  <1>5. StageMap' = [StageMap EXCEPT ![m] = "open"]
    BY <1>2, <1>4, StageStays, StageMoves
  <1>6. RecipientMap' = [RecipientMap EXCEPT ![m] = kept]
    <2>1. jobs'[m].to = kept /\ \A n \in Messages : n # m => jobs'[n].to = jobs[n].to
      BY <1>2
    <2> QED
      BY <2>1 DEF RecipientMap
  <1>7. StageMap[m] = "none"
    BY <1>3 DEF StageMap
  <1>8. Delivery!Request(m, kept)
    BY <1>5, <1>6, <1>7
    DEF Delivery!Request, Delivery!Goes, StageMap, RecipientMap
  <1> QED
    BY <1>8 DEF Delivery!MailNext

LEMMA AddJobDelivery ==
  ASSUME TypeInv, HasRecipients, NEW m \in Messages, AddJob(m)
  PROVE  Delivery!MailNext
  <1>1. PICK kept \in SUBSET Addresses : kept = deliveryLog[m].to /\ kept # {}
    <2>1. deliveryLog[m].to # {} /\ deliveryLog[m].to \in SUBSET Addresses
      BY DEF AddJob, HasRecipients, TypeInv, EmailTypeOK, Record, NoRecord
    <2> QED
      BY <2>1
  <1> DEFINE job == [NoJob EXCEPT !.state = "waiting", !.to = kept, !.attempts = MaxAttempts]
  <1>2. /\ requests[m] = "adding" /\ jobs' = [jobs EXCEPT ![m] = job]
        /\ UNCHANGED <<hand, copies, mailed, faults>>
    BY <1>1 DEF AddJob
  <1>3. jobs[m] = NoJob
    BY <1>2 DEF TypeInv, JobsSound
  <1>4. job.state = "waiting" /\ job.to = kept
    BY DEF NoJob
  <1> HIDE DEF job
  <1> QED
    BY <1>1, <1>2, <1>3, <1>4, EntersDelivery

LEMMA AddDirectlyDelivery ==
  ASSUME TypeInv, NEW m \in Messages, NEW to \in SUBSET Addresses, to # {},
         NEW k \in DirectAttempts, AddDirectly(m, to, k)
  PROVE  Delivery!MailNext
  <1> DEFINE job == [NoJob EXCEPT !.state = "waiting", !.to = to, !.attempts = k]
  <1>1. /\ requests[m] = "new" /\ jobs' = [jobs EXCEPT ![m] = job]
        /\ UNCHANGED <<hand, copies, mailed, faults>>
    BY DEF AddDirectly
  <1>2. jobs[m] = NoJob
    BY <1>1 DEF TypeInv, JobsSound
  <1>3. job.state = "waiting" /\ job.to = to
    BY DEF NoJob
  <1> HIDE DEF job
  <1> QED
    BY <1>1, <1>2, <1>3, EntersDelivery

(* Taking, delaying and checking a job leave its message open; the second  *)
(* stalled check settles it.                                               *)
LEMMA QueueDelivery ==
  ASSUME TypeInv, NEW m \in Messages, TakeJob(m) \/ BackoffEnds(m) \/ StalledCheck(m)
  PROVE  Delivery!MailNext \/ UNCHANGED <<StageMap, RecipientMap, copies, mailed, faults>>
  <1>1. /\ JobMoves(m) /\ UNCHANGED <<copies, mailed, faults>>
        /\ jobs[m].state \in {"waiting", "delayed", "active"}
        /\ hand = EmptyHand \/ hand' = hand
    <2>1. /\ UNCHANGED <<copies, mailed, faults>>
          /\ jobs[m].state \in {"waiting", "delayed", "active"}
          /\ hand = EmptyHand \/ hand' = hand
      BY Zenon DEF TakeJob, BackoffEnds, StalledCheck, Abandoned
    <2> QED
      BY <2>1, QueueMoves
  <1>2. ~Shut(m)
    <2>1. CASE TakeJob(m) \/ BackoffEnds(m)
      <3>1. jobs[m].state # "active"
        BY <2>1 DEF TakeJob, BackoffEnds
      <3> QED
        BY <3>1, HandAt DEF Shut, Steps, TypeInv, JobsSound
    <2>2. CASE StalledCheck(m)
      BY <2>2 DEF StalledCheck, Abandoned, Shut, Steps
    <2> QED
      BY <2>1, <2>2
  <1>3. ~(Shut(m))'
    <2>1. CASE hand' = hand
      BY <1>2, <2>1 DEF Shut, At
    <2>2. CASE TakeJob(m)
      BY <2>2 DEF TakeJob, Shut, At
    <2>3. hand' = hand \/ TakeJob(m)
      BY Zenon DEF BackoffEnds, StalledCheck
    <2> QED
      BY <2>1, <2>2, <2>3
  <1>4. StageOf(m) = "open"
    BY <1>1, <1>2 DEF StageOf, Settled
  <1>5. /\ RecipientMap' = RecipientMap
        /\ (StageOf(m))' \in {"open", "settled"}
        /\ \A n \in Messages : n # m => (StageOf(n))' = StageOf(n)
    BY <1>1, <1>3, JobMovesStage
  <1>6. CASE (StageOf(m))' = "open"
    BY <1>1, <1>4, <1>5, <1>6, StageMoves
  <1>7. CASE (StageOf(m))' = "settled"
    <2>1. StageMap' = [StageMap EXCEPT ![m] = "settled"] /\ StageMap[m] = "open"
      BY <1>4, <1>5, <1>7, StageMoves DEF StageMap
    <2>2. Delivery!Settle(m)
      BY <1>1, <1>5, <2>1 DEF Delivery!Settle, Delivery!Goes, StageMap, RecipientMap
    <2> QED
      BY <2>2 DEF Delivery!MailNext
  <1> QED
    BY <1>5, <1>6, <1>7

LEMMA WorkerDelivery ==
  ASSUME TypeInv, NEW m \in Messages, Worker(m)
  PROVE  Delivery!MailNext \/ UNCHANGED <<StageMap, RecipientMap, copies, mailed, faults>>
  <1>1. PICK s \in Steps : At(s, m)
    BY DEF Worker, HandleEmail, RenderFails, ProgressFails, SendGridAccepts,
           SendReturns, SendFails, Complete, Steps
  <1>2. /\ jobs[m].state = "active" /\ Held(m) /\ hand.step = s
        /\ \A t \in Steps : At(t, m) => t = s
    BY <1>1, HandAt DEF TypeInv, JobsSound
  <1>3. JobMoves(m)
    BY WorkerMoves
  <1>4. /\ \A n \in Messages : n # m => (StageOf(n))' = StageOf(n)
        /\ RecipientMap' = RecipientMap
        /\ (StageOf(m))' = IF (Settled(m))' THEN "settled"
                           ELSE IF (Shut(m))' THEN "shut" ELSE "open"
    BY <1>2, <1>3, JobMovesStage
  <1>5. /\ StageOf(m) = IF s \in {"accepted", "progress100"} THEN "shut" ELSE "open"
        /\ StageMap[m] = StageOf(m) /\ StageOf(m) \in {"open", "shut"}
    BY <1>1, <1>2 DEF StageOf, Settled, Shut, StageMap, Steps
  <1>6. ASSUME NEW t, hand' = [step |-> t, id |-> m], jobs' = jobs
        PROVE  (StageOf(m))' = IF t \in {"accepted", "progress100"} THEN "shut" ELSE "open"
    <2>1. ~(Settled(m))'
      BY <1>2, <1>6 DEF Settled
    <2>2. (Shut(m))' <=> t \in {"accepted", "progress100"}
      BY <1>6 DEF Shut, At
    <2> QED
      BY <1>4, <2>1, <2>2
  <1>7. ASSUME hand' = EmptyHand
        PROVE  (StageOf(m))' \in {"open", "settled"}
    <2>1. ~(Shut(m))'
      BY <1>7 DEF Shut, At, EmptyHand
    <2> QED
      BY <1>4, <2>1
  <1>8. ASSUME NEW to, (StageOf(m))' = to
        PROVE  /\ StageMap' = [StageMap EXCEPT ![m] = to]
               /\ to = StageOf(m) => StageMap' = StageMap
    BY <1>4, <1>8, StageMoves
  <1>9. ASSUME (StageOf(m))' = StageOf(m), UNCHANGED <<copies, mailed, faults>>
        PROVE  UNCHANGED <<StageMap, RecipientMap, copies, mailed, faults>>
    BY <1>4, <1>8, <1>9
  <1>10. ASSUME (StageOf(m))' = "settled", UNCHANGED <<copies, mailed, faults>>
         PROVE  Delivery!MailNext
    <2>1. StageMap' = [StageMap EXCEPT ![m] = "settled"]
      BY <1>8, <1>10
    <2>2. Delivery!Settle(m)
      BY <1>4, <1>5, <1>10, <2>1
      DEF Delivery!Settle, Delivery!Goes, StageMap, RecipientMap
    <2> QED
      BY <2>2 DEF Delivery!MailNext
  <1>11. ASSUME hand' = EmptyHand, UNCHANGED <<copies, mailed>>,
                NEW kind \in FaultKinds, Fault(kind)
         PROVE  Delivery!MailNext
    <2>1. (StageOf(m))' \in {"open", "settled"}
      BY <1>7, <1>11
    <2>2. \/ StageMap' = [StageMap EXCEPT ![m] = "open"]
          \/ StageMap' = [StageMap EXCEPT ![m] = "settled"]
      BY <1>8, <2>1
    <2> QED
      BY <1>4, <1>5, <1>11, <2>2, TroubleStep
  <1>12. CASE HandleEmail(m)
    <2>1. /\ At("progress10", m) /\ UNCHANGED <<jobs, copies, mailed, faults>>
          /\ \/ hand' = [hand EXCEPT !.step = "progress100"]
             \/ hand' = [hand EXCEPT !.step = "sending"]
      BY <1>12, Zenon DEF HandleEmail
    <2>2. s = "progress10"
      BY <1>2, <2>1 DEF Steps
    <2>3. \/ hand' = [step |-> "progress100", id |-> m]
          \/ hand' = [step |-> "sending", id |-> m]
      BY <1>1, <2>1, HandAt
    <2>4. CASE hand' = [step |-> "sending", id |-> m]
      BY <1>5, <1>6, <1>9, <2>1, <2>2, <2>4
    <2>5. CASE hand' = [step |-> "progress100", id |-> m]
      <3>1. StageMap' = [StageMap EXCEPT ![m] = "shut"] /\ StageMap[m] = "open"
        BY <1>5, <1>6, <1>8, <2>1, <2>2, <2>5
      <3>2. Delivery!PassedOver(m)
        BY <1>4, <2>1, <3>1
        DEF Delivery!PassedOver, Delivery!Goes, StageMap, RecipientMap
      <3> QED
        BY <3>2 DEF Delivery!MailNext
    <2> QED
      BY <2>3, <2>4, <2>5
  <1>13. CASE SendGridAccepts(m)
    <2>1. /\ At("sending", m) /\ UNCHANGED <<jobs, faults>>
          /\ hand' = [hand EXCEPT !.step = "accepted"]
          /\ copies' = [copies EXCEPT ![m] = @ + 1]
          /\ mailed' = mailed \cup jobs[m].to
      BY <1>13 DEF SendGridAccepts
    <2>2. s = "sending" /\ hand' = [step |-> "accepted", id |-> m]
      BY <1>1, <1>2, <2>1, HandAt DEF Steps
    <2>3. StageMap' = [StageMap EXCEPT ![m] = "shut"] /\ StageMap[m] = "open"
      BY <1>5, <1>6, <1>8, <2>1, <2>2
    <2>4. mailed' = mailed \cup RecipientMap[m]
      BY <2>1 DEF RecipientMap
    <2>5. Delivery!GoesOut(m)
      BY <1>4, <2>1, <2>3, <2>4
      DEF Delivery!GoesOut, Delivery!Goes, StageMap, RecipientMap
    <2> QED
      BY <2>5 DEF Delivery!MailNext
  <1>14. CASE SendReturns(m)
    <2>1. /\ At("accepted", m) /\ UNCHANGED <<jobs, copies, mailed, faults>>
          /\ hand' = [hand EXCEPT !.step = "progress100"]
      BY <1>14 DEF SendReturns
    <2>2. s = "accepted" /\ hand' = [step |-> "progress100", id |-> m]
      BY <1>1, <1>2, <2>1, HandAt DEF Steps
    <2> QED
      BY <1>5, <1>6, <1>9, <2>1, <2>2
  <1>15. CASE RenderFails(m)
    <2>1. At("progress10", m) /\ AttemptFails(m) /\ UNCHANGED <<copies, mailed, faults>>
      BY <1>15, Zenon DEF RenderFails
    <2>2. s = "progress10" /\ hand' = EmptyHand
      BY <1>1, <1>2, <2>1, AttemptStep DEF Steps
    <2> QED
      BY <1>5, <1>7, <1>9, <1>10, <2>1, <2>2
  <1>16. CASE ProgressFails(m) \/ SendFails(m)
    <2>1. AttemptFails(m) /\ UNCHANGED <<copies, mailed>>
      BY <1>16, Zenon DEF ProgressFails, SendFails
    <2>2. \E kind \in FaultKinds : Fault(kind)
      BY <1>16 DEF ProgressFails, SendFails, FaultKinds
    <2>3. hand' = EmptyHand
      BY <1>1, <2>1, AttemptStep
    <2> QED
      BY <1>11, <2>1, <2>2, <2>3
  <1>17. CASE Complete(m)
    <2>1. /\ jobs' = [jobs EXCEPT ![m].state = "completed"]
          /\ UNCHANGED <<copies, mailed, faults>>
      BY <1>17 DEF Complete
    <2>2. (Settled(m))'
      BY <1>2, <2>1, StateMoves DEF Settled, TypeInv, JobsSound
    <2> QED
      BY <1>4, <1>10, <2>1, <2>2
  <1> QED
    BY <1>12, <1>13, <1>14, <1>15, <1>16, <1>17 DEF Worker

(* The end of a process opens the message that was in the worker's hand,   *)
(* if it was shut.                                                         *)
LEMMA DeathDelivery ==
  ASSUME TypeInv, NEW kind \in FaultKinds, Fault(kind), ProcessDies
  PROVE  Delivery!MailNext
  <1>1. UNCHANGED <<jobs, copies, mailed>> /\ hand' = EmptyHand
    BY DEF ProcessDies
  <1>2. RecipientMap' = RecipientMap
    BY <1>1 DEF RecipientMap
  <1>3. CASE hand = EmptyHand
    <2>1. \A n \in Messages : (StageOf(n))' = StageOf(n)
      BY <1>1, <1>3, StageStays
    <2>2. StageMap' = StageMap
      BY <2>1 DEF StageMap
    <2> QED
      BY <1>1, <1>2, <2>2, TroubleStep
  <1>4. CASE hand # EmptyHand
    <2>1. PICK m \in Messages, s \in Steps : At(s, m)
      BY <1>4, HandCases DEF TypeInv
    <2>2. Held(m) /\ \A n \in Messages : n # m => ~Held(n)
      BY <2>1, HandAt DEF Held
    <2>3. \A n \in Messages : ~(Held(n))'
      BY <1>1 DEF Held
    <2>4. \A n \in Messages : n # m => (StageOf(n))' = StageOf(n)
      BY <1>1, <2>2, <2>3, StageStays
    <2>5. jobs[m].state = "active"
      BY <2>2 DEF TypeInv, JobsSound
    <2>6. StageOf(m) \in {"open", "shut"}
      BY <2>5 DEF StageOf, Settled
    <2>7. (StageOf(m))' = "open"
      BY <1>1, <2>5 DEF StageOf, Settled, Shut, At, EmptyHand
    <2>8. StageMap' = [StageMap EXCEPT ![m] = "open"]
      BY <2>4, <2>7, StageMoves
    <2> QED
      BY <1>1, <1>2, <2>6, <2>8, TroubleStep
  <1> QED
    BY <1>3, <1>4

LEMMA DeliveryStep ==
  ASSUME TypeInv, HasRecipients, [Next]_vars
  PROVE  Delivery!MailNext \/ UNCHANGED <<StageMap, RecipientMap, copies, mailed, faults>>
  <1>1. ASSUME UNCHANGED <<jobs, hand>>
        PROVE  StageMap' = StageMap /\ RecipientMap' = RecipientMap
    BY <1>1 DEF StageMap, RecipientMap, StageOf, Settled, Shut, At
  <1>2. ASSUME UNCHANGED <<jobs, hand, copies, mailed, faults>>
        PROVE  UNCHANGED <<StageMap, RecipientMap, copies, mailed, faults>>
    BY <1>1, <1>2
  <1>3. ASSUME Restart \/ \E m \in Messages : DeadLetterFails(m)
        PROVE  Delivery!MailNext
    BY <1>3, DeathDelivery DEF Restart, DeadLetterFails, FaultKinds
  <1>4. ASSUME NEW m \in Messages, NEW to \in SUBSET Addresses, QueueEmail(m, to)
        PROVE  UNCHANGED <<jobs, hand, copies, mailed, faults>>
    BY <1>4 DEF QueueEmail
  <1>5. ASSUME NEW m \in Messages, AddJob(m)
        PROVE  Delivery!MailNext
    BY <1>5, AddJobDelivery, Zenon
  <1>10. ASSUME NEW m \in Messages, NEW to \in SUBSET Addresses, to # {},
                NEW k \in DirectAttempts, AddDirectly(m, to, k)
         PROVE  Delivery!MailNext
    BY <1>10, AddDirectlyDelivery, Zenon
  <1>6. ASSUME NEW m \in Messages, AddJobFails(m)
        PROVE  Delivery!MailNext
    <2>1. UNCHANGED <<jobs, hand, copies, mailed>> /\ Fault("redis") /\ "redis" \in FaultKinds
      BY <1>6 DEF AddJobFails, FaultKinds
    <2> QED
      BY <1>1, <2>1, TroubleStep
  <1>7. ASSUME NEW m \in Messages, QueueEmailReturns(m) \/ DeadLetter(m)
        PROVE  UNCHANGED <<jobs, hand, copies, mailed, faults>>
    BY <1>7 DEF QueueEmailReturns, DeadLetter
  <1>8. ASSUME NEW a \in Addresses,
               ProcessUnsubscribeToken(a) \/ HandleWebhookEvent(a) \/ Resubscribe(a)
        PROVE  UNCHANGED <<jobs, hand, copies, mailed, faults>>
    BY <1>8, Zenon DEF ProcessUnsubscribeToken, HandleWebhookEvent, Resubscribe
  <1>9. CASE RegisterProcessor \/ SdkLoaded \/ UNCHANGED vars
    BY <1>2, <1>9, Zenon DEF RegisterProcessor, SdkLoaded, vars
  <1> QED
    BY <1>2, <1>3, <1>4, <1>5, <1>6, <1>7, <1>8, <1>9, <1>10, QueueDelivery, WorkerDelivery,
       Zenon DEF Next

(* The recipients of a queued message never change, it goes out only while *)
(* it is open, a new fault is needed to open it again, and once settled it *)
(* never goes out (jobs.service.ts:55-69, 109-121).                        *)
THEOREM DeliveryImplemented == Spec => ImplementsDelivery
  <1> DEFINE Inv == TypeInv /\ HasRecipients
  <1>1. Init => Inv
    <2>1. Init => HasRecipients
      BY DEF Init, HasRecipients
    <2> QED
      BY <2>1, TypeInit
  <1>2. Inv /\ [Next]_vars => Inv'
    BY TypeStep, HasRecipientsStep
  <1>3. Init => Delivery!MailInit
    BY DEF Init, Delivery!MailInit, StageOf, NoJob
  <1>4. Inv /\ [Next]_vars => [Delivery!MailNext]_(Delivery!mailVars)
    BY DeliveryStep DEF Delivery!mailVars, StageMap, RecipientMap
  <1> HIDE DEF Inv
  <1> QED
    BY <1>1, <1>2, <1>3, <1>4, PTL DEF Spec, ImplementsDelivery, Delivery!MailSpec

=============================================================================
