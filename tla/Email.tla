-------------------------------- MODULE Email --------------------------------
(***************************************************************************)
(* The emails of the backend: the email service                            *)
(* (BackEnd/src/modules/email/email.service.ts) and the part of the jobs   *)
(* service (modules/jobs/jobs.service.ts) that carries them through the    *)
(* BullMQ queue to SendGrid; jobs also enter the email queue through the   *)
(* jobs controller (modules/jobs/jobs.controller.ts), past the service.    *)
(*                                                                         *)
(* The queue lives in Redis and survives a restart; the delivery log and   *)
(* the unsubscribe list are Maps of the process and do not.  The worker    *)
(* takes one job at a time (no concurrency is configured).  An action is   *)
(* the code between two awaits; a job is delivered at least once, and a    *)
(* job of a process that died is found by BullMQ and put back.             *)
(*                                                                         *)
(* SendGrid is configured and its SDK installed.                           *)
(***************************************************************************)
EXTENDS Naturals, FiniteSets, Functions

CONSTANTS
    Messages,      \* requests to send an email, and the messages they become
    Addresses,     \* recipients
    Unrenderable,  \* messages whose templateData makes the template throw
    Unlinked,      \* messages without an unsubscribe link: password resets
    MaxAttempts,   \* DEFAULT_JOB_OPTIONS.attempts
    DirectAttempts,  \* attempts that callers of the jobs controller ask for
    MaxFaults      \* bound on failed calls and restarts

ASSUME EmailAssumption ==
    /\ IsFiniteSet(Messages)
    /\ Unrenderable \cup Unlinked \subseteq Messages
    /\ DirectAttempts \subseteq Nat
    /\ MaxAttempts \in Nat \ {0}
    /\ MaxFaults \in Nat

VARIABLES
    phase,        \* how far the process has come with its onModuleInit hooks
    requests,     \* the state of every request: message -> stage of queueEmail
    deliveryLog,  \* the delivery records: message -> record
    unsubscribed, \* the keys of unsubscribeList
    jobs,         \* the email queue in Redis: message -> job
    hand,         \* the job in the worker's hand and where it is
    failing,      \* jobs whose 'failed' handler is adding to the dead letters
    deadLetters,  \* the dead_letter queue
    copies,       \* times SendGrid has accepted each message
    mailed,       \* addresses that have been sent a mail
    refused,      \* addresses whose unsubscribe link has been refused
    faults        \* faults so far, of each kind

vars == <<phase, requests, deliveryLog, unsubscribed, jobs, hand, failing,
          deadLetters, copies, mailed, refused, faults>>

(* JobsService has its workers; EmailService has registered its processor; *)
(* the import of the SendGrid SDK has finished and requests are served.    *)
Phases == {"workers", "registered", "ready"}

(* "adding": addJob is on its way; "added": Redis has the job, its answer  *)
(* is on its way; the last three are what the caller was told (LOST: the   *)
(* process died first).  "DIRECT": a caller of the jobs controller has put *)
(* the job into the queue.                                                 *)
Stages == {"new", "adding", "added", "QUEUED", "FAILED", "DROPPED", "LOST", "DIRECT"}

NoRecord == [status |-> "none", to |-> {}]

Record == [status : {"QUEUED", "SENDING", "SENT", "FAILED", "DROPPED"},
           to : SUBSET Addresses] \cup {NoRecord}

Job == [state : {"none", "waiting", "active", "delayed", "completed", "failed"},
        to : SUBSET Addresses, attempts : Nat, attemptsMade : Nat, stalled : BOOLEAN]

NoJob == [state |-> "none", to |-> {}, attempts |-> 0, attemptsMade |-> 0,
          stalled |-> FALSE]

EmptyHand == [step |-> "idle"]

Steps == {"progress10", "sending", "accepted", "progress100"}

(* "exit": the process ends itself over a dead letter it could not add.    *)
FaultKinds == {"restart", "redis", "sendgrid", "exit"}

Fault(kind) ==
    /\ SumFunction(faults) < MaxFaults
    /\ faults' = [faults EXCEPT ![kind] = @ + 1]

Init ==
    /\ phase = "workers"
    /\ requests = [m \in Messages |-> "new"]
    /\ deliveryLog = [m \in Messages |-> NoRecord]
    /\ unsubscribed = {}
    /\ jobs = [m \in Messages |-> NoJob]
    /\ hand = EmptyHand
    /\ failing = {}
    /\ deadLetters = {}
    /\ copies = [m \in Messages |-> 0]
    /\ mailed = {}
    /\ refused = {}
    /\ faults = [k \in FaultKinds |-> 0]

-----------------------------------------------------------------------------
(* The start of the process: the hooks run in this order, and the worker   *)
(* is already taking jobs.                                                 *)
RegisterProcessor ==
    /\ phase = "workers"
    /\ phase' = "registered"
    /\ UNCHANGED <<requests, deliveryLog, unsubscribed, jobs, hand, failing,
                   deadLetters, copies, mailed, refused, faults>>

SdkLoaded ==
    /\ phase = "registered"
    /\ phase' = "ready"
    /\ UNCHANGED <<requests, deliveryLog, unsubscribed, jobs, hand, failing,
                   deadLetters, copies, mailed, refused, faults>>

(* updateDeliveryStatus does nothing for a message without a record.       *)
Status(m, status) ==
    IF deliveryLog[m] = NoRecord THEN deliveryLog
    ELSE [deliveryLog EXCEPT ![m].status = status]

(* queueEmail up to its addJob: a message that has a recipient left gets a *)
(* record and a job for these recipients.                                  *)
QueueEmail(m, to) ==
    LET filtered == to \ unsubscribed
    IN  /\ phase = "ready"
        /\ requests[m] = "new"
        /\ \/ /\ filtered = {}
              /\ requests' = [requests EXCEPT ![m] = "DROPPED"]
              /\ UNCHANGED deliveryLog
           \/ /\ filtered # {}
              /\ requests' = [requests EXCEPT ![m] = "adding"]
              /\ deliveryLog' = [deliveryLog EXCEPT ![m] =
                     [status |-> "QUEUED", to |-> filtered]]
        /\ UNCHANGED <<phase, unsubscribed, jobs, hand, failing, deadLetters,
                       copies, mailed, refused, faults>>

(* Redis stores the job.                                                   *)
AddJob(m) ==
    /\ requests[m] = "adding"
    /\ requests' = [requests EXCEPT ![m] = "added"]
    /\ jobs' = [jobs EXCEPT ![m] =
                  [NoJob EXCEPT !.state = "waiting", !.to = deliveryLog[m].to,
                                !.attempts = MaxAttempts]]
    /\ UNCHANGED <<phase, deliveryLog, unsubscribed, hand, failing, deadLetters,
                   copies, mailed, refused, faults>>

(* A job of the jobs controller: nobody looks at its recipients and no     *)
(* record is kept.  A job that it adds once more is another message.       *)
AddDirectly(m, to, attempts) ==
    /\ phase = "ready"
    /\ requests[m] = "new"
    /\ requests' = [requests EXCEPT ![m] = "DIRECT"]
    /\ jobs' = [jobs EXCEPT ![m] = [NoJob EXCEPT !.state = "waiting", !.to = to,
                                                !.attempts = attempts]]
    /\ UNCHANGED <<phase, deliveryLog, unsubscribed, hand, failing, deadLetters,
                   copies, mailed, refused, faults>>

QueueEmailReturns(m) ==
    /\ requests[m] = "added"
    /\ requests' = [requests EXCEPT ![m] = "QUEUED"]
    /\ UNCHANGED <<phase, deliveryLog, unsubscribed, jobs, hand, failing,
                   deadLetters, copies, mailed, refused, faults>>

(* addJob throws: Redis did not get the job, or its answer was lost.       *)
AddJobFails(m) ==
    /\ requests[m] \in {"adding", "added"}
    /\ Fault("redis")
    /\ requests' = [requests EXCEPT ![m] = "FAILED"]
    /\ deliveryLog' = Status(m, "FAILED")
    /\ UNCHANGED <<phase, unsubscribed, jobs, hand, failing, deadLetters,
                   copies, mailed, refused>>

-----------------------------------------------------------------------------
(* The worker.  BullMQ picks a waiting job (which one depends on priority) *)
(* and handleEmail awaits its first updateProgress.                        *)
TakeJob(m) ==
    /\ hand = EmptyHand
    /\ jobs[m].state = "waiting"
    /\ jobs' = [jobs EXCEPT ![m].state = "active"]
    /\ hand' = [step |-> "progress10", id |-> m]
    /\ UNCHANGED <<phase, requests, deliveryLog, unsubscribed, failing,
                   deadLetters, copies, mailed, refused, faults>>

At(step, m) == hand = [step |-> step, id |-> m]

(* The attempts that BullMQ makes at a job: one at least.                  *)
AttemptsOf(job) == IF job.attempts = 0 THEN 1 ELSE job.attempts

GivesUp(m, made) == made >= AttemptsOf(jobs[m])

(* The 'failed' handler gives up: zero attempts mean the default to it.    *)
Buries(m, made) ==
    made >= (IF jobs[m].attempts = 0 THEN MaxAttempts ELSE jobs[m].attempts)

(* Mutant: one attempt too many.                                           *)
AttemptOnceMore(m) ==
    LET made == jobs[m].attemptsMade + 1
    IN  /\ jobs' = [jobs EXCEPT
                      ![m].attemptsMade = made,
                      ![m].state = IF made > AttemptsOf(jobs[m]) THEN "failed"
                                                                 ELSE "delayed"]
        /\ hand' = EmptyHand
        /\ failing' = IF Buries(m, made) THEN failing \cup {m} ELSE failing

(* Mutant: the attempts are never counted.                                 *)
AttemptUncounted(m) ==
    /\ jobs' = [jobs EXCEPT ![m].state = "delayed"]
    /\ hand' = EmptyHand
    /\ UNCHANGED failing

(* Mutant: the 'failed' handler compares with > and buries no job.         *)
AttemptUnburied(m) ==
    LET made == jobs[m].attemptsMade + 1
    IN  /\ jobs' = [jobs EXCEPT ![m].attemptsMade = made,
                                ![m].state = IF GivesUp(m, made) THEN "failed"
                                                                 ELSE "delayed"]
        /\ hand' = EmptyHand
        /\ UNCHANGED failing

(* The handler throws: BullMQ counts the attempt, calls the 'failed'       *)
(* handler and waits for the backoff or, after the last one, fails the job.*)
AttemptFails(m) ==
    LET made == jobs[m].attemptsMade + 1
    IN  /\ jobs' = [jobs EXCEPT ![m].attemptsMade = made,
                                ![m].state = IF GivesUp(m, made) THEN "failed"
                                                                 ELSE "delayed"]
        /\ hand' = EmptyHand
        /\ failing' = IF Buries(m, made) THEN failing \cup {m} ELSE failing

(* A call of updateProgress, or the completion, fails.                     *)
ProgressFails(m) ==
    /\ At("progress10", m) \/ At("progress100", m)
    /\ Fault("redis")
    /\ AttemptFails(m)
    /\ UNCHANGED <<phase, requests, deliveryLog, unsubscribed, deadLetters,
                   copies, mailed, refused>>

(* processEmailJob throws before its try block: the record stays SENDING.  *)
RenderFails(m) ==
    /\ At("progress10", m)
    /\ phase # "workers"
    /\ m \in Unrenderable
    /\ deliveryLog' = Status(m, "SENDING")
    /\ AttemptFails(m)
    /\ UNCHANGED <<phase, requests, unsubscribed, deadLetters, copies, mailed,
                   refused, faults>>

(* The rest of handleEmail up to its next await: without a processor the   *)
(* job is skipped, before the SDK is loaded the email is dropped, and      *)
(* otherwise sent.                                                         *)
HandleEmail(m) ==
    /\ At("progress10", m)
    /\ phase = "workers" \/ m \notin Unrenderable
    /\ \/ /\ phase = "workers"
          /\ hand' = [hand EXCEPT !.step = "progress100"]
          /\ UNCHANGED deliveryLog
       \/ /\ phase = "registered"
          /\ hand' = [hand EXCEPT !.step = "progress100"]
          /\ deliveryLog' = Status(m, "DROPPED")
       \/ /\ phase = "ready"
          /\ hand' = [hand EXCEPT !.step = "sending"]
          /\ deliveryLog' = Status(m, "SENDING")
    /\ UNCHANGED <<phase, requests, unsubscribed, jobs, failing, deadLetters,
                   copies, mailed, refused, faults>>

(* SendGrid accepts the mail: it will go out.                              *)
SendGridAccepts(m) ==
    /\ At("sending", m)
    /\ hand' = [hand EXCEPT !.step = "accepted"]
    /\ copies' = [copies EXCEPT ![m] = @ + 1]
    /\ mailed' = mailed \cup jobs[m].to
    /\ UNCHANGED <<phase, requests, deliveryLog, unsubscribed, jobs, failing,
                   deadLetters, refused, faults>>

(* Mutant: the attempt is failed after the send, too.                      *)
SendReturnsThrowing(m) ==
    /\ At("accepted", m)
    /\ deliveryLog' = Status(m, "SENT")
    /\ AttemptFails(m)
    /\ UNCHANGED <<phase, requests, unsubscribed, deadLetters, copies, mailed,
                   refused, faults>>

SendReturns(m) ==
    /\ At("accepted", m)
    /\ deliveryLog' = Status(m, "SENT")
    /\ hand' = [hand EXCEPT !.step = "progress100"]
    /\ UNCHANGED <<phase, requests, unsubscribed, jobs, failing, deadLetters,
                   copies, mailed, refused, faults>>

(* The send is refused, or its answer is lost.                             *)
SendFails(m) ==
    /\ At("sending", m) \/ At("accepted", m)
    /\ Fault("sendgrid")
    /\ deliveryLog' = Status(m, "FAILED")
    /\ AttemptFails(m)
    /\ UNCHANGED <<phase, requests, unsubscribed, deadLetters, copies, mailed,
                   refused>>

Complete(m) ==
    /\ At("progress100", m)
    /\ jobs' = [jobs EXCEPT ![m].state = "completed"]
    /\ hand' = EmptyHand
    /\ UNCHANGED <<phase, requests, deliveryLog, unsubscribed, failing,
                   deadLetters, copies, mailed, refused, faults>>

BackoffEnds(m) ==
    /\ jobs[m].state = "delayed"
    /\ jobs' = [jobs EXCEPT ![m].state = "waiting"]
    /\ UNCHANGED <<phase, requests, deliveryLog, unsubscribed, hand, failing,
                   deadLetters, copies, mailed, refused, faults>>

DeadLetter(m) ==
    /\ m \in failing
    /\ failing' = failing \ {m}
    /\ deadLetters' = deadLetters \cup {m}
    /\ UNCHANGED <<phase, requests, deliveryLog, unsubscribed, jobs, hand,
                   copies, mailed, refused, faults>>

-----------------------------------------------------------------------------
(* The process ends and is started again; the job in the worker's hand     *)
(* stays active in Redis.                                                  *)
ProcessDies ==
    /\ phase' = "workers"
    /\ requests' = [m \in Messages |->
         IF requests[m] \in {"adding", "added"} THEN "LOST" ELSE requests[m]]
    /\ deliveryLog' = [m \in Messages |-> NoRecord]
    /\ unsubscribed' = {}
    /\ hand' = EmptyHand
    /\ failing' = {}
    /\ UNCHANGED <<jobs, deadLetters, copies, mailed, refused>>

Restart == Fault("restart") /\ ProcessDies

(* Nobody handles the rejection of the 'failed' handler's add, and the     *)
(* process exits on it.                                                    *)
DeadLetterFails(m) ==
    /\ m \in failing
    /\ Fault("exit")
    /\ ProcessDies

(* An active job whose worker has died.                                    *)
Abandoned(m) == jobs[m].state = "active" /\ \A s \in Steps : ~At(s, m)

(* BullMQ's stalled check puts an abandoned job back once; the second time *)
(* it fails it, with fewer attempts than the 'failed' handler asks for.    *)
StalledCheck(m) ==
    /\ Abandoned(m)
    /\ jobs' = [jobs EXCEPT
                  ![m].stalled = TRUE,
                  ![m].state = IF jobs[m].stalled THEN "failed" ELSE "waiting"]
    /\ UNCHANGED <<phase, requests, deliveryLog, unsubscribed, hand, failing,
                   deadLetters, copies, mailed, refused, faults>>

-----------------------------------------------------------------------------
(* Mutant: the recipients of mails that are out are looked up in records   *)
(* of mails still queued.                                                  *)
DecodeQueuedOnly(a) ==
    \E m \in Messages : a \in deliveryLog[m].to /\ deliveryLog[m].status = "QUEUED"

(* decodeUnsubscribeToken: the address is found among the recipients of    *)
(* the delivery log.                                                       *)
DecodeUnsubscribeToken(a) == \E m \in Messages : a \in deliveryLog[m].to

(* Addresses that a mail with an unsubscribe link is out to.               *)
HasLink(a) ==
    \E m \in Messages \ Unlinked :
      copies[m] > 0 /\ requests[m] # "DIRECT" /\ a \in jobs[m].to

(* The link of a mail is followed.                                         *)
ProcessUnsubscribeToken(a) ==
    /\ phase = "ready"
    /\ HasLink(a)
    /\ \/ /\ a \in unsubscribed \/ DecodeUnsubscribeToken(a)
          /\ unsubscribed' = unsubscribed \cup {a}
          /\ UNCHANGED refused
       \/ /\ a \notin unsubscribed /\ ~DecodeUnsubscribeToken(a)
          /\ refused' = refused \cup {a}
          /\ UNCHANGED unsubscribed
    /\ UNCHANGED <<phase, requests, deliveryLog, jobs, hand, failing,
                   deadLetters, copies, mailed, faults>>

(* A webhook event that unsubscribes: a hard bounce, a spam report, an     *)
(* unsubscribe.  The status of an event is recorded under SendGrid's own   *)
(* id, for which the delivery log has no record.                           *)
HandleWebhookEvent(a) ==
    /\ phase = "ready"
    /\ unsubscribed' = unsubscribed \cup {a}
    /\ UNCHANGED <<phase, requests, deliveryLog, jobs, hand, failing,
                   deadLetters, copies, mailed, refused, faults>>

Resubscribe(a) ==
    /\ phase = "ready"
    /\ unsubscribed' = unsubscribed \ {a}
    /\ UNCHANGED <<phase, requests, deliveryLog, jobs, hand, failing,
                   deadLetters, copies, mailed, refused, faults>>

Worker(m) ==
    \/ HandleEmail(m) \/ RenderFails(m) \/ ProgressFails(m) \/ SendGridAccepts(m)
    \/ SendReturns(m) \/ SendFails(m) \/ Complete(m)

Next ==
    \/ RegisterProcessor \/ SdkLoaded \/ Restart
    \/ \E m \in Messages :
          \/ \E to \in SUBSET Addresses :
                \/ QueueEmail(m, to)
                \/ to # {} /\ \E n \in DirectAttempts : AddDirectly(m, to, n)
          \/ AddJob(m) \/ QueueEmailReturns(m) \/ AddJobFails(m)
          \/ TakeJob(m) \/ Worker(m) \/ BackoffEnds(m) \/ StalledCheck(m)
          \/ DeadLetter(m) \/ DeadLetterFails(m)
    \/ \E a \in Addresses :
          ProcessUnsubscribeToken(a) \/ HandleWebhookEvent(a) \/ Resubscribe(a)

(* A process that is up goes on with its hooks, BullMQ goes on taking,     *)
(* delaying and checking jobs, and every call is answered.                 *)
Fairness ==
    /\ WF_vars(RegisterProcessor)
    /\ WF_vars(SdkLoaded)
    /\ WF_vars(\E m \in Messages : TakeJob(m))
    /\ \A m \in Messages :
          WF_vars(Worker(m)) /\ WF_vars(BackoffEnds(m)) /\ WF_vars(StalledCheck(m))

Spec == Init /\ [][Next]_vars /\ Fairness
-----------------------------------------------------------------------------
(* Every variable has the values the code gives it; a record has the       *)
(* recipients of its job, and only the process that queued it has one      *)
(* (email.service.ts:90-98 and 111-117).                                   *)
EmailTypeOK ==
    /\ phase \in Phases
    /\ requests \in [Messages -> Stages]
    /\ deliveryLog \in [Messages -> Record]
    /\ unsubscribed \subseteq Addresses
    /\ jobs \in [Messages -> Job]
    /\ hand \in {EmptyHand} \cup [step : Steps, id : Messages]
    /\ failing \subseteq Messages
    /\ deadLetters \subseteq Messages
    /\ copies \in [Messages -> Nat]
    /\ mailed \subseteq Addresses
    /\ refused \subseteq Addresses
    /\ faults \in [FaultKinds -> Nat]
    /\ \A m \in Messages :
          /\ jobs[m].attemptsMade <= AttemptsOf(jobs[m])
          /\ jobs[m] # NoJob /\ deliveryLog[m] # NoRecord =>
                jobs[m].to = deliveryLog[m].to

(* A recipient gets a mail a second time only when a fault hid the first:  *)
(* each copy beyond the first is paid for by a lost answer of SendGrid, a  *)
(* failed progress call after the send (jobs.service.ts:119) or the end of *)
(* the process, its own over a dead letter included (main.ts:30-37).       *)
ResendHasCause ==
    SumFunction([m \in Messages |-> IF copies[m] > 1 THEN copies[m] - 1 ELSE 0])
      <= SumFunction(faults)

(* No process has ended yet.                                               *)
FirstRun == faults["restart"] = 0 /\ faults["exit"] = 0

(* When neither Redis nor the process fails, the end of a job tells the    *)
(* truth, whatever SendGrid does: a completed job was accepted and its     *)
(* record, if it has one, says SENT (email.service.ts:179); one that has   *)
(* run out of attempts is on its way to the dead letters or there          *)
(* (jobs.service.ts:66-69), unless it asked for zero of them (line 65),    *)
(* and its record does not say SENT.                                       *)
OutcomeIsReported ==
    FirstRun /\ faults["redis"] = 0 =>
      \A m \in Messages :
        /\ jobs[m].state = "completed" =>
              copies[m] > 0 /\ (requests[m] = "DIRECT" \/ deliveryLog[m].status = "SENT")
        /\ jobs[m].state = "failed" =>
              /\ deliveryLog[m].status # "SENT"
              /\ jobs[m].attempts = 0 \/ m \in failing \cup deadLetters

(* As long as its process lives the unsubscribe link of every mail it has  *)
(* sent is honoured (email.service.ts:385-399), whatever has been queued,  *)
(* failed or resubscribed since; the process may end by itself over a dead *)
(* letter (jobs.service.ts:68, main.ts:30-37).                             *)
LinkIsHonoured == FirstRun => refused = {}

(* Every job ends: the email is out or its attempts are used up, although  *)
(* the worker has one hand, SendGrid fails and processes die.              *)
JobsSettle ==
    \A m \in Messages :
      jobs[m].state = "waiting" ~> jobs[m].state \in {"completed", "failed"}

(* The queue implements MailDelivery: an attempt that SendGrid has         *)
(* accepted, or that was passed over, shuts its message (jobs.service.ts:  *)
(* 109-121, email.service.ts:141-181).                                     *)
Settled(m) == jobs[m].state \in {"completed", "failed"}

Shut(m) == At("accepted", m) \/ At("progress100", m)

StageOf(m) == IF jobs[m].state = "none" THEN "none"
              ELSE IF Settled(m) THEN "settled"
              ELSE IF Shut(m) THEN "shut" ELSE "open"

Delivery == INSTANCE MailDelivery WITH
              stage <- [m \in Messages |-> StageOf(m)],
              recipients <- [m \in Messages |-> jobs[m].to]

ImplementsDelivery == Delivery!MailSpec

=============================================================================
