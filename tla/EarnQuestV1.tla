----------------------------- MODULE EarnQuestV1 -----------------------------
(***************************************************************************)
(* The first quest contract (Contract/earn-quest): quests with a limit of  *)
(* participants, proofs, approvals that pay at once from the escrow of     *)
(* their quest, reputation, the administrator, and a pause that several    *)
(* signers request and that takes effect after a timelock.                 *)
(*                                                                         *)
(* The ledger runs one call at a time and rolls a failing call back: an    *)
(* action is a whole successful call, and a call that fails is a stutter.  *)
(* That is why submit_proof's own expiry of a quest never shows: the call  *)
(* fails right after it.  Tokens are external contracts.                   *)
(***************************************************************************)
EXTENDS Integers, FiniteSets, Functions

CONSTANTS
    Addresses,     \* accounts
    Nobody,        \* no account
    Contract,      \* the account of the contract
    Admins, Signers, Creators, Verifiers, Submitters,  \* who appears as what
    Quests, Tokens, Badges,
    Rewards, Deposits, Deadlines, Limits,              \* arguments of calls
    Delays, Quorums, GracePeriods,                     \* pause configurations
    InitialBalance,  \* of every creator, in every token
    MaxTime,         \* bound on the ledger time
    MaxU64           \* the largest timestamp

ASSUME EarnQuestV1Assumption ==
    /\ IsFiniteSet(Submitters)
    /\ Admins \cup Signers \cup Creators \cup Verifiers \cup Submitters \subseteq Addresses
    /\ Nobody \notin Addresses /\ Contract \notin Addresses
    /\ Rewards \cup Deposits \subseteq Int
    /\ Deadlines \cup Limits \cup Delays \cup Quorums \cup GracePeriods \subseteq Nat
    /\ InitialBalance \in Nat /\ MaxU64 \in Nat /\ MaxTime \in 0..MaxU64

VARIABLES
    admin,        \* the admin of ContractConfig, or Nobody before initialize
    configVersion,  \* the version of ContractConfig
    dataVersion,    \* the version of the stored data, 0 where none is stored
    quests,       \* registered quests: id -> Quest
    submissions,  \* <<quest, submitter>> -> status
    escrowBal,    \* EscrowBal of every quest
    userStats,    \* address -> UserStats
    pauseState,   \* PauseState, or NoPauseState
    balances,     \* token -> account -> balance
    now,          \* ledger timestamp
    signedAt      \* history: when each signer last signed a pause request

config == <<admin, configVersion, dataVersion>>

vars == <<config, quests, submissions, escrowBal, userStats, pauseState,
          balances, now, signedAt>>

ContractVersion == 1

QuestStatus == {"Active", "Paused", "Completed", "Expired", "Cancelled"}
Ended == {"Completed", "Expired", "Cancelled"}
SubmissionStatus == {"Pending", "Approved", "Rejected", "Paid"}

Quest == [creator : Creators, rewardAsset : Tokens, rewardAmount : Nat \ {0},
          verifier : Verifiers, deadline : Nat, status : QuestStatus,
          maxParticipants : Nat \ {0}, totalClaims : Nat]

PauseState == [isPaused : BOOLEAN, pauseTimestamp : Nat, timelockDelay : Nat,
               pauseSigners : SUBSET Signers, requiredSignatures : Nat,
               lastPauseTime : Nat, gracePeriod : Nat]

NoPauseState == [isPaused |-> FALSE]

UserStats == [totalXp : Nat, level : Nat, questsCompleted : Nat, badges : SUBSET Badges]

Accounts == Creators \cup Submitters \cup {Contract}

Init ==
    /\ admin = Nobody /\ configVersion = 0 /\ dataVersion = 0
    /\ quests = <<>>
    /\ submissions = <<>>
    /\ escrowBal = [q \in Quests |-> 0]
    /\ userStats = <<>>
    /\ pauseState = NoPauseState
    /\ balances = [t \in Tokens |-> [a \in Accounts |->
                     IF a \in Creators THEN InitialBalance ELSE 0]]
    /\ now = 0
    /\ signedAt = [s \in Signers |-> 0]

\* The function f with f[k] = v, whether or not k was in its domain.
Put(f, k, v) == [x \in DOMAIN f \cup {k} |-> IF x = k THEN v ELSE f[x]]

(* A token transfer fails without enough balance.                          *)
Transfer(t, from, to, amount) ==
    /\ balances[t][from] >= amount
    /\ balances' = [balances EXCEPT ![t][from] = @ - amount, ![t][to] = @ + amount]

-----------------------------------------------------------------------------
(* Configuration.                                                          *)

questVars == <<quests, submissions, escrowBal, userStats, balances>>
pauseVars == <<pauseState, signedAt>>

SetVersions(version) == configVersion' = version /\ dataVersion' = version

Initialize(a) ==
    /\ admin = Nobody
    /\ admin' = a
    /\ SetVersions(ContractVersion)
    /\ UNCHANGED <<questVars, pauseVars, now>>

UpdateConfig(caller, newAdmin) ==
    /\ caller = admin
    /\ admin' = newAdmin
    /\ UNCHANGED <<configVersion, dataVersion, questVars, pauseVars, now>>

(* Data without a version counts as version 1, the current one, and needs  *)
(* no further migration; data of version 1 is left as it is.               *)
(* upgrade_contract installs a program and ends with the same migration.   *)
TriggerMigration(caller) ==
    /\ caller = admin
    /\ dataVersion = 0
    /\ SetVersions(1)
    /\ UNCHANGED <<admin, questVars, pauseVars, now>>

(* Nothing but the versions is rolled back.                                *)
TriggerRollback(caller, target) ==
    /\ caller = admin
    /\ target < dataVersion
    /\ SetVersions(target)
    /\ UNCHANGED <<admin, questVars, pauseVars, now>>

-----------------------------------------------------------------------------
(* The pause.                                                              *)

Activation == pauseState.pauseTimestamp + pauseState.timelockDelay

GraceEnd == pauseState.lastPauseTime + pauseState.gracePeriod

(* Mutant: at its activation time the pause does not bind yet.             *)
RequireNotPausedLate ==
    pauseState.isPaused => Activation <= MaxU64 /\ now <= Activation

(* require_not_paused; the sum of u64 panics on overflow and the call      *)
(* fails.                                                                  *)
RequireNotPaused ==
    pauseState.isPaused => Activation <= MaxU64 /\ now < Activation

(* is_contract_paused for a state where its sum does not overflow.         *)
InForce == pauseState.isPaused /\ now >= Activation

InitializePause(caller, delay, quorum, grace) ==
    /\ caller = admin
    /\ pauseState' = [isPaused |-> FALSE, pauseTimestamp |-> 0, timelockDelay |-> delay,
                      pauseSigners |-> {}, requiredSignatures |-> quorum,
                      lastPauseTime |-> 0, gracePeriod |-> grace]
    /\ UNCHANGED <<config, questVars, signedAt, now>>

(* Mutant: the timelock starts again with every signature.                 *)
RequestPauseRestarting(s) ==
    LET signers == pauseState.pauseSigners \cup {s}
        met == Cardinality(signers) >= pauseState.requiredSignatures
    IN  /\ pauseState # NoPauseState
        /\ s \notin pauseState.pauseSigners
        /\ pauseState' = [pauseState EXCEPT
              !.pauseSigners = signers,
              !.pauseTimestamp = now,
              !.isPaused = @ \/ met,
              !.lastPauseTime = IF met THEN now ELSE @]
        /\ signedAt' = [signedAt EXCEPT ![s] = now]
        /\ UNCHANGED <<config, questVars, now>>

(* Any account may sign, before and after the pause has been reached.      *)
RequestPause(s) ==
    LET signers == pauseState.pauseSigners \cup {s}
        met == Cardinality(signers) >= pauseState.requiredSignatures
    IN  /\ pauseState # NoPauseState
        /\ s \notin pauseState.pauseSigners
        /\ pauseState' = [pauseState EXCEPT
              !.pauseSigners = signers,
              !.pauseTimestamp = IF signers = {s} THEN now ELSE @,
              !.isPaused = @ \/ met,
              !.lastPauseTime = IF met THEN now ELSE @]
        /\ signedAt' = [signedAt EXCEPT ![s] = now]
        /\ UNCHANGED <<config, questVars, now>>

CancelPauseRequest(caller) ==
    /\ caller = admin
    /\ pauseState # NoPauseState
    /\ ~pauseState.isPaused
    /\ pauseState' = [pauseState EXCEPT !.pauseSigners = {}, !.pauseTimestamp = 0]
    /\ UNCHANGED <<config, questVars, signedAt, now>>

(* lastPauseTime keeps the time of the pause that ends.                    *)
UnpauseContract(caller) ==
    /\ caller = admin
    /\ pauseState.isPaused
    /\ pauseState' = [pauseState EXCEPT !.isPaused = FALSE, !.pauseSigners = {},
                                        !.pauseTimestamp = 0]
    /\ UNCHANGED <<config, questVars, signedAt, now>>

(* Each value is given or left as it is; a pause is neither begun nor      *)
(* ended by it.                                                            *)
UpdatePauseConfig(caller, delay, quorum, grace) ==
    /\ caller = admin
    /\ pauseState # NoPauseState
    /\ pauseState' = [pauseState EXCEPT !.timelockDelay = delay,
                                        !.requiredSignatures = quorum,
                                        !.gracePeriod = grace]
    /\ UNCHANGED <<config, questVars, signedAt, now>>

-----------------------------------------------------------------------------
(* Quests.                                                                 *)

(* Mutant: one claim more than the limit.                                  *)
IsQuestFullLate(quest) == quest.totalClaims > quest.maxParticipants

IsQuestFull(quest) == quest.totalClaims >= quest.maxParticipants

(* auto_complete_quest_if_full                                             *)
AutoComplete(quest) ==
    IF IsQuestFull(quest) /\ quest.status = "Active"
    THEN [quest EXCEPT !.status = "Completed"]
    ELSE quest

(* validate_quest_active                                                   *)
AcceptsSubmissions(quest) ==
    quest.status = "Active" /\ now <= quest.deadline /\ ~IsQuestFull(quest)

RegisterQuest(q, creator, asset, amount, verifier, deadline, limit) ==
    /\ RequireNotPaused
    /\ amount > 0
    /\ limit # 0
    /\ deadline > now
    /\ q \notin DOMAIN quests
    /\ quests' = Put(quests, q,
         [creator |-> creator, rewardAsset |-> asset, rewardAmount |-> amount,
          verifier |-> verifier, deadline |-> deadline, status |-> "Active",
          maxParticipants |-> limit, totalClaims |-> 0])
    /\ UNCHANGED <<config, submissions, escrowBal, userStats, balances, pauseVars, now>>

(* A change of status by the creator; nothing else of the quest changes.   *)
SetStatus(q, caller, status) ==
    /\ q \in DOMAIN quests
    /\ caller = quests[q].creator
    /\ quests' = [quests EXCEPT ![q].status = status]
    /\ UNCHANGED <<config, submissions, escrowBal, userStats, balances, pauseVars, now>>

UpdateQuestStatus(q, caller, status) ==
    SetStatus(q, caller, status) /\ quests[q].status \notin Ended

CancelQuest(q, caller) ==
    SetStatus(q, caller, "Cancelled") /\ quests[q].status \notin Ended

(* A cancelled quest can still be expired.                                 *)
ExpireQuest(q, caller) ==
    SetStatus(q, caller, "Expired") /\ quests[q].status \notin {"Expired", "Completed"}

-----------------------------------------------------------------------------
(* Submissions, paid when they are approved.                               *)

SubmitProof(q, s) ==
    /\ RequireNotPaused
    /\ q \in DOMAIN quests
    /\ AcceptsSubmissions(quests[q])
    /\ <<q, s>> \notin DOMAIN submissions
    /\ submissions' = Put(submissions, <<q, s>>, "Pending")
    /\ UNCHANGED <<config, quests, escrowBal, userStats, balances, pauseVars, now>>

StatsOf(a) ==
    IF a \in DOMAIN userStats THEN userStats[a]
    ELSE [totalXp |-> 0, level |-> 1, questsCompleted |-> 0, badges |-> {}]

CalculateLevel(xp) == xp \div 100 + 1

AwardXp(a, xp) ==
    LET stats == StatsOf(a)
    IN  userStats' = Put(userStats, a,
          [stats EXCEPT !.totalXp = @ + xp, !.level = CalculateLevel(stats.totalXp + xp),
                        !.questsCompleted = @ + 1])

(* Mutant: the reward is paid and the escrow of the quest keeps it.        *)
ProcessPayoutUndeducted(q, recipient) ==
    /\ escrowBal[q] >= quests[q].rewardAmount
    /\ Transfer(quests[q].rewardAsset, Contract, recipient, quests[q].rewardAmount)
    /\ UNCHANGED escrowBal

ProcessPayout(q, recipient) ==
    /\ escrowBal[q] >= quests[q].rewardAmount
    /\ escrowBal' = [escrowBal EXCEPT ![q] = @ - quests[q].rewardAmount]
    /\ Transfer(quests[q].rewardAsset, Contract, recipient, quests[q].rewardAmount)

(* Mutant: an approved submission is paid again.                           *)
AwaitsApprovalOrPaid(q, s) == submissions[<<q, s>>] \in {"Pending", "Paid"}

AwaitsDecision(q, s) == submissions[<<q, s>>] = "Pending"

(* The claim is counted, the last one completes an active quest, the       *)
(* reward is paid and the points are awarded.  Neither the deadline nor    *)
(* the status of the quest is looked at.                                   *)
ApproveSubmission(q, s, verifier) ==
    /\ RequireNotPaused
    /\ q \in DOMAIN quests
    /\ verifier = quests[q].verifier
    /\ <<q, s>> \in DOMAIN submissions
    /\ AwaitsDecision(q, s)
    /\ ~IsQuestFull(quests[q])
    /\ LET counted == [quests[q] EXCEPT !.totalClaims = @ + 1]
       IN  quests' = [quests EXCEPT ![q] = AutoComplete(counted)]
    /\ ProcessPayout(q, s)
    /\ AwardXp(s, 100)
    /\ submissions' = [submissions EXCEPT ![<<q, s>>] = "Paid"]
    /\ UNCHANGED <<config, pauseVars, now>>

RejectSubmission(q, s, verifier) ==
    /\ q \in DOMAIN quests
    /\ verifier = quests[q].verifier
    /\ <<q, s>> \in DOMAIN submissions
    /\ AwaitsDecision(q, s)
    /\ submissions' = [submissions EXCEPT ![<<q, s>>] = "Rejected"]
    /\ UNCHANGED <<config, quests, escrowBal, userStats, balances, pauseVars, now>>

GrantBadge(caller, a, badge) ==
    /\ caller = admin
    /\ a \in DOMAIN userStats
    /\ userStats' = [userStats EXCEPT ![a].badges = @ \cup {badge}]
    /\ UNCHANGED <<config, quests, submissions, escrowBal, balances, pauseVars, now>>

-----------------------------------------------------------------------------
(* Escrow.                                                                 *)

DepositEscrow(q, depositor, amount) ==
    /\ amount > 0
    /\ q \in DOMAIN quests
    /\ depositor = quests[q].creator
    /\ quests[q].status \notin Ended
    /\ Transfer(quests[q].rewardAsset, depositor, Contract, amount)
    /\ escrowBal' = [escrowBal EXCEPT ![q] = @ + amount]
    /\ UNCHANGED <<config, quests, submissions, userStats, pauseVars, now>>

WithdrawUnclaimed(q, creator) ==
    /\ q \in DOMAIN quests
    /\ creator = quests[q].creator
    /\ quests[q].status \in Ended
    /\ escrowBal[q] > 0
    /\ Transfer(quests[q].rewardAsset, Contract, creator, escrowBal[q])
    /\ escrowBal' = [escrowBal EXCEPT ![q] = 0]
    /\ UNCHANGED <<config, quests, submissions, userStats, pauseVars, now>>

(* is_withdrawal_allowed is asked only when the pause is in force; either  *)
(* sum may overflow.                                                       *)
EmergencyWithdraw(q, creator) ==
    /\ pauseState # NoPauseState
    /\ pauseState.isPaused => Activation <= MaxU64
    /\ InForce => GraceEnd <= MaxU64 /\ now < GraceEnd
    /\ WithdrawUnclaimed(q, creator)

-----------------------------------------------------------------------------
Tick ==
    /\ now < MaxTime
    /\ now' = now + 1
    /\ UNCHANGED <<config, questVars, pauseVars>>

ConfigNext ==
    \/ \E a \in Admins : Initialize(a)
    \/ \E c \in Addresses, a \in Admins : UpdateConfig(c, a)
    \/ \E c \in Addresses :
         \/ TriggerMigration(c)
         \/ \E target \in 0..ContractVersion : TriggerRollback(c, target)

PauseNext ==
    \/ \E s \in Signers : RequestPause(s)
    \/ \E c \in Addresses :
         \/ \E d \in Delays, n \in Quorums, g \in GracePeriods : InitializePause(c, d, n, g)
         \/ CancelPauseRequest(c)
         \/ UnpauseContract(c)
         \/ pauseState # NoPauseState
            /\ \E d \in Delays \cup {pauseState.timelockDelay},
                  n \in Quorums \cup {pauseState.requiredSignatures},
                  g \in GracePeriods \cup {pauseState.gracePeriod} :
                 UpdatePauseConfig(c, d, n, g)

QuestNext ==
    \E q \in Quests :
      \/ \E c \in Creators :
           \/ \E t \in Tokens, r \in Rewards, v \in Verifiers, d \in Deadlines, n \in Limits :
                RegisterQuest(q, c, t, r, v, d, n)
           \/ \E amount \in Deposits : DepositEscrow(q, c, amount)
      \/ \E c \in Addresses :
           \/ \E status \in QuestStatus : UpdateQuestStatus(q, c, status)
           \/ CancelQuest(q, c)
           \/ ExpireQuest(q, c)
           \/ WithdrawUnclaimed(q, c)
           \/ EmergencyWithdraw(q, c)
      \/ \E s \in Submitters :
           \/ SubmitProof(q, s)
           \/ \E c \in Addresses : ApproveSubmission(q, s, c) \/ RejectSubmission(q, s, c)

BadgeNext ==
    \E c, a \in Addresses, b \in Badges : GrantBadge(c, a, b)

Next == ConfigNext \/ PauseNext \/ QuestNext \/ BadgeNext \/ Tick

Spec == Init /\ [][Next]_vars

-----------------------------------------------------------------------------
(* Types, and every record refers to what exists: the version of the       *)
(* configuration is that of the data, submissions belong to quests,        *)
(* escrow and claims to their quest; no quest has more claims than its     *)
(* limit, and no submission stays "Approved" between calls                 *)
(* (submission.rs:78-92, lib.rs:115-128).                                  *)
V1TypeOK ==
    /\ admin \in Addresses \cup {Nobody}
    /\ dataVersion \in 0..ContractVersion /\ configVersion = dataVersion
    /\ admin = Nobody => dataVersion = 0
    /\ DOMAIN quests \subseteq Quests
    /\ \A q \in DOMAIN quests :
         quests[q] \in Quest /\ quests[q].totalClaims <= quests[q].maxParticipants
    /\ DOMAIN submissions \subseteq (DOMAIN quests) \X Submitters
    /\ \A x \in DOMAIN submissions : submissions[x] \in SubmissionStatus \ {"Approved"}
    /\ escrowBal \in [Quests -> Nat]
    /\ \A q \in Quests \ DOMAIN quests : escrowBal[q] = 0
    /\ DOMAIN userStats \subseteq Submitters
    /\ \A a \in DOMAIN userStats : userStats[a] \in UserStats
    /\ pauseState \in PauseState \cup {NoPauseState}
    /\ balances \in [Tokens -> [Accounts -> Nat]]
    /\ now \in 0..MaxTime
    /\ signedAt \in [Signers -> 0..MaxTime]

Paid == {x \in DOMAIN submissions : submissions[x] = "Paid"}

PaidTo(a) == {q \in DOMAIN quests : <<q, a>> \in Paid}

PaidOf(q) == {a \in Submitters : <<q, a>> \in Paid}

(* A quest counts one claim for each of its paid submissions, and a        *)
(* submitter has one completed quest and its points for each (lib.rs:122). *)
ClaimsCounted ==
    /\ \A q \in DOMAIN quests : quests[q].totalClaims = Cardinality(PaidOf(q))
    /\ \A a \in Submitters :
         /\ StatsOf(a).questsCompleted = Cardinality(PaidTo(a))
         /\ StatsOf(a).level = StatsOf(a).questsCompleted + 1

(* Approvals are exact, whatever order proofs, approvals, rejections and   *)
(* endings come in: claims are counted, and a submitter has received       *)
(* exactly the rewards of the submissions that are paid                    *)
(* (lib.rs:115-128, submission.rs:73-92).                                  *)
ClaimsAreExact ==
    /\ ClaimsCounted
    /\ \A a \in Submitters \ Creators : \A t \in Tokens :
         balances[t][a] = SumFunctionOnSet([q \in DOMAIN quests |-> quests[q].rewardAmount],
                                           {q \in PaidTo(a) : quests[q].rewardAsset = t})

(* Quests share the contract's balances, and what their escrow entries say *)
(* is there: no payment or refund takes the tokens of another quest        *)
(* (escrow.rs:31-36, 61-68, 94-103).                                       *)
EscrowIsBacked ==
    \A t \in Tokens :
      SumFunctionOnSet(escrowBal, {q \in DOMAIN quests : quests[q].rewardAsset = t})
        <= balances[t][Contract]

(* The times of a pause belong to the signatures that stand for it,        *)
(* whatever was cancelled, lifted, configured or initialised again before: *)
(* the timelock runs from the first of them, the grace period from one of  *)
(* them, and without signatures there is no pause (pausable.rs:140-160,    *)
(* 178-182, 209-213).                                                      *)
PauseIsTimely ==
    pauseState # NoPauseState =>
      LET signed == {signedAt[s] : s \in pauseState.pauseSigners}
      IN  /\ signed # {} => /\ pauseState.pauseTimestamp \in signed
                            /\ \A time \in signed : pauseState.pauseTimestamp <= time
          /\ pauseState.isPaused => pauseState.lastPauseTime \in signed

(* While a pause is in force nobody is paid a reward and tokens leave the  *)
(* contract only back to the creator of a quest that has ended; at other   *)
(* times also as the reward of a submission that becomes paid.             *)
OutflowIsDue ==
    [][\A t \in Tokens :
         balances'[t][Contract] < balances[t][Contract] =>
           \E q \in DOMAIN quests :
             /\ quests[q].rewardAsset = t
             /\ LET out == balances[t][Contract] - balances'[t][Contract]
                IN  \/ /\ quests[q].status \in Ended
                       /\ out = escrowBal[q]
                       /\ balances'[t][quests[q].creator] = balances[t][quests[q].creator] + out
                    \/ /\ ~InForce
                       /\ out = quests[q].rewardAmount
                       /\ \E s \in Submitters :
                            /\ <<q, s>> \in DOMAIN submissions
                            /\ submissions[<<q, s>>] = "Pending"
                            /\ submissions'[<<q, s>>] = "Paid"
                            /\ balances'[t][s] = balances[t][s] + out]_vars

-----------------------------------------------------------------------------
(* The escrow seen from outside.  An account stays open while proofs that  *)
(* were pending when the quest ended can still be paid from it, and no     *)
(* call moves the contract's tokens past the entries: its pool is empty.   *)

LedgerTerms ==
    [q \in DOMAIN quests |-> [owner |-> quests[q].creator,
                              asset |-> quests[q].rewardAsset]]

LedgerClosed == {q \in DOMAIN quests : quests[q].status \in Ended /\ escrowBal[q] = 0}

Ledger == INSTANCE EscrowLedger WITH
            Users <- Creators \cup Submitters, terms <- LedgerTerms,
            closed <- LedgerClosed, held <- escrowBal, wallets <- balances,
            pool <- [t \in Tokens |-> 0]

(* The first contract implements the same escrow ledger: an entry changes  *)
(* only with exactly that amount of the quest's asset (escrow.rs:31-36,    *)
(* 61-68, 94-103), and once the quest has ended and its entry is empty     *)
(* nothing is deposited, paid or refunded any more, whichever calls end,   *)
(* expire or drain it (quest.rs:97-107, 161-168).                          *)
ImplementsLedger == Ledger!LedgerSpec

=============================================================================
