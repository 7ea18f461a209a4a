--------------------------- MODULE EarnQuestProofs ---------------------------
(***************************************************************************)
(* Proofs about the contract for every set of quests, accounts, tokens and *)
(* amounts, in five parts: the emergency switch by itself (ControlInv);    *)
(* types, escrow records and self-approval (IndInv) with the action        *)
(* properties; what the contract counts and pays; the escrow ledger it     *)
(* implements; and the two sums, what the balances hold for the records    *)
(* and what the claims credit to the users.                                *)
(***************************************************************************)
EXTENDS EarnQuestProperties, SumTheorems

-----------------------------------------------------------------------------
(* The emergency switch.  ControlInv is inductive; its last conjunct, that *)
(* a contract without an admin is not paused, is what makes PausedHasAdmin *)
(* survive the one-time Initialize.                                        *)

UninitializedIsIdle == contractAdmin = Nobody => admins = {} /\ ~paused

ControlInv ==
    /\ ControlTypeOK
    /\ ApprovalCountExact
    /\ ScheduleBacked
    /\ PausedHasAdmin
    /\ UninitializedIsIdle

(* Every control action keeps the types of the control state.              *)
LEMMA ControlStepType ==
  ASSUME ControlTypeOK, ControlNext
  PROVE  ControlTypeOK'
  <1> USE EmergencyAssumption DEF ControlTypeOK, controlVars
  <1>1. CASE Tick
    BY <1>1 DEF Tick
  <1>2. ASSUME NEW d \in Deployers, Initialize(d)
        PROVE  ControlTypeOK'
    BY <1>2 DEF Initialize
  <1>3. ASSUME NEW c \in Addresses, EmergencyPause(c)
        PROVE  ControlTypeOK'
    BY <1>3 DEF EmergencyPause
  <1>4. ASSUME NEW c \in Addresses, EmergencyApproveUnpause(c)
        PROVE  ControlTypeOK'
    BY <1>4 DEF EmergencyApproveUnpause
  <1>5. ASSUME NEW c \in Addresses, EmergencyUnpause(c)
        PROVE  ControlTypeOK'
    <2>1. paused' \in BOOLEAN
      BY <1>5 DEF EmergencyUnpause
    <2>2. unpauseRound' \in Nat /\ unpauseApprovalCount' \in Nat
      BY <1>5 DEF EmergencyUnpause, ClearUnpauseApprovals
    <2>3. scheduledUnpause' \in Nat \cup {NotScheduled}
      BY <1>5 DEF EmergencyUnpause, ClearUnpauseApprovals
    <2>4. UNCHANGED <<now, contractAdmin, admins, unpauseApprovals,
                   unpauseThreshold, unpauseTimelock>>
      BY <1>5 DEF EmergencyUnpause
    <2> QED
      BY <2>1, <2>2, <2>3, <2>4
  <1>6. ASSUME NEW c \in Addresses, NEW o \in Candidates, AddAdmin(c, o)
        PROVE  ControlTypeOK'
    BY <1>6 DEF AddAdmin
  <1>7. ASSUME NEW c \in Addresses, NEW o \in Candidates, RemoveAdmin(c, o)
        PROVE  ControlTypeOK'
    BY <1>7 DEF RemoveAdmin
  <1>8. ASSUME NEW c \in Addresses, NEW t \in Thresholds, SetUnpauseThreshold(c, t)
        PROVE  ControlTypeOK'
    BY <1>8 DEF SetUnpauseThreshold
  <1>9. ASSUME NEW c \in Addresses, NEW s \in Timelocks, SetUnpauseTimelock(c, s)
        PROVE  ControlTypeOK'
    BY <1>9 DEF SetUnpauseTimelock
  <1> QED
    BY <1>1, <1>2, <1>3, <1>4, <1>5, <1>6, <1>7, <1>8, <1>9 DEF ControlNext

-----------------------------------------------------------------------------
(* The approvals of the current round.                                     *)

LEMMA ApprovalsFinite == IsFiniteSet(CurrentApprovals)
  BY EmergencyAssumption, FS_Subset DEF CurrentApprovals

(* An approval adds its caller to the approvals of the round.              *)
LEMMA ApproveCounts ==
  ASSUME ControlTypeOK, ApprovalCountExact, NEW c \in Addresses,
         EmergencyApproveUnpause(c)
  PROVE  ApprovalCountExact'
  <1>1. /\ unpauseApprovals' = unpauseApprovals \cup {<<unpauseRound, c>>}
        /\ unpauseApprovalCount' = unpauseApprovalCount + 1
        /\ unpauseRound' = unpauseRound /\ unpauseRound \in Nat
        /\ <<unpauseRound, c>> \notin unpauseApprovals
    BY DEF EmergencyApproveUnpause, HasUnpauseApproval, ControlTypeOK
  <1>2. CurrentApprovals' = CurrentApprovals \cup {c} /\ c \notin CurrentApprovals
    BY <1>1 DEF CurrentApprovals, HasUnpauseApproval
  <1>3. Cardinality(CurrentApprovals') = Cardinality(CurrentApprovals) + 1
    BY <1>2, ApprovalsFinite, FS_AddElement
  <1>4. \A p \in unpauseApprovals' : p[1] <= unpauseRound'
    BY <1>1 DEF ApprovalCountExact
  <1> QED
    BY <1>1, <1>3, <1>4 DEF ApprovalCountExact

(* Unpausing starts a round without approvals.                             *)
LEMMA UnpauseClears ==
  ASSUME ControlTypeOK, ApprovalCountExact, NEW c, EmergencyUnpause(c)
  PROVE  CurrentApprovals' = {} /\ ApprovalCountExact'
  <1>1. /\ unpauseRound' = unpauseRound + 1 /\ unpauseRound \in Nat
        /\ unpauseApprovalCount' = 0
        /\ unpauseApprovals' = unpauseApprovals
        /\ unpauseApprovals \subseteq Nat \X Addresses
    BY DEF EmergencyUnpause, ClearUnpauseApprovals, ControlTypeOK
  <1>2. \A p \in unpauseApprovals : p[1] <= unpauseRound /\ p[1] \in Nat
    BY <1>1 DEF ApprovalCountExact
  <1>3. CurrentApprovals' = {}
    BY <1>1, <1>2 DEF CurrentApprovals, HasUnpauseApproval
  <1>4. \A p \in unpauseApprovals' : p[1] <= unpauseRound'
    BY <1>1, <1>2
  <1>5. Cardinality(CurrentApprovals') = 0
    BY <1>3, FS_EmptySet
  <1> QED
    BY <1>1, <1>3, <1>4, <1>5 DEF ApprovalCountExact

(* The other steps leave the approvals and their counter alone.            *)
LEMMA ApprovalFrame ==
  ASSUME ApprovalCountExact,
         UNCHANGED <<unpauseApprovals, unpauseRound, unpauseApprovalCount>>
  PROVE  ApprovalCountExact'
  BY DEF ApprovalCountExact, CurrentApprovals, HasUnpauseApproval

-----------------------------------------------------------------------------
(* The inductive invariant.                                                *)

LEMMA ControlInitInv == ControlInit => ControlInv
  <1> SUFFICES ASSUME ControlInit PROVE ControlInv
    OBVIOUS
  <1>1. ControlTypeOK
    BY DEF ControlInit, ControlTypeOK, DefaultThreshold, DefaultTimelock
  <1>2. CurrentApprovals = {}
    BY DEF ControlInit, CurrentApprovals, HasUnpauseApproval
  <1>3. ApprovalCountExact
    BY <1>2, FS_EmptySet DEF ControlInit, ApprovalCountExact
  <1> QED
    BY <1>1, <1>3 DEF ControlInit, ControlInv, ScheduleBacked, PausedHasAdmin,
                      UninitializedIsIdle

LEMMA ControlStepCounts ==
  ASSUME ControlTypeOK, ApprovalCountExact, [ControlNext]_emergencyVars
  PROVE  ApprovalCountExact'
  <1>1. \/ UNCHANGED <<unpauseApprovals, unpauseRound, unpauseApprovalCount>>
        \/ \E c \in Addresses : EmergencyApproveUnpause(c) \/ EmergencyUnpause(c)
    BY DEF ControlNext, Tick, Initialize, EmergencyPause, AddAdmin, RemoveAdmin,
           SetUnpauseThreshold, SetUnpauseTimelock, emergencyVars, controlVars
  <1> QED
    BY <1>1, ApproveCounts, UnpauseClears, ApprovalFrame

LEMMA ControlStepSchedule ==
  ASSUME ControlTypeOK, ScheduleBacked, [ControlNext]_emergencyVars
  PROVE  ScheduleBacked'
  <1>1. \/ UNCHANGED <<scheduledUnpause, unpauseApprovalCount>>
        \/ \E c \in Addresses : EmergencyApproveUnpause(c) \/ EmergencyUnpause(c)
    BY DEF ControlNext, Tick, Initialize, EmergencyPause, AddAdmin, RemoveAdmin,
           SetUnpauseThreshold, SetUnpauseTimelock, emergencyVars, controlVars
  <1>2. ASSUME NEW c \in Addresses, EmergencyApproveUnpause(c)
        PROVE  unpauseApprovalCount' > 0
    BY <1>2 DEF EmergencyApproveUnpause, ControlTypeOK
  <1>3. ASSUME NEW c \in Addresses, EmergencyUnpause(c)
        PROVE  scheduledUnpause' = NotScheduled
    BY <1>3 DEF EmergencyUnpause, ClearUnpauseApprovals
  <1> QED
    BY <1>1, <1>2, <1>3 DEF ScheduleBacked

LEMMA ControlStepAdmins ==
  ASSUME ControlTypeOK, PausedHasAdmin, UninitializedIsIdle,
         [ControlNext]_emergencyVars
  PROVE  PausedHasAdmin' /\ UninitializedIsIdle'
  <1> USE EmergencyAssumption DEF PausedHasAdmin, UninitializedIsIdle, IsAdmin,
          RequireNotPaused
  <1>1. ASSUME NEW d \in Deployers, Initialize(d)
        PROVE  PausedHasAdmin' /\ UninitializedIsIdle'
    BY <1>1 DEF Initialize
  <1>2. ASSUME NEW c \in Addresses, EmergencyPause(c)
        PROVE  PausedHasAdmin' /\ UninitializedIsIdle'
    BY <1>2 DEF EmergencyPause
  <1>3. ASSUME NEW c \in Addresses, EmergencyUnpause(c)
        PROVE  PausedHasAdmin' /\ UninitializedIsIdle'
    BY <1>3 DEF EmergencyUnpause
  <1>4. ASSUME NEW c \in Addresses, NEW o \in Candidates,
               AddAdmin(c, o) \/ RemoveAdmin(c, o)
        PROVE  PausedHasAdmin' /\ UninitializedIsIdle'
    BY <1>4 DEF AddAdmin, RemoveAdmin
  <1>5. \/ UNCHANGED <<contractAdmin, admins, paused>>
        \/ \E d \in Deployers : Initialize(d)
        \/ \E c \in Addresses : EmergencyPause(c) \/ EmergencyUnpause(c)
        \/ \E c \in Addresses, o \in Candidates : AddAdmin(c, o) \/ RemoveAdmin(c, o)
    BY DEF ControlNext, Tick, EmergencyApproveUnpause, SetUnpauseThreshold,
           SetUnpauseTimelock, emergencyVars, controlVars
  <1>6. CASE UNCHANGED <<contractAdmin, admins, paused>>
    BY <1>6
  <1> QED
    BY <1>1, <1>2, <1>3, <1>4, <1>5, <1>6

LEMMA ControlNextInv == ControlInv /\ [ControlNext]_emergencyVars => ControlInv'
  <1> SUFFICES ASSUME ControlInv, [ControlNext]_emergencyVars PROVE ControlInv'
    OBVIOUS
  <1>1. UNCHANGED emergencyVars => ControlTypeOK'
    BY DEF ControlInv, ControlTypeOK, emergencyVars, controlVars
  <1>2. ControlTypeOK'
    BY <1>1, ControlStepType DEF ControlInv
  <1>3. /\ ControlTypeOK /\ ApprovalCountExact /\ ScheduleBacked
        /\ PausedHasAdmin /\ UninitializedIsIdle
    BY DEF ControlInv
  <1>4. ApprovalCountExact'
    BY <1>3, ControlStepCounts
  <1>5. ScheduleBacked'
    BY <1>3, ControlStepSchedule
  <1>6. PausedHasAdmin' /\ UninitializedIsIdle'
    BY <1>3, ControlStepAdmins
  <1> QED
    BY <1>2, <1>4, <1>5, <1>6 DEF ControlInv

THEOREM ControlInvariance == ControlSpec => []ControlInv
  BY ControlInitInv, ControlNextInv, PTL DEF ControlSpec

(* Every variable of the switch keeps its type.                            *)
THEOREM ControlTyped == ControlSpec => []ControlTypeOK
  <1>1. ControlInv => ControlTypeOK
    BY DEF ControlInv
  <1> QED
    BY <1>1, ControlInvariance, PTL

(* The counter is the number of approvals stored under the current round.  *)
THEOREM ApprovalsCounted == ControlSpec => []ApprovalCountExact
  <1>1. ControlInv => ApprovalCountExact
    BY DEF ControlInv
  <1> QED
    BY <1>1, ControlInvariance, PTL

(* Nothing is scheduled without an approval of the current round.          *)
THEOREM SchedulesBacked == ControlSpec => []ScheduleBacked
  <1>1. ControlInv => ScheduleBacked
    BY DEF ControlInv
  <1> QED
    BY <1>1, ControlInvariance, PTL

(* A paused contract always has an admin.                                  *)
THEOREM PausedNeverOrphaned == ControlSpec => []PausedHasAdmin
  <1>1. ControlInv => PausedHasAdmin
    BY DEF ControlInv
  <1> QED
    BY <1>1, ControlInvariance, PTL

(* Every pause ends through a due schedule, backed by an approval of the   *)
(* round that ends with it.                                                *)
THEOREM UnpausesFresh == ControlSpec => UnpauseIsFresh
  <1>1. ASSUME ControlInv, [ControlNext]_emergencyVars, paused, ~paused'
        PROVE  /\ CurrentApprovals # {}
               /\ scheduledUnpause # NotScheduled /\ scheduledUnpause <= now
               /\ CurrentApprovals' = {}
               /\ unpauseRound' > unpauseRound
    <2>1. PICK c \in Addresses : EmergencyUnpause(c)
      BY <1>1 DEF ControlNext, Tick, Initialize, EmergencyPause, AddAdmin,
         RemoveAdmin, EmergencyApproveUnpause, SetUnpauseThreshold,
         SetUnpauseTimelock, emergencyVars, controlVars
    <2>2. /\ scheduledUnpause # NotScheduled /\ now >= scheduledUnpause
          /\ unpauseRound' = unpauseRound + 1
      BY <2>1 DEF EmergencyUnpause, ClearUnpauseApprovals
    <2>3. Cardinality(CurrentApprovals) > 0
      BY <1>1, <2>2 DEF ControlInv, ScheduleBacked, ApprovalCountExact
    <2>4. CurrentApprovals # {}
      BY <2>3, FS_EmptySet
    <2>5. CurrentApprovals' = {}
      BY <1>1, <2>1, UnpauseClears DEF ControlInv
    <2>6. now \in Int /\ scheduledUnpause \in Int /\ unpauseRound \in Nat
      BY <1>1 DEF ControlInv, ControlTypeOK, NotScheduled
    <2> QED
      BY <2>2, <2>4, <2>5, <2>6
  <1> QED
    BY <1>1, ControlInvariance, PTL DEF ControlSpec, UnpauseIsFresh

-----------------------------------------------------------------------------
(* Types, escrow records and self-approval.                                *)

EscrowInv == EscrowFollowsQuest /\ EscrowAccounting

IndInv == TypeOK /\ EscrowInv /\ NoSelfApproval

-----------------------------------------------------------------------------
(* Helpers.                                                                *)

(* Storing a key adds it to the domain and maps it to the value, and       *)
(* changes nothing else.                                                   *)
LEMMA PutFacts ==
  ASSUME NEW f, NEW k, NEW v
  PROVE  /\ DOMAIN Put(f, k, v) = DOMAIN f \cup {k}
         /\ Put(f, k, v)[k] = v
         /\ \A x \in DOMAIN f : x # k => Put(f, k, v)[x] = f[x]
         /\ Put(f, k, v) \in [DOMAIN f \cup {k} -> {Put(f, k, v)[x] : x \in DOMAIN f \cup {k}}]
  BY DEF Put

(* A transfer between two accounts keeps every balance a natural number.   *)
LEMMA TransferType ==
  ASSUME balances \in [Tokens -> [Accounts -> Nat]],
         NEW t \in Tokens, NEW from \in Accounts, NEW to \in Accounts,
         NEW amount \in Nat, Transfer(t, from, to, amount)
  PROVE  balances' \in [Tokens -> [Accounts -> Nat]]
  BY DEF Transfer

(* The level is a natural number between 1 and 5.                          *)
LEMMA LevelType ==
  ASSUME NEW xp \in Nat
  PROVE  CalculateLevel(xp) \in 1..5
  BY DEF CalculateLevel

(* A step that leaves the money path alone keeps the invariant.            *)
LEMMA FrameStep ==
  ASSUME IndInv, ControlTypeOK', UNCHANGED questVars
  PROVE  IndInv'
  <1> USE DEF questVars
  <1>1. QuestTypeOK'
    BY DEF IndInv, TypeOK, QuestTypeOK
  <1>2. EscrowInv'
    BY DEF IndInv, EscrowInv, EscrowFollowsQuest, EscrowAccounting, Available
  <1>3. NoSelfApproval'
    BY DEF IndInv, NoSelfApproval
  <1> QED
    BY <1>1, <1>2, <1>3 DEF IndInv, TypeOK

(* What the control state's type needs from a money step.                  *)
LEMMA ControlFrame ==
  ASSUME ControlTypeOK, UNCHANGED emergencyVars
  PROVE  ControlTypeOK'
  BY DEF ControlTypeOK, emergencyVars, controlVars

-----------------------------------------------------------------------------
(* Registration and quest status.                                          *)

(* A new quest is well typed.                                              *)
LEMMA NewQuestType ==
  ASSUME NEW c \in Creators, NEW terms \in OfferedTerms, ValidTerms(c, terms)
  PROVE  NewQuest(c, terms) \in Quest
  <1>1. /\ terms.rewardAsset \in Tokens /\ terms.rewardAmount \in Int
        /\ terms.verifier \in Addresses /\ terms.deadline \in Nat
        /\ c \in Addresses
    BY EarnQuestAssumption DEF OfferedTerms
  <1>2. terms.rewardAmount \in Nat
    BY <1>1 DEF ValidTerms, ValidAmount
  <1> QED
    BY <1>1, <1>2 DEF NewQuest, Quest, QuestStatus

(* Registering unregistered quests keeps the invariant: the quests already *)
(* registered, and with them every submission and escrow record, keep      *)
(* their terms.                                                            *)
LEMMA RegisterStep ==
  ASSUME IndInv, UNCHANGED <<emergencyVars, submissions, escrows, userStats,
                             balances, poolFlow>>,
         NEW ids \in SUBSET Quests,
         quests' \in [DOMAIN quests \cup ids -> Quest],
         \A q \in DOMAIN quests : quests'[q] = quests[q]
  PROVE  IndInv'
  <1> USE DEF IndInv, TypeOK
  <1>1. DOMAIN quests \subseteq DOMAIN quests' /\ DOMAIN quests' \subseteq Quests
    BY DEF QuestTypeOK
  <1>2. QuestTypeOK'
    BY <1>1 DEF QuestTypeOK
  <1>3. EscrowInv'
    BY DEF QuestTypeOK, EscrowInv, EscrowFollowsQuest, EscrowAccounting, Available
  <1>4. NoSelfApproval'
    <2>1. \A s \in DOMAIN submissions : s[1] \in DOMAIN quests
      BY DEF QuestTypeOK
    <2> QED
      BY <2>1 DEF NoSelfApproval
  <1> QED
    BY <1>2, <1>3, <1>4, ControlFrame

(* A quest whose status changes is still a quest.                          *)
LEMMA StatusTyped ==
  ASSUME quests \in [DOMAIN quests -> Quest], NEW q \in DOMAIN quests,
         NEW status \in QuestStatus
  PROVE  [quests EXCEPT ![q].status = status] \in [DOMAIN quests -> Quest]
  <1>1. quests[q] \in Quest
    OBVIOUS
  <1>2. [quests[q] EXCEPT !.status = status] \in Quest
    BY <1>1 DEF Quest
  <1> QED
    BY <1>2

(* Changing the status of a quest that has not ended to one that is not    *)
(* terminal keeps the invariant.                                           *)
LEMMA PauseResumeStep ==
  ASSUME IndInv, UNCHANGED <<emergencyVars, submissions, escrows, userStats,
                             balances, poolFlow>>,
         NEW q \in DOMAIN quests, NEW status \in {"Active", "Paused"},
         SetQuestStatus(q, status)
  PROVE  IndInv'
  <1> USE DEF IndInv, TypeOK
  <1>1. /\ quests' = [quests EXCEPT ![q].status = status]
        /\ ~IsQuestTerminal(quests[q].status) /\ ~IsQuestTerminal(status)
    BY DEF SetQuestStatus, ValidQuestTransition, IsQuestTerminal
  <1>2. QuestTypeOK'
    <2>1. quests \in [DOMAIN quests -> Quest] /\ status \in QuestStatus
      BY DEF QuestTypeOK, QuestStatus
    <2>2. quests' \in [DOMAIN quests -> Quest] /\ DOMAIN quests' = DOMAIN quests
      BY <1>1, <2>1, StatusTyped
    <2> QED
      BY <2>2 DEF QuestTypeOK
  <1>3. EscrowFollowsQuest'
    BY <1>1 DEF EscrowInv, EscrowFollowsQuest, QuestTypeOK, Quest
  <1>4. EscrowAccounting'
    BY DEF EscrowInv, EscrowAccounting, Available
  <1>5. NoSelfApproval'
    BY <1>1 DEF NoSelfApproval, QuestTypeOK, Quest
  <1> QED
    BY <1>2, <1>3, <1>4, <1>5, ControlFrame DEF EscrowInv

-----------------------------------------------------------------------------
(* Submissions.                                                            *)

(* Rewriting submissions keeps the invariant if no approved or paid        *)
(* submission is the verifier's own.                                       *)
LEMMA SubmissionStep ==
  ASSUME IndInv, UNCHANGED <<emergencyVars, quests, escrows, userStats,
                             balances, poolFlow>>,
         DOMAIN submissions' \subseteq (DOMAIN quests) \X Addresses,
         submissions' \in [DOMAIN submissions' -> SubmissionStatus],
         NoSelfApproval'
  PROVE  IndInv'
  <1> USE DEF IndInv, TypeOK
  <1>1. QuestTypeOK'
    BY DEF QuestTypeOK
  <1>2. EscrowInv'
    BY DEF EscrowInv, EscrowFollowsQuest, EscrowAccounting, Available
  <1> QED
    BY <1>1, <1>2, ControlFrame

(* A new or repeated proof is pending.                                     *)
LEMMA SubmitStep ==
  ASSUME IndInv, NEW q \in Quests, NEW u \in Submitters, SubmitProof(q, u)
  PROVE  IndInv'
  <1> USE DEF IndInv, TypeOK, QuestTypeOK
  <1>1. <<q, u>> \in (DOMAIN quests) \X Addresses
    BY EarnQuestAssumption DEF SubmitProof, HasQuest
  <1>2. submissions' = Put(submissions, <<q, u>>, "Pending")
    BY DEF SubmitProof
  <1>3. DOMAIN submissions' = DOMAIN submissions \cup {<<q, u>>}
    BY <1>2, PutFacts
  <1>4. \A s \in DOMAIN submissions' :
          submissions'[s] = IF s = <<q, u>> THEN "Pending" ELSE submissions[s]
    BY <1>2 DEF Put
  <1>5. submissions' \in [DOMAIN submissions' -> SubmissionStatus]
    BY <1>2, <1>4 DEF Put, SubmissionStatus
  <1>6. NoSelfApproval'
    BY <1>3, <1>4 DEF NoSelfApproval, SubmitProof
  <1> QED
    BY <1>1, <1>3, <1>5, <1>6, SubmissionStep DEF SubmitProof

(* The single approval, if it ever succeeds, is by the quest's verifier    *)
(* against a condition that excludes the verifier: it changes nothing.     *)
LEMMA ApproveStep ==
  ASSUME NEW q, NEW u, NEW v, ApproveSubmission(q, u, v)
  PROVE  UNCHANGED vars
  <1>1. ~CanApproveSubmission(q, u, v)
    BY DEF CanApproveSubmission, Approvable, AddressesDistinct
  <1> QED
    BY <1>1 DEF ApproveSubmission

(* The batch approval checks that the verifier approves nothing of its own.*)
LEMMA ApproveBatchStep ==
  ASSUME IndInv, NEW v \in Verifiers, NEW batch \in SUBSET (Quests \X Submitters),
         ApproveSubmissionsBatch(v, batch)
  PROVE  IndInv'
  <1> USE DEF IndInv, TypeOK, QuestTypeOK
  <1>1. /\ DOMAIN submissions' = DOMAIN submissions
        /\ submissions' \in [DOMAIN submissions' -> SubmissionStatus]
    BY DEF ApproveSubmissionsBatch, SubmissionStatus
  <1>2. \A s \in batch : s[2] # quests[s[1]].verifier
    BY DEF ApproveSubmissionsBatch, Approvable, AddressesDistinct
  <1>3. NoSelfApproval'
    BY <1>2 DEF ApproveSubmissionsBatch, NoSelfApproval
  <1> QED
    BY <1>1, <1>3, SubmissionStep DEF ApproveSubmissionsBatch

(* Awarding experience keeps the statistics well typed.                    *)
LEMMA AwardXpType ==
  ASSUME userStats \in [Addresses -> UserStats], NEW u \in Addresses,
         AwardXp(u, ClaimXp)
  PROVE  userStats' \in [Addresses -> UserStats]
  <1> DEFINE level == CalculateLevel(userStats[u].xp + ClaimXp)
  <1>1. userStats[u] \in UserStats
    OBVIOUS
  <1>2. userStats[u].xp + ClaimXp \in Nat
    BY <1>1 DEF UserStats, ClaimXp
  <1>3. level \in 1..5
    BY <1>2, LevelType
  <1>4. userStats' = [userStats EXCEPT ![u].xp = @ + ClaimXp,
                        ![u].questsCompleted = @ + 1, ![u].level = level]
    BY DEF AwardXp
  <1> HIDE DEF level
  <1> QED
    BY <1>1, <1>2, <1>3, <1>4 DEF UserStats

(* A claim pays one reward out of an open escrow that covers it, or        *)
(* touches no escrow record.                                               *)
LEMMA ClaimStep ==
  ASSUME IndInv, NEW q \in Quests, NEW u \in Submitters, ClaimReward(q, u)
  PROVE  IndInv'
  <1> DEFINE t == quests[q].rewardAsset
             amount == quests[q].rewardAmount
  <1>1. /\ ControlTypeOK /\ QuestTypeOK
        /\ EscrowFollowsQuest /\ EscrowAccounting /\ NoSelfApproval
    BY DEF IndInv, TypeOK, EscrowInv
  <1>2. /\ q \in DOMAIN quests /\ <<q, u>> \in DOMAIN submissions
        /\ submissions[<<q, u>>] = "Approved"
    BY DEF ClaimReward, ValidClaim, HasQuest, HasSubmission,
           ValidSubmissionTransition
  <1>3. /\ t \in Tokens /\ amount \in Nat /\ u \in Addresses
        /\ u \in Accounts /\ Contract \in Accounts
    BY <1>1, <1>2, EarnQuestAssumption DEF QuestTypeOK, Quest, Accounts
  <1>4. balances' \in [Tokens -> [Accounts -> Nat]]
    BY <1>1, <1>3, TransferType
       DEF ClaimReward, TransferRewardFromEscrow, QuestTypeOK
  <1>5. poolFlow' \in [Tokens -> Int]
    BY <1>1, <1>3 DEF ClaimReward, TransferRewardFromEscrow, QuestTypeOK
  <1>6. userStats' \in [Addresses -> UserStats]
    BY <1>1, <1>3, AwardXpType DEF ClaimReward, QuestTypeOK
  <1>7. /\ DOMAIN quests' = DOMAIN quests
        /\ quests' \in [DOMAIN quests' -> Quest]
        /\ \A x \in DOMAIN quests :
             /\ quests'[x].creator = quests[x].creator
             /\ quests'[x].rewardAsset = quests[x].rewardAsset
             /\ quests'[x].verifier = quests[x].verifier
             /\ quests'[x].status = quests[x].status
    <2> DEFINE r == [quests[q] EXCEPT !.totalClaims = @ + 1]
    <2>1. quests' = [quests EXCEPT ![q] = r]
      BY DEF ClaimReward
    <2>2. quests[q] \in Quest
      BY <1>1, <1>2 DEF QuestTypeOK
    <2>3. /\ r \in Quest
          /\ r.creator = quests[q].creator /\ r.rewardAsset = quests[q].rewardAsset
          /\ r.verifier = quests[q].verifier /\ r.status = quests[q].status
      BY <2>2 DEF Quest
    <2> HIDE DEF r
    <2> QED
      BY <1>1, <1>2, <2>1, <2>3 DEF QuestTypeOK
  <1>8. /\ DOMAIN submissions' = DOMAIN submissions
        /\ submissions' \in [DOMAIN submissions' -> SubmissionStatus]
    BY <1>1, <1>2 DEF ClaimReward, QuestTypeOK, SubmissionStatus
  <1>9. /\ DOMAIN escrows' = DOMAIN escrows
        /\ escrows' \in [DOMAIN escrows' -> EscrowInfo]
        /\ EscrowFollowsQuest' /\ EscrowAccounting'
    <2>1. CASE HasEscrow(q)
      <3>1. /\ SufficientEscrow(q, amount)
            /\ escrows' = [escrows EXCEPT ![q].totalPaidOut = @ + amount]
        BY <2>1 DEF ClaimReward, TransferRewardFromEscrow
      <3>2. /\ q \in DOMAIN escrows /\ escrows[q].isActive
            /\ Available(escrows[q]) >= amount
        BY <3>1 DEF SufficientEscrow, HasEscrow
      <3>3. /\ DOMAIN escrows' = DOMAIN escrows
            /\ escrows' \in [DOMAIN escrows' -> EscrowInfo]
        <4> DEFINE r == [escrows[q] EXCEPT !.totalPaidOut = @ + amount]
        <4>1. escrows' = [escrows EXCEPT ![q] = r]
          BY <3>1
        <4>2. escrows[q] \in EscrowInfo
          BY <1>1, <3>2 DEF QuestTypeOK
        <4>3. r \in EscrowInfo
          BY <1>3, <4>2 DEF EscrowInfo
        <4> HIDE DEF r
        <4> QED
          BY <1>1, <3>2, <4>1, <4>3 DEF QuestTypeOK
      <3>4. EscrowFollowsQuest'
        BY <1>1, <1>7, <3>1, <3>2, <3>3 DEF EscrowFollowsQuest, QuestTypeOK, EscrowInfo
      <3>5. EscrowAccounting'
        BY <1>1, <1>3, <3>1, <3>2, <3>3
           DEF EscrowAccounting, Available, QuestTypeOK, EscrowInfo
      <3> QED
        BY <3>3, <3>4, <3>5
    <2>2. CASE ~HasEscrow(q)
      <3>1. escrows' = escrows
        BY <2>2 DEF ClaimReward, TransferRewardFromEscrow
      <3> QED
        BY <1>1, <1>7, <3>1
           DEF EscrowFollowsQuest, EscrowAccounting, Available, QuestTypeOK
    <2> QED
      BY <2>1, <2>2
  <1>10. NoSelfApproval'
    BY <1>1, <1>2, <1>7, <1>8 DEF NoSelfApproval, ClaimReward, QuestTypeOK
  <1>11. ControlTypeOK'
    BY <1>1, ControlFrame DEF ClaimReward
  <1> QED
    BY <1>1, <1>4, <1>5, <1>6, <1>7, <1>8, <1>9, <1>10, <1>11
       DEF IndInv, TypeOK, QuestTypeOK, EscrowInv

(* A badge grant touches only the user statistics.                         *)
LEMMA GrantBadgeStep ==
  ASSUME IndInv, NEW c \in Addresses, NEW u \in Addresses, NEW b \in Badges,
         GrantBadge(c, u, b)
  PROVE  IndInv'
  <1> USE DEF IndInv, TypeOK
  <1>1. userStats' \in [Addresses -> UserStats]
    BY DEF GrantBadge, QuestTypeOK, UserStats
  <1>2. QuestTypeOK'
    BY <1>1 DEF GrantBadge, QuestTypeOK
  <1>3. EscrowInv' /\ NoSelfApproval'
    BY DEF GrantBadge, EscrowInv, EscrowFollowsQuest, EscrowAccounting,
           Available, NoSelfApproval
  <1> QED
    BY <1>2, <1>3, ControlFrame DEF GrantBadge

-----------------------------------------------------------------------------
(* Escrow.                                                                 *)

(* A deposit opens or tops up the open escrow of a quest that has not      *)
(* ended.                                                                  *)
LEMMA DepositStep ==
  ASSUME IndInv, NEW q \in Quests, NEW d \in Addresses, NEW t \in Tokens,
         NEW amount \in Deposits, DepositEscrow(q, d, t, amount)
  PROVE  IndInv'
  <1> DEFINE e == IF HasEscrow(q) THEN escrows[q] ELSE NewEscrow(d, t)
             r == [e EXCEPT !.totalDeposited = @ + amount]
  <1>1. /\ ControlTypeOK /\ QuestTypeOK
        /\ EscrowFollowsQuest /\ EscrowAccounting /\ NoSelfApproval
    BY DEF IndInv, TypeOK, EscrowInv
  <1>2. /\ q \in DOMAIN quests /\ d = quests[q].creator
        /\ t = quests[q].rewardAsset /\ ~IsQuestTerminal(quests[q].status)
        /\ HasEscrow(q) => escrows[q].isActive
        /\ amount \in Nat
    BY EarnQuestAssumption DEF DepositEscrow, HasQuest, ValidAmount, EscrowToken
  <1>3. balances' \in [Tokens -> [Accounts -> Nat]]
    BY <1>1, <1>2, TransferType DEF DepositEscrow, QuestTypeOK, Accounts
  <1>4. /\ e \in EscrowInfo /\ e.depositor = d /\ e.token = t /\ e.isActive
        /\ Available(e) >= 0 /\ e.totalRefunded = 0
    <2>1. CASE HasEscrow(q)
      BY <1>1, <1>2, <2>1
         DEF HasEscrow, QuestTypeOK, EscrowFollowsQuest, EscrowAccounting
    <2>2. CASE ~HasEscrow(q)
      BY <2>2 DEF NewEscrow, EscrowInfo, Available
    <2> QED
      BY <2>1, <2>2
  <1>5. /\ r \in EscrowInfo /\ r.depositor = d /\ r.token = t /\ r.isActive
        /\ Available(r) >= 0 /\ r.totalRefunded = 0
    BY <1>2, <1>4 DEF EscrowInfo, Available
  <1>6. escrows' = Put(escrows, q, r)
    BY DEF DepositEscrow
  <1> HIDE DEF e, r
  <1>7. /\ DOMAIN escrows' = DOMAIN escrows \cup {q}
        /\ escrows'[q] = r
        /\ \A x \in DOMAIN escrows : x # q => escrows'[x] = escrows[x]
    BY <1>6 DEF Put
  <1>8. escrows' \in [DOMAIN escrows' -> EscrowInfo]
    BY <1>1, <1>5, <1>6 DEF Put, QuestTypeOK
  <1>9. QuestTypeOK'
    BY <1>1, <1>2, <1>3, <1>7, <1>8 DEF DepositEscrow, QuestTypeOK
  <1>10. EscrowFollowsQuest'
    BY <1>1, <1>2, <1>5, <1>7 DEF DepositEscrow, EscrowFollowsQuest
  <1>11. EscrowAccounting'
    BY <1>1, <1>5, <1>7 DEF EscrowAccounting, Available
  <1>12. NoSelfApproval' /\ ControlTypeOK'
    BY <1>1, ControlFrame DEF DepositEscrow, NoSelfApproval
  <1> QED
    BY <1>9, <1>10, <1>11, <1>12 DEF IndInv, TypeOK, EscrowInv

(* A refund leaves a well typed, closed and empty record and pays its      *)
(* depositor.                                                              *)
LEMMA RefundFacts ==
  ASSUME IndInv, NEW q \in DOMAIN escrows, RefundRemaining(q)
  PROVE  /\ balances' \in [Tokens -> [Accounts -> Nat]]
         /\ DOMAIN escrows' = DOMAIN escrows
         /\ escrows' \in [DOMAIN escrows' -> EscrowInfo]
         /\ \A x \in DOMAIN escrows : x # q => escrows'[x] = escrows[x]
         /\ escrows'[q].depositor = escrows[q].depositor
         /\ escrows'[q].token = escrows[q].token
         /\ ~escrows'[q].isActive
         /\ Available(escrows'[q]) = 0
  <1> DEFINE e == escrows[q]
             sum == e.totalRefunded + Available(e)
             r == [e EXCEPT !.totalRefunded = sum, !.isActive = FALSE]
  <1>1. QuestTypeOK /\ EscrowAccounting
    BY DEF IndInv, TypeOK, EscrowInv
  <1>2. e \in EscrowInfo /\ Available(e) \in Nat
    BY <1>1 DEF QuestTypeOK, EscrowAccounting, EscrowInfo, Available
  <1>3. /\ r \in EscrowInfo /\ r.depositor = e.depositor /\ r.token = e.token
        /\ ~r.isActive /\ Available(r) = 0
    <2>1. sum \in Nat /\ sum = e.totalRefunded + Available(e)
      BY <1>2 DEF EscrowInfo
    <2> HIDE DEF sum, e
    <2>2. /\ r \in EscrowInfo /\ r.depositor = e.depositor /\ r.token = e.token
          /\ ~r.isActive /\ r.totalRefunded = sum
          /\ r.totalDeposited = e.totalDeposited
          /\ r.totalPaidOut = e.totalPaidOut
      BY <1>2, <2>1 DEF EscrowInfo
    <2> HIDE DEF r
    <2>3. Available(r) = 0
      BY <1>2, <2>1, <2>2 DEF EscrowInfo, Available
    <2> QED
      BY <2>2, <2>3
  <1>4. escrows' = [escrows EXCEPT ![q] = r]
    BY DEF RefundRemaining
  <1>5. balances' \in [Tokens -> [Accounts -> Nat]]
    <2>1. CASE Available(e) > 0
      <3>1. Transfer(e.token, Contract, e.depositor, Available(e))
        BY <2>1 DEF RefundRemaining
      <3>2. e.token \in Tokens /\ e.depositor \in Accounts /\ Contract \in Accounts
        BY <1>2 DEF EscrowInfo, Accounts
      <3> QED
        BY <1>1, <1>2, <3>1, <3>2, TransferType DEF QuestTypeOK
    <2>2. CASE ~(Available(e) > 0)
      BY <1>1, <2>2 DEF RefundRemaining, QuestTypeOK
    <2> QED
      BY <2>1, <2>2
  <1> HIDE DEF e, r
  <1>6. /\ DOMAIN escrows' = DOMAIN escrows /\ escrows'[q] = r
        /\ escrows' \in [DOMAIN escrows' -> EscrowInfo]
        /\ \A x \in DOMAIN escrows : x # q => escrows'[x] = escrows[x]
    BY <1>1, <1>3, <1>4 DEF QuestTypeOK
  <1> QED
    BY <1>3, <1>5, <1>6 DEF e

(* Cancelling or expiring a quest ends it and closes its escrow record in  *)
(* one step.                                                               *)
LEMMA CloseStep ==
  ASSUME IndInv, NEW q \in Quests, NEW c \in Addresses,
         NEW status \in {"Cancelled", "Expired"}, CloseQuest(q, c, status)
  PROVE  IndInv'
  <1>1. /\ ControlTypeOK /\ QuestTypeOK
        /\ EscrowFollowsQuest /\ EscrowAccounting /\ NoSelfApproval
    BY DEF IndInv, TypeOK, EscrowInv
  <1>2. /\ q \in DOMAIN quests
        /\ quests' = [quests EXCEPT ![q].status = status]
        /\ UNCHANGED <<emergencyVars, submissions, userStats, poolFlow>>
    BY DEF CloseQuest, SetQuestStatus, HasQuest
  <1>3. /\ DOMAIN quests' = DOMAIN quests
        /\ quests' \in [DOMAIN quests' -> Quest]
    <2>1. quests \in [DOMAIN quests -> Quest] /\ status \in QuestStatus
      BY <1>1 DEF QuestTypeOK, QuestStatus
    <2> QED
      BY <1>2, <2>1, StatusTyped
  <1>4. /\ IsQuestTerminal(quests'[q].status)
        /\ \A x \in DOMAIN quests :
             /\ quests'[x].creator = quests[x].creator
             /\ quests'[x].rewardAsset = quests[x].rewardAsset
             /\ quests'[x].verifier = quests[x].verifier
             /\ x # q => quests'[x].status = quests[x].status
    BY <1>1, <1>2 DEF QuestTypeOK, Quest, IsQuestTerminal
  <1>5. /\ balances' \in [Tokens -> [Accounts -> Nat]]
        /\ DOMAIN escrows' = DOMAIN escrows
        /\ escrows' \in [DOMAIN escrows' -> EscrowInfo]
        /\ \A x \in DOMAIN escrows :
             /\ x # q => escrows'[x] = escrows[x]
             /\ escrows'[x].depositor = escrows[x].depositor
             /\ escrows'[x].token = escrows[x].token
        /\ HasEscrow(q) => /\ ~escrows'[q].isActive
                           /\ Available(escrows'[q]) = 0
    <2>1. CASE HasEscrow(q)
      <3>1. q \in DOMAIN escrows /\ RefundRemaining(q)
        BY <2>1 DEF HasEscrow, CloseQuest
      <3> QED
        BY <3>1, RefundFacts
    <2>2. CASE ~HasEscrow(q)
      <3>1. UNCHANGED <<escrows, balances>> /\ q \notin DOMAIN escrows
        BY <2>2 DEF HasEscrow, CloseQuest
      <3> QED
        BY <1>1, <2>2, <3>1 DEF QuestTypeOK
    <2> QED
      BY <2>1, <2>2
  <1>6. QuestTypeOK'
    BY <1>1, <1>2, <1>3, <1>5 DEF QuestTypeOK
  <1>7. EscrowFollowsQuest'
    BY <1>1, <1>4, <1>5 DEF EscrowFollowsQuest, HasEscrow, QuestTypeOK
  <1>8. EscrowAccounting'
    BY <1>1, <1>5 DEF EscrowAccounting, Available, HasEscrow
  <1>9. NoSelfApproval'
    BY <1>1, <1>2, <1>4 DEF NoSelfApproval, QuestTypeOK
  <1> QED
    BY <1>1, <1>2, <1>6, <1>7, <1>8, <1>9, ControlFrame
       DEF IndInv, TypeOK, EscrowInv

(* Withdrawing finds nothing: the record of a quest that has ended is      *)
(* empty already.                                                          *)
LEMMA WithdrawStep ==
  ASSUME IndInv, NEW q, NEW c, WithdrawUnclaimed(q, c)
  PROVE  UNCHANGED vars
  <1>1. q \in DOMAIN escrows /\ IsQuestTerminal(quests[q].status)
    BY DEF WithdrawUnclaimed, HasEscrow
  <1>2. Available(escrows[q]) = 0
    BY <1>1 DEF IndInv, EscrowInv, EscrowFollowsQuest, EscrowAccounting
  <1> QED
    BY <1>2 DEF WithdrawUnclaimed

(* A token movement outside the records changes balances and the ghost     *)
(* flow only.                                                              *)
LEMMA PoolStep ==
  ASSUME IndInv, NEW t \in Tokens, NEW from \in Accounts, NEW to \in Accounts,
         NEW amount \in Nat, Transfer(t, from, to, amount),
         poolFlow' \in [Tokens -> Int],
         UNCHANGED <<emergencyVars, quests, submissions, escrows, userStats>>
  PROVE  IndInv'
  <1> USE DEF IndInv, TypeOK
  <1>1. balances' \in [Tokens -> [Accounts -> Nat]]
    BY TransferType DEF QuestTypeOK
  <1>2. QuestTypeOK'
    BY <1>1 DEF QuestTypeOK
  <1>3. EscrowInv' /\ NoSelfApproval'
    BY DEF EscrowInv, EscrowFollowsQuest, EscrowAccounting, Available,
           NoSelfApproval
  <1> QED
    BY <1>2, <1>3, ControlFrame

-----------------------------------------------------------------------------
(* The three groups of calls.                                              *)

LEMMA QuestGroup ==
  ASSUME IndInv, QuestNext
  PROVE  IndInv'
  <1>1. ASSUME NEW q \in Quests, NEW c \in Creators, NEW terms \in OfferedTerms,
               RegisterQuest(q, c, terms)
        PROVE  IndInv'
    <2>1. /\ q \notin DOMAIN quests
          /\ quests' = Put(quests, q, NewQuest(c, terms))
          /\ NewQuest(c, terms) \in Quest
          /\ UNCHANGED <<emergencyVars, submissions, escrows, userStats,
                         balances, poolFlow>>
      BY <1>1, NewQuestType DEF RegisterQuest, HasQuest
    <2>2. quests \in [DOMAIN quests -> Quest]
      BY DEF IndInv, TypeOK, QuestTypeOK
    <2>3. /\ quests' \in [DOMAIN quests \cup {q} -> Quest]
          /\ \A x \in DOMAIN quests : quests'[x] = quests[x]
      BY <2>1, <2>2 DEF Put
    <2>4. {q} \in SUBSET Quests
      OBVIOUS
    <2> QED
      BY <2>1, <2>3, <2>4, RegisterStep
  <1>2. ASSUME NEW ids \in SUBSET Quests, NEW c \in Creators,
               NEW batch \in [ids -> OfferedTerms],
               RegisterQuestsBatch(c, batch)
        PROVE  IndInv'
    <2>1. /\ \A q \in ids : q \notin DOMAIN quests /\ ValidTerms(c, batch[q])
          /\ quests' = [q \in DOMAIN quests \cup ids |->
                          IF q \in ids THEN NewQuest(c, batch[q])
                                       ELSE quests[q]]
          /\ UNCHANGED <<emergencyVars, submissions, escrows, userStats,
                         balances, poolFlow>>
      BY <1>2 DEF RegisterQuestsBatch, HasQuest
    <2>2. quests \in [DOMAIN quests -> Quest]
      BY DEF IndInv, TypeOK, QuestTypeOK
    <2>3. \A q \in ids : NewQuest(c, batch[q]) \in Quest
      BY <2>1, NewQuestType
    <2>4. /\ quests' \in [DOMAIN quests \cup ids -> Quest]
          /\ \A x \in DOMAIN quests : quests'[x] = quests[x]
      BY <2>1, <2>2, <2>3
    <2> QED
      BY <2>1, <2>4, RegisterStep
  <1>3. ASSUME NEW a \in Addresses, NEW q \in Quests,
               PauseQuest(a, q) \/ ResumeQuest(a, q)
        PROVE  IndInv'
    BY <1>3, PauseResumeStep DEF PauseQuest, ResumeQuest, HasQuest
  <1> QED
    BY <1>1, <1>2, <1>3 DEF QuestNext

LEMMA SubmissionGroup ==
  ASSUME IndInv, SubmissionNext
  PROVE  IndInv' \/ UNCHANGED vars
  BY SubmitStep, ApproveStep, ClaimStep, ApproveBatchStep, GrantBadgeStep
     DEF SubmissionNext

LEMMA EscrowGroup ==
  ASSUME IndInv, EscrowNext
  PROVE  IndInv' \/ UNCHANGED vars
  <1>1. ASSUME NEW q \in Quests, NEW c \in Addresses,
               CancelQuest(q, c) \/ ExpireQuest(q, c)
        PROVE  IndInv'
    BY <1>1, CloseStep DEF CancelQuest, ExpireQuest
  <1>2. ASSUME NEW a \in Addresses, NEW to \in Addresses, NEW t \in Tokens,
               NEW amount \in Deposits, EmergencyWithdraw(a, t, to, amount)
        PROVE  IndInv'
    <2>1. amount \in Nat /\ to \in Accounts /\ Contract \in Accounts
      BY <1>2, EarnQuestAssumption DEF EmergencyWithdraw, ValidAmount, Accounts
    <2>2. poolFlow' \in [Tokens -> Int]
      BY <1>2, <2>1 DEF EmergencyWithdraw, IndInv, TypeOK, QuestTypeOK
    <2> QED
      BY <1>2, <2>1, <2>2, PoolStep DEF EmergencyWithdraw
  <1>3. ASSUME NEW from \in Addresses, NEW t \in Tokens,
               NEW amount \in Deposits, FundPool(from, t, amount)
        PROVE  IndInv'
    <2>1. amount \in Nat /\ from \in Accounts /\ Contract \in Accounts
      BY <1>3, EarnQuestAssumption DEF FundPool, Accounts
    <2>2. poolFlow' \in [Tokens -> Int]
      BY <1>3, <2>1 DEF FundPool, IndInv, TypeOK, QuestTypeOK
    <2> QED
      BY <1>3, <2>1, <2>2, PoolStep DEF FundPool
  <1> QED
    BY <1>1, <1>2, <1>3, DepositStep, WithdrawStep DEF EscrowNext

-----------------------------------------------------------------------------
(* The inductive invariant.                                                *)

LEMMA InitIndInv == Init => IndInv
  <1> SUFFICES ASSUME Init PROVE IndInv
    OBVIOUS
  <1>1. ControlTypeOK
    BY DEF Init, ControlInit, ControlTypeOK, DefaultThreshold, DefaultTimelock
  <1>2. DOMAIN quests = {} /\ DOMAIN submissions = {} /\ DOMAIN escrows = {}
    BY DEF Init
  <1>3. /\ quests \in [DOMAIN quests -> Quest]
        /\ submissions \in [DOMAIN submissions -> SubmissionStatus]
        /\ escrows \in [DOMAIN escrows -> EscrowInfo]
    BY <1>2 DEF Init
  <1>4. userStats \in [Addresses -> UserStats]
    BY DEF Init, NewUserStats, UserStats
  <1>5. /\ balances \in [Tokens -> [Accounts -> Nat]]
        /\ poolFlow \in [Tokens -> Int]
    BY EarnQuestAssumption DEF Init
  <1>6. QuestTypeOK
    BY <1>2, <1>3, <1>4, <1>5 DEF QuestTypeOK
  <1>7. EscrowInv /\ NoSelfApproval
    BY <1>2 DEF EscrowInv, EscrowFollowsQuest, EscrowAccounting, NoSelfApproval
  <1> QED
    BY <1>1, <1>6, <1>7 DEF IndInv, TypeOK

LEMMA StutterIndInv ==
  ASSUME IndInv, UNCHANGED vars
  PROVE  IndInv'
  BY FrameStep, ControlFrame DEF vars, IndInv, TypeOK

LEMMA NextIndInv == IndInv /\ [Next]_vars => IndInv'
  <1> SUFFICES ASSUME IndInv, [Next]_vars PROVE IndInv'
    OBVIOUS
  <1>1. CASE ControlNext /\ UNCHANGED questVars
    BY <1>1, ControlStepType, FrameStep DEF IndInv, TypeOK
  <1>2. CASE QuestNext
    BY <1>2, QuestGroup
  <1>3. CASE SubmissionNext
    BY <1>3, SubmissionGroup, StutterIndInv
  <1>4. CASE EscrowNext
    BY <1>4, EscrowGroup, StutterIndInv
  <1>5. CASE UNCHANGED vars
    BY <1>5, StutterIndInv
  <1> QED
    BY <1>1, <1>2, <1>3, <1>4, <1>5 DEF Next

(* IndInv holds in every reachable state.                                  *)
THEOREM Invariance == Spec => []IndInv
  BY InitIndInv, NextIndInv, PTL DEF Spec

(* Every variable keeps its type: no balance, counter or escrow total is   *)
(* ever negative, and submissions and escrow records belong to registered  *)
(* quests.                                                                 *)
THEOREM TypeCorrect == Spec => []TypeOK
  <1>1. IndInv => TypeOK
    BY DEF IndInv
  <1> QED
    BY <1>1, Invariance, PTL

(* Every escrow record belongs to its quest's creator and reward asset and *)
(* is open exactly until the quest ends.                                   *)
THEOREM EscrowFollows == Spec => []EscrowFollowsQuest
  <1>1. IndInv => EscrowFollowsQuest
    BY DEF IndInv, EscrowInv
  <1> QED
    BY <1>1, Invariance, PTL

(* No escrow record is overdrawn, and closing one leaves nothing in it.    *)
THEOREM EscrowAccounts == Spec => []EscrowAccounting
  <1>1. IndInv => EscrowAccounting
    BY DEF IndInv, EscrowInv
  <1> QED
    BY <1>1, Invariance, PTL

(* No verifier approves its own submission.                                *)
THEOREM SelfApprovalExcluded == Spec => []NoSelfApproval
  <1>1. IndInv => NoSelfApproval
    BY DEF IndInv
  <1> QED
    BY <1>1, Invariance, PTL

(* No call about money touches the emergency switch or the reputation.     *)
LEMMA EscrowFrame ==
  ASSUME EscrowNext
  PROVE  UNCHANGED emergencyVars /\ UNCHANGED userStats
  <1>1. ASSUME NEW q, NEW c, NEW t, NEW amount, DepositEscrow(q, c, t, amount)
        PROVE  UNCHANGED emergencyVars /\ UNCHANGED userStats
    BY <1>1 DEF DepositEscrow
  <1>2. ASSUME NEW q, NEW c, NEW status, CloseQuest(q, c, status)
        PROVE  UNCHANGED emergencyVars /\ UNCHANGED userStats
    BY <1>2 DEF CloseQuest
  <1>3. ASSUME NEW q, NEW c, WithdrawUnclaimed(q, c)
        PROVE  UNCHANGED emergencyVars /\ UNCHANGED userStats
    BY <1>3 DEF WithdrawUnclaimed, vars, questVars
  <1>4. ASSUME NEW a, NEW to, NEW t, NEW amount, EmergencyWithdraw(a, t, to, amount)
        PROVE  UNCHANGED emergencyVars /\ UNCHANGED userStats
    BY <1>4 DEF EmergencyWithdraw
  <1>5. ASSUME NEW from, NEW t, NEW amount, FundPool(from, t, amount)
        PROVE  UNCHANGED emergencyVars /\ UNCHANGED userStats
    BY <1>5 DEF FundPool
  <1>6. ASSUME NEW q, NEW c, CancelQuest(q, c) \/ ExpireQuest(q, c)
        PROVE  UNCHANGED emergencyVars /\ UNCHANGED userStats
    BY <1>2, <1>6 DEF CancelQuest, ExpireQuest
  <1> QED
    BY <1>1, <1>3, <1>4, <1>5, <1>6 DEF EscrowNext

-----------------------------------------------------------------------------
(* What no step may do.                                                    *)

(* Composed with the money path, the emergency switch still behaves as     *)
(* EmergencyControl specifies: no other call touches its state.            *)
THEOREM EmergencyComposition == Spec => ControlSpec
  <1>1. Init => ControlInit
    BY DEF Init
  <1>2. [Next]_vars => [ControlNext]_emergencyVars
    <2> SUFFICES ASSUME [Next]_vars PROVE [ControlNext]_emergencyVars
      OBVIOUS
    <2>1. CASE QuestNext
      BY <2>1 DEF QuestNext, RegisterQuest, RegisterQuestsBatch, PauseQuest,
                  ResumeQuest
    <2>2. CASE SubmissionNext
      <3>1. UNCHANGED vars => UNCHANGED emergencyVars
        BY DEF vars
      <3> QED
        BY <2>2, <3>1, ApproveStep DEF SubmissionNext, SubmitProof, ClaimReward,
             ApproveSubmissionsBatch, GrantBadge
    <2>3. CASE EscrowNext
      BY <2>3, EscrowFrame
    <2> QED
      BY <2>1, <2>2, <2>3 DEF Next, vars
  <1> QED
    BY <1>1, <1>2, PTL DEF Spec, ControlSpec

LEMMA EmergencyCompositionInv == Spec => []ControlInv
  BY EmergencyComposition, ControlInvariance, PTL

(* A claim pays out of the escrow of a quest that has not ended.           *)
LEMMA ClaimKeepsTerminal ==
  ASSUME IndInv, NEW q \in Quests, NEW u, ClaimReward(q, u),
         NEW x \in DOMAIN quests, IsQuestTerminal(quests[x].status)
  PROVE  /\ quests'[x].status = quests[x].status
         /\ DOMAIN escrows' = DOMAIN escrows
         /\ HasEscrow(x) => escrows'[x] = escrows[x]
  <1>1. QuestTypeOK /\ EscrowFollowsQuest
    BY DEF IndInv, TypeOK, EscrowInv
  <1>2. quests'[x].status = quests[x].status
    BY <1>1 DEF ClaimReward, QuestTypeOK, Quest
  <1>3. CASE HasEscrow(q)
    <2>1. /\ escrows[q].isActive /\ q \in DOMAIN escrows
          /\ escrows' = [escrows EXCEPT ![q].totalPaidOut =
                           @ + quests[q].rewardAmount]
      BY <1>3 DEF ClaimReward, TransferRewardFromEscrow, SufficientEscrow, HasEscrow
    <2>2. x # q
      BY <1>1, <2>1 DEF EscrowFollowsQuest
    <2> QED
      BY <1>1, <1>2, <2>1, <2>2 DEF QuestTypeOK
  <1>4. CASE ~HasEscrow(q)
    BY <1>2, <1>4 DEF ClaimReward, TransferRewardFromEscrow
  <1> QED
    BY <1>3, <1>4

(* Closing a quest touches no quest that has already ended.                *)
LEMMA CloseKeepsTerminal ==
  ASSUME IndInv, NEW q \in Quests, NEW c, NEW status, CloseQuest(q, c, status),
         NEW x \in DOMAIN quests, IsQuestTerminal(quests[x].status)
  PROVE  /\ quests'[x].status = quests[x].status
         /\ DOMAIN escrows' = DOMAIN escrows
         /\ HasEscrow(x) => escrows'[x] = escrows[x]
  <1>1. /\ x # q
        /\ quests' = [quests EXCEPT ![q].status = status]
    BY DEF CloseQuest, SetQuestStatus
  <1>2. CASE HasEscrow(q)
    <2>1. q \in DOMAIN escrows /\ RefundRemaining(q)
      BY <1>2 DEF CloseQuest, HasEscrow
    <2> QED
      BY <1>1, <2>1, RefundFacts DEF HasEscrow
  <1>3. CASE ~HasEscrow(q)
    BY <1>1, <1>3 DEF CloseQuest
  <1> QED
    BY <1>2, <1>3

(* A quest that has ended stays so, and its escrow record never changes    *)
(* again.                                                                  *)
THEOREM TerminalStays == Spec => TerminalIsFinal
  <1> DEFINE Kept(x) == /\ quests'[x].status = quests[x].status
                        /\ (HasEscrow(x)' <=> HasEscrow(x))
                        /\ HasEscrow(x) => escrows'[x] = escrows[x]
             Final == \A x \in DOMAIN quests :
                        IsQuestTerminal(quests[x].status) => Kept(x)
  <1>1. IndInv /\ [Next]_vars => Final
    <2> SUFFICES ASSUME IndInv, [Next]_vars, NEW x \in DOMAIN quests,
                        IsQuestTerminal(quests[x].status)
                 PROVE  Kept(x)
      OBVIOUS
    <2> USE DEF HasEscrow
    <2>1. CASE UNCHANGED <<quests, escrows>>
      BY <2>1
    <2>2. CASE QuestNext
      <3>1. escrows' = escrows
        BY <2>2 DEF QuestNext, RegisterQuest, RegisterQuestsBatch, PauseQuest,
                    ResumeQuest
      <3>2. ASSUME NEW q \in Quests, NEW c \in Creators, NEW terms \in OfferedTerms,
                   RegisterQuest(q, c, terms)
            PROVE  quests'[x] = quests[x]
        BY <3>2 DEF RegisterQuest, HasQuest, Put
      <3>3. ASSUME NEW ids \in SUBSET Quests, NEW c \in Creators,
                   NEW batch \in [ids -> OfferedTerms],
                   RegisterQuestsBatch(c, batch)
            PROVE  quests'[x] = quests[x]
        BY <3>3 DEF RegisterQuestsBatch, HasQuest
      <3>4. ASSUME NEW a \in Addresses, NEW q \in Quests,
                   PauseQuest(a, q) \/ ResumeQuest(a, q)
            PROVE  quests'[x] = quests[x]
        BY <3>4 DEF PauseQuest, ResumeQuest, SetQuestStatus, HasQuest,
                    ValidQuestTransition, IsQuestTerminal
      <3>5. quests'[x] = quests[x]
        BY <2>2, <3>2, <3>3, <3>4 DEF QuestNext
      <3> QED
        BY <3>1, <3>5
    <2>3. CASE SubmissionNext
      <3>1. ASSUME NEW q \in Quests, NEW u \in Submitters, ClaimReward(q, u)
            PROVE  Kept(x)
        BY <3>1, ClaimKeepsTerminal
      <3>2. ASSUME NEW q, NEW u, SubmitProof(q, u)
            PROVE  UNCHANGED <<quests, escrows>>
        BY <3>2 DEF SubmitProof
      <3>3. ASSUME NEW v, NEW batch, ApproveSubmissionsBatch(v, batch)
            PROVE  UNCHANGED <<quests, escrows>>
        BY <3>3 DEF ApproveSubmissionsBatch
      <3>4. ASSUME NEW a, NEW u, NEW b, GrantBadge(a, u, b)
            PROVE  UNCHANGED <<quests, escrows>>
        BY <3>4 DEF GrantBadge
      <3>5. UNCHANGED vars => UNCHANGED <<quests, escrows>>
        BY DEF vars, questVars
      <3> QED
        BY <2>1, <2>3, <3>1, <3>2, <3>3, <3>4, <3>5, ApproveStep
           DEF SubmissionNext
    <2>4. CASE EscrowNext
      <3>1. ASSUME NEW q \in Quests, NEW d \in Addresses, NEW t \in Tokens,
                   NEW amount \in Deposits, DepositEscrow(q, d, t, amount)
            PROVE  Kept(x)
        BY <3>1 DEF DepositEscrow, Put
      <3>2. ASSUME NEW q \in Quests, NEW c \in Addresses,
                   CancelQuest(q, c) \/ ExpireQuest(q, c)
            PROVE  Kept(x)
        BY <3>2, CloseKeepsTerminal DEF CancelQuest, ExpireQuest
      <3>3. ASSUME NEW q, NEW c, WithdrawUnclaimed(q, c)
            PROVE  UNCHANGED <<quests, escrows>>
        BY <3>3, WithdrawStep DEF vars, questVars
      <3>4. ASSUME NEW a, NEW to, NEW t, NEW amount,
                   EmergencyWithdraw(a, t, to, amount)
            PROVE  UNCHANGED <<quests, escrows>>
        BY <3>4 DEF EmergencyWithdraw
      <3>5. ASSUME NEW from, NEW t, NEW amount, FundPool(from, t, amount)
            PROVE  UNCHANGED <<quests, escrows>>
        BY <3>5 DEF FundPool
      <3> QED
        BY <2>1, <2>4, <3>1, <3>2, <3>3, <3>4, <3>5 DEF EscrowNext
    <2>5. CASE (ControlNext /\ UNCHANGED questVars) \/ UNCHANGED vars
      BY <2>1, <2>5 DEF vars, questVars
    <2> QED
      BY <2>2, <2>3, <2>4, <2>5 DEF Next
  <1>2. IndInv /\ [Next]_vars =>
          [\A q \in DOMAIN quests : IsQuestTerminal(quests[q].status) =>
             /\ quests'[q].status = quests[q].status
             /\ (HasEscrow(q)' <=> HasEscrow(q))
             /\ HasEscrow(q) => escrows'[q] = escrows[q]]_vars
    BY <1>1
  <1> QED
    BY <1>2, Invariance, PTL DEF Spec, TerminalIsFinal

(* While the contract is paused no quest, submission, escrow record, user  *)
(* statistic or admin flag changes.                                        *)
THEOREM PauseFreezesState == Spec => PausedFreezes
  <1>1. ASSUME ControlInv, [Next]_vars, paused
        PROVE  UNCHANGED <<quests, submissions, escrows, userStats, admins>>
    <2> USE DEF RequireNotPaused
    <2>1. UNCHANGED emergencyVars => admins' = admins
      BY DEF emergencyVars, controlVars
    <2>2. CASE ControlNext /\ UNCHANGED questVars
      <3>1. admins' = admins \/ \E d \in Deployers : Initialize(d)
        BY <1>1, <2>2 DEF ControlNext, Tick, EmergencyPause, EmergencyUnpause,
             EmergencyApproveUnpause, AddAdmin, RemoveAdmin,
             SetUnpauseThreshold, SetUnpauseTimelock, controlVars
      <3>2. contractAdmin # Nobody
        BY <1>1 DEF ControlInv, UninitializedIsIdle
      <3> QED
        BY <2>2, <3>1, <3>2 DEF questVars, Initialize
    <2>3. CASE QuestNext
      BY <1>1, <2>3 DEF QuestNext, RegisterQuest, RegisterQuestsBatch,
           PauseQuest, ResumeQuest
    <2>4. CASE SubmissionNext
      <3>1. UNCHANGED vars
        BY <1>1, <2>4, ApproveStep DEF SubmissionNext, SubmitProof, ClaimReward,
             ApproveSubmissionsBatch, GrantBadge
      <3> QED
        BY <2>1, <3>1 DEF vars, questVars
    <2>5. CASE EscrowNext
      <3>1. UNCHANGED <<emergencyVars, quests, submissions, escrows, userStats>>
        BY <1>1, <2>5 DEF EscrowNext, DepositEscrow, CancelQuest, ExpireQuest,
             CloseQuest, WithdrawUnclaimed, EmergencyWithdraw, FundPool
      <3> QED
        BY <2>1, <3>1
    <2>6. CASE UNCHANGED vars
      BY <2>1, <2>6 DEF vars, questVars
    <2> QED
      BY <1>1, <2>2, <2>3, <2>4, <2>5, <2>6 DEF Next
  <1> QED
    BY <1>1, EmergencyCompositionInv, PTL DEF Spec, PausedFreezes

-----------------------------------------------------------------------------
(* How tokens leave the contract.                                          *)

LEMMA TransferMoves ==
  ASSUME balances \in [Tokens -> [Accounts -> Nat]],
         NEW t \in Tokens, NEW from \in Accounts, NEW to \in Accounts,
         from # to, NEW amount \in Nat, Transfer(t, from, to, amount)
  PROVE  /\ balances'[t][from] = balances[t][from] - amount
         /\ balances'[t][to] = balances[t][to] + amount
         /\ \A x \in Tokens : x # t => balances'[x] = balances[x]
  BY DEF Transfer

(* A claim pays the reward of the submission it marks as paid.             *)
LEMMA ClaimOutflow ==
  ASSUME IndInv, NEW q \in Quests, NEW u \in Submitters, ClaimReward(q, u),
         NEW t \in Tokens, Outflow(t) > 0
  PROVE  RewardPaid(t)
  <1> DEFINE s == <<q, u>>
             asset == quests[q].rewardAsset
             amount == quests[q].rewardAmount
  <1>1. QuestTypeOK
    BY DEF IndInv, TypeOK
  <1>2. /\ q \in DOMAIN quests /\ s \in DOMAIN submissions
        /\ submissions[s] = "Approved" /\ submissions'[s] = "Paid"
        /\ Transfer(asset, Contract, u, amount)
    BY <1>1 DEF ClaimReward, ValidClaim, HasQuest, HasSubmission,
       ValidSubmissionTransition, TransferRewardFromEscrow, QuestTypeOK
  <1>3. /\ asset \in Tokens /\ amount \in Nat /\ u \in Accounts
        /\ Contract \in Accounts /\ u # Contract
    BY <1>1, <1>2, EarnQuestAssumption DEF QuestTypeOK, Quest, Accounts
  <1>4. /\ balances'[asset][Contract] = balances[asset][Contract] - amount
        /\ balances'[asset][u] = balances[asset][u] + amount
        /\ \A x \in Tokens : x # asset => balances'[x] = balances[x]
    <2> HIDE DEF asset, amount
    <2> QED
      BY <1>1, <1>2, <1>3, TransferMoves DEF QuestTypeOK
  <1>5. balances[t][Contract] \in Nat
    BY <1>1, <1>3 DEF QuestTypeOK
  <1>6. t = asset
    BY <1>4, <1>5 DEF Outflow
  <1>7. Outflow(t) = amount
    BY <1>3, <1>4, <1>5, <1>6 DEF Outflow
  <1> QED
    BY <1>2, <1>4, <1>6, <1>7 DEF RewardPaid

(* Ending a quest refunds the whole remainder to its creator.              *)
LEMMA CloseOutflow ==
  ASSUME IndInv, NEW q \in Quests, NEW c \in Addresses,
         NEW status \in {"Cancelled", "Expired"}, CloseQuest(q, c, status),
         NEW t \in Tokens, Outflow(t) > 0
  PROVE  EscrowRefunded(t)
  <1> DEFINE a == Available(escrows[q])
             asset == escrows[q].token
             creator == quests[q].creator
  <1>1. QuestTypeOK /\ EscrowFollowsQuest /\ EscrowAccounting
    BY DEF IndInv, TypeOK, EscrowInv
  <1>2. balances[t][Contract] \in Nat
    BY <1>1 DEF QuestTypeOK, Accounts
  <1>3. balances' # balances
    BY <1>2 DEF Outflow
  <1>4. /\ q \in DOMAIN quests /\ q \in DOMAIN escrows
        /\ ~IsQuestTerminal(quests[q].status) /\ RefundRemaining(q)
        /\ quests' = [quests EXCEPT ![q].status = status]
    BY <1>3 DEF CloseQuest, SetQuestStatus, HasQuest, HasEscrow
  <1>5. /\ escrows[q].isActive /\ escrows[q].depositor = creator
        /\ escrows[q] \in EscrowInfo
    BY <1>1, <1>4 DEF EscrowFollowsQuest, QuestTypeOK
  <1>6. a > 0 /\ Transfer(asset, Contract, creator, a)
    BY <1>3, <1>4, <1>5 DEF RefundRemaining
  <1>7. /\ a \in Nat /\ asset \in Tokens /\ creator \in Accounts
        /\ Contract \in Accounts /\ creator # Contract
    BY <1>5, <1>6, EarnQuestAssumption DEF EscrowInfo, Available, Accounts
  <1>8. /\ balances'[asset][Contract] = balances[asset][Contract] - a
        /\ balances'[asset][creator] = balances[asset][creator] + a
        /\ \A x \in Tokens : x # asset => balances'[x] = balances[x]
    <2> HIDE DEF asset, a, creator
    <2> QED
      BY <1>1, <1>6, <1>7, TransferMoves DEF QuestTypeOK
  <1>9. t = asset /\ Outflow(t) = a
    BY <1>2, <1>7, <1>8 DEF Outflow
  <1>10. ~escrows'[q].isActive
    BY <1>4, RefundFacts
  <1>11. IsQuestTerminal(quests'[q].status)
    BY <1>1, <1>4 DEF IsQuestTerminal, QuestTypeOK, Quest
  <1> QED
    BY <1>4, <1>5, <1>8, <1>9, <1>10, <1>11 DEF EscrowRefunded

(* Tokens sent to the contract never leave it in the same call.            *)
LEMMA InflowOnly ==
  ASSUME IndInv, NEW t \in Tokens, NEW from \in Addresses, NEW amount \in Nat,
         Transfer(t, from, Contract, amount), NEW x \in Tokens
  PROVE  ~(Outflow(x) > 0)
  <1>1. balances \in [Tokens -> [Accounts -> Nat]]
    BY DEF IndInv, TypeOK, QuestTypeOK
  <1>2. from \in Accounts /\ Contract \in Accounts /\ from # Contract
    BY EarnQuestAssumption DEF Accounts
  <1>3. /\ balances'[t][Contract] = balances[t][Contract] + amount
        /\ x # t => balances'[x] = balances[x]
    BY <1>1, <1>2, TransferMoves
  <1>4. balances[x][Contract] \in Nat
    BY <1>1, <1>2
  <1> QED
    BY <1>3, <1>4 DEF Outflow

(* Tokens leave the contract only as the reward of an approved submission  *)
(* that is now paid, as the refund of a quest that ends in the same call,  *)
(* or as an emergency withdrawal during a pause.                           *)
THEOREM OutflowsAreJustified == Spec => OutflowJustified
  <1>1. ASSUME IndInv, [Next]_vars, NEW t \in Tokens, Outflow(t) > 0
        PROVE  RewardPaid(t) \/ EscrowRefunded(t) \/ EmergencyDrain
    <2>1. balances[t][Contract] \in Nat
      BY <1>1 DEF IndInv, TypeOK, QuestTypeOK, Accounts
    <2>2. balances' # balances
      BY <1>1, <2>1 DEF Outflow
    <2>3. ~UNCHANGED vars /\ ~UNCHANGED questVars
      BY <2>2 DEF vars, questVars
    <2>4. ~QuestNext
      BY <2>2 DEF QuestNext, RegisterQuest, RegisterQuestsBatch, PauseQuest,
                  ResumeQuest
    <2>5. CASE SubmissionNext
      <3>1. PICK q \in Quests, u \in Submitters : ClaimReward(q, u)
        BY <2>2, <2>3, <2>5, ApproveStep
           DEF SubmissionNext, SubmitProof, ApproveSubmissionsBatch, GrantBadge
      <3> QED
        BY <1>1, <3>1, ClaimOutflow
    <2>6. CASE EscrowNext
      <3>1. ASSUME NEW q \in Quests, NEW c \in Addresses,
                   CancelQuest(q, c) \/ ExpireQuest(q, c)
            PROVE  EscrowRefunded(t)
        BY <1>1, <3>1, CloseOutflow DEF CancelQuest, ExpireQuest
      <3>2. ASSUME NEW q, NEW d \in Addresses, NEW x \in Tokens,
                   NEW amount \in Deposits, DepositEscrow(q, d, x, amount)
            PROVE  FALSE
        <4>1. amount \in Nat /\ Transfer(x, d, Contract, amount)
          BY <3>2, EarnQuestAssumption DEF DepositEscrow, ValidAmount
        <4> QED
          BY <1>1, <4>1, InflowOnly
      <3>3. ASSUME NEW from \in Addresses, NEW x \in Tokens,
                   NEW amount \in Deposits, FundPool(from, x, amount)
            PROVE  FALSE
        <4>1. amount \in Nat /\ Transfer(x, from, Contract, amount)
          BY <3>3, EarnQuestAssumption DEF FundPool
        <4> QED
          BY <1>1, <4>1, InflowOnly
      <3>4. ASSUME NEW a, NEW to, NEW x, NEW amount,
                   EmergencyWithdraw(a, x, to, amount)
            PROVE  EmergencyDrain
        BY <3>4 DEF EmergencyWithdraw, EmergencyDrain
      <3>5. ASSUME NEW q, NEW c, WithdrawUnclaimed(q, c)
            PROVE  FALSE
        BY <1>1, <2>3, <3>5, WithdrawStep
      <3> QED
        BY <2>6, <3>1, <3>2, <3>3, <3>4, <3>5 DEF EscrowNext
    <2> QED
      BY <1>1, <2>3, <2>4, <2>5, <2>6 DEF Next
  <1>2. IndInv /\ [Next]_vars =>
          [\A t \in Tokens : Outflow(t) > 0 =>
             RewardPaid(t) \/ EscrowRefunded(t) \/ EmergencyDrain]_vars
    BY <1>1
  <1> QED
    BY <1>2, Invariance, PTL DEF Spec, OutflowJustified

-----------------------------------------------------------------------------
(* What the contract counts: the statistics of the users, the claims of    *)
(* each quest against the submissions that stand as paid, and the tokens   *)
(* recorded as paid out against the claims.  Each is inductive together    *)
(* with IndInv and the finiteness of the sets it counts.                   *)

(* Which calls write what is counted.                                      *)

(* Only a claim and a badge grant write user statistics.                   *)
LEMMA StatsWriters ==
  ASSUME IndInv, [Next]_vars
  PROVE  \/ UNCHANGED userStats
         \/ \E q \in Quests, u \in Submitters : ClaimReward(q, u)
         \/ \E a, u \in Addresses, b \in Badges : GrantBadge(a, u, b)
  <1>1. CASE QuestNext
    BY <1>1 DEF QuestNext, RegisterQuest, RegisterQuestsBatch, PauseQuest,
                ResumeQuest
  <1>2. CASE SubmissionNext
    <2>1. ASSUME NEW q, NEW u, SubmitProof(q, u)
          PROVE  UNCHANGED userStats
      BY <2>1 DEF SubmitProof
    <2>2. ASSUME NEW v, NEW batch, ApproveSubmissionsBatch(v, batch)
          PROVE  UNCHANGED userStats
      BY <2>2 DEF ApproveSubmissionsBatch
    <2>3. ASSUME NEW q, NEW u, NEW v, ApproveSubmission(q, u, v)
          PROVE  UNCHANGED userStats
      BY <2>3, ApproveStep DEF vars, questVars
    <2> QED
      BY <1>2, <2>1, <2>2, <2>3 DEF SubmissionNext
  <1>3. CASE EscrowNext
    BY <1>3, EscrowFrame
  <1>4. CASE (ControlNext /\ UNCHANGED questVars) \/ UNCHANGED vars
    BY <1>4 DEF vars, questVars
  <1> QED
    BY <1>1, <1>2, <1>3, <1>4 DEF Next

-----------------------------------------------------------------------------
(* User statistics.                                                        *)

(* StatsConsistent of one record, with the finiteness the cardinality of   *)
(* its badges needs.                                                       *)
StatsSound(r) ==
    /\ r.xp = ClaimXp * r.questsCompleted
    /\ r.level = CalculateLevel(r.xp)
    /\ IsFiniteSet(r.badges)
    /\ Cardinality(r.badges) <= MaxBadges

AllStatsSound == \A u \in Addresses : StatsSound(userStats[u])

(* A claim writes points, level and count of one record in step.           *)
LEMMA AwardKeepsStats ==
  ASSUME IndInv, AllStatsSound, NEW u \in Addresses, AwardXp(u, ClaimXp)
  PROVE  AllStatsSound'
  <1> DEFINE old == userStats[u]
             xp == old.xp + ClaimXp
             level == CalculateLevel(xp)
             r == [old EXCEPT !.xp = xp, !.questsCompleted = @ + 1,
                              !.level = level]
  <1>1. userStats \in [Addresses -> UserStats]
    BY DEF IndInv, TypeOK, QuestTypeOK
  <1>2. userStats' = [userStats EXCEPT ![u] = r]
    BY DEF AwardXp
  <1>3. old \in UserStats /\ StatsSound(old)
    BY <1>1 DEF AllStatsSound
  <1>4. StatsSound(r)
    <2>1. /\ r.xp = xp /\ r.level = level /\ r.badges = old.badges
          /\ r.questsCompleted = old.questsCompleted + 1
      <3> HIDE DEF old, xp, level
      <3> QED
        BY <1>3 DEF UserStats
    <2>2. xp = ClaimXp * (old.questsCompleted + 1)
      BY <1>3 DEF StatsSound, UserStats, ClaimXp
    <2> HIDE DEF r, old, xp
    <2> QED
      BY <1>3, <2>1, <2>2 DEF StatsSound
  <1> HIDE DEF r, old
  <1>5. \A x \in Addresses : userStats'[x] = IF x = u THEN r ELSE userStats[x]
    BY <1>1, <1>2
  <1> QED
    BY <1>4, <1>5 DEF AllStatsSound

(* A grant adds a badge only while there is room for one more.             *)
LEMMA GrantKeepsStats ==
  ASSUME IndInv, AllStatsSound, NEW c, NEW u \in Addresses, NEW b,
         GrantBadge(c, u, b)
  PROVE  AllStatsSound'
  <1> DEFINE old == userStats[u]
             more == old.badges \cup {b}
             r == [old EXCEPT !.badges = more]
  <1>1. userStats \in [Addresses -> UserStats]
    BY DEF IndInv, TypeOK, QuestTypeOK
  <1>2. /\ userStats' = [userStats EXCEPT ![u] = r]
        /\ Cardinality(old.badges) < MaxBadges
    BY DEF GrantBadge
  <1>3. old \in UserStats /\ StatsSound(old)
    BY <1>1 DEF AllStatsSound
  <1>4. IsFiniteSet(more) /\ Cardinality(more) <= MaxBadges
    <2>1. Cardinality(old.badges) \in Nat
      BY <1>3, FS_CardinalityType DEF StatsSound
    <2>2. /\ IsFiniteSet(more)
          /\ Cardinality(more) \in {Cardinality(old.badges),
                                    Cardinality(old.badges) + 1}
      BY <1>3, FS_AddElement DEF StatsSound
    <2> QED
      BY <1>2, <2>1, <2>2, EarnQuestAssumption
  <1>5. StatsSound(r)
    <2> HIDE DEF old, more
    <2>1. /\ r.xp = old.xp /\ r.level = old.level /\ r.badges = more
          /\ r.questsCompleted = old.questsCompleted
      BY <1>3 DEF UserStats
    <2> HIDE DEF r
    <2> QED
      BY <1>3, <1>4, <2>1 DEF StatsSound
  <1> HIDE DEF r, old
  <1>6. \A x \in Addresses : userStats'[x] = IF x = u THEN r ELSE userStats[x]
    BY <1>1, <1>2
  <1> QED
    BY <1>5, <1>6 DEF AllStatsSound

(* Claims and badge grants lose nothing of each other: points and level    *)
(* follow the completed quests, and the badges stay within their limit.    *)
THEOREM StatsStayConsistent == Spec => []StatsConsistent
  <1>1. Init => AllStatsSound
    <2>1. IsFiniteSet({}) /\ Cardinality({}) <= MaxBadges
      BY FS_EmptySet, EarnQuestAssumption
    <2>2. /\ NewUserStats.xp = 0 /\ NewUserStats.level = 1
          /\ NewUserStats.questsCompleted = 0 /\ NewUserStats.badges = {}
      BY DEF NewUserStats
    <2>3. CalculateLevel(0) = 1 /\ ClaimXp * 0 = 0
      BY DEF CalculateLevel, ClaimXp
    <2>4. StatsSound(NewUserStats)
      BY <2>1, <2>2, <2>3 DEF StatsSound
    <2> QED
      BY <2>4 DEF Init, AllStatsSound
  <1>2. IndInv /\ AllStatsSound /\ [Next]_vars => AllStatsSound'
    <2> SUFFICES ASSUME IndInv, AllStatsSound, [Next]_vars
                 PROVE  AllStatsSound'
      OBVIOUS
    <2>1. CASE UNCHANGED userStats
      BY <2>1 DEF AllStatsSound, StatsSound
    <2>2. ASSUME NEW q \in Quests, NEW u \in Submitters, ClaimReward(q, u)
          PROVE  AllStatsSound'
      BY <2>2, AwardKeepsStats, EarnQuestAssumption DEF ClaimReward
    <2>3. ASSUME NEW a \in Addresses, NEW u \in Addresses, NEW b \in Badges,
                 GrantBadge(a, u, b)
          PROVE  AllStatsSound'
      BY <2>3, GrantKeepsStats
    <2> QED
      BY <2>1, <2>2, <2>3, StatsWriters
  <1>3. AllStatsSound => StatsConsistent
    BY DEF AllStatsSound, StatsSound, StatsConsistent
  <1> QED
    BY <1>1, <1>2, <1>3, Invariance, PTL DEF Spec

-----------------------------------------------------------------------------
(* Claims.                                                                 *)

(* Only a claim counts a claim or marks a submission as paid; every other  *)
(* call keeps the counts of the quests it finds, registers quests without  *)
(* claims, and can only take a submission out of the paid ones.            *)
PaidOf(q) == {s \in DOMAIN submissions : s[1] = q /\ submissions[s] = "Paid"}

CountsKept ==
    \A q \in DOMAIN quests' :
        IF q \in DOMAIN quests
          THEN /\ quests'[q].totalClaims = quests[q].totalClaims
               /\ PaidOf(q)' \subseteq PaidOf(q)
          ELSE quests'[q].totalClaims = 0 /\ PaidOf(q)' = {}

(* Submissions belong to registered quests, so a quest that is registered  *)
(* now has none.                                                           *)
LEMMA RegisterKeepsCounts ==
  ASSUME QuestTypeOK, UNCHANGED submissions, NEW ids,
         DOMAIN quests' = DOMAIN quests \cup ids,
         \A q \in DOMAIN quests : quests'[q] = quests[q],
         \A q \in ids \ DOMAIN quests : quests'[q].totalClaims = 0
  PROVE  CountsKept
  <1>1. \A s \in DOMAIN submissions : s[1] \in DOMAIN quests
    BY DEF QuestTypeOK
  <1> QED
    BY <1>1 DEF CountsKept, PaidOf

(* A change of a quest's status touches no count and no term.              *)
LEMMA StatusKeepsTerms ==
  ASSUME QuestTypeOK, NEW q, NEW status, SetQuestStatus(q, status)
  PROVE  /\ DOMAIN quests' = DOMAIN quests
         /\ \A x \in DOMAIN quests :
              /\ quests'[x].totalClaims = quests[x].totalClaims
              /\ quests'[x].rewardAmount = quests[x].rewardAmount
  BY DEF SetQuestStatus, QuestTypeOK, Quest

(* So it keeps the counts.                                                 *)
LEMMA StatusKeepsCounts ==
  ASSUME QuestTypeOK, UNCHANGED submissions, NEW q, NEW status,
         SetQuestStatus(q, status)
  PROVE  CountsKept
  BY StatusKeepsTerms DEF CountsKept, PaidOf

(* Every step but a claim keeps the counts.                                *)
LEMMA CountWriters ==
  ASSUME IndInv, [Next]_vars
  PROVE  \/ CountsKept
         \/ \E q \in Quests, u \in Submitters : ClaimReward(q, u)
  <1>0. QuestTypeOK
    BY DEF IndInv, TypeOK
  <1>1. ASSUME UNCHANGED <<quests, submissions>>
        PROVE  CountsKept
    BY <1>1 DEF CountsKept, PaidOf
  <1>2. CASE QuestNext
    <2>1. ASSUME NEW q, NEW c, NEW terms, RegisterQuest(q, c, terms)
          PROVE  CountsKept
      <3>1. /\ UNCHANGED submissions /\ q \notin DOMAIN quests
            /\ quests' = Put(quests, q, NewQuest(c, terms))
        BY <2>1 DEF RegisterQuest, HasQuest
      <3>2. NewQuest(c, terms).totalClaims = 0
        BY DEF NewQuest
      <3>3. /\ DOMAIN quests' = DOMAIN quests \cup {q}
            /\ \A x \in DOMAIN quests : quests'[x] = quests[x]
            /\ \A x \in {q} \ DOMAIN quests : quests'[x].totalClaims = 0
        BY <3>1, <3>2 DEF Put
      <3> QED
        BY <1>0, <3>1, <3>3, RegisterKeepsCounts
    <2>2. ASSUME NEW ids, NEW c, NEW batch \in [ids -> OfferedTerms],
                 RegisterQuestsBatch(c, batch)
          PROVE  CountsKept
      <3>1. /\ UNCHANGED submissions
            /\ \A q \in ids : q \notin DOMAIN quests
            /\ quests' = [q \in DOMAIN quests \cup ids |->
                            IF q \in ids THEN NewQuest(c, batch[q])
                                         ELSE quests[q]]
        BY <2>2 DEF RegisterQuestsBatch, HasQuest
      <3>2. \A q \in ids : NewQuest(c, batch[q]).totalClaims = 0
        BY DEF NewQuest
      <3> QED
        BY <1>0, <3>1, <3>2, RegisterKeepsCounts
    <2>3. ASSUME NEW a, NEW q, PauseQuest(a, q) \/ ResumeQuest(a, q)
          PROVE  CountsKept
      BY <1>0, <2>3, StatusKeepsCounts DEF PauseQuest, ResumeQuest
    <2> QED
      BY <1>2, <2>1, <2>2, <2>3 DEF QuestNext
  <1>3. CASE SubmissionNext
    <2>1. ASSUME NEW q, NEW u, SubmitProof(q, u)
          PROVE  CountsKept
      <3>1. /\ UNCHANGED quests
            /\ submissions' = Put(submissions, <<q, u>>, "Pending")
        BY <2>1 DEF SubmitProof
      <3>2. \A x : PaidOf(x)' \subseteq PaidOf(x)
        BY <3>1 DEF PaidOf, Put
      <3> QED
        BY <3>1, <3>2 DEF CountsKept
    <2>2. ASSUME NEW v, NEW batch, ApproveSubmissionsBatch(v, batch)
          PROVE  CountsKept
      <3>1. \A x : PaidOf(x)' \subseteq PaidOf(x)
        BY <2>2 DEF PaidOf, ApproveSubmissionsBatch
      <3> QED
        BY <2>2, <3>1 DEF CountsKept, ApproveSubmissionsBatch
    <2>3. ASSUME NEW q, NEW u, NEW v, ApproveSubmission(q, u, v)
          PROVE  CountsKept
      BY <1>1, <2>3, ApproveStep DEF vars, questVars
    <2>4. ASSUME NEW a, NEW u, NEW b, GrantBadge(a, u, b)
          PROVE  CountsKept
      BY <1>1, <2>4 DEF GrantBadge
    <2> QED
      BY <1>3, <2>1, <2>2, <2>3, <2>4 DEF SubmissionNext
  <1>4. CASE EscrowNext
    <2>1. ASSUME NEW q, NEW c, NEW status, CloseQuest(q, c, status)
          PROVE  CountsKept
      BY <1>0, <2>1, StatusKeepsCounts DEF CloseQuest
    <2>2. ASSUME NEW q, NEW c, WithdrawUnclaimed(q, c)
          PROVE  CountsKept
      BY <1>1, <2>2, WithdrawStep DEF vars, questVars
    <2>3. ASSUME NEW q, NEW d, NEW t, NEW amount,
                 \/ DepositEscrow(q, d, t, amount)
                 \/ FundPool(d, t, amount)
                 \/ EmergencyWithdraw(d, t, q, amount)
          PROVE  CountsKept
      BY <1>1, <2>3 DEF DepositEscrow, FundPool, EmergencyWithdraw
    <2> QED
      BY <1>4, <2>1, <2>2, <2>3 DEF EscrowNext, CancelQuest, ExpireQuest
  <1>5. CASE (ControlNext /\ UNCHANGED questVars) \/ UNCHANGED vars
    BY <1>1, <1>5 DEF vars, questVars
  <1> QED
    BY <1>2, <1>3, <1>4, <1>5 DEF Next

(* PaidAreCounted with the finiteness its cardinalities need.              *)
ClaimsSound ==
    \A q \in DOMAIN quests :
        /\ quests[q].totalClaims <= MaxQuestClaims
        /\ IsFiniteSet(PaidOf(q))
        /\ Cardinality(PaidOf(q)) <= quests[q].totalClaims

(* Calls that keep the counts keep the bound.                              *)
LEMMA KeptCountsSound ==
  ASSUME IndInv, IndInv', ClaimsSound, CountsKept
  PROVE  ClaimsSound'
  <1> SUFFICES ASSUME NEW q \in DOMAIN quests'
               PROVE  /\ quests'[q].totalClaims <= MaxQuestClaims
                      /\ IsFiniteSet(PaidOf(q)')
                      /\ Cardinality(PaidOf(q)') <= quests'[q].totalClaims
    BY DEF ClaimsSound
  <1>1. CASE q \in DOMAIN quests
    <2>1. /\ quests'[q].totalClaims = quests[q].totalClaims
          /\ PaidOf(q)' \subseteq PaidOf(q)
      BY <1>1 DEF CountsKept
    <2>2. /\ quests[q].totalClaims <= MaxQuestClaims
          /\ IsFiniteSet(PaidOf(q))
          /\ Cardinality(PaidOf(q)) <= quests[q].totalClaims
      BY <1>1 DEF ClaimsSound
    <2>3. /\ IsFiniteSet(PaidOf(q)')
          /\ Cardinality(PaidOf(q)') <= Cardinality(PaidOf(q))
      BY <2>1, <2>2, FS_Subset
    <2>4. /\ Cardinality(PaidOf(q)) \in Nat /\ Cardinality(PaidOf(q)') \in Nat
          /\ quests[q].totalClaims \in Nat
      BY <1>1, <2>2, <2>3, FS_CardinalityType DEF IndInv, TypeOK, QuestTypeOK, Quest
    <2> QED
      BY <2>1, <2>2, <2>3, <2>4
  <1>2. CASE q \notin DOMAIN quests
    BY <1>2, FS_EmptySet, EarnQuestAssumption DEF CountsKept
  <1> QED
    BY <1>1, <1>2

(* A claim counts itself and marks one submission as paid.                 *)
LEMMA ClaimCounts ==
  ASSUME IndInv, NEW q \in Quests, NEW u \in Submitters, ClaimReward(q, u)
  PROVE  /\ q \in DOMAIN quests /\ DOMAIN quests' = DOMAIN quests
         /\ quests[q].totalClaims < MaxQuestClaims
         /\ quests'[q].totalClaims = quests[q].totalClaims + 1
         /\ quests'[q].rewardAmount = quests[q].rewardAmount
         /\ \A x \in DOMAIN quests : x # q => quests'[x] = quests[x]
         /\ PaidOf(q)' = PaidOf(q) \cup {<<q, u>>}
         /\ \A x : x # q => PaidOf(x)' = PaidOf(x)
  <1> DEFINE r == [quests[q] EXCEPT !.totalClaims = @ + 1]
  <1>1. QuestTypeOK
    BY DEF IndInv, TypeOK
  <1>2. /\ q \in DOMAIN quests /\ <<q, u>> \in DOMAIN submissions
        /\ quests[q].totalClaims < MaxQuestClaims
        /\ quests' = [quests EXCEPT ![q] = r]
        /\ submissions' = [submissions EXCEPT ![<<q, u>>] = "Paid"]
    BY DEF ClaimReward, ValidClaim, HasQuest, HasSubmission
  <1>3. /\ r.totalClaims = quests[q].totalClaims + 1
        /\ r.rewardAmount = quests[q].rewardAmount
    <2>1. quests[q] \in Quest
      BY <1>1, <1>2 DEF QuestTypeOK
    <2> QED
      BY <2>1 DEF Quest
  <1> HIDE DEF r
  <1>4. /\ DOMAIN quests' = DOMAIN quests /\ quests'[q] = r
        /\ \A x \in DOMAIN quests : x # q => quests'[x] = quests[x]
    BY <1>1, <1>2 DEF QuestTypeOK
  <1>5. /\ DOMAIN submissions' = DOMAIN submissions
        /\ \A s \in DOMAIN submissions : submissions'[s] =
             IF s = <<q, u>> THEN "Paid" ELSE submissions[s]
    BY <1>1, <1>2 DEF QuestTypeOK
  <1>6. <<q, u>>[1] = q
    OBVIOUS
  <1>7. PaidOf(q)' = PaidOf(q) \cup {<<q, u>>}
    BY <1>2, <1>5, <1>6 DEF PaidOf
  <1>8. \A x : x # q => PaidOf(x)' = PaidOf(x)
    BY <1>5, <1>6 DEF PaidOf
  <1> QED
    BY <1>2, <1>3, <1>4, <1>7, <1>8

(* A claim raises the count by one and the number of paid submissions by   *)
(* at most one.                                                            *)
LEMMA ClaimKeepsBound ==
  ASSUME IndInv, ClaimsSound, NEW q \in Quests, NEW u \in Submitters,
         ClaimReward(q, u)
  PROVE  ClaimsSound'
  <1>1. /\ q \in DOMAIN quests /\ DOMAIN quests' = DOMAIN quests
        /\ quests[q].totalClaims < MaxQuestClaims
        /\ quests'[q].totalClaims = quests[q].totalClaims + 1
        /\ \A x \in DOMAIN quests : x # q => quests'[x] = quests[x]
        /\ PaidOf(q)' = PaidOf(q) \cup {<<q, u>>}
        /\ \A x : x # q => PaidOf(x)' = PaidOf(x)
    BY ClaimCounts
  <1>2. /\ quests[q].totalClaims \in Nat
        /\ IsFiniteSet(PaidOf(q))
        /\ Cardinality(PaidOf(q)) <= quests[q].totalClaims
    BY <1>1 DEF ClaimsSound, IndInv, TypeOK, QuestTypeOK, Quest
  <1>3. /\ IsFiniteSet(PaidOf(q)')
        /\ Cardinality(PaidOf(q)') <= quests'[q].totalClaims
        /\ quests'[q].totalClaims <= MaxQuestClaims
    <2>1. Cardinality(PaidOf(q)) \in Nat
      BY <1>2, FS_CardinalityType
    <2>2. /\ IsFiniteSet(PaidOf(q) \cup {<<q, u>>})
          /\ Cardinality(PaidOf(q) \cup {<<q, u>>})
               \in {Cardinality(PaidOf(q)), Cardinality(PaidOf(q)) + 1}
      BY <1>2, FS_AddElement
    <2> QED
      BY <1>1, <1>2, <2>1, <2>2, EarnQuestAssumption
  <1> QED
    BY <1>1, <1>3 DEF ClaimsSound

(* A quest never counts more claims than its limit, and at least one for   *)
(* each submission that stands as paid, however often submitters repeat.   *)
THEOREM PaidStayCounted == Spec => []PaidAreCounted
  <1>1. Init => ClaimsSound
    BY DEF Init, ClaimsSound
  <1>2. IndInv /\ IndInv' /\ ClaimsSound /\ [Next]_vars => ClaimsSound'
    BY CountWriters, KeptCountsSound, ClaimKeepsBound
  <1>3. ClaimsSound => PaidAreCounted
    BY DEF ClaimsSound, PaidOf, PaidAreCounted
  <1> QED
    BY <1>1, <1>2, <1>3, Invariance, PTL DEF Spec

-----------------------------------------------------------------------------
(* Payouts.                                                                *)

(* Calls that touch neither the terms and claims of a quest nor what its   *)
(* record has paid out; a record opened now has paid nothing.              *)
PayoutsKept ==
    \A q \in DOMAIN escrows' :
        IF q \in DOMAIN escrows
          THEN /\ quests'[q].totalClaims = quests[q].totalClaims
               /\ quests'[q].rewardAmount = quests[q].rewardAmount
               /\ escrows'[q].totalPaidOut = escrows[q].totalPaidOut
          ELSE escrows'[q].totalPaidOut = 0

(* Opening or raising a record pays nothing out.                           *)
LEMMA DepositKeepsPayouts ==
  ASSUME IndInv, NEW q, NEW d, NEW t, NEW amount, DepositEscrow(q, d, t, amount)
  PROVE  PayoutsKept
  <1> DEFINE e == IF HasEscrow(q) THEN escrows[q] ELSE NewEscrow(d, t)
             r == [e EXCEPT !.totalDeposited = @ + amount]
  <1>1. UNCHANGED quests /\ escrows' = Put(escrows, q, r)
    BY DEF DepositEscrow
  <1>2. r.totalPaidOut = IF q \in DOMAIN escrows THEN escrows[q].totalPaidOut
                                                 ELSE 0
    <2>1. CASE q \in DOMAIN escrows
      <3>1. e = escrows[q] /\ escrows[q] \in EscrowInfo
        BY <2>1 DEF HasEscrow, IndInv, TypeOK, QuestTypeOK
      <3> HIDE DEF e
      <3> QED
        BY <2>1, <3>1 DEF EscrowInfo
    <2>2. CASE q \notin DOMAIN escrows
      BY <2>2 DEF HasEscrow, NewEscrow
    <2> QED
      BY <2>1, <2>2
  <1> HIDE DEF r
  <1> QED
    BY <1>1, <1>2 DEF PayoutsKept, Put

(* A refund writes what was refunded, not what was paid.                   *)
LEMMA CloseKeepsPayouts ==
  ASSUME IndInv, NEW q, NEW c, NEW status, CloseQuest(q, c, status)
  PROVE  PayoutsKept
  <1>1. QuestTypeOK
    BY DEF IndInv, TypeOK
  <1>2. \A x \in DOMAIN quests :
          /\ quests'[x].totalClaims = quests[x].totalClaims
          /\ quests'[x].rewardAmount = quests[x].rewardAmount
    BY <1>1, StatusKeepsTerms DEF CloseQuest
  <1>3. /\ DOMAIN escrows' = DOMAIN escrows
        /\ \A x \in DOMAIN escrows :
             escrows'[x].totalPaidOut = escrows[x].totalPaidOut
    <2>1. CASE HasEscrow(q)
      <3> DEFINE e == escrows[q]
                 sum == e.totalRefunded + Available(e)
                 r == [e EXCEPT !.totalRefunded = sum, !.isActive = FALSE]
      <3>1. escrows' = [escrows EXCEPT ![q] = r]
        BY <2>1 DEF CloseQuest, RefundRemaining
      <3>2. r.totalPaidOut = e.totalPaidOut
        <4>1. e \in EscrowInfo
          BY <1>1, <2>1 DEF HasEscrow, QuestTypeOK
        <4> HIDE DEF e, sum
        <4> QED
          BY <4>1 DEF EscrowInfo
      <3> HIDE DEF r
      <3> QED
        BY <1>1, <3>1, <3>2 DEF QuestTypeOK
    <2>2. CASE ~HasEscrow(q)
      BY <2>2 DEF CloseQuest
    <2> QED
      BY <2>1, <2>2
  <1>4. DOMAIN escrows \subseteq DOMAIN quests
    BY <1>1 DEF QuestTypeOK
  <1> QED
    BY <1>2, <1>3, <1>4 DEF PayoutsKept

(* Every step but a claim leaves payouts and claims alone.                 *)
LEMMA PayoutWriters ==
  ASSUME IndInv, [Next]_vars
  PROVE  \/ PayoutsKept
         \/ \E q \in Quests, u \in Submitters : ClaimReward(q, u)
  <1>0. QuestTypeOK
    BY DEF IndInv, TypeOK
  <1>1. ASSUME UNCHANGED <<quests, escrows>>
        PROVE  PayoutsKept
    BY <1>1 DEF PayoutsKept
  <1>2. CASE QuestNext
    <2>1. ASSUME NEW q, NEW c, NEW terms, RegisterQuest(q, c, terms)
          PROVE  PayoutsKept
      BY <1>0, <2>1 DEF RegisterQuest, HasQuest, Put, PayoutsKept, QuestTypeOK
    <2>2. ASSUME NEW ids, NEW c, NEW batch \in [ids -> OfferedTerms],
                 RegisterQuestsBatch(c, batch)
          PROVE  PayoutsKept
      BY <1>0, <2>2 DEF RegisterQuestsBatch, HasQuest, PayoutsKept, QuestTypeOK
    <2>3. ASSUME NEW a, NEW q, PauseQuest(a, q) \/ ResumeQuest(a, q)
          PROVE  PayoutsKept
      <3>1. /\ UNCHANGED escrows
            /\ \A x \in DOMAIN quests :
                 /\ quests'[x].totalClaims = quests[x].totalClaims
                 /\ quests'[x].rewardAmount = quests[x].rewardAmount
        BY <1>0, <2>3, StatusKeepsTerms DEF PauseQuest, ResumeQuest
      <3> QED
        BY <1>0, <3>1 DEF PayoutsKept, QuestTypeOK
    <2> QED
      BY <1>2, <2>1, <2>2, <2>3 DEF QuestNext
  <1>3. CASE SubmissionNext
    <2>1. ASSUME NEW q, NEW u, NEW v, ApproveSubmission(q, u, v)
          PROVE  PayoutsKept
      BY <1>1, <2>1, ApproveStep DEF vars, questVars
    <2>2. ASSUME NEW q, NEW u, NEW v, NEW batch, NEW b,
                 \/ SubmitProof(q, u)
                 \/ ApproveSubmissionsBatch(v, batch)
                 \/ GrantBadge(v, u, b)
          PROVE  PayoutsKept
      BY <1>1, <2>2 DEF SubmitProof, ApproveSubmissionsBatch, GrantBadge
    <2> QED
      BY <1>3, <2>1, <2>2 DEF SubmissionNext
  <1>4. CASE EscrowNext
    <2>1. ASSUME NEW q, NEW c, WithdrawUnclaimed(q, c)
          PROVE  PayoutsKept
      BY <1>1, <2>1, WithdrawStep DEF vars, questVars
    <2>2. ASSUME NEW q, NEW from, NEW t, NEW amount,
                 \/ FundPool(from, t, amount)
                 \/ EmergencyWithdraw(from, t, q, amount)
          PROVE  PayoutsKept
      BY <1>1, <2>2 DEF FundPool, EmergencyWithdraw
    <2> QED
      BY <1>4, <2>1, <2>2, CloseKeepsPayouts, DepositKeepsPayouts
         DEF EscrowNext, CancelQuest, ExpireQuest
  <1>5. CASE (ControlNext /\ UNCHANGED questVars) \/ UNCHANGED vars
    BY <1>1, <1>5 DEF vars, questVars
  <1> QED
    BY <1>2, <1>3, <1>4, <1>5 DEF Next

(* A claim pays one more reward and counts one more claim.                 *)
LEMMA ClaimPaysOnce ==
  ASSUME IndInv, PayoutsWithinClaims, NEW q \in Quests, NEW u \in Submitters,
         ClaimReward(q, u)
  PROVE  PayoutsWithinClaims'
  <1>1. /\ q \in DOMAIN quests /\ DOMAIN quests' = DOMAIN quests
        /\ quests'[q].totalClaims = quests[q].totalClaims + 1
        /\ quests'[q].rewardAmount = quests[q].rewardAmount
        /\ \A x \in DOMAIN quests : x # q => quests'[x] = quests[x]
    BY ClaimCounts
  <1>2. QuestTypeOK
    BY DEF IndInv, TypeOK
  <1>3. quests[q].totalClaims \in Nat /\ quests[q].rewardAmount \in Nat
    BY <1>1, <1>2 DEF QuestTypeOK, Quest
  <1>4. DOMAIN escrows' = DOMAIN escrows /\ DOMAIN escrows \subseteq DOMAIN quests
    BY <1>2 DEF ClaimReward, TransferRewardFromEscrow, QuestTypeOK
  <1>5. \A x \in DOMAIN escrows : x # q => escrows'[x] = escrows[x]
    BY <1>2 DEF ClaimReward, TransferRewardFromEscrow, QuestTypeOK
  <1>6. ASSUME q \in DOMAIN escrows
        PROVE  escrows'[q].totalPaidOut =
                 escrows[q].totalPaidOut + quests[q].rewardAmount
    <2>1. escrows' = [escrows EXCEPT ![q].totalPaidOut =
                        @ + quests[q].rewardAmount]
      BY <1>6 DEF ClaimReward, TransferRewardFromEscrow, HasEscrow
    <2> QED
      BY <1>2, <1>6, <2>1 DEF QuestTypeOK, EscrowInfo
  <1> SUFFICES ASSUME NEW x \in DOMAIN escrows
               PROVE  \E n \in 0..quests'[x].totalClaims :
                        escrows'[x].totalPaidOut = n * quests'[x].rewardAmount
    BY <1>4 DEF PayoutsWithinClaims
  <1>7. PICK n \in 0..quests[x].totalClaims :
          escrows[x].totalPaidOut = n * quests[x].rewardAmount
    BY DEF PayoutsWithinClaims
  <1>8. CASE x # q
    BY <1>1, <1>4, <1>5, <1>7, <1>8
  <1>9. CASE x = q
    <2>1. n \in Nat /\ n + 1 \in 0..quests'[q].totalClaims
      BY <1>1, <1>3, <1>7, <1>9
    <2>2. escrows'[q].totalPaidOut = (n + 1) * quests[q].rewardAmount
      <3> DEFINE reward == quests[q].rewardAmount
      <3>1. reward \in Nat /\ n \in Nat
        BY <1>3, <2>1
      <3>2. escrows'[q].totalPaidOut = n * reward + reward
        BY <1>6, <1>7, <1>9
      <3> HIDE DEF reward
      <3>3. n * reward + reward = (n + 1) * reward
        BY <3>1
      <3> QED
        BY <3>2, <3>3 DEF reward
    <2> QED
      BY <1>1, <1>9, <2>1, <2>2
  <1> QED
    BY <1>8, <1>9

(* The tokens a record has paid out are whole rewards, at most one for     *)
(* each claim its quest has counted.                                       *)
THEOREM PayoutsStayWithinClaims == Spec => []PayoutsWithinClaims
  <1>1. Init => PayoutsWithinClaims
    BY DEF Init, PayoutsWithinClaims
  <1>2. ASSUME IndInv, IndInv', PayoutsWithinClaims, PayoutsKept
        PROVE  PayoutsWithinClaims'
    <2> SUFFICES ASSUME NEW q \in DOMAIN escrows'
                 PROVE  \E n \in 0..quests'[q].totalClaims :
                          escrows'[q].totalPaidOut = n * quests'[q].rewardAmount
      BY DEF PayoutsWithinClaims
    <2>1. CASE q \in DOMAIN escrows
      BY <1>2, <2>1 DEF PayoutsKept, PayoutsWithinClaims
    <2>2. CASE q \notin DOMAIN escrows
      <3>1. quests'[q].totalClaims \in Nat /\ quests'[q].rewardAmount \in Nat
        BY <1>2 DEF IndInv, TypeOK, QuestTypeOK, Quest
      <3>2. /\ 0 \in 0..quests'[q].totalClaims
            /\ escrows'[q].totalPaidOut = 0 * quests'[q].rewardAmount
        BY <1>2, <2>2, <3>1 DEF PayoutsKept
      <3> QED
        BY <3>2
    <2> QED
      BY <2>1, <2>2
  <1>3. IndInv /\ IndInv' /\ PayoutsWithinClaims /\ [Next]_vars
          => PayoutsWithinClaims'
    BY <1>2, PayoutWriters, ClaimPaysOnce
  <1> QED
    BY <1>1, <1>3, Invariance, PTL DEF Spec

-----------------------------------------------------------------------------
(* The contract implements the abstract escrow ledger: every call maps to  *)
(* one step of the ledger or leaves it as it is.                           *)

(* A quest that keeps creator and asset keeps its terms.                   *)
LEMMA SameTerms ==
  ASSUME DOMAIN quests' = DOMAIN quests,
         \A x \in DOMAIN quests :
            /\ quests'[x].creator = quests[x].creator
            /\ quests'[x].rewardAsset = quests[x].rewardAsset
  PROVE  LedgerTerms' = LedgerTerms
  BY DEF LedgerTerms

(* The ledger shows of a quest's status and record only whether it ended   *)
(* and what is left in the record.                                         *)
LEMMA SameClosed ==
  ASSUME DOMAIN quests \subseteq DOMAIN quests',
         \A x \in DOMAIN quests :
            IsQuestTerminal(quests'[x].status) <=> IsQuestTerminal(quests[x].status),
         \A x \in DOMAIN quests' \ DOMAIN quests : ~IsQuestTerminal(quests'[x].status)
  PROVE  LedgerClosed' = LedgerClosed
  BY DEF LedgerClosed

LEMMA SameHeld ==
  ASSUME UNCHANGED escrows
  PROVE  LedgerHeld' = LedgerHeld
  BY DEF LedgerHeld, HasEscrow, Available

(* Calls that leave quests, records and balances alone leave the ledger    *)
(* alone.                                                                  *)
LEMMA LedgerFrame ==
  ASSUME UNCHANGED <<quests, escrows, balances, poolFlow>>
  PROVE  UNCHANGED Ledger!ledgerVars
  <1>1. LedgerTerms' = LedgerTerms
    BY SameTerms
  <1>2. LedgerClosed' = LedgerClosed
    BY SameClosed
  <1>3. LedgerHeld' = LedgerHeld
    BY SameHeld
  <1> QED
    BY <1>1, <1>2, <1>3 DEF Ledger!ledgerVars

(* A transfer is a move of the ledger.                                     *)
LEMMA TransferIsMove ==
  ASSUME NEW t, NEW from, NEW to, NEW amount, Transfer(t, from, to, amount)
  PROVE  /\ balances[t][from] >= amount
         /\ balances' = [balances EXCEPT ![t][from] = balances[t][from] - amount,
                                         ![t][to] = balances[t][to] + amount]
  BY DEF Transfer

-----------------------------------------------------------------------------
(* The calls one by one.                                                   *)

(* Registration adds quests and keeps the terms of the others.             *)
LEMMA RegisterLedger ==
  ASSUME IndInv, IndInv', UNCHANGED <<submissions, escrows, balances, poolFlow>>,
         DOMAIN quests \subseteq DOMAIN quests',
         \A x \in DOMAIN quests : quests'[x] = quests[x],
         \A x \in DOMAIN quests' \ DOMAIN quests : quests'[x].status = "Active"
  PROVE  Ledger!Register
  <1>1. /\ DOMAIN quests' \subseteq Quests
        /\ quests' \in [DOMAIN quests' -> Quest]
    BY DEF IndInv, TypeOK, QuestTypeOK
  <1>2. LedgerTerms' \in [DOMAIN quests' -> Ledger!Terms]
    BY <1>1 DEF LedgerTerms, Ledger!Terms, Quest
  <1>3. /\ DOMAIN LedgerTerms = DOMAIN quests
        /\ DOMAIN LedgerTerms' = DOMAIN quests'
        /\ \A x \in DOMAIN quests : LedgerTerms'[x] = LedgerTerms[x]
    BY DEF LedgerTerms
  <1>4. LedgerClosed' = LedgerClosed
    BY SameClosed DEF IsQuestTerminal
  <1>5. LedgerHeld' = LedgerHeld
    BY SameHeld
  <1> QED
    BY <1>1, <1>2, <1>3, <1>4, <1>5 DEF Ledger!Register

(* Pausing and resuming a quest does not end it.                           *)
LEMMA StatusLedger ==
  ASSUME IndInv, NEW q \in DOMAIN quests, NEW status \in {"Active", "Paused"},
         SetQuestStatus(q, status), UNCHANGED <<escrows, balances, poolFlow>>
  PROVE  UNCHANGED Ledger!ledgerVars
  <1>1. quests \in [DOMAIN quests -> Quest]
    BY DEF IndInv, TypeOK, QuestTypeOK
  <1>2. /\ quests' = [quests EXCEPT ![q].status = status]
        /\ ~IsQuestTerminal(quests[q].status)
    BY DEF SetQuestStatus, ValidQuestTransition, IsQuestTerminal
  <1>3. /\ DOMAIN quests' = DOMAIN quests
        /\ quests'[q].status = status
        /\ \A x \in DOMAIN quests :
             /\ quests'[x].creator = quests[x].creator
             /\ quests'[x].rewardAsset = quests[x].rewardAsset
             /\ x # q => quests'[x] = quests[x]
    BY <1>1, <1>2 DEF Quest
  <1>4. LedgerTerms' = LedgerTerms
    BY <1>3, SameTerms
  <1>5. LedgerClosed' = LedgerClosed
    BY <1>2, <1>3, SameClosed DEF IsQuestTerminal
  <1>6. LedgerHeld' = LedgerHeld
    BY SameHeld
  <1> QED
    BY <1>4, <1>5, <1>6 DEF Ledger!ledgerVars

(* A deposit goes from the owner into the account of the quest.            *)
LEMMA DepositLedger ==
  ASSUME IndInv, NEW q \in Quests, NEW d \in Addresses, NEW t \in Tokens,
         NEW amount \in Deposits, DepositEscrow(q, d, t, amount)
  PROVE  Ledger!Deposit(q, LedgerHeld'[q] - LedgerHeld[q])
  <1> DEFINE e == IF HasEscrow(q) THEN escrows[q] ELSE NewEscrow(d, t)
             r == [e EXCEPT !.totalDeposited = @ + amount]
  <1>1. QuestTypeOK
    BY DEF IndInv, TypeOK
  <1>2. /\ q \in DOMAIN quests /\ d = quests[q].creator
        /\ t = quests[q].rewardAsset /\ ~IsQuestTerminal(quests[q].status)
        /\ amount \in Nat /\ amount > 0
        /\ Transfer(t, d, Contract, amount)
        /\ UNCHANGED <<quests, poolFlow>>
    BY EarnQuestAssumption
       DEF DepositEscrow, HasQuest, ValidAmount, EscrowToken
  <1>3. /\ e \in EscrowInfo
        /\ Available(e) = LedgerHeld[q] /\ LedgerHeld[q] \in Int
    <2>1. CASE HasEscrow(q)
      BY <1>1, <2>1 DEF HasEscrow, QuestTypeOK, LedgerHeld, EscrowInfo, Available
    <2>2. CASE ~HasEscrow(q)
      BY <2>2 DEF HasEscrow, NewEscrow, EscrowInfo, Available, LedgerHeld
    <2> QED
      BY <2>1, <2>2
  <1>4. r \in EscrowInfo /\ Available(r) = Available(e) + amount
    <2> HIDE DEF e
    <2> QED
      BY <1>2, <1>3 DEF EscrowInfo, Available
  <1>5. escrows' = Put(escrows, q, r)
    BY DEF DepositEscrow
  <1> HIDE DEF e, r
  <1>6. /\ DOMAIN escrows' = DOMAIN escrows \cup {q}
        /\ escrows'[q] = r
        /\ \A x \in DOMAIN escrows : x # q => escrows'[x] = escrows[x]
    BY <1>5 DEF Put
  <1>7. LedgerHeld' = [LedgerHeld EXCEPT ![q] = LedgerHeld[q] + amount]
    <2>1. LedgerHeld'[q] = LedgerHeld[q] + amount
      BY <1>3, <1>4, <1>6 DEF LedgerHeld, HasEscrow, Available
    <2>2. \A x \in Quests : x # q => LedgerHeld'[x] = LedgerHeld[x]
      BY <1>6 DEF LedgerHeld, HasEscrow, Available
    <2>3. LedgerHeld' = [x \in Quests |-> LedgerHeld'[x]]
      BY DEF LedgerHeld, HasEscrow
    <2>4. LedgerHeld = [x \in Quests |-> LedgerHeld[x]]
      BY DEF LedgerHeld
    <2> QED
      BY <2>1, <2>2, <2>3, <2>4
  <1>8. LedgerHeld'[q] - LedgerHeld[q] = amount
    <2>1. LedgerHeld'[q] = LedgerHeld[q] + amount
      BY <1>3, <1>4, <1>6 DEF LedgerHeld, HasEscrow, Available
    <2> QED
      BY <1>2, <1>3, <2>1
  <1>9. LedgerClosed' = LedgerClosed
    BY <1>2 DEF LedgerClosed
  <1>10. q \notin LedgerClosed
    BY <1>2 DEF LedgerClosed
  <1>11. /\ LedgerTerms' = LedgerTerms
         /\ LedgerTerms[q].owner = d /\ LedgerTerms[q].asset = t
    BY <1>2, SameTerms DEF LedgerTerms
  <1>12. Ledger!Move(t, d, Contract, amount)
    BY <1>2 DEF Transfer, Ledger!Move
  <1> QED
    BY <1>2, <1>7, <1>8, <1>9, <1>10, <1>11, <1>12 DEF Ledger!Deposit

(* A claim pays out of the account of the quest, or out of the pool if the *)
(* quest has none.                                                         *)
LEMMA ClaimLedger ==
  ASSUME IndInv, NEW q \in Quests, NEW u \in Submitters, ClaimReward(q, u)
  PROVE  \/ Ledger!Pay(q, u, LedgerHeld[q] - LedgerHeld'[q])
         \/ \E t \in Tokens : Ledger!Drain(t, u, poolFlow[t] - poolFlow'[t])
  <1> DEFINE t == quests[q].rewardAsset
             amount == quests[q].rewardAmount
  <1>1. QuestTypeOK /\ EscrowFollowsQuest
    BY DEF IndInv, TypeOK, EscrowInv
  <1>2. /\ q \in DOMAIN quests /\ t \in Tokens /\ amount \in Nat
        /\ Transfer(t, Contract, u, amount)
    BY <1>1 DEF ClaimReward, ValidClaim, HasQuest, QuestTypeOK, Quest,
       TransferRewardFromEscrow
  <1>3. /\ DOMAIN quests' = DOMAIN quests
        /\ \A x \in DOMAIN quests :
             /\ quests'[x].creator = quests[x].creator
             /\ quests'[x].rewardAsset = quests[x].rewardAsset
             /\ quests'[x].status = quests[x].status
    <2> DEFINE r == [quests[q] EXCEPT !.totalClaims = @ + 1]
    <2>1. quests' = [quests EXCEPT ![q] = r]
      BY DEF ClaimReward
    <2>2. /\ r.creator = quests[q].creator /\ r.status = quests[q].status
          /\ r.rewardAsset = quests[q].rewardAsset
      BY <1>1, <1>2 DEF QuestTypeOK, Quest
    <2> HIDE DEF r
    <2> QED
      BY <1>1, <1>2, <2>1, <2>2 DEF QuestTypeOK
  <1>4. LedgerTerms' = LedgerTerms /\ LedgerTerms[q].asset = t
    BY <1>2, <1>3, SameTerms DEF LedgerTerms
  <1>5. Ledger!Move(t, Contract, u, amount)
    BY <1>2 DEF Transfer, Ledger!Move
  <1>6. LedgerClosed' = LedgerClosed
    BY <1>3, SameClosed
  <1>7. CASE HasEscrow(q)
    <2> DEFINE r == [escrows[q] EXCEPT !.totalPaidOut = @ + amount]
    <2>1. /\ q \in DOMAIN escrows /\ escrows[q].isActive
          /\ Available(escrows[q]) >= amount
          /\ escrows' = [escrows EXCEPT ![q] = r]
          /\ UNCHANGED poolFlow
      BY <1>7 DEF ClaimReward, TransferRewardFromEscrow, SufficientEscrow,
         HasEscrow
    <2>2. escrows[q] \in EscrowInfo /\ Available(escrows[q]) \in Int
      BY <1>1, <2>1 DEF QuestTypeOK, EscrowInfo, Available
    <2>3. Available(r) = Available(escrows[q]) - amount
      BY <1>2, <2>2 DEF EscrowInfo, Available
    <2> HIDE DEF r
    <2>4. /\ DOMAIN escrows' = DOMAIN escrows /\ escrows'[q] = r
          /\ \A x \in DOMAIN escrows : x # q => escrows'[x] = escrows[x]
      BY <1>1, <2>1 DEF QuestTypeOK
    <2>5. /\ LedgerHeld[q] = Available(escrows[q])
          /\ LedgerHeld'[q] = LedgerHeld[q] - amount
      BY <2>1, <2>3, <2>4 DEF LedgerHeld, HasEscrow, Available
    <2>6. LedgerHeld' = [LedgerHeld EXCEPT ![q] = LedgerHeld[q] - amount]
      <3>1. \A x \in Quests : x # q => LedgerHeld'[x] = LedgerHeld[x]
        BY <2>4 DEF LedgerHeld, HasEscrow, Available
      <3>2. LedgerHeld' = [x \in Quests |-> LedgerHeld'[x]]
        BY DEF LedgerHeld, HasEscrow
      <3>3. LedgerHeld = [x \in Quests |-> LedgerHeld[x]]
        BY DEF LedgerHeld, HasEscrow
      <3> QED
        BY <2>5, <3>1, <3>2, <3>3
    <2>7. q \notin LedgerClosed
      BY <1>1, <1>2, <2>1 DEF LedgerClosed, EscrowFollowsQuest
    <2>8. /\ amount \in 0..LedgerHeld[q]
          /\ LedgerHeld[q] - LedgerHeld'[q] = amount
      BY <1>2, <2>1, <2>2, <2>5
    <2> HIDE DEF t, amount
    <2> QED
      BY <1>4, <1>5, <1>6, <2>1, <2>4, <2>6, <2>7, <2>8 DEF Ledger!Pay
  <1>8. CASE ~HasEscrow(q)
    <2>1. /\ escrows' = escrows
          /\ poolFlow' = [poolFlow EXCEPT ![t] = @ - amount]
      BY <1>8 DEF ClaimReward, TransferRewardFromEscrow
    <2>2. poolFlow[t] \in Int /\ poolFlow'[t] = poolFlow[t] - amount
      BY <1>1, <1>2, <2>1 DEF QuestTypeOK
    <2>3. poolFlow[t] - poolFlow'[t] = amount /\ amount >= 0
      BY <1>2, <2>2
    <2>4. LedgerHeld' = LedgerHeld /\ LedgerClosed' = LedgerClosed
      BY <1>6, <2>1, SameHeld
    <2> HIDE DEF amount
    <2>5. Ledger!Drain(t, u, amount)
      BY <1>4, <1>5, <2>1, <2>3, <2>4 DEF Ledger!Drain
    <2> QED
      BY <1>2, <2>3, <2>5
  <1> QED
    BY <1>7, <1>8

(* Cancelling or expiring a quest closes its account and returns what is   *)
(* left to the owner.                                                      *)
LEMMA CloseLedger ==
  ASSUME IndInv, NEW q \in Quests, NEW c \in Addresses,
         NEW status \in {"Cancelled", "Expired"}, CloseQuest(q, c, status)
  PROVE  Ledger!Close(q)
  <1> DEFINE asset == quests[q].rewardAsset
             creator == quests[q].creator
             left == LedgerHeld[q]
  <1>1. QuestTypeOK /\ EscrowFollowsQuest /\ EscrowAccounting
    BY DEF IndInv, TypeOK, EscrowInv
  <1>2. /\ q \in DOMAIN quests /\ ~IsQuestTerminal(quests[q].status)
        /\ quests' = [quests EXCEPT ![q].status = status]
        /\ poolFlow' = poolFlow
    BY DEF CloseQuest, SetQuestStatus, HasQuest
  <1>3. /\ DOMAIN quests' = DOMAIN quests
        /\ quests'[q].status = status
        /\ \A x \in DOMAIN quests :
             /\ quests'[x].creator = quests[x].creator
             /\ quests'[x].rewardAsset = quests[x].rewardAsset
             /\ x # q => quests'[x].status = quests[x].status
    BY <1>1, <1>2 DEF QuestTypeOK, Quest
  <1>4. /\ asset \in Tokens /\ creator \in Addresses
        /\ creator \in Accounts /\ Contract \in Accounts
        /\ creator # Contract
    BY <1>1, <1>2, EarnQuestAssumption DEF QuestTypeOK, Quest, Accounts
  <1>5. /\ LedgerTerms' = LedgerTerms
        /\ LedgerTerms[q].asset = asset /\ LedgerTerms[q].owner = creator
    BY <1>2, <1>3, SameTerms DEF LedgerTerms
  <1>6. /\ DOMAIN escrows' = DOMAIN escrows
        /\ \A x \in DOMAIN escrows : x # q => escrows'[x] = escrows[x]
        /\ HasEscrow(q) => Available(escrows'[q]) = 0
    BY RefundFacts DEF CloseQuest, HasEscrow
  <1>7. left \in Nat /\ Ledger!Move(asset, Contract, creator, left)
    <2>1. CASE HasEscrow(q) /\ Available(escrows[q]) > 0
      <3>1. q \in DOMAIN escrows /\ left = Available(escrows[q])
        BY <2>1 DEF HasEscrow, LedgerHeld
      <3>2. /\ escrows[q] \in EscrowInfo
            /\ escrows[q].token = asset /\ escrows[q].depositor = creator
        BY <1>1, <3>1 DEF QuestTypeOK, EscrowFollowsQuest
      <3>3. left \in Nat
        BY <2>1, <3>1, <3>2 DEF EscrowInfo, Available
      <3>4. Transfer(asset, Contract, creator, left)
        BY <2>1, <3>1, <3>2 DEF CloseQuest, RefundRemaining
      <3> HIDE DEF asset, creator, left
      <3> QED
        BY <3>3, <3>4 DEF Transfer, Ledger!Move
    <2>2. CASE ~(HasEscrow(q) /\ Available(escrows[q]) > 0)
      <3>1. left = 0
        <4>1. CASE HasEscrow(q)
          <5>1. q \in DOMAIN escrows /\ left = Available(escrows[q])
            BY <4>1 DEF HasEscrow, LedgerHeld
          <5>2. Available(escrows[q]) \in Int /\ Available(escrows[q]) >= 0
            BY <1>1, <5>1
               DEF QuestTypeOK, EscrowInfo, EscrowAccounting, Available
          <5> HIDE DEF left
          <5> QED
            BY <2>2, <4>1, <5>1, <5>2
        <4>2. CASE ~HasEscrow(q)
          BY <4>2 DEF LedgerHeld
        <4> QED
          BY <4>1, <4>2
      <3>2. balances' = balances
        BY <2>2 DEF CloseQuest, RefundRemaining
      <3> HIDE DEF asset, creator, left
      <3>3. /\ balances \in [Tokens -> [Accounts -> Nat]]
            /\ balances[asset][Contract] >= 0
        BY <1>1, <1>4 DEF QuestTypeOK
      <3>4. balances = [balances EXCEPT
                          ![asset][Contract] = balances[asset][Contract] - 0,
                          ![asset][creator] = balances[asset][creator] + 0]
        BY <1>4, <3>3
      <3> QED
        BY <3>1, <3>2, <3>3, <3>4 DEF Ledger!Move
    <2> QED
      BY <2>1, <2>2
  <1>8. LedgerHeld' = [LedgerHeld EXCEPT ![q] = 0]
    <2>1. LedgerHeld'[q] = 0
      BY <1>6 DEF LedgerHeld, HasEscrow, Available
    <2>2. \A x \in Quests : x # q => LedgerHeld'[x] = LedgerHeld[x]
      BY <1>6 DEF LedgerHeld, HasEscrow, Available
    <2>3. /\ LedgerHeld' = [x \in Quests |-> LedgerHeld'[x]]
          /\ LedgerHeld = [x \in Quests |-> LedgerHeld[x]]
      BY DEF LedgerHeld, HasEscrow
    <2> QED
      BY <2>1, <2>2, <2>3
  <1>9. q \notin LedgerClosed /\ LedgerClosed' = LedgerClosed \cup {q}
    BY <1>2, <1>3 DEF LedgerClosed, IsQuestTerminal
  <1> HIDE DEF asset, creator
  <1> QED
    BY <1>2, <1>5, <1>7, <1>8, <1>9 DEF Ledger!Close

(* Tokens that move outside the records move in the pool only.             *)
LEMMA PoolLedger ==
  ASSUME IndInv, NEW t \in Tokens, NEW u \in Addresses, NEW amount \in Nat,
         amount > 0, UNCHANGED <<quests, escrows>>
  PROVE  /\ /\ Transfer(t, u, Contract, amount)
            /\ poolFlow' = [poolFlow EXCEPT ![t] = @ + amount]
            => Ledger!Fund(t, u, poolFlow'[t] - poolFlow[t])
         /\ /\ Transfer(t, Contract, u, amount)
            /\ poolFlow' = [poolFlow EXCEPT ![t] = @ - amount]
            => Ledger!Drain(t, u, poolFlow[t] - poolFlow'[t])
  <1>1. poolFlow \in [Tokens -> Int]
    BY DEF IndInv, TypeOK, QuestTypeOK
  <1>2. /\ LedgerTerms' = LedgerTerms /\ LedgerClosed' = LedgerClosed
        /\ LedgerHeld' = LedgerHeld
    BY SameTerms, SameClosed, SameHeld
  <1>3. ASSUME Transfer(t, u, Contract, amount),
               poolFlow' = [poolFlow EXCEPT ![t] = @ + amount]
        PROVE  Ledger!Fund(t, u, poolFlow'[t] - poolFlow[t])
    <2>1. poolFlow'[t] - poolFlow[t] = amount
      BY <1>1, <1>3
    <2>2. Ledger!Fund(t, u, amount)
      BY <1>2, <1>3 DEF Ledger!Fund, Ledger!Move, Transfer
    <2> QED
      BY <2>1, <2>2
  <1>4. ASSUME Transfer(t, Contract, u, amount),
               poolFlow' = [poolFlow EXCEPT ![t] = @ - amount]
        PROVE  Ledger!Drain(t, u, poolFlow[t] - poolFlow'[t])
    <2>1. poolFlow[t] - poolFlow'[t] = amount
      BY <1>1, <1>4
    <2>2. Ledger!Drain(t, u, amount)
      BY <1>2, <1>4 DEF Ledger!Drain, Ledger!Move, Transfer
    <2> QED
      BY <2>1, <2>2
  <1> QED
    BY <1>3, <1>4

-----------------------------------------------------------------------------
(* The refinement.                                                         *)

LEMMA InitLedger == Init => Ledger!LedgerInit
  <1> SUFFICES ASSUME Init PROVE Ledger!LedgerInit
    OBVIOUS
  <1>1. LedgerTerms = [q \in {} |-> {}]
    BY DEF Init, LedgerTerms
  <1>2. LedgerClosed = {}
    BY DEF Init, LedgerClosed
  <1>3. LedgerHeld = [q \in Quests |-> 0]
    BY DEF Init, LedgerHeld, HasEscrow
  <1>4. /\ balances \in [Tokens -> [Addresses \cup {Contract} -> Nat]]
        /\ \A t \in Tokens : balances[t][Contract] = 0
    BY EarnQuestAssumption DEF Init, Accounts
  <1>5. poolFlow = [t \in Tokens |-> 0]
    BY DEF Init
  <1> QED
    BY <1>1, <1>2, <1>3, <1>4, <1>5 DEF Ledger!LedgerInit

(* Every step of the contract is a step of the ledger or a stutter.        *)
LEMMA StepLedger ==
  ASSUME IndInv, IndInv', [Next]_vars
  PROVE  [Ledger!LedgerNext]_(Ledger!ledgerVars)
  <1> DEFINE Step == Ledger!LedgerNext \/ UNCHANGED Ledger!ledgerVars
  <1> SUFFICES Step
    OBVIOUS
  <1>1. ASSUME UNCHANGED <<quests, escrows, balances, poolFlow>> PROVE Step
    BY <1>1, LedgerFrame
  <1>2. /\ DOMAIN LedgerTerms = DOMAIN quests
        /\ DOMAIN escrows \subseteq DOMAIN quests
    BY DEF LedgerTerms, IndInv, TypeOK, QuestTypeOK
  <1>3. CASE QuestNext
    <2>1. ASSUME NEW q \in Quests, NEW c \in Creators,
                 NEW terms \in OfferedTerms, RegisterQuest(q, c, terms)
          PROVE  Step
      <3>1. Ledger!Register
        BY <2>1, RegisterLedger DEF RegisterQuest, HasQuest, Put, NewQuest
      <3> QED
        BY <3>1 DEF Ledger!LedgerNext
    <2>2. ASSUME NEW ids \in SUBSET Quests, NEW c \in Creators,
                 NEW batch \in [ids -> OfferedTerms],
                 RegisterQuestsBatch(c, batch)
          PROVE  Step
      <3>1. Ledger!Register
        BY <2>2, RegisterLedger DEF RegisterQuestsBatch, HasQuest, NewQuest
      <3> QED
        BY <3>1 DEF Ledger!LedgerNext
    <2>3. ASSUME NEW a \in Addresses, NEW q \in Quests,
                 PauseQuest(a, q) \/ ResumeQuest(a, q)
          PROVE  Step
      BY <2>3, StatusLedger DEF PauseQuest, ResumeQuest, HasQuest
    <2> QED
      BY <1>3, <2>1, <2>2, <2>3 DEF QuestNext
  <1>4. CASE SubmissionNext
    <2>1. ASSUME NEW q \in Quests, NEW u \in Submitters, ClaimReward(q, u)
          PROVE  Step
      <3>1. q \in DOMAIN LedgerTerms /\ u \in Addresses
        BY <1>2, <2>1, EarnQuestAssumption DEF ClaimReward, ValidClaim, HasQuest
      <3> QED
        BY <2>1, <3>1, ClaimLedger DEF Ledger!LedgerNext
    <2>2. ASSUME NEW q, NEW u, SubmitProof(q, u) PROVE Step
      BY <1>1, <2>2 DEF SubmitProof
    <2>3. ASSUME NEW v, NEW batch, ApproveSubmissionsBatch(v, batch) PROVE Step
      BY <1>1, <2>3 DEF ApproveSubmissionsBatch
    <2>4. ASSUME NEW a, NEW u, NEW b, GrantBadge(a, u, b) PROVE Step
      BY <1>1, <2>4 DEF GrantBadge
    <2>5. UNCHANGED vars => Step
      BY <1>1 DEF vars, questVars
    <2> QED
      BY <1>4, <2>1, <2>2, <2>3, <2>4, <2>5, ApproveStep DEF SubmissionNext
  <1>5. CASE EscrowNext
    <2>1. ASSUME NEW q \in Quests, NEW d \in Addresses, NEW t \in Tokens,
                 NEW amount \in Deposits, DepositEscrow(q, d, t, amount)
          PROVE  Step
      <3>1. q \in DOMAIN LedgerTerms
        BY <1>2, <2>1 DEF DepositEscrow, HasQuest
      <3> QED
        BY <2>1, <3>1, DepositLedger DEF Ledger!LedgerNext
    <2>2. ASSUME NEW q \in Quests, NEW c \in Addresses,
                 CancelQuest(q, c) \/ ExpireQuest(q, c)
          PROVE  Step
      <3>1. q \in DOMAIN LedgerTerms
        BY <1>2, <2>2 DEF CancelQuest, ExpireQuest, CloseQuest, HasQuest
      <3>2. Ledger!Close(q)
        BY <2>2, CloseLedger DEF CancelQuest, ExpireQuest
      <3> QED
        BY <3>1, <3>2 DEF Ledger!LedgerNext
    <2>3. ASSUME NEW q, NEW c, WithdrawUnclaimed(q, c) PROVE Step
      BY <1>1, <2>3, WithdrawStep DEF vars, questVars
    <2>4. ASSUME NEW a \in Addresses, NEW to \in Addresses, NEW t \in Tokens,
                 NEW amount \in Deposits, EmergencyWithdraw(a, t, to, amount)
          PROVE  Step
      <3>1. amount \in Nat /\ amount > 0
        BY <2>4, EarnQuestAssumption DEF EmergencyWithdraw, ValidAmount
      <3>2. Ledger!Drain(t, to, poolFlow[t] - poolFlow'[t])
        BY <2>4, <3>1, PoolLedger DEF EmergencyWithdraw
      <3> QED
        BY <3>2 DEF Ledger!LedgerNext
    <2>5. ASSUME NEW from \in Addresses, NEW t \in Tokens,
                 NEW amount \in Deposits, FundPool(from, t, amount)
          PROVE  Step
      <3>1. amount \in Nat /\ amount > 0
        BY <2>5, EarnQuestAssumption DEF FundPool
      <3>2. Ledger!Fund(t, from, poolFlow'[t] - poolFlow[t])
        BY <2>5, <3>1, PoolLedger DEF FundPool
      <3> QED
        BY <3>2 DEF Ledger!LedgerNext
    <2> QED
      BY <1>5, <2>1, <2>2, <2>3, <2>4, <2>5 DEF EscrowNext
  <1>6. CASE (ControlNext /\ UNCHANGED questVars) \/ UNCHANGED vars
    BY <1>1, <1>6 DEF vars, questVars
  <1> QED
    BY <1>3, <1>4, <1>5, <1>6 DEF Next

(* The contract implements the escrow ledger: every change of an escrow    *)
(* record moves exactly that amount of the quest's asset between the       *)
(* contract and the right account, and a closed account stays closed.      *)
THEOREM LedgerImplemented == Spec => ImplementsLedger
  <1>1. IndInv /\ IndInv' /\ [Next]_vars
          => [Ledger!LedgerNext]_(Ledger!ledgerVars)
    BY StepLedger
  <1> QED
    BY InitLedger, <1>1, Invariance, PTL
       DEF Spec, ImplementsLedger, Ledger!LedgerSpec

-----------------------------------------------------------------------------
(* What the balances hold for the records.                                 *)

(* What the accounts of all quests with asset t hold, unregistered quests  *)
(* included: a sum over a set that no call changes.                        *)
HeldIn(t) ==
    [q \in Quests |-> IF q \in DOMAIN LedgerTerms /\ LedgerTerms[q].asset = t
                        THEN LedgerHeld[q] ELSE 0]

LedgerBacked ==
    \A t \in Tokens :
        balances[t][Contract] = poolFlow[t] + SumFunctionOnSet(HeldIn(t), Quests)

(* What the ledger shows has its types, and only registered quests hold    *)
(* anything.                                                               *)
LedgerTypes ==
    /\ DOMAIN LedgerTerms = DOMAIN quests /\ DOMAIN quests \subseteq Quests
    /\ \A q \in DOMAIN quests : /\ LedgerTerms[q].owner \in Addresses
                                /\ LedgerTerms[q].asset \in Tokens
    /\ LedgerHeld \in [Quests -> Int]
    /\ \A q \in Quests \ DOMAIN quests : LedgerHeld[q] = 0
    /\ \A t \in Tokens : HeldIn(t) \in [Quests -> Int]
    /\ balances \in [Tokens -> [Accounts -> Nat]]
    /\ poolFlow \in [Tokens -> Int]

LEMMA LedgerTyped == IndInv => LedgerTypes
  <1> SUFFICES ASSUME IndInv PROVE LedgerTypes
    OBVIOUS
  <1>1. QuestTypeOK
    BY DEF IndInv, TypeOK
  <1>2. /\ DOMAIN LedgerTerms = DOMAIN quests /\ DOMAIN quests \subseteq Quests
        /\ \A q \in DOMAIN quests : LedgerTerms[q].owner \in Addresses
                                    /\ LedgerTerms[q].asset \in Tokens
    BY <1>1 DEF LedgerTerms, QuestTypeOK, Quest
  <1>3. \A q \in DOMAIN escrows : Available(escrows[q]) \in Int
    BY <1>1 DEF QuestTypeOK, EscrowInfo, Available
  <1>4. LedgerHeld \in [Quests -> Int]
    BY <1>3 DEF LedgerHeld, HasEscrow
  <1>5. \A q \in Quests \ DOMAIN quests : LedgerHeld[q] = 0
    BY <1>1 DEF LedgerHeld, HasEscrow, QuestTypeOK
  <1>6. \A t \in Tokens : HeldIn(t) \in [Quests -> Int]
    BY <1>4 DEF HeldIn
  <1> QED
    BY <1>1, <1>2, <1>4, <1>5, <1>6 DEF QuestTypeOK, LedgerTypes

LEMMA LedgerTypedNext == IndInv' => LedgerTypes'
  BY LedgerTyped, PTL

(* A change of one account moves the sum of its asset by the same amount   *)
(* and no other sum.                                                       *)
LEMMA HeldChange ==
  ASSUME IndInv, IndInv', UNCHANGED LedgerTerms,
         NEW q \in DOMAIN LedgerTerms, NEW n \in Int,
         LedgerHeld' = [LedgerHeld EXCEPT ![q] = n],
         NEW t \in Tokens
  PROVE  SumFunctionOnSet(HeldIn(t)', Quests) =
           SumFunctionOnSet(HeldIn(t), Quests)
             + (IF LedgerTerms[q].asset = t THEN n - LedgerHeld[q] ELSE 0)
  <1>1. /\ q \in Quests /\ IsFiniteSet(Quests)
        /\ HeldIn(t) \in [Quests -> Int] /\ HeldIn(t)' \in [Quests -> Int]
        /\ LedgerHeld \in [Quests -> Int]
    BY LedgerTyped, LedgerTypedNext, EarnQuestAssumption DEF LedgerTypes
  <1>2. /\ \A x \in Quests \ {q} : HeldIn(t)[x] = HeldIn(t)'[x]
        /\ HeldIn(t)[q] = IF LedgerTerms[q].asset = t THEN LedgerHeld[q] ELSE 0
        /\ HeldIn(t)'[q] = IF LedgerTerms[q].asset = t THEN n ELSE 0
    BY <1>1 DEF HeldIn
  <1>3. SumFunctionOnSet(HeldIn(t)', Quests) =
          SumFunctionOnSet(HeldIn(t), Quests) + (HeldIn(t)'[q] - HeldIn(t)[q])
    <2> DEFINE f == HeldIn(t)
               g == HeldIn(t)'
    <2>1. /\ \A y \in Quests : f[y] \in Int /\ g[y] \in Int
          /\ \A y \in Quests \ {q} : f[y] = g[y]
      BY <1>1, <1>2
    <2> HIDE DEF f, g
    <2>2. SumFunctionOnSet(g, Quests) = SumFunctionOnSet(f, Quests) + (g[q] - f[q])
      BY <1>1, <2>1, SumChangeOne
    <2> QED
      BY <2>2 DEF f, g
  <1>4. SumFunctionOnSet(HeldIn(t), Quests) \in Int
    BY <1>1, SumInt
  <1> QED
    BY <1>1, <1>2, <1>3, <1>4

(* What a move does to the contract's own balances.                        *)
LEMMA MoveIn ==
  ASSUME IndInv, NEW t \in Tokens, NEW u \in Addresses, NEW n \in Int,
         Ledger!Move(t, u, Contract, n)
  PROVE  \A x \in Tokens : balances'[x][Contract] =
           balances[x][Contract] + (IF x = t THEN n ELSE 0)
  BY LedgerTyped, EarnQuestAssumption DEF LedgerTypes, Ledger!Move, Accounts

LEMMA MoveOut ==
  ASSUME IndInv, NEW t \in Tokens, NEW u \in Addresses, NEW n \in Int,
         Ledger!Move(t, Contract, u, n)
  PROVE  \A x \in Tokens : balances'[x][Contract] =
           balances[x][Contract] - (IF x = t THEN n ELSE 0)
  BY LedgerTyped, EarnQuestAssumption DEF LedgerTypes, Ledger!Move, Accounts

(* An account and the contract's balance change by the same amount.        *)
LEMMA AccountKeepsBacked ==
  ASSUME IndInv, IndInv', LedgerBacked, UNCHANGED <<LedgerTerms, poolFlow>>,
         NEW q \in DOMAIN LedgerTerms, NEW n \in Int,
         LedgerHeld' = [LedgerHeld EXCEPT ![q] = n],
         \A x \in Tokens : balances'[x][Contract] = balances[x][Contract] +
           (IF x = LedgerTerms[q].asset THEN n - LedgerHeld[q] ELSE 0)
  PROVE  LedgerBacked'
  <1> SUFFICES ASSUME NEW t \in Tokens
               PROVE  balances'[t][Contract] =
                        poolFlow'[t] + SumFunctionOnSet(HeldIn(t)', Quests)
    BY DEF LedgerBacked
  <1>1. /\ HeldIn(t) \in [Quests -> Int] /\ IsFiniteSet(Quests)
        /\ LedgerHeld[q] \in Int /\ poolFlow[t] \in Int
        /\ balances[t][Contract] \in Int
    BY LedgerTyped, EarnQuestAssumption DEF LedgerTypes, Accounts
  <1>2. SumFunctionOnSet(HeldIn(t), Quests) \in Int
    BY <1>1, SumInt
  <1>3. balances[t][Contract] = poolFlow[t] + SumFunctionOnSet(HeldIn(t), Quests)
    BY DEF LedgerBacked
  <1>4. SumFunctionOnSet(HeldIn(t)', Quests) =
          SumFunctionOnSet(HeldIn(t), Quests)
            + (IF LedgerTerms[q].asset = t THEN n - LedgerHeld[q] ELSE 0)
    BY HeldChange
  <1> QED
    BY <1>1, <1>2, <1>3, <1>4

(* The pool and the contract's balance change by the same amount.          *)
LEMMA PoolKeepsBacked ==
  ASSUME IndInv, LedgerBacked, UNCHANGED <<LedgerTerms, LedgerHeld>>,
         NEW t \in Tokens, NEW n \in Int,
         poolFlow' = [poolFlow EXCEPT ![t] = poolFlow[t] + n],
         \A x \in Tokens : balances'[x][Contract] =
           balances[x][Contract] + (IF x = t THEN n ELSE 0)
  PROVE  LedgerBacked'
  <1> SUFFICES ASSUME NEW x \in Tokens
               PROVE  balances'[x][Contract] =
                        poolFlow'[x] + SumFunctionOnSet(HeldIn(x)', Quests)
    BY DEF LedgerBacked
  <1>1. HeldIn(x)' = HeldIn(x)
    BY DEF HeldIn
  <1>2. /\ HeldIn(x) \in [Quests -> Int] /\ IsFiniteSet(Quests)
        /\ poolFlow \in [Tokens -> Int] /\ balances[x][Contract] \in Int
    BY LedgerTyped, EarnQuestAssumption DEF LedgerTypes, Accounts
  <1>3. SumFunctionOnSet(HeldIn(x), Quests) \in Int
    BY <1>2, SumInt
  <1>4. balances[x][Contract] = poolFlow[x] + SumFunctionOnSet(HeldIn(x), Quests)
    BY DEF LedgerBacked
  <1>5. poolFlow'[x] = poolFlow[x] + (IF x = t THEN n ELSE 0)
    BY <1>2
  <1> QED
    BY <1>1, <1>2, <1>3, <1>4, <1>5

(* New quests hold nothing.                                                *)
LEMMA RegisterKeepsBacked ==
  ASSUME IndInv, LedgerBacked, Ledger!Register
  PROVE  LedgerBacked'
  <1> SUFFICES ASSUME NEW t \in Tokens
               PROVE  balances'[t][Contract] =
                        poolFlow'[t] + SumFunctionOnSet(HeldIn(t)', Quests)
    BY DEF LedgerBacked
  <1>1. /\ \A q \in DOMAIN LedgerTerms : /\ q \in DOMAIN LedgerTerms'
                                         /\ LedgerTerms'[q] = LedgerTerms[q]
        /\ UNCHANGED <<LedgerHeld, balances, poolFlow>>
    BY DEF Ledger!Register
  <1>2. \A q \in Quests \ DOMAIN LedgerTerms : LedgerHeld[q] = 0
    BY LedgerTyped, LedgerTypedNext DEF LedgerTypes
  <1>3. HeldIn(t)' = HeldIn(t)
    BY <1>1, <1>2 DEF HeldIn
  <1> QED
    BY <1>1, <1>3 DEF LedgerBacked

(* Every step of the ledger keeps its accounts backed.                     *)
LEMMA StepBacked ==
  ASSUME IndInv, IndInv', LedgerBacked, [Next]_vars
  PROVE  LedgerBacked'
  <1>1. CASE UNCHANGED Ledger!ledgerVars
    <2>1. \A t \in Tokens : HeldIn(t)' = HeldIn(t)
      BY <1>1 DEF Ledger!ledgerVars, HeldIn
    <2> QED
      BY <1>1, <2>1 DEF Ledger!ledgerVars, LedgerBacked
  <1>2. CASE Ledger!Register
    BY <1>2, RegisterKeepsBacked
  <1>3. ASSUME NEW q \in DOMAIN LedgerTerms
        PROVE  /\ q \in Quests /\ LedgerHeld[q] \in Int /\ LedgerHeld'[q] \in Int
               /\ LedgerTerms[q].asset \in Tokens /\ LedgerTerms[q].owner \in Addresses
               /\ LedgerHeld \in [Quests -> Int]
    BY LedgerTyped, LedgerTypedNext DEF LedgerTypes
  <1>4. ASSUME NEW q \in DOMAIN LedgerTerms,
               Ledger!Deposit(q, LedgerHeld'[q] - LedgerHeld[q])
        PROVE  LedgerBacked'
    <2> DEFINE n == LedgerHeld[q] + (LedgerHeld'[q] - LedgerHeld[q])
    <2>1. /\ UNCHANGED <<LedgerTerms, poolFlow>>
          /\ LedgerHeld' = [LedgerHeld EXCEPT ![q] = n]
          /\ Ledger!Move(LedgerTerms[q].asset, LedgerTerms[q].owner, Contract,
                         LedgerHeld'[q] - LedgerHeld[q])
      BY <1>4 DEF Ledger!Deposit
    <2>2. n \in Int /\ LedgerHeld'[q] - LedgerHeld[q] \in Int
          /\ LedgerHeld'[q] - LedgerHeld[q] = n - LedgerHeld[q]
      BY <1>3
    <2> HIDE DEF n
    <2>3. \A x \in Tokens : balances'[x][Contract] = balances[x][Contract] +
            (IF x = LedgerTerms[q].asset THEN n - LedgerHeld[q] ELSE 0)
      BY <1>3, <2>1, <2>2, MoveIn
    <2> QED
      BY <2>1, <2>2, <2>3, AccountKeepsBacked
  <1>5. ASSUME NEW q \in DOMAIN LedgerTerms, NEW u \in Addresses,
               Ledger!Pay(q, u, LedgerHeld[q] - LedgerHeld'[q])
        PROVE  LedgerBacked'
    <2> DEFINE n == LedgerHeld[q] - (LedgerHeld[q] - LedgerHeld'[q])
    <2>1. /\ UNCHANGED <<LedgerTerms, poolFlow>>
          /\ LedgerHeld' = [LedgerHeld EXCEPT ![q] = n]
          /\ Ledger!Move(LedgerTerms[q].asset, Contract, u,
                         LedgerHeld[q] - LedgerHeld'[q])
      BY <1>5 DEF Ledger!Pay
    <2>2. n \in Int /\ LedgerHeld[q] - LedgerHeld'[q] \in Int
          /\ LedgerHeld[q] - LedgerHeld'[q] = LedgerHeld[q] - n
      BY <1>3
    <2> HIDE DEF n
    <2>3. \A x \in Tokens : balances'[x][Contract] = balances[x][Contract] -
            (IF x = LedgerTerms[q].asset THEN LedgerHeld[q] - n ELSE 0)
      BY <1>3, <2>1, <2>2, MoveOut
    <2>4. \A x \in Tokens : balances[x][Contract] \in Int
      BY LedgerTyped DEF LedgerTypes, Accounts
    <2>5. \A x \in Tokens : balances'[x][Contract] = balances[x][Contract] +
            (IF x = LedgerTerms[q].asset THEN n - LedgerHeld[q] ELSE 0)
      BY <1>3, <2>2, <2>3, <2>4
    <2> QED
      BY <2>1, <2>2, <2>5, AccountKeepsBacked
  <1>6. ASSUME NEW q \in DOMAIN LedgerTerms, Ledger!Close(q)
        PROVE  LedgerBacked'
    <2> DEFINE n == 0
    <2>1. /\ n \in Int
          /\ UNCHANGED <<LedgerTerms, poolFlow>>
          /\ LedgerHeld' = [LedgerHeld EXCEPT ![q] = n]
          /\ Ledger!Move(LedgerTerms[q].asset, Contract, LedgerTerms[q].owner,
                         LedgerHeld[q])
      BY <1>6 DEF Ledger!Close
    <2>2. \A x \in Tokens : balances'[x][Contract] = balances[x][Contract] -
            (IF x = LedgerTerms[q].asset THEN LedgerHeld[q] ELSE 0)
      BY <1>3, <2>1, MoveOut
    <2>3. \A x \in Tokens : balances[x][Contract] \in Int
      BY LedgerTyped DEF LedgerTypes, Accounts
    <2>4. \A x \in Tokens : balances'[x][Contract] = balances[x][Contract] +
            (IF x = LedgerTerms[q].asset THEN n - LedgerHeld[q] ELSE 0)
      BY <1>3, <2>2, <2>3
    <2> HIDE DEF n
    <2> QED
      BY <2>1, <2>4, AccountKeepsBacked
  <1>7. ASSUME NEW t \in Tokens, NEW u \in Addresses,
               Ledger!Fund(t, u, poolFlow'[t] - poolFlow[t])
        PROVE  LedgerBacked'
    <2> DEFINE n == poolFlow'[t] - poolFlow[t]
    <2>1. n \in Int
      BY LedgerTyped, LedgerTypedNext DEF LedgerTypes
    <2>2. /\ UNCHANGED <<LedgerTerms, LedgerHeld>>
          /\ poolFlow' = [poolFlow EXCEPT ![t] = poolFlow[t] + n]
          /\ Ledger!Move(t, u, Contract, n)
      BY <1>7 DEF Ledger!Fund
    <2> HIDE DEF n
    <2>3. \A x \in Tokens : balances'[x][Contract] =
            balances[x][Contract] + (IF x = t THEN n ELSE 0)
      BY <2>1, <2>2, MoveIn
    <2> QED
      BY <2>1, <2>2, <2>3, PoolKeepsBacked
  <1>8. ASSUME NEW t \in Tokens, NEW u \in Addresses,
               Ledger!Drain(t, u, poolFlow[t] - poolFlow'[t])
        PROVE  LedgerBacked'
    <2> DEFINE n == poolFlow[t] - poolFlow'[t]
    <2>1. n \in Int /\ 0 - n \in Int /\ poolFlow[t] \in Int
      BY LedgerTyped, LedgerTypedNext DEF LedgerTypes
    <2>2. /\ UNCHANGED <<LedgerTerms, LedgerHeld>>
          /\ poolFlow' = [poolFlow EXCEPT ![t] = poolFlow[t] - n]
          /\ Ledger!Move(t, Contract, u, n)
      BY <1>8 DEF Ledger!Drain
    <2> HIDE DEF n
    <2>3. \A x \in Tokens : balances'[x][Contract] =
            balances[x][Contract] - (IF x = t THEN n ELSE 0)
      BY <2>1, <2>2, MoveOut
    <2>4. poolFlow[t] - n = poolFlow[t] + (0 - n)
      BY <2>1
    <2>5. \A x \in Tokens : balances[x][Contract] \in Int
      BY LedgerTyped DEF LedgerTypes, Accounts
    <2>6. \A x \in Tokens : balances'[x][Contract] =
            balances[x][Contract] + (IF x = t THEN 0 - n ELSE 0)
      BY <2>1, <2>3, <2>5
    <2> QED
      BY <2>1, <2>2, <2>4, <2>6, PoolKeepsBacked
  <1>9. CASE Ledger!LedgerNext
    BY <1>2, <1>4, <1>5, <1>6, <1>7, <1>8, <1>9 DEF Ledger!LedgerNext
  <1> QED
    BY <1>1, <1>9, StepLedger

(* At the start every sum and every balance of the contract is zero.       *)
LEMMA InitBacked == Init => LedgerBacked
  <1> SUFFICES ASSUME Init, NEW t \in Tokens
               PROVE  balances[t][Contract] =
                        poolFlow[t] + SumFunctionOnSet(HeldIn(t), Quests)
    BY DEF LedgerBacked
  <1>1. balances[t][Contract] = 0 /\ poolFlow[t] = 0
    BY InitLedger DEF Ledger!LedgerInit
  <1>2. \A q \in Quests : HeldIn(t)[q] = 0
    BY InitLedger DEF Ledger!LedgerInit, HeldIn
  <1>3. SumFunctionOnSet(HeldIn(t), Quests) = SumFunctionOnSet(HeldIn(t), {})
    BY <1>2, SumSupport, EarnQuestAssumption
  <1> QED
    BY <1>1, <1>3, SumEmpty

(* The sum over all quests is the sum over the records in the token.       *)
LEMMA BackedRecords ==
  ASSUME IndInv, LedgerBacked
  PROVE  BalanceBacksEscrows
  <1> DEFINE availableOf == [q \in DOMAIN escrows |-> Available(escrows[q])]
             Recorded(t) == {q \in DOMAIN escrows : escrows[q].token = t}
  <1>1. SUFFICES ASSUME NEW t \in Tokens
                 PROVE  balances[t][Contract] =
                          poolFlow[t] + SumFunctionOnSet(availableOf, Recorded(t))
    BY DEF BalanceBacksEscrows
  <1>2. /\ DOMAIN escrows \subseteq DOMAIN quests /\ DOMAIN quests \subseteq Quests
        /\ \A q \in DOMAIN escrows : escrows[q].token = quests[q].rewardAsset
    BY DEF IndInv, TypeOK, QuestTypeOK, EscrowInv, EscrowFollowsQuest
  <1>3. /\ Recorded(t) \subseteq Quests
        /\ \A q \in Recorded(t) : HeldIn(t)[q] = availableOf[q]
        /\ \A q \in Quests \ Recorded(t) : HeldIn(t)[q] = 0
    BY <1>2 DEF HeldIn, LedgerTerms, LedgerHeld, HasEscrow
  <1>4. IsFiniteSet(Quests) /\ IsFiniteSet(Recorded(t))
    BY <1>3, FS_Subset, EarnQuestAssumption
  <1>5. HeldIn(t) \in [Quests -> Int]
    BY LedgerTyped, LedgerTypedNext DEF LedgerTypes
  <1> HIDE DEF availableOf, Recorded
  <1>6. SumFunctionOnSet(HeldIn(t), Quests) = SumFunctionOnSet(HeldIn(t), Recorded(t))
    BY <1>3, <1>4, <1>5, SumSupport
  <1>7. SumFunctionOnSet(HeldIn(t), Recorded(t)) = SumFunctionOnSet(availableOf, Recorded(t))
    BY <1>3, <1>4, SumSame
  <1> QED
    BY <1>6, <1>7 DEF LedgerBacked

(* For each token the contract holds what its escrow records say is        *)
(* available plus the net flow that bypassed them: records and balance,    *)
(* two separate writes of escrow.rs and payout.rs, never drift apart.      *)
THEOREM BalancesBackEscrows == Spec => []BalanceBacksEscrows
  <1>1. IndInv /\ IndInv' /\ LedgerBacked /\ [Next]_vars => LedgerBacked'
    BY StepBacked
  <1>2. Spec => []LedgerBacked
    BY InitBacked, <1>1, Invariance, PTL DEF Spec
  <1>3. IndInv /\ LedgerBacked => BalanceBacksEscrows
    BY BackedRecords
  <1> QED
    BY <1>2, <1>3, Invariance, PTL

-----------------------------------------------------------------------------
(* What the claims credit to the users.                                    *)

CompletedBy == [u \in Addresses |-> userStats[u].questsCompleted]

(* Claims counted by quest, unregistered quests included.                  *)
ClaimsOf == [q \in Quests |-> IF q \in DOMAIN quests THEN quests[q].totalClaims ELSE 0]

ClaimsBalance ==
    SumFunctionOnSet(CompletedBy, Addresses) = SumFunctionOnSet(ClaimsOf, Quests)

CountsTyped == /\ CompletedBy \in [Addresses -> Nat]
               /\ ClaimsOf \in [Quests -> Nat]

LEMMA CountTypes == IndInv => CountsTyped
  BY DEF IndInv, TypeOK, QuestTypeOK, UserStats, Quest, CompletedBy, ClaimsOf,
         CountsTyped

LEMMA CountTypesNext == IndInv' => CountsTyped'
  BY CountTypes, PTL

(* No quest is ever removed.                                               *)
LEMMA QuestsStay ==
  ASSUME IndInv, IndInv', [Next]_vars
  PROVE  DOMAIN quests \subseteq DOMAIN quests'
  <1>1. \/ DOMAIN LedgerTerms \subseteq DOMAIN LedgerTerms'
        \/ UNCHANGED LedgerTerms
    BY StepLedger DEF Ledger!LedgerNext, Ledger!ledgerVars, Ledger!Register,
       Ledger!Deposit, Ledger!Pay, Ledger!Close, Ledger!Fund, Ledger!Drain
  <1>2. DOMAIN LedgerTerms = DOMAIN quests /\ (DOMAIN LedgerTerms)' = DOMAIN quests'
    BY LedgerTyped, LedgerTypedNext DEF LedgerTypes
  <1> QED
    BY <1>1, <1>2

(* A grant completes no quest.                                             *)
LEMMA GrantCompletesNothing ==
  ASSUME IndInv, NEW c, NEW u \in Addresses, NEW b, GrantBadge(c, u, b)
  PROVE  CompletedBy' = CompletedBy
  <1> DEFINE old == userStats[u]
             more == old.badges \cup {b}
             r == [old EXCEPT !.badges = more]
  <1>1. userStats \in [Addresses -> UserStats]
    BY DEF IndInv, TypeOK, QuestTypeOK
  <1>2. userStats' = [userStats EXCEPT ![u] = r]
    BY DEF GrantBadge
  <1>3. r.questsCompleted = old.questsCompleted
    <2>1. old \in UserStats
      BY <1>1
    <2> HIDE DEF old, more
    <2> QED
      BY <2>1 DEF UserStats
  <1> HIDE DEF r
  <1>4. \A x \in Addresses : userStats'[x] = IF x = u THEN r ELSE userStats[x]
    BY <1>1, <1>2
  <1> QED
    BY <1>3, <1>4 DEF CompletedBy

(* A claim credits one more quest to one user.                             *)
LEMMA ClaimCompletesOne ==
  ASSUME IndInv, NEW u \in Addresses, AwardXp(u, ClaimXp)
  PROVE  \A x \in Addresses : CompletedBy'[x] =
            IF x = u THEN CompletedBy[u] + 1 ELSE CompletedBy[x]
  <1> DEFINE old == userStats[u]
             xp == old.xp + ClaimXp
             level == CalculateLevel(xp)
             r == [old EXCEPT !.xp = xp, !.questsCompleted = @ + 1,
                              !.level = level]
  <1>1. userStats \in [Addresses -> UserStats]
    BY DEF IndInv, TypeOK, QuestTypeOK
  <1>2. userStats' = [userStats EXCEPT ![u] = r]
    BY DEF AwardXp
  <1>3. r.questsCompleted = old.questsCompleted + 1
    <2>1. old \in UserStats
      BY <1>1
    <2> HIDE DEF old, xp, level
    <2> QED
      BY <2>1 DEF UserStats
  <1> HIDE DEF r
  <1>4. \A x \in Addresses : userStats'[x] = IF x = u THEN r ELSE userStats[x]
    BY <1>1, <1>2
  <1> QED
    BY <1>3, <1>4 DEF CompletedBy

(* A claim adds one to each sum.                                           *)
LEMMA ClaimKeepsBalance ==
  ASSUME IndInv, IndInv', ClaimsBalance, NEW q \in Quests, NEW u \in Submitters,
         ClaimReward(q, u)
  PROVE  ClaimsBalance'
  <1>1. /\ u \in Addresses /\ IsFiniteSet(Addresses) /\ IsFiniteSet(Quests)
        /\ AwardXp(u, ClaimXp)
    BY EarnQuestAssumption, EmergencyAssumption DEF ClaimReward
  <1>2. /\ CompletedBy \in [Addresses -> Nat] /\ CompletedBy' \in [Addresses -> Nat]
        /\ ClaimsOf \in [Quests -> Nat] /\ ClaimsOf' \in [Quests -> Nat]
    BY CountTypes, CountTypesNext DEF CountsTyped
  <1>3. \A x \in Addresses : CompletedBy'[x] =
           IF x = u THEN CompletedBy[u] + 1 ELSE CompletedBy[x]
    BY <1>1, ClaimCompletesOne
  <1>4. \A x \in Quests : ClaimsOf'[x] =
           IF x = q THEN ClaimsOf[q] + 1 ELSE ClaimsOf[x]
    BY ClaimCounts DEF ClaimsOf
  <1>5. SumFunctionOnSet(CompletedBy', Addresses) =
          SumFunctionOnSet(CompletedBy, Addresses) + 1
    <2> DEFINE f == CompletedBy
               g == CompletedBy'
    <2>1. /\ \A y \in Addresses : f[y] \in Int /\ g[y] \in Int
          /\ \A y \in Addresses \ {u} : f[y] = g[y]
          /\ g[u] - f[u] = 1
      BY <1>1, <1>2, <1>3
    <2> HIDE DEF f, g
    <2> QED
      BY <1>1, <2>1, SumChangeOne DEF f, g
  <1>6. SumFunctionOnSet(ClaimsOf', Quests) = SumFunctionOnSet(ClaimsOf, Quests) + 1
    <2> DEFINE f == ClaimsOf
               g == ClaimsOf'
    <2>1. /\ \A y \in Quests : f[y] \in Int /\ g[y] \in Int
          /\ \A y \in Quests \ {q} : f[y] = g[y]
          /\ g[q] - f[q] = 1
      BY <1>2, <1>4
    <2> HIDE DEF f, g
    <2> QED
      BY <1>1, <2>1, SumChangeOne DEF f, g
  <1> QED
    BY <1>5, <1>6 DEF ClaimsBalance

(* No other call changes a summand.                                        *)
LEMMA KeptCountsBalance ==
  ASSUME IndInv, IndInv', [Next]_vars, ClaimsBalance, CountsKept,
         CompletedBy' = CompletedBy
  PROVE  ClaimsBalance'
  <1>1. DOMAIN quests' \subseteq Quests
    BY DEF IndInv, TypeOK, QuestTypeOK
  <1>2. ClaimsOf' = ClaimsOf
    BY <1>1, QuestsStay DEF CountsKept, ClaimsOf
  <1> QED
    BY <1>2 DEF ClaimsBalance

LEMMA InitBalance == Init => ClaimsBalance
  <1> SUFFICES ASSUME Init PROVE ClaimsBalance
    OBVIOUS
  <1>1. /\ \A q \in Quests : ClaimsOf[q] = 0
        /\ \A u \in Addresses : CompletedBy[u] = 0
    BY DEF Init, ClaimsOf, CompletedBy, NewUserStats
  <1>2. IsFiniteSet(Addresses) /\ IsFiniteSet(Quests)
    BY EarnQuestAssumption, EmergencyAssumption
  <1>3. /\ SumFunctionOnSet(ClaimsOf, Quests) = SumFunctionOnSet(ClaimsOf, {})
        /\ SumFunctionOnSet(CompletedBy, Addresses) = SumFunctionOnSet(CompletedBy, {})
    BY <1>1, <1>2, SumSupport
  <1> QED
    BY <1>3, SumEmpty DEF ClaimsBalance

(* The sum over all quests is the sum over the registered ones.            *)
LEMMA BalanceCredited ==
  ASSUME IndInv, ClaimsBalance
  PROVE  ClaimsCredited
  <1> DEFINE claims == [q \in DOMAIN quests |-> quests[q].totalClaims]
  <1>1. DOMAIN quests \subseteq Quests /\ IsFiniteSet(Quests)
    BY EarnQuestAssumption DEF IndInv, TypeOK, QuestTypeOK
  <1>2. /\ \A q \in Quests : ClaimsOf[q] \in Int
        /\ \A q \in Quests \ DOMAIN quests : ClaimsOf[q] = 0
        /\ \A q \in DOMAIN quests : ClaimsOf[q] = claims[q]
    BY <1>1, CountTypes DEF CountsTyped, ClaimsOf
  <1>3. DOMAIN claims = DOMAIN quests /\ DOMAIN CompletedBy = Addresses
    BY DEF CompletedBy
  <1> HIDE DEF claims
  <1>4. SumFunctionOnSet(ClaimsOf, Quests) = SumFunctionOnSet(ClaimsOf, DOMAIN quests)
    BY <1>1, <1>2, SumSupport
  <1>5. SumFunctionOnSet(ClaimsOf, DOMAIN quests) = SumFunctionOnSet(claims, DOMAIN quests)
    BY <1>1, <1>2, FS_Subset, SumSame
  <1>6. SumFunction(claims) = SumFunction(CompletedBy)
    BY <1>3, <1>4, <1>5 DEF ClaimsBalance, SumFunction
  <1> QED
    BY <1>6 DEF claims, CompletedBy, ClaimsCredited

(* Every claim a quest counts is credited to exactly one user: the two     *)
(* counters, written by submission.rs and reputation.rs in one call, agree *)
(* in total.                                                               *)
THEOREM ClaimsAreCredited == Spec => []ClaimsCredited
  <1>1. IndInv /\ IndInv' /\ ClaimsBalance /\ [Next]_vars => ClaimsBalance'
    <2> SUFFICES ASSUME IndInv, IndInv', ClaimsBalance, [Next]_vars
                 PROVE  ClaimsBalance'
      OBVIOUS
    <2>1. ASSUME NEW q \in Quests, NEW u \in Submitters, ClaimReward(q, u)
          PROVE  ClaimsBalance'
      BY <2>1, ClaimKeepsBalance
    <2>2. ASSUME CountsKept, NEW a \in Addresses, NEW u \in Addresses,
                 NEW b \in Badges, GrantBadge(a, u, b)
          PROVE  ClaimsBalance'
      BY <2>2, GrantCompletesNothing, KeptCountsBalance
    <2>3. ASSUME CountsKept, UNCHANGED userStats
          PROVE  ClaimsBalance'
      BY <2>3, KeptCountsBalance DEF CompletedBy
    <2> QED
      BY <2>1, <2>2, <2>3, StatsWriters, CountWriters
  <1>2. Spec => []ClaimsBalance
    BY InitBalance, <1>1, Invariance, PTL DEF Spec
  <1>3. IndInv /\ ClaimsBalance => ClaimsCredited
    BY BalanceCredited
  <1> QED
    BY <1>2, <1>3, Invariance, PTL

=============================================================================
