-------------------------- MODULE EarnQuestV1Proofs --------------------------
(***************************************************************************)
(* Proofs about the first contract, for any number of quests, accounts,    *)
(* tokens and pause configurations: types and references, the times of a   *)
(* pause, what may leave the contract, the counted claims, the money       *)
(* (MoneyInv: entries against balances, rewards against paid submissions)  *)
(* and the escrow ledger it implements.                                    *)
(***************************************************************************)
EXTENDS EarnQuestV1, SumTheorems

(* No signature lies in the future.                                        *)
SignedInPast == \A s \in Signers : signedAt[s] <= now

(* The points are those of the completed quests, and the sets that are     *)
(* counted are finite.                                                     *)
CountInv ==
    /\ ClaimsCounted
    /\ IsFiniteSet(DOMAIN quests)
    /\ \A a \in DOMAIN userStats : userStats[a].totalXp = 100 * userStats[a].questsCompleted

PauseInv == V1TypeOK /\ PauseIsTimely /\ SignedInPast

(* The calls that write nothing but a quest: registration and changes of   *)
(* status, none of which reopens a quest that has ended.                   *)
QuestCall(q) ==
    /\ UNCHANGED <<config, submissions, escrowBal, userStats, balances, pauseVars, now>>
    /\ \/ \E c \in Creators, t \in Tokens, r \in Rewards, v \in Verifiers,
             d \in Deadlines, n \in Limits : RegisterQuest(q, c, t, r, v, d, n)
       \/ \E c \in Addresses, status \in QuestStatus :
            SetStatus(q, c, status) /\ (quests[q].status \in Ended => status \in Ended)

-----------------------------------------------------------------------------
(* Helpers.                                                                *)

(* The contract's account is nobody else's.                                *)
LEMMA ContractApart ==
  /\ Contract \in Accounts
  /\ Creators \subseteq Accounts
  /\ Submitters \subseteq Accounts
  /\ Contract \notin Creators
  /\ Contract \notin Submitters
  BY EarnQuestV1Assumption DEF EarnQuestV1Assumption, Accounts

(* A transfer between two accounts moves the amount and touches no other   *)
(* balance.                                                                *)
LEMMA TransferFacts ==
  ASSUME V1TypeOK, NEW t \in Tokens, NEW from \in Accounts, NEW to \in Accounts,
         from # to, NEW amount \in Nat, Transfer(t, from, to, amount)
  PROVE  /\ balances' \in [Tokens -> [Accounts -> Nat]]
         /\ balances'[t][from] = balances[t][from] - amount
         /\ balances'[t][to] = balances[t][to] + amount
         /\ \A u \in Tokens \ {t} : balances'[u] = balances[u]
  <1> DEFINE row == [balances[t] EXCEPT ![from] = @ - amount, ![to] = @ + amount]
  <1>1. balances[t] \in [Accounts -> Nat]
    BY DEF V1TypeOK
  <1>2. balances[t][from] \in Nat /\ balances[t][to] \in Nat
    BY <1>1
  <1>3. balances[t][from] - amount \in Nat
    BY <1>2 DEF Transfer
  <1>4. row \in [Accounts -> Nat]
    BY <1>1, <1>2, <1>3
  <1>5. row[from] = balances[t][from] - amount /\ row[to] = balances[t][to] + amount
    BY <1>1
  <1>6. balances' = [balances EXCEPT ![t] = row]
    BY DEF Transfer, V1TypeOK
  <1> HIDE DEF row
  <1>7. /\ balances' \in [Tokens -> [Accounts -> Nat]]
        /\ balances'[t] = row
        /\ \A u \in Tokens \ {t} : balances'[u] = balances[u]
    BY <1>4, <1>6 DEF V1TypeOK
  <1> QED
    BY <1>5, <1>7

-----------------------------------------------------------------------------
(* Types, one lemma per kind of call.                                      *)

(* Calls that write the configuration or the pause state.                  *)
LEMMA ControlCallsTyped ==
  ASSUME V1TypeOK, ConfigNext \/ PauseNext
  PROVE  V1TypeOK'
  <1> USE EarnQuestV1Assumption DEF EarnQuestV1Assumption
  <1>0. /\ admin \in Addresses \cup {Nobody} /\ now \in 0..MaxTime
        /\ dataVersion \in 0..1 /\ configVersion = dataVersion
        /\ admin = Nobody => dataVersion = 0
    BY DEF V1TypeOK, ContractVersion
  <1>1. ASSUME UNCHANGED <<questVars, pauseVars, now>>, admin' \in Addresses,
               dataVersion' \in 0..1, configVersion' = dataVersion'
        PROVE  V1TypeOK'
    BY <1>1 DEF V1TypeOK, questVars, pauseVars, ContractVersion
  <1>2. ASSUME UNCHANGED <<config, questVars, now>>, pauseState' \in PauseState,
               signedAt' \in [Signers -> 0..MaxTime]
        PROVE  V1TypeOK'
    BY <1>2 DEF V1TypeOK, questVars, config
  <1>3. pauseState \in PauseState \cup {NoPauseState} /\ signedAt \in [Signers -> 0..MaxTime]
    BY DEF V1TypeOK
  <1>4. CASE ConfigNext
    <2>1. ASSUME NEW a \in Admins, Initialize(a)
          PROVE  V1TypeOK'
      BY <1>1, <2>1 DEF Initialize, SetVersions, ContractVersion
    <2>2. ASSUME NEW c \in Addresses, NEW a \in Admins, UpdateConfig(c, a)
          PROVE  V1TypeOK'
      BY <1>0, <1>1, <2>2 DEF UpdateConfig
    <2>3. ASSUME NEW c \in Addresses, TriggerMigration(c)
          PROVE  V1TypeOK'
      BY <1>0, <1>1, <2>3 DEF TriggerMigration, SetVersions
    <2>4. ASSUME NEW c \in Addresses, NEW target \in 0..ContractVersion,
                 TriggerRollback(c, target)
          PROVE  V1TypeOK'
      BY <1>0, <1>1, <2>4 DEF TriggerRollback, SetVersions, ContractVersion
    <2> QED
      BY <1>4, <2>1, <2>2, <2>3, <2>4 DEF ConfigNext
  <1>5. ASSUME NEW s \in Signers, RequestPause(s)
        PROVE  V1TypeOK'
    <2>1. pauseState \in PauseState
      BY <1>3, <1>5 DEF RequestPause
    <2> DEFINE signers == pauseState.pauseSigners \cup {s}
               met == Cardinality(signers) >= pauseState.requiredSignatures
               first == IF signers = {s} THEN now ELSE pauseState.pauseTimestamp
               marked == pauseState.isPaused \/ met
               last == IF met THEN now ELSE pauseState.lastPauseTime
    <2>3. /\ pauseState' = [pauseState EXCEPT !.pauseSigners = signers, !.pauseTimestamp = first,
                                              !.isPaused = marked, !.lastPauseTime = last]
          /\ signedAt' = [signedAt EXCEPT ![s] = now]
      BY <1>5 DEF RequestPause
    <2>4. now \in Nat
      BY <1>0
    <2>5. signers \in SUBSET Signers /\ first \in Nat /\ last \in Nat
      BY <2>1, <2>4 DEF PauseState
    <2>6. marked \in BOOLEAN
      OBVIOUS
    <2> HIDE DEF signers, met, first, marked, last
    <2>2. pauseState' \in PauseState
      BY <2>1, <2>3, <2>5, <2>6 DEF PauseState
    <2> QED
      BY <1>0, <1>2, <1>3, <1>5, <2>2 DEF RequestPause
  <1>6. ASSUME NEW c, NEW d \in Delays, NEW n \in Quorums, NEW g \in GracePeriods,
               InitializePause(c, d, n, g)
        PROVE  V1TypeOK'
    BY <1>2, <1>3, <1>6 DEF InitializePause, PauseState
  <1>7. ASSUME NEW c, CancelPauseRequest(c) \/ UnpauseContract(c)
        PROVE  V1TypeOK'
    <2>1. pauseState \in PauseState
      BY <1>3, <1>7 DEF CancelPauseRequest, UnpauseContract, NoPauseState
    <2>2. /\ UNCHANGED <<config, questVars, signedAt, now>>
          /\ \/ pauseState' = [pauseState EXCEPT !.pauseSigners = {}, !.pauseTimestamp = 0]
             \/ pauseState' = [pauseState EXCEPT !.isPaused = FALSE, !.pauseSigners = {},
                                                 !.pauseTimestamp = 0]
      BY <1>7 DEF CancelPauseRequest, UnpauseContract
    <2>4. {} \in SUBSET Signers /\ 0 \in Nat
      OBVIOUS
    <2>5. [pauseState EXCEPT !.pauseSigners = {}, !.pauseTimestamp = 0] \in PauseState
      BY <2>1, <2>4 DEF PauseState
    <2>6. [pauseState EXCEPT !.isPaused = FALSE, !.pauseSigners = {}, !.pauseTimestamp = 0]
            \in PauseState
      BY <2>1, <2>4 DEF PauseState
    <2>3. pauseState' \in PauseState
      BY <2>2, <2>5, <2>6
    <2> QED
      BY <1>2, <1>3, <2>2, <2>3
  <1>8. ASSUME pauseState # NoPauseState,
               NEW c, NEW d \in Delays \cup {pauseState.timelockDelay},
               NEW n \in Quorums \cup {pauseState.requiredSignatures},
               NEW g \in GracePeriods \cup {pauseState.gracePeriod},
               UpdatePauseConfig(c, d, n, g)
        PROVE  V1TypeOK'
    <2>1. pauseState \in PauseState
      BY <1>3, <1>8
    <2>2. d \in Nat /\ n \in Nat /\ g \in Nat
      BY <1>8, <2>1 DEF PauseState
    <2> QED
      BY <1>2, <1>3, <1>8, <2>1, <2>2 DEF UpdatePauseConfig, PauseState
  <1> QED
    BY <1>4, <1>5, <1>6, <1>7, <1>8 DEF PauseNext

(* Calls that only write a quest.                                          *)
LEMMA QuestCallsTyped ==
  ASSUME V1TypeOK, NEW q \in Quests,
         QuestCall(q)
  PROVE  /\ V1TypeOK'
         /\ DOMAIN quests' \in {DOMAIN quests, DOMAIN quests \cup {q}}
         /\ \A x \in DOMAIN quests : quests'[x].totalClaims = quests[x].totalClaims
         /\ \A x \in DOMAIN quests' \ DOMAIN quests : quests'[x].totalClaims = 0
  <1> USE EarnQuestV1Assumption DEF EarnQuestV1Assumption, QuestCall
  <1>1. ASSUME DOMAIN quests \subseteq DOMAIN quests', DOMAIN quests' \subseteq Quests,
               \A x \in DOMAIN quests' :
                 quests'[x] \in Quest /\ quests'[x].totalClaims <= quests'[x].maxParticipants
        PROVE  V1TypeOK'
    BY <1>1 DEF V1TypeOK, pauseVars, config
  <1>2. CASE \E c \in Creators, t \in Tokens, r \in Rewards, v \in Verifiers,
                d \in Deadlines, n \in Limits : RegisterQuest(q, c, t, r, v, d, n)
    <2>1. PICK c \in Creators, t \in Tokens, r \in Rewards, v \in Verifiers,
               d \in Deadlines, n \in Limits : RegisterQuest(q, c, t, r, v, d, n)
      BY <1>2
    <2> DEFINE new == [creator |-> c, rewardAsset |-> t, rewardAmount |-> r,
                       verifier |-> v, deadline |-> d, status |-> "Active",
                       maxParticipants |-> n, totalClaims |-> 0]
    <2>2. new \in Quest /\ new.totalClaims = 0 /\ new.totalClaims <= new.maxParticipants
      BY <2>1 DEF RegisterQuest, Quest, QuestStatus
    <2>3. quests' = Put(quests, q, new) /\ q \notin DOMAIN quests
      BY <2>1 DEF RegisterQuest
    <2> HIDE DEF new
    <2>4. /\ DOMAIN quests' = DOMAIN quests \cup {q}
          /\ quests'[q] = new
          /\ \A x \in DOMAIN quests : quests'[x] = quests[x]
      BY <2>3 DEF Put
    <2> QED
      BY <1>1, <2>2, <2>3, <2>4 DEF V1TypeOK
  <1>3. CASE \E c \in Addresses, status \in QuestStatus : SetStatus(q, c, status)
    <2>1. PICK c \in Addresses, status \in QuestStatus : SetStatus(q, c, status)
      BY <1>3
    <2>2. /\ q \in DOMAIN quests
          /\ DOMAIN quests' = DOMAIN quests
          /\ quests'[q] = [quests[q] EXCEPT !.status = status]
          /\ \A x \in DOMAIN quests : x # q => quests'[x] = quests[x]
      BY <2>1 DEF SetStatus
    <2>3. quests[q] \in Quest /\ quests[q].totalClaims <= quests[q].maxParticipants
      BY <2>2 DEF V1TypeOK
    <2>4. /\ quests'[q] \in Quest
          /\ quests'[q].totalClaims = quests[q].totalClaims
          /\ quests'[q].maxParticipants = quests[q].maxParticipants
      BY <2>2, <2>3 DEF Quest
    <2>5. \A x \in DOMAIN quests' :
            quests'[x] \in Quest /\ quests'[x].totalClaims <= quests'[x].maxParticipants
      BY <2>2, <2>3, <2>4 DEF V1TypeOK
    <2> QED
      BY <1>1, <2>2, <2>4, <2>5 DEF V1TypeOK
  <1> QED
    BY <1>2, <1>3

(* A proof or a rejection changes the status of one submission, which does *)
(* not become paid.                                                        *)
LEMMA SubmissionCallsTyped ==
  ASSUME V1TypeOK, NEW q \in Quests, NEW s \in Submitters, NEW c,
         SubmitProof(q, s) \/ RejectSubmission(q, s, c)
  PROVE  V1TypeOK' /\ Paid' = Paid
  <1>1. PICK v \in {"Pending", "Rejected"} : submissions' = Put(submissions, <<q, s>>, v)
    BY DEF SubmitProof, RejectSubmission, Put
  <1>2. q \in DOMAIN quests
    BY DEF SubmitProof, RejectSubmission
  <1>3. <<q, s>> \in DOMAIN submissions => submissions[<<q, s>>] # "Paid"
    BY DEF SubmitProof, RejectSubmission, AwaitsDecision
  <1>4. /\ DOMAIN submissions' = DOMAIN submissions \cup {<<q, s>>}
        /\ submissions'[<<q, s>>] = v
        /\ \A x \in DOMAIN submissions : x # <<q, s>> => submissions'[x] = submissions[x]
    BY <1>1 DEF Put
  <1>5. UNCHANGED <<config, quests, escrowBal, userStats, balances, pauseState, signedAt, now>>
    BY DEF SubmitProof, RejectSubmission, pauseVars
  <1>6. Paid' = Paid
    BY <1>3, <1>4 DEF Paid
  <1>7. \A x \in DOMAIN submissions' : submissions'[x] \in SubmissionStatus \ {"Approved"}
    BY <1>4 DEF V1TypeOK, SubmissionStatus
  <1>8. DOMAIN submissions' \subseteq (DOMAIN quests') \X Submitters
    BY <1>2, <1>4, <1>5 DEF V1TypeOK
  <1> QED
    BY <1>5, <1>6, <1>7, <1>8 DEF V1TypeOK, config

(* What is stored for a submitter is well formed, or the initial           *)
(* statistics are.                                                         *)
LEMMA StatsTyped ==
  ASSUME V1TypeOK, NEW a
  PROVE  StatsOf(a) \in UserStats
  BY DEF V1TypeOK, StatsOf, UserStats

(* An award adds its points and one quest to the statistics of one         *)
(* submitter and recomputes the level.                                     *)
LEMMA AwardTyped ==
  ASSUME V1TypeOK, NEW a \in Submitters, NEW xp \in Nat, AwardXp(a, xp)
  PROVE  /\ DOMAIN userStats' = DOMAIN userStats \cup {a}
         /\ userStats'[a] \in UserStats
         /\ userStats'[a].totalXp = StatsOf(a).totalXp + xp
         /\ userStats'[a].level = CalculateLevel(StatsOf(a).totalXp + xp)
         /\ userStats'[a].questsCompleted = StatsOf(a).questsCompleted + 1
         /\ \A x \in DOMAIN userStats : x # a => userStats'[x] = userStats[x]
  <1> DEFINE old == StatsOf(a)
             level == CalculateLevel(old.totalXp + xp)
             new == [old EXCEPT !.totalXp = @ + xp, !.level = level,
                                !.questsCompleted = @ + 1]
  <1>1. userStats' = Put(userStats, a, new)
    BY DEF AwardXp
  <1>2. old \in UserStats
    BY StatsTyped
  <1>3. level \in Nat
    BY <1>2 DEF UserStats, CalculateLevel
  <1> HIDE DEF old, level
  <1>6. old.totalXp + xp \in Nat /\ old.questsCompleted + 1 \in Nat
    BY <1>2 DEF UserStats
  <1>7. new \in UserStats
    BY <1>2, <1>3, <1>6 DEF UserStats
  <1>4. /\ new \in UserStats
        /\ new.totalXp = old.totalXp + xp
        /\ new.level = level
        /\ new.questsCompleted = old.questsCompleted + 1
    BY <1>2, <1>7 DEF UserStats
  <1> HIDE DEF new
  <1>5. /\ DOMAIN userStats' = DOMAIN userStats \cup {a}
        /\ userStats'[a] = new
        /\ \A x \in DOMAIN userStats : x # a => userStats'[x] = userStats[x]
    BY <1>1 DEF Put
  <1> QED
    BY <1>4, <1>5 DEF old, level

(* An approval pays the reward from the quest's escrow, counts a claim and *)
(* an award, and makes one more submission paid.                           *)
LEMMA ApprovalTyped ==
  ASSUME V1TypeOK, NEW q \in Quests, NEW s \in Submitters, NEW c,
         ApproveSubmission(q, s, c)
  PROVE  /\ V1TypeOK'
         /\ q \in DOMAIN quests /\ DOMAIN quests' = DOMAIN quests
         /\ quests'[q].totalClaims = quests[q].totalClaims + 1
         /\ \A x \in DOMAIN quests : x # q => quests'[x] = quests[x]
         /\ <<q, s>> \notin Paid /\ Paid' = Paid \cup {<<q, s>>}
  <1>1. /\ q \in DOMAIN quests /\ <<q, s>> \in DOMAIN submissions
        /\ submissions[<<q, s>>] = "Pending"
        /\ ~IsQuestFull(quests[q])
        /\ ProcessPayout(q, s)
        /\ AwardXp(s, 100)
        /\ submissions' = [submissions EXCEPT ![<<q, s>>] = "Paid"]
        /\ UNCHANGED <<config, pauseState, signedAt, now>>
    BY DEF ApproveSubmission, AwaitsDecision, pauseVars
  <1> DEFINE counted == [quests[q] EXCEPT !.totalClaims = @ + 1]
  <1>2. quests[q] \in Quest /\ quests[q].totalClaims < quests[q].maxParticipants
    BY <1>1 DEF V1TypeOK, IsQuestFull, Quest
  <1>3. /\ counted \in Quest
        /\ counted.totalClaims = quests[q].totalClaims + 1
        /\ counted.totalClaims <= counted.maxParticipants
    BY <1>2 DEF Quest
  <1>12. quests' = [quests EXCEPT ![q] = AutoComplete(counted)]
    BY DEF ApproveSubmission
  <1> HIDE DEF counted
  <1>4. /\ DOMAIN quests' = DOMAIN quests
        /\ quests'[q] = AutoComplete(counted)
        /\ \A x \in DOMAIN quests : x # q => quests'[x] = quests[x]
    BY <1>1, <1>12
  <1>5. /\ AutoComplete(counted) \in Quest
        /\ AutoComplete(counted).totalClaims = counted.totalClaims
        /\ AutoComplete(counted).maxParticipants = counted.maxParticipants
    BY <1>3 DEF AutoComplete, Quest, QuestStatus
  <1>6. \A x \in DOMAIN quests' :
          quests'[x] \in Quest /\ quests'[x].totalClaims <= quests'[x].maxParticipants
    BY <1>3, <1>4, <1>5 DEF V1TypeOK
  <1>7. /\ DOMAIN submissions' = DOMAIN submissions
        /\ \A x \in DOMAIN submissions' : submissions'[x] \in SubmissionStatus \ {"Approved"}
        /\ <<q, s>> \notin Paid /\ Paid' = Paid \cup {<<q, s>>}
    BY <1>1 DEF V1TypeOK, SubmissionStatus, Paid
  <1>8. /\ DOMAIN userStats' \subseteq Submitters
        /\ \A a \in DOMAIN userStats' : userStats'[a] \in UserStats
    <2>1. /\ DOMAIN userStats' = DOMAIN userStats \cup {s}
          /\ userStats'[s] \in UserStats
          /\ \A x \in DOMAIN userStats : x # s => userStats'[x] = userStats[x]
      BY <1>1, AwardTyped
    <2> QED
      BY <2>1 DEF V1TypeOK
  <1>9. /\ quests[q].rewardAsset \in Tokens /\ quests[q].rewardAmount \in Nat
        /\ escrowBal[q] \in Nat /\ escrowBal[q] >= quests[q].rewardAmount
    BY <1>1, <1>2 DEF V1TypeOK, Quest, ProcessPayout
  <1>10. /\ escrowBal' \in [Quests -> Nat]
         /\ \A x \in Quests \ DOMAIN quests' : escrowBal'[x] = 0
    <2>1. escrowBal[q] - quests[q].rewardAmount \in Nat
      BY <1>9
    <2>2. escrowBal' = [escrowBal EXCEPT ![q] = escrowBal[q] - quests[q].rewardAmount]
      BY <1>1 DEF ProcessPayout
    <2> QED
      BY <1>1, <1>4, <2>1, <2>2 DEF V1TypeOK
  <1>11. balances' \in [Tokens -> [Accounts -> Nat]]
    BY <1>1, <1>9, TransferFacts, ContractApart DEF ProcessPayout
  <1> QED
    BY <1>1, <1>3, <1>4, <1>5, <1>6, <1>7, <1>8, <1>10, <1>11 DEF V1TypeOK, config

(* A deposit or a refund moves exactly what the escrow entry gains or      *)
(* loses.                                                                  *)
LEMMA EscrowCallsTyped ==
  ASSUME V1TypeOK, NEW q \in Quests, NEW c,
         \/ \E amount \in Deposits : DepositEscrow(q, c, amount)
         \/ WithdrawUnclaimed(q, c)
  PROVE  V1TypeOK' /\ UNCHANGED <<quests, submissions, userStats, pauseState, signedAt, now>>
  <1>1. q \in DOMAIN quests /\ c = quests[q].creator
    BY DEF DepositEscrow, WithdrawUnclaimed
  <1>2. quests[q].rewardAsset \in Tokens /\ c \in Creators /\ escrowBal[q] \in Nat
    BY <1>1 DEF V1TypeOK, Quest
  <1>3. UNCHANGED <<config, quests, submissions, userStats, pauseState, signedAt, now>>
    BY DEF DepositEscrow, WithdrawUnclaimed, pauseVars
  <1>4. ASSUME NEW b \in Nat, escrowBal' = [escrowBal EXCEPT ![q] = b],
               balances' \in [Tokens -> [Accounts -> Nat]]
        PROVE  V1TypeOK'
    BY <1>1, <1>3, <1>4 DEF V1TypeOK, config
  <1>5. ASSUME NEW amount \in Deposits, DepositEscrow(q, c, amount)
        PROVE  V1TypeOK'
    <2>1. amount \in Nat
      BY <1>5, EarnQuestV1Assumption DEF EarnQuestV1Assumption, DepositEscrow
    <2>2. escrowBal' = [escrowBal EXCEPT ![q] = escrowBal[q] + amount] /\ escrowBal[q] + amount \in Nat
      BY <1>2, <1>5, <2>1 DEF DepositEscrow
    <2>3. balances' \in [Tokens -> [Accounts -> Nat]]
      BY <1>1, <1>2, <1>5, <2>1, TransferFacts, ContractApart DEF DepositEscrow
    <2> QED
      BY <1>4, <2>2, <2>3
  <1>6. ASSUME WithdrawUnclaimed(q, c)
        PROVE  V1TypeOK'
    <2>1. balances' \in [Tokens -> [Accounts -> Nat]]
      BY <1>1, <1>2, <1>6, TransferFacts, ContractApart DEF WithdrawUnclaimed
    <2> QED
      BY <1>4, <1>6, <2>1 DEF WithdrawUnclaimed
  <1> QED
    BY <1>3, <1>5, <1>6

-----------------------------------------------------------------------------
(* Every step is a call of one of these kinds, the clock, or a stutter.    *)
LEMMA StepKinds ==
  ASSUME [Next]_vars
  PROVE  \/ ConfigNext \/ PauseNext
         \/ \E q \in Quests : QuestCall(q)
         \/ \E q \in Quests, s \in Submitters, c \in Addresses :
              SubmitProof(q, s) \/ RejectSubmission(q, s, c)
         \/ \E q \in Quests, s \in Submitters, c \in Addresses : ApproveSubmission(q, s, c)
         \/ \E q \in Quests, c \in Addresses :
              \/ \E amount \in Deposits : DepositEscrow(q, c, amount)
              \/ WithdrawUnclaimed(q, c)
         \/ BadgeNext
         \/ Tick
         \/ UNCHANGED vars
  <1>1. ASSUME NEW q \in Quests, NEW c \in Creators, NEW t \in Tokens, NEW r \in Rewards,
               NEW v \in Verifiers, NEW d \in Deadlines, NEW n \in Limits,
               RegisterQuest(q, c, t, r, v, d, n)
        PROVE  QuestCall(q)
    BY <1>1 DEF QuestCall, RegisterQuest
  <1>2. ASSUME NEW q \in Quests, NEW c \in Addresses,
               \/ \E status \in QuestStatus : UpdateQuestStatus(q, c, status)
               \/ CancelQuest(q, c)
               \/ ExpireQuest(q, c)
        PROVE  QuestCall(q)
    BY <1>2 DEF QuestCall, UpdateQuestStatus, CancelQuest, ExpireQuest, SetStatus, QuestStatus, Ended
  <1>3. Creators \subseteq Addresses
    BY EarnQuestV1Assumption DEF EarnQuestV1Assumption
  <1>4. ASSUME NEW q \in Quests, NEW s \in Submitters, SubmitProof(q, s)
        PROVE  \E a \in Quests, b \in Submitters, c \in Addresses :
                 SubmitProof(a, b) \/ RejectSubmission(a, b, c)
    BY <1>4, EarnQuestV1Assumption DEF EarnQuestV1Assumption
  <1>5. CASE QuestNext
    <2>1. PICK q \in Quests : QuestNext!(q)
      BY <1>5 DEF QuestNext
    <2> QED
      BY <1>1, <1>2, <1>3, <1>4, <2>1 DEF EmergencyWithdraw
  <1> QED
    BY <1>5 DEF Next

LEMMA V1InitTyped ==
  Init => V1TypeOK
  BY EarnQuestV1Assumption DEF EarnQuestV1Assumption, Init, V1TypeOK, NoPauseState, Accounts,
      ContractVersion

LEMMA V1StepTyped ==
  ASSUME V1TypeOK, [Next]_vars
  PROVE  V1TypeOK'
  <1>1. CASE BadgeNext
    <2>1. PICK c \in Addresses, a \in Addresses, b \in Badges : GrantBadge(c, a, b)
      BY <1>1 DEF BadgeNext
    <2>2. userStats' = [userStats EXCEPT ![a].badges = @ \cup {b}] /\ a \in DOMAIN userStats
      BY <2>1 DEF GrantBadge
    <2>3. userStats[a] \in UserStats
      BY <2>2 DEF V1TypeOK
    <2>4. userStats'[a] \in UserStats
      BY <2>2, <2>3 DEF UserStats
    <2>5. \A x \in DOMAIN userStats' : userStats'[x] \in UserStats
      BY <2>2, <2>4 DEF V1TypeOK
    <2> QED
      BY <2>1, <2>2, <2>5 DEF GrantBadge, V1TypeOK, pauseVars, config
  <1>2. CASE Tick
    BY <1>2, EarnQuestV1Assumption
    DEF EarnQuestV1Assumption, Tick, V1TypeOK, questVars, pauseVars, config
  <1>3. CASE UNCHANGED vars
    BY <1>3 DEF V1TypeOK, vars, config
  <1> QED
    BY <1>1, <1>2, <1>3, StepKinds, ControlCallsTyped, QuestCallsTyped, SubmissionCallsTyped,
       ApprovalTyped, EscrowCallsTyped

(* Every variable keeps its type, every record refers to what exists, no   *)
(* quest has more claims than its limit and no submission stays approved   *)
(* without being paid.                                                     *)
THEOREM V1Typed == Spec => []V1TypeOK
  <1>1. V1TypeOK /\ [Next]_vars => V1TypeOK'
    BY V1StepTyped
  <1> QED
    BY <1>1, V1InitTyped, PTL DEF Spec

-----------------------------------------------------------------------------
(* The times of a pause.                                                   *)

LEMMA V1InitTimely ==
  Init => PauseIsTimely /\ SignedInPast
  BY EarnQuestV1Assumption DEF EarnQuestV1Assumption, Init, PauseIsTimely, SignedInPast

(* Without signatures there is nothing to time.                            *)
LEMMA ResetTimely ==
  ASSUME pauseState'.pauseSigners = {}, pauseState'.isPaused = FALSE
  PROVE  PauseIsTimely'
  BY DEF PauseIsTimely

(* A signature is the latest; the first one starts the timelock and each   *)
(* one that meets the quorum restarts the grace period.                    *)
LEMMA RequestTimely ==
  ASSUME PauseInv, NEW s \in Signers, RequestPause(s)
  PROVE  PauseIsTimely' /\ SignedInPast'
  <1> DEFINE old == pauseState.pauseSigners
             new == old \cup {s}
             signed == {signedAt[x] : x \in old}
             signed2 == {signedAt'[x] : x \in new}
  <1>1. pauseState \in PauseState /\ s \notin old /\ now \in Nat
    BY EarnQuestV1Assumption
    DEF EarnQuestV1Assumption, PauseInv, V1TypeOK, RequestPause
  <1>2. signedAt' = [signedAt EXCEPT ![s] = now] /\ signedAt \in [Signers -> Nat] /\ now' = now
    BY DEF RequestPause, PauseInv, V1TypeOK
  <1>3. signed2 = signed \cup {now}
    <2>1. old \subseteq Signers
      BY <1>1 DEF PauseState
    <2> QED
      BY <1>1, <1>2, <2>1
  <1>4. \A time \in signed : time \in Nat /\ time <= now
    BY <1>1, <1>2 DEF PauseInv, SignedInPast, PauseState
  <1>5. /\ signed # {} => /\ pauseState.pauseTimestamp \in signed
                          /\ \A time \in signed : pauseState.pauseTimestamp <= time
        /\ pauseState.isPaused => pauseState.lastPauseTime \in signed
    BY DEF PauseInv, PauseIsTimely, RequestPause
  <1>6. /\ pauseState'.pauseSigners = new
        /\ pauseState'.pauseTimestamp = IF new = {s} THEN now ELSE pauseState.pauseTimestamp
        /\ pauseState'.isPaused =>
             pauseState.isPaused \/ Cardinality(new) >= pauseState.requiredSignatures
        /\ pauseState'.lastPauseTime = IF Cardinality(new) >= pauseState.requiredSignatures
                                         THEN now ELSE pauseState.lastPauseTime
    BY <1>1 DEF RequestPause, PauseState
  <1>7. new = {s} <=> old = {}
    BY <1>1
  <1>8. old = {} <=> signed = {}
    OBVIOUS
  <1>9. /\ pauseState'.pauseTimestamp \in signed2
        /\ \A time \in signed2 : pauseState'.pauseTimestamp <= time
    <2>1. CASE old = {}
      BY <1>1, <1>3, <1>6, <1>7, <2>1
    <2>2. CASE old # {}
      <3> HIDE DEF signed, signed2, old, new
      <3> QED
        BY <1>3, <1>4, <1>5, <1>6, <1>7, <1>8, <2>2
    <2> QED
      BY <2>1, <2>2
  <1>10. pauseState'.isPaused => pauseState'.lastPauseTime \in signed2
    <2> HIDE DEF signed, signed2, old, new
    <2> QED
      BY <1>3, <1>5, <1>6
  <1>11. SignedInPast'
    BY <1>1, <1>2 DEF PauseInv, SignedInPast
  <1> QED
    BY <1>6, <1>9, <1>10, <1>11 DEF PauseIsTimely

LEMMA V1StepTimely ==
  ASSUME PauseInv, [Next]_vars
  PROVE  PauseIsTimely' /\ SignedInPast'
  <1>1. now \in Nat /\ signedAt \in [Signers -> Nat]
    BY EarnQuestV1Assumption DEF EarnQuestV1Assumption, PauseInv, V1TypeOK
  <1>2. ASSUME UNCHANGED pauseVars, now' \in {now, now + 1}
        PROVE  PauseIsTimely' /\ SignedInPast'
    BY <1>1, <1>2 DEF pauseVars, PauseInv, PauseIsTimely, SignedInPast
  <1>3. ASSUME UNCHANGED <<signedAt, now>>, pauseState'.pauseSigners = {},
               pauseState'.isPaused = FALSE
        PROVE  PauseIsTimely' /\ SignedInPast'
    BY <1>3, ResetTimely DEF PauseInv, SignedInPast
  <1>4. CASE ConfigNext
    BY <1>2, <1>4 DEF ConfigNext, Initialize, UpdateConfig, TriggerMigration, TriggerRollback
  <1>5. CASE PauseNext
    <2>1. ASSUME NEW c, NEW d, NEW n, NEW g, InitializePause(c, d, n, g)
          PROVE  PauseIsTimely' /\ SignedInPast'
      BY <1>3, <2>1 DEF InitializePause
    <2>2. ASSUME NEW c, CancelPauseRequest(c) \/ UnpauseContract(c)
          PROVE  PauseIsTimely' /\ SignedInPast'
      <3>1. pauseState \in PauseState
        BY <2>2 DEF PauseInv, V1TypeOK, CancelPauseRequest, UnpauseContract, NoPauseState
      <3>2. CASE CancelPauseRequest(c)
        BY <1>3, <3>1, <3>2 DEF CancelPauseRequest, PauseState
      <3>3. CASE UnpauseContract(c)
        BY <1>3, <3>1, <3>3 DEF UnpauseContract, PauseState
      <3> QED
        BY <2>2, <3>2, <3>3
    <2>3. ASSUME NEW c, NEW d, NEW n, NEW g, UpdatePauseConfig(c, d, n, g)
          PROVE  PauseIsTimely' /\ SignedInPast'
      <3>1. pauseState \in PauseState
        BY <2>3 DEF PauseInv, V1TypeOK, UpdatePauseConfig
      <3>2. /\ pauseState'.pauseSigners = pauseState.pauseSigners
            /\ pauseState'.isPaused = pauseState.isPaused
            /\ pauseState'.pauseTimestamp = pauseState.pauseTimestamp
            /\ pauseState'.lastPauseTime = pauseState.lastPauseTime
            /\ UNCHANGED <<signedAt, now>> /\ pauseState # NoPauseState
        BY <2>3, <3>1 DEF UpdatePauseConfig, PauseState
      <3> QED
        BY <3>2 DEF PauseInv, PauseIsTimely, SignedInPast
    <2> QED
      BY <1>5, <2>1, <2>2, <2>3, RequestTimely DEF PauseNext
  <1>6. CASE Tick
    BY <1>2, <1>6 DEF Tick, pauseVars
  <1>7. CASE UNCHANGED vars
    BY <1>2, <1>7 DEF vars, pauseVars
  <1>8. CASE BadgeNext
    BY <1>2, <1>8 DEF BadgeNext, GrantBadge
  <1>9. ASSUME NEW q, QuestCall(q)
        PROVE  PauseIsTimely' /\ SignedInPast'
    BY <1>2, <1>9 DEF QuestCall
  <1>10. ASSUME NEW q, NEW s, NEW c,
                SubmitProof(q, s) \/ RejectSubmission(q, s, c) \/ ApproveSubmission(q, s, c)
         PROVE  PauseIsTimely' /\ SignedInPast'
    BY <1>2, <1>10 DEF SubmitProof, RejectSubmission, ApproveSubmission
  <1>11. ASSUME NEW q, NEW c,
                (\E amount \in Deposits : DepositEscrow(q, c, amount)) \/ WithdrawUnclaimed(q, c)
         PROVE  PauseIsTimely' /\ SignedInPast'
    BY <1>2, <1>11 DEF DepositEscrow, WithdrawUnclaimed
  <1> QED
    BY <1>4, <1>5, <1>6, <1>7, <1>8, <1>9, <1>10, <1>11, StepKinds

(* The timelock of a pause runs from the first signature that stands for   *)
(* it and its grace period from one of them, however often requests were   *)
(* cancelled, pauses lifted or the configuration changed.                  *)
THEOREM PauseStaysTimely == Spec => []PauseIsTimely
  <1>1. PauseInv /\ [Next]_vars => PauseInv'
    BY V1StepTyped, V1StepTimely DEF PauseInv
  <1>2. Init => PauseInv
    BY V1InitTyped, V1InitTimely DEF PauseInv
  <1>3. PauseInv => PauseIsTimely
    BY DEF PauseInv
  <1> QED
    BY <1>1, <1>2, <1>3, PTL DEF Spec

-----------------------------------------------------------------------------
(* What leaves the contract.                                               *)

Due(t) ==
    \E q \in DOMAIN quests :
      /\ quests[q].rewardAsset = t
      /\ LET out == balances[t][Contract] - balances'[t][Contract]
         IN  \/ /\ quests[q].status \in Ended
                /\ out = escrowBal[q]
                /\ balances'[t][quests[q].creator] = balances[t][quests[q].creator] + out
             \/ /\ ~InForce
                /\ out = quests[q].rewardAmount
                /\ \E s \in Submitters :
                     /\ <<q, s>> \in DOMAIN submissions
                     /\ submissions[<<q, s>>] = "Pending"
                     /\ submissions'[<<q, s>>] = "Paid"
                     /\ balances'[t][s] = balances[t][s] + out

(* A pause that lets a call pass is not in force.                          *)
LEMMA PassedNotInForce ==
  ASSUME V1TypeOK, RequireNotPaused
  PROVE  ~InForce
  <1>1. now \in Int
    BY EarnQuestV1Assumption DEF EarnQuestV1Assumption, V1TypeOK
  <1>2. CASE pauseState.isPaused
    <2>1. pauseState \in PauseState
      BY <1>2 DEF V1TypeOK, NoPauseState
    <2>2. Activation \in Int /\ now < Activation
      BY <1>2, <2>1 DEF RequireNotPaused, Activation, PauseState
    <2> QED
      BY <1>1, <2>2 DEF InForce
  <1>3. CASE ~pauseState.isPaused
    BY <1>3 DEF InForce
  <1> QED
    BY <1>2, <1>3

LEMMA ApprovalDue ==
  ASSUME V1TypeOK, NEW q \in Quests, NEW s \in Submitters, NEW c,
         ApproveSubmission(q, s, c), NEW t \in Tokens,
         balances'[t][Contract] < balances[t][Contract]
  PROVE  Due(t)
  <1>1. /\ q \in DOMAIN quests /\ <<q, s>> \in DOMAIN submissions
        /\ submissions[<<q, s>>] = "Pending" /\ submissions'[<<q, s>>] = "Paid"
        /\ ProcessPayout(q, s)
    BY DEF ApproveSubmission, AwaitsDecision
  <1>2. quests[q].rewardAsset \in Tokens /\ quests[q].rewardAmount \in Nat
    BY <1>1 DEF V1TypeOK, Quest
  <1>3. /\ balances'[quests[q].rewardAsset][Contract]
             = balances[quests[q].rewardAsset][Contract] - quests[q].rewardAmount
        /\ balances'[quests[q].rewardAsset][s]
             = balances[quests[q].rewardAsset][s] + quests[q].rewardAmount
        /\ \A u \in Tokens \ {quests[q].rewardAsset} : balances'[u] = balances[u]
    BY <1>1, <1>2, TransferFacts, ContractApart DEF ProcessPayout
  <1>4. balances[t][Contract] \in Nat
    BY ContractApart DEF V1TypeOK
  <1>5. quests[q].rewardAsset = t
    BY <1>3, <1>4
  <1>6. balances[t][Contract] - balances'[t][Contract] = quests[q].rewardAmount
    BY <1>2, <1>3, <1>4, <1>5
  <1>7. ~InForce
    BY PassedNotInForce DEF ApproveSubmission
  <1> QED
    BY <1>1, <1>3, <1>5, <1>6, <1>7 DEF Due

LEMMA RefundDue ==
  ASSUME V1TypeOK, NEW q \in Quests, NEW c, WithdrawUnclaimed(q, c), NEW t \in Tokens,
         balances'[t][Contract] < balances[t][Contract]
  PROVE  Due(t)
  <1>1. q \in DOMAIN quests /\ c = quests[q].creator /\ quests[q].status \in Ended
    BY DEF WithdrawUnclaimed
  <1>2. quests[q].rewardAsset \in Tokens /\ escrowBal[q] \in Nat /\ c \in Creators
    BY <1>1 DEF V1TypeOK, Quest
  <1>3. /\ balances'[quests[q].rewardAsset][Contract]
             = balances[quests[q].rewardAsset][Contract] - escrowBal[q]
        /\ balances'[quests[q].rewardAsset][c]
             = balances[quests[q].rewardAsset][c] + escrowBal[q]
        /\ \A u \in Tokens \ {quests[q].rewardAsset} : balances'[u] = balances[u]
    BY <1>1, <1>2, TransferFacts, ContractApart DEF WithdrawUnclaimed
  <1>4. balances[t][Contract] \in Nat
    BY ContractApart DEF V1TypeOK
  <1>5. quests[q].rewardAsset = t
    BY <1>3, <1>4
  <1>6. balances[t][Contract] - balances'[t][Contract] = escrowBal[q]
    BY <1>2, <1>3, <1>4, <1>5
  <1> QED
    BY <1>1, <1>3, <1>5, <1>6 DEF Due

(* A deposit only adds to the contract's balance.                          *)
LEMMA DepositAdds ==
  ASSUME V1TypeOK, NEW q \in Quests, NEW c, NEW amount \in Deposits,
         DepositEscrow(q, c, amount), NEW t \in Tokens
  PROVE  balances'[t][Contract] >= balances[t][Contract]
  <1>1. q \in DOMAIN quests /\ c = quests[q].creator /\ amount \in Nat
    BY EarnQuestV1Assumption DEF EarnQuestV1Assumption, DepositEscrow
  <1>2. quests[q].rewardAsset \in Tokens /\ c \in Creators
    BY <1>1 DEF V1TypeOK, Quest
  <1>3. /\ balances'[quests[q].rewardAsset][Contract]
             = balances[quests[q].rewardAsset][Contract] + amount
        /\ \A u \in Tokens \ {quests[q].rewardAsset} : balances'[u] = balances[u]
    BY <1>1, <1>2, TransferFacts, ContractApart DEF DepositEscrow
  <1>4. balances[t][Contract] \in Nat
    BY ContractApart DEF V1TypeOK
  <1> QED
    BY <1>1, <1>3, <1>4

LEMMA OutflowStep ==
  ASSUME V1TypeOK, [Next]_vars, NEW t \in Tokens,
         balances'[t][Contract] < balances[t][Contract]
  PROVE  Due(t)
  <1>1. balances[t][Contract] \in Nat
    BY ContractApart DEF V1TypeOK
  <1>2. balances' # balances
    BY <1>1
  <1>3. ~ConfigNext /\ ~PauseNext /\ ~BadgeNext /\ ~Tick /\ ~UNCHANGED vars
    <2>1. ~ConfigNext
      BY <1>2 DEF ConfigNext, Initialize, UpdateConfig, TriggerMigration, TriggerRollback,
                       questVars
    <2>2. ~PauseNext
      BY <1>2 DEF PauseNext, InitializePause, RequestPause, CancelPauseRequest,
                  UnpauseContract, UpdatePauseConfig, questVars
    <2>3. ~BadgeNext
      BY <1>2 DEF BadgeNext, GrantBadge
    <2>4. ~Tick
      BY <1>2 DEF Tick, questVars
    <2>5. ~UNCHANGED vars
      BY <1>2 DEF vars
    <2> QED
      BY <2>1, <2>2, <2>3, <2>4, <2>5
  <1>4. ASSUME NEW q, NEW s, NEW c, SubmitProof(q, s) \/ RejectSubmission(q, s, c)
        PROVE  FALSE
    BY <1>2, <1>4 DEF SubmitProof, RejectSubmission
  <1>5. ASSUME NEW q, QuestCall(q)
        PROVE  FALSE
    BY <1>2, <1>5 DEF QuestCall
  <1>6. ASSUME NEW q \in Quests, NEW c, NEW amount \in Deposits, DepositEscrow(q, c, amount)
        PROVE  FALSE
    <2>1. balances'[t][Contract] >= balances[t][Contract]
      BY <1>6, DepositAdds
    <2>3. V1TypeOK'
      BY V1StepTyped
    <2>2. balances'[t][Contract] \in Nat
      BY <2>3, ContractApart DEF V1TypeOK
    <2> QED
      BY <1>1, <2>1, <2>2
  <1> QED
    BY <1>3, <1>4, <1>5, <1>6, StepKinds, ApprovalDue, RefundDue

(* Tokens leave the contract only as a refund to the creator of an ended   *)
(* quest or, while no pause is in force, as the reward of a submission     *)
(* that becomes paid.                                                      *)
THEOREM OutflowsAreDue == Spec => OutflowIsDue
  <1>1. V1TypeOK /\ [Next]_vars =>
          [\A t \in Tokens : balances'[t][Contract] < balances[t][Contract] => Due(t)]_vars
    BY OutflowStep
  <1>2. V1TypeOK /\ [Next]_vars => V1TypeOK'
    BY V1StepTyped
  <1> QED
    BY <1>1, <1>2, V1InitTyped, PTL DEF Spec, OutflowIsDue, Due

-----------------------------------------------------------------------------
(* The counted claims.                                                     *)

LEMMA CountsFinite ==
  ASSUME V1TypeOK, IsFiniteSet(DOMAIN quests)
  PROVE  /\ \A q : IsFiniteSet(PaidOf(q)) /\ Cardinality(PaidOf(q)) \in Nat
         /\ \A a : IsFiniteSet(PaidTo(a)) /\ Cardinality(PaidTo(a)) \in Nat
  <1>1. ASSUME NEW q
        PROVE  IsFiniteSet(PaidOf(q))
    <2>1. PaidOf(q) \subseteq Submitters
      BY DEF PaidOf
    <2> QED
      BY <2>1, FS_Subset, EarnQuestV1Assumption DEF EarnQuestV1Assumption
  <1>2. ASSUME NEW a
        PROVE  IsFiniteSet(PaidTo(a))
    <2>1. PaidTo(a) \subseteq DOMAIN quests
      BY DEF PaidTo
    <2> QED
      BY <2>1, FS_Subset
  <1> QED
    BY <1>1, <1>2, FS_CardinalityType

LEMMA V1InitCounted ==
  Init => CountInv
  <1> SUFFICES ASSUME Init
               PROVE  CountInv
    OBVIOUS
  <1>1. DOMAIN quests = {} /\ DOMAIN userStats = {} /\ DOMAIN submissions = {}
    BY DEF Init
  <1>2. \A a : PaidTo(a) = {}
    BY <1>1 DEF PaidTo
  <1>3. IsFiniteSet(DOMAIN quests) /\ Cardinality({}) = 0
    BY <1>1, FS_EmptySet
  <1>4. \A a : StatsOf(a).questsCompleted = 0 /\ StatsOf(a).level = 1
    BY <1>1 DEF StatsOf
  <1>5. \A a : Cardinality(PaidTo(a)) = 0
    BY <1>2, <1>3
  <1>6. ClaimsCounted
    BY <1>1, <1>4, <1>5 DEF ClaimsCounted
  <1> QED
    BY <1>1, <1>3, <1>6 DEF CountInv

(* Calls that make nothing paid keep all counts.                           *)
LEMMA CountsKept ==
  ASSUME V1TypeOK, CountInv, Paid' = Paid,
         DOMAIN quests \subseteq DOMAIN quests', IsFiniteSet(DOMAIN quests'),
         \A q \in DOMAIN quests : quests'[q].totalClaims = quests[q].totalClaims,
         \A q \in DOMAIN quests' \ DOMAIN quests : quests'[q].totalClaims = 0,
         DOMAIN userStats' = DOMAIN userStats,
         \A a \in DOMAIN userStats :
           /\ userStats'[a].totalXp = userStats[a].totalXp
           /\ userStats'[a].level = userStats[a].level
           /\ userStats'[a].questsCompleted = userStats[a].questsCompleted
  PROVE  CountInv'
  <1>1. Paid \subseteq (DOMAIN quests) \X Submitters
    BY DEF V1TypeOK, Paid
  <1>2. \A q \in DOMAIN quests : PaidOf(q)' = PaidOf(q)
    BY DEF PaidOf
  <1>3. \A q \in DOMAIN quests' \ DOMAIN quests : PaidOf(q)' = {}
    BY <1>1 DEF PaidOf
  <1>4. \A a : PaidTo(a)' = PaidTo(a)
    BY <1>1 DEF PaidTo
  <1>5. \A a : /\ StatsOf(a)'.questsCompleted = StatsOf(a).questsCompleted
               /\ StatsOf(a)'.level = StatsOf(a).level
    BY DEF StatsOf
  <1>6. ASSUME NEW q \in DOMAIN quests'
        PROVE  quests'[q].totalClaims = Cardinality(PaidOf(q)')
    <2>1. CASE q \in DOMAIN quests
      <3>1. quests[q].totalClaims = Cardinality(PaidOf(q))
        BY <2>1 DEF CountInv, ClaimsCounted
      <3>2. quests'[q].totalClaims = quests[q].totalClaims
        BY <2>1
      <3>3. PaidOf(q)' = PaidOf(q)
        BY <2>1, <1>2
      <3> QED
        BY <3>1, <3>2, <3>3
    <2>2. CASE q \notin DOMAIN quests
      <3>1. quests'[q].totalClaims = 0
        BY <2>2
      <3>2. PaidOf(q)' = {}
        BY <2>2, <1>3
      <3>3. Cardinality({}) = 0
        BY FS_EmptySet
      <3> QED
        BY <3>1, <3>2, <3>3
    <2> QED
      BY <2>1, <2>2
  <1>7. \A a \in Submitters :
          /\ StatsOf(a)'.questsCompleted = Cardinality(PaidTo(a)')
          /\ StatsOf(a)'.level = StatsOf(a)'.questsCompleted + 1
    BY <1>4, <1>5 DEF CountInv, ClaimsCounted
  <1> QED
    BY <1>6, <1>7 DEF CountInv, ClaimsCounted

(* An approval adds its submitter to the quest's paid ones, its quest to   *)
(* the submitter's, and one to each of the counters.                       *)
LEMMA ApprovalCounted ==
  ASSUME V1TypeOK, CountInv, NEW q \in Quests, NEW s \in Submitters, NEW c,
         ApproveSubmission(q, s, c)
  PROVE  CountInv'
  <1>1. /\ q \in DOMAIN quests /\ DOMAIN quests' = DOMAIN quests
        /\ quests'[q].totalClaims = quests[q].totalClaims + 1
        /\ \A x \in DOMAIN quests : x # q => quests'[x] = quests[x]
        /\ <<q, s>> \notin Paid /\ Paid' = Paid \cup {<<q, s>>}
    BY ApprovalTyped
  <1>2. /\ DOMAIN userStats' = DOMAIN userStats \cup {s}
        /\ userStats'[s].totalXp = StatsOf(s).totalXp + 100
        /\ userStats'[s].level = CalculateLevel(StatsOf(s).totalXp + 100)
        /\ userStats'[s].questsCompleted = StatsOf(s).questsCompleted + 1
        /\ \A x \in DOMAIN userStats : x # s => userStats'[x] = userStats[x]
    BY AwardTyped DEF ApproveSubmission
  <1>3. /\ PaidOf(q)' = PaidOf(q) \cup {s} /\ s \notin PaidOf(q)
        /\ \A x \in DOMAIN quests : x # q => PaidOf(x)' = PaidOf(x)
    BY <1>1 DEF PaidOf
  <1>4. /\ PaidTo(s)' = PaidTo(s) \cup {q} /\ q \notin PaidTo(s)
        /\ \A a : a # s => PaidTo(a)' = PaidTo(a)
    BY <1>1 DEF PaidTo
  <1>5. /\ Cardinality(PaidOf(q)') = Cardinality(PaidOf(q)) + 1
        /\ Cardinality(PaidTo(s)') = Cardinality(PaidTo(s)) + 1
    BY <1>3, <1>4, CountsFinite, FS_AddElement DEF CountInv
  <1>6. ASSUME NEW x \in DOMAIN quests'
        PROVE  quests'[x].totalClaims = Cardinality(PaidOf(x)')
    <2>1. x \in DOMAIN quests /\ quests[x].totalClaims = Cardinality(PaidOf(x))
      BY <1>1 DEF CountInv, ClaimsCounted
    <2>2. CASE x = q
      BY <1>1, <1>5, <2>1, <2>2
    <2>3. CASE x # q
      <3>1. quests'[x] = quests[x] /\ PaidOf(x)' = PaidOf(x)
        BY <1>1, <1>3, <2>1, <2>3
      <3> QED
        BY <2>1, <3>1
    <2> QED
      BY <2>2, <2>3
  <1>7. StatsOf(s) \in UserStats /\ StatsOf(s).totalXp = 100 * StatsOf(s).questsCompleted
    BY StatsTyped DEF CountInv, StatsOf
  <1>8. CalculateLevel(StatsOf(s).totalXp + 100) = StatsOf(s).questsCompleted + 2
    BY <1>7 DEF UserStats, CalculateLevel
  <1>9. /\ StatsOf(s)' = userStats'[s]
        /\ \A a : a # s => StatsOf(a)' = StatsOf(a)
    BY <1>2 DEF StatsOf
  <1>10. /\ StatsOf(s)'.questsCompleted = StatsOf(s).questsCompleted + 1
         /\ StatsOf(s)'.level = StatsOf(s)'.questsCompleted + 1
    BY <1>2, <1>7, <1>8, <1>9 DEF UserStats
  <1>11. \A a \in Submitters :
          /\ StatsOf(a)'.questsCompleted = Cardinality(PaidTo(a)')
          /\ StatsOf(a)'.level = StatsOf(a)'.questsCompleted + 1
    BY <1>4, <1>5, <1>9, <1>10 DEF CountInv, ClaimsCounted
  <1>12. \A a \in DOMAIN userStats' :
           userStats'[a].totalXp = 100 * userStats'[a].questsCompleted
    BY <1>2, <1>7 DEF CountInv, UserStats
  <1> QED
    BY <1>1, <1>6, <1>11, <1>12 DEF CountInv, ClaimsCounted

LEMMA V1StepCounted ==
  ASSUME V1TypeOK, CountInv, [Next]_vars
  PROVE  CountInv'
  <1>1. ASSUME UNCHANGED <<quests, submissions, userStats>>
        PROVE  CountInv'
    BY <1>1, CountsKept DEF Paid, CountInv
  <1>2. CASE ConfigNext
    BY <1>1, <1>2 DEF ConfigNext, Initialize, UpdateConfig, TriggerMigration, TriggerRollback,
                       questVars
  <1>3. CASE PauseNext
    BY <1>1, <1>3 DEF PauseNext, InitializePause, RequestPause, CancelPauseRequest,
                      UnpauseContract, UpdatePauseConfig, questVars
  <1>4. CASE Tick
    BY <1>1, <1>4 DEF Tick, questVars
  <1>5. CASE UNCHANGED vars
    BY <1>1, <1>5 DEF vars
  <1>6. ASSUME NEW q \in Quests, QuestCall(q)
        PROVE  CountInv'
    <2>1. /\ DOMAIN quests' \in {DOMAIN quests, DOMAIN quests \cup {q}}
          /\ \A x \in DOMAIN quests : quests'[x].totalClaims = quests[x].totalClaims
          /\ \A x \in DOMAIN quests' \ DOMAIN quests : quests'[x].totalClaims = 0
      BY <1>6, QuestCallsTyped
    <2>2. IsFiniteSet(DOMAIN quests')
      BY <2>1, FS_AddElement DEF CountInv
    <2>3. Paid' = Paid /\ userStats' = userStats
      BY <1>6 DEF QuestCall, Paid
    <2> QED
      BY <2>1, <2>2, <2>3, CountsKept
  <1>7. ASSUME NEW q \in Quests, NEW s \in Submitters, NEW c,
               SubmitProof(q, s) \/ RejectSubmission(q, s, c)
        PROVE  CountInv'
    <2>1. Paid' = Paid
      BY <1>7, SubmissionCallsTyped
    <2>2. quests' = quests /\ userStats' = userStats
      BY <1>7 DEF SubmitProof, RejectSubmission
    <2> QED
      BY <2>1, <2>2, CountsKept DEF CountInv
  <1>8. ASSUME NEW q \in Quests, NEW c,
               (\E amount \in Deposits : DepositEscrow(q, c, amount)) \/ WithdrawUnclaimed(q, c)
        PROVE  CountInv'
    BY <1>1, <1>8 DEF DepositEscrow, WithdrawUnclaimed
  <1>9. CASE BadgeNext
    <2>1. PICK c \in Addresses, a \in Addresses, b \in Badges : GrantBadge(c, a, b)
      BY <1>9 DEF BadgeNext
    <2>2. /\ UNCHANGED <<quests, submissions>> /\ a \in DOMAIN userStats
          /\ userStats' = [userStats EXCEPT ![a] = [userStats[a] EXCEPT !.badges = @ \cup {b}]]
      BY <2>1 DEF GrantBadge
    <2>3. userStats[a] \in UserStats
      BY <2>2 DEF V1TypeOK
    <2>4. /\ DOMAIN userStats' = DOMAIN userStats
          /\ \A x \in DOMAIN userStats :
               /\ userStats'[x].totalXp = userStats[x].totalXp
               /\ userStats'[x].level = userStats[x].level
               /\ userStats'[x].questsCompleted = userStats[x].questsCompleted
      BY <2>2, <2>3 DEF UserStats
    <2> QED
      BY <2>2, <2>4, CountsKept DEF Paid, CountInv
  <1> QED
    BY <1>2, <1>3, <1>4, <1>5, <1>6, <1>7, <1>8, <1>9, StepKinds, ApprovalCounted

(* A quest counts exactly its paid submissions, and every submitter has    *)
(* one completed quest and its points for each of theirs.                  *)
THEOREM ClaimsStayCounted == Spec => []ClaimsCounted
  <1>1. V1TypeOK /\ CountInv /\ [Next]_vars => V1TypeOK' /\ CountInv'
    BY V1StepTyped, V1StepCounted
  <1>2. Init => V1TypeOK /\ CountInv
    BY V1InitTyped, V1InitCounted
  <1>3. CountInv => ClaimsCounted
    BY DEF CountInv
  <1> QED
    BY <1>1, <1>2, <1>3, PTL DEF Spec

-----------------------------------------------------------------------------
(* The money: what the contract holds for its escrow entries, and what the *)
(* submitters have received.                                               *)

RewardOf == [q \in DOMAIN quests |-> quests[q].rewardAmount]

QuestsIn(t) == {q \in DOMAIN quests : quests[q].rewardAsset = t}

PaidIn(a, t) == {q \in PaidTo(a) : quests[q].rewardAsset = t}

(* The second part of ClaimsAreExact.                                      *)
RewardsExact ==
    \A a \in Submitters \ Creators : \A t \in Tokens :
        balances[t][a] = SumFunctionOnSet(RewardOf, PaidIn(a, t))

(* What a quest pays, and in which token, never changes.                   *)
RewardsKept ==
    /\ DOMAIN quests \subseteq DOMAIN quests'
    /\ \A x \in DOMAIN quests :
         /\ quests'[x].rewardAsset = quests[x].rewardAsset
         /\ quests'[x].rewardAmount = quests[x].rewardAmount

LEMMA QuestCallRewards ==
  ASSUME V1TypeOK, NEW q \in Quests, QuestCall(q)
  PROVE  RewardsKept
  <1>1. CASE \E c \in Creators, t \in Tokens, r \in Rewards, v \in Verifiers,
                d \in Deadlines, n \in Limits : RegisterQuest(q, c, t, r, v, d, n)
    <2>1. PICK c \in Creators, t \in Tokens, r \in Rewards, v \in Verifiers,
               d \in Deadlines, n \in Limits : RegisterQuest(q, c, t, r, v, d, n)
      BY <1>1
    <2> DEFINE new == [creator |-> c, rewardAsset |-> t, rewardAmount |-> r,
                       verifier |-> v, deadline |-> d, status |-> "Active",
                       maxParticipants |-> n, totalClaims |-> 0]
    <2>2. quests' = Put(quests, q, new) /\ q \notin DOMAIN quests
      BY <2>1 DEF RegisterQuest
    <2> HIDE DEF new
    <2> QED
      BY <2>2 DEF Put, RewardsKept
  <1>2. CASE \E c \in Addresses, status \in QuestStatus : SetStatus(q, c, status)
    <2>1. PICK c \in Addresses, status \in QuestStatus : SetStatus(q, c, status)
      BY <1>2
    <2>2. /\ q \in DOMAIN quests /\ DOMAIN quests' = DOMAIN quests
          /\ quests'[q] = [quests[q] EXCEPT !.status = status]
          /\ \A x \in DOMAIN quests : x # q => quests'[x] = quests[x]
      BY <2>1 DEF SetStatus
    <2>3. quests[q] \in Quest
      BY <2>2 DEF V1TypeOK
    <2>4. /\ quests'[q].rewardAsset = quests[q].rewardAsset
          /\ quests'[q].rewardAmount = quests[q].rewardAmount
      BY <2>2, <2>3 DEF Quest
    <2> QED
      BY <2>2, <2>4 DEF RewardsKept
  <1> QED
    BY <1>1, <1>2 DEF QuestCall

LEMMA ApprovalRewards ==
  ASSUME V1TypeOK, NEW q \in Quests, NEW s \in Submitters, NEW c,
         ApproveSubmission(q, s, c)
  PROVE  RewardsKept
  <1> DEFINE counted == [quests[q] EXCEPT !.totalClaims = @ + 1]
  <1>1. q \in DOMAIN quests /\ quests' = [quests EXCEPT ![q] = AutoComplete(counted)]
    BY DEF ApproveSubmission
  <1>2. quests[q] \in Quest
    BY <1>1 DEF V1TypeOK
  <1>3. /\ counted \in Quest
        /\ counted.rewardAsset = quests[q].rewardAsset
        /\ counted.rewardAmount = quests[q].rewardAmount
    BY <1>2 DEF Quest
  <1> HIDE DEF counted
  <1>4. /\ AutoComplete(counted).rewardAsset = counted.rewardAsset
        /\ AutoComplete(counted).rewardAmount = counted.rewardAmount
    BY <1>3 DEF AutoComplete, Quest
  <1>5. /\ DOMAIN quests' = DOMAIN quests
        /\ quests'[q] = AutoComplete(counted)
        /\ \A x \in DOMAIN quests : x # q => quests'[x] = quests[x]
    BY <1>1
  <1> QED
    BY <1>3, <1>4, <1>5 DEF RewardsKept

(* A transfer touches no third account.                                    *)
LEMMA TransferRest ==
  ASSUME V1TypeOK, NEW t \in Tokens, NEW from \in Accounts, NEW to \in Accounts,
         NEW amount \in Nat, Transfer(t, from, to, amount)
  PROVE  \A x \in Tokens : \A a \in Accounts \ {from, to} :
           balances'[x][a] = balances[x][a]
  BY DEF Transfer, V1TypeOK

-----------------------------------------------------------------------------
(* Escrow entries.                                                         *)

(* The sets that are summed over are finite and their summands natural.    *)
LEMMA SummandsTyped ==
  ASSUME V1TypeOK, IsFiniteSet(DOMAIN quests)
  PROVE  /\ \A t : /\ IsFiniteSet(QuestsIn(t))
                   /\ \A q \in QuestsIn(t) : escrowBal[q] \in Int
                   /\ SumFunctionOnSet(escrowBal, QuestsIn(t)) \in Int
         /\ \A a, t : /\ IsFiniteSet(PaidIn(a, t))
                      /\ PaidIn(a, t) \subseteq DOMAIN quests
                      /\ \A q \in PaidIn(a, t) : RewardOf[q] \in Int
  <1>1. ASSUME NEW t
        PROVE  /\ IsFiniteSet(QuestsIn(t))
               /\ \A q \in QuestsIn(t) : escrowBal[q] \in Int
    <2>1. QuestsIn(t) \subseteq DOMAIN quests
      BY DEF QuestsIn
    <2> QED
      BY <2>1, FS_Subset DEF V1TypeOK
  <1>2. ASSUME NEW a, NEW t
        PROVE  /\ IsFiniteSet(PaidIn(a, t))
               /\ PaidIn(a, t) \subseteq DOMAIN quests
               /\ \A q \in PaidIn(a, t) : RewardOf[q] \in Int
    <2>1. PaidIn(a, t) \subseteq DOMAIN quests
      BY DEF PaidIn, PaidTo
    <2>2. \A q \in DOMAIN quests : RewardOf[q] \in Int
      BY DEF RewardOf, V1TypeOK, Quest
    <2> QED
      BY <2>1, <2>2, FS_Subset
  <1> QED
    BY <1>1, <1>2, SumInt

(* An entry and the contract's balance in its token change by the same     *)
(* amount.                                                                 *)
LEMMA EntryKeepsBacked ==
  ASSUME V1TypeOK, V1TypeOK', IsFiniteSet(DOMAIN quests), EscrowIsBacked,
         RewardsKept, DOMAIN quests' = DOMAIN quests,
         NEW q \in DOMAIN quests, NEW n \in Nat,
         escrowBal' = [escrowBal EXCEPT ![q] = n],
         \A t \in Tokens : balances'[t][Contract] = balances[t][Contract] +
           (IF t = quests[q].rewardAsset THEN n - escrowBal[q] ELSE 0)
  PROVE  EscrowIsBacked'
  <1> SUFFICES ASSUME NEW t \in Tokens
               PROVE  SumFunctionOnSet(escrowBal', QuestsIn(t)') <= balances'[t][Contract]
    BY DEF EscrowIsBacked, QuestsIn
  <1>1. QuestsIn(t)' = QuestsIn(t)
    BY DEF RewardsKept, QuestsIn
  <1>2. SumFunctionOnSet(escrowBal, QuestsIn(t)) <= balances[t][Contract]
    BY DEF EscrowIsBacked, QuestsIn
  <1>3. /\ balances[t][Contract] \in Int
        /\ q \in Quests /\ escrowBal \in [Quests -> Nat]
        /\ escrowBal[q] \in Int
    BY ContractApart DEF V1TypeOK
  <1>4. /\ IsFiniteSet(QuestsIn(t)) /\ \A x \in QuestsIn(t) : escrowBal[x] \in Int
        /\ SumFunctionOnSet(escrowBal, QuestsIn(t)) \in Int
    BY SummandsTyped
  <1>5. \A x \in Quests : escrowBal'[x] = IF x = q THEN n ELSE escrowBal[x]
    BY <1>3
  <1>6. QuestsIn(t) \subseteq Quests
    BY DEF QuestsIn, V1TypeOK
  <1>7. CASE quests[q].rewardAsset = t
    <2>1. q \in QuestsIn(t)
      BY <1>7 DEF QuestsIn
    <2>2. /\ \A x \in QuestsIn(t) : escrowBal[x] \in Int /\ escrowBal'[x] \in Int
          /\ \A x \in QuestsIn(t) \ {q} : escrowBal[x] = escrowBal'[x]
          /\ escrowBal'[q] = n
      BY <1>3, <1>4, <1>5, <1>6
    <2>3. SumFunctionOnSet(escrowBal', QuestsIn(t)) =
            SumFunctionOnSet(escrowBal, QuestsIn(t)) + (escrowBal'[q] - escrowBal[q])
      <3> DEFINE f == escrowBal
                 g == escrowBal'
                 S == QuestsIn(t)
      <3>1. /\ IsFiniteSet(S) /\ q \in S
            /\ \A x \in S : f[x] \in Int /\ g[x] \in Int
            /\ \A x \in S \ {q} : f[x] = g[x]
        BY <1>4, <2>1, <2>2
      <3> HIDE DEF f, g, S
      <3>2. SumFunctionOnSet(g, S) = SumFunctionOnSet(f, S) + (g[q] - f[q])
        BY <3>1, SumChangeOne
      <3> QED
        BY <3>2 DEF f, g, S
    <2> QED
      BY <1>1, <1>2, <1>3, <1>4, <1>7, <2>2, <2>3
  <1>8. CASE quests[q].rewardAsset # t
    <2>1. \A x \in QuestsIn(t) : escrowBal'[x] = escrowBal[x]
      BY <1>5, <1>6, <1>8 DEF QuestsIn
    <2>2. SumFunctionOnSet(escrowBal', QuestsIn(t)) = SumFunctionOnSet(escrowBal, QuestsIn(t))
      <3> DEFINE f == escrowBal
                 g == escrowBal'
                 S == QuestsIn(t)
      <3>1. IsFiniteSet(S) /\ \A x \in S : g[x] = f[x]
        BY <1>4, <2>1
      <3> HIDE DEF f, g, S
      <3>2. SumFunctionOnSet(g, S) = SumFunctionOnSet(f, S)
        BY <3>1, SumSame
      <3> QED
        BY <3>2 DEF f, g, S
    <2> QED
      BY <1>1, <1>2, <1>3, <1>8, <2>2
  <1> QED
    BY <1>7, <1>8

(* A new quest has an empty entry.                                         *)
LEMMA QuestCallKeepsBacked ==
  ASSUME V1TypeOK, V1TypeOK', IsFiniteSet(DOMAIN quests'), EscrowIsBacked,
         RewardsKept, UNCHANGED <<escrowBal, balances>>
  PROVE  EscrowIsBacked'
  <1> SUFFICES ASSUME NEW t \in Tokens
               PROVE  SumFunctionOnSet(escrowBal, QuestsIn(t)') <= balances[t][Contract]
    BY DEF EscrowIsBacked, QuestsIn
  <1>1. /\ QuestsIn(t) \subseteq QuestsIn(t)'
        /\ QuestsIn(t)' \subseteq DOMAIN quests' /\ DOMAIN quests' \subseteq Quests
        /\ \A x \in QuestsIn(t)' \ QuestsIn(t) : x \in Quests \ DOMAIN quests
    BY DEF RewardsKept, QuestsIn, V1TypeOK
  <1>2. /\ \A x \in QuestsIn(t)' : escrowBal[x] \in Int
        /\ \A x \in QuestsIn(t)' \ QuestsIn(t) : escrowBal[x] = 0
    BY <1>1 DEF V1TypeOK
  <1>3. IsFiniteSet(QuestsIn(t)')
    BY <1>1, FS_Subset
  <1>4. SumFunctionOnSet(escrowBal, QuestsIn(t)') = SumFunctionOnSet(escrowBal, QuestsIn(t))
    BY <1>1, <1>2, <1>3, SumSupport
  <1> QED
    BY <1>4 DEF EscrowIsBacked, QuestsIn

(* What an approval, a deposit and a withdrawal do to an entry and to the  *)
(* balances.                                                               *)
LEMMA ApprovalMoves ==
  ASSUME V1TypeOK, NEW q \in Quests, NEW s \in Submitters, NEW c,
         ApproveSubmission(q, s, c)
  PROVE  /\ q \in DOMAIN quests
         /\ \E n \in Nat :
              /\ escrowBal' = [escrowBal EXCEPT ![q] = n]
              /\ \A t \in Tokens : balances'[t][Contract] = balances[t][Contract] +
                   (IF t = quests[q].rewardAsset THEN n - escrowBal[q] ELSE 0)
         /\ \A t \in Tokens : \A a \in Accounts \ {Contract} :
              balances'[t][a] = balances[t][a] +
                (IF a = s /\ t = quests[q].rewardAsset THEN quests[q].rewardAmount ELSE 0)
  <1> DEFINE asset == quests[q].rewardAsset
             amount == quests[q].rewardAmount
             n == escrowBal[q] - amount
  <1>1. /\ q \in DOMAIN quests /\ Transfer(asset, Contract, s, amount)
        /\ escrowBal[q] >= amount
        /\ escrowBal' = [escrowBal EXCEPT ![q] = n]
    BY DEF ApproveSubmission, ProcessPayout
  <1>2. /\ asset \in Tokens /\ amount \in Nat /\ escrowBal[q] \in Nat
        /\ \A t \in Tokens : \A a \in Accounts : balances[t][a] \in Nat
    BY <1>1 DEF V1TypeOK, Quest
  <1>3. Contract \in Accounts /\ s \in Accounts /\ s # Contract
    BY ContractApart
  <1>4. n \in Nat
    BY <1>1, <1>2
  <1> HIDE DEF asset, amount
  <1>5. /\ balances'[asset][Contract] = balances[asset][Contract] - amount
        /\ balances'[asset][s] = balances[asset][s] + amount
        /\ \A u \in Tokens \ {asset} : balances'[u] = balances[u]
        /\ \A x \in Tokens : \A a \in Accounts \ {Contract, s} :
             balances'[x][a] = balances[x][a]
    BY <1>1, <1>2, <1>3, TransferFacts, TransferRest
  <1>6. \A t \in Tokens : balances'[t][Contract] = balances[t][Contract] +
          (IF t = asset THEN n - escrowBal[q] ELSE 0)
    BY <1>2, <1>3, <1>5
  <1>7. \A t \in Tokens : \A a \in Accounts \ {Contract} :
          balances'[t][a] = balances[t][a] + (IF a = s /\ t = asset THEN amount ELSE 0)
    BY <1>2, <1>3, <1>5
  <1> QED
    BY <1>1, <1>4, <1>6, <1>7 DEF asset, amount

LEMMA EscrowCallMoves ==
  ASSUME V1TypeOK, NEW q \in Quests, NEW c,
         \/ \E amount \in Deposits : DepositEscrow(q, c, amount)
         \/ WithdrawUnclaimed(q, c)
  PROVE  /\ q \in DOMAIN quests
         /\ \E n \in Nat :
              /\ escrowBal' = [escrowBal EXCEPT ![q] = n]
              /\ \A t \in Tokens : balances'[t][Contract] = balances[t][Contract] +
                   (IF t = quests[q].rewardAsset THEN n - escrowBal[q] ELSE 0)
         /\ \A t \in Tokens : \A a \in Submitters \ Creators :
              balances'[t][a] = balances[t][a]
  <1> DEFINE asset == quests[q].rewardAsset
  <1>1. q \in DOMAIN quests /\ c = quests[q].creator
    BY DEF DepositEscrow, WithdrawUnclaimed
  <1>2. /\ asset \in Tokens /\ c \in Creators /\ escrowBal[q] \in Nat
        /\ \A t \in Tokens : balances[t][Contract] \in Nat
    BY <1>1, ContractApart DEF V1TypeOK, Quest
  <1>3. /\ Contract \in Accounts /\ c \in Accounts /\ c # Contract
        /\ \A a \in Submitters \ Creators : a \in Accounts \ {Contract, c}
    BY <1>2, ContractApart
  <1>4. ASSUME NEW amount \in Deposits, DepositEscrow(q, c, amount)
        PROVE  \E n \in Nat :
                 /\ escrowBal' = [escrowBal EXCEPT ![q] = n]
                 /\ \A t \in Tokens : balances'[t][Contract] = balances[t][Contract] +
                      (IF t = asset THEN n - escrowBal[q] ELSE 0)
                 /\ \A t \in Tokens : \A a \in Submitters \ Creators :
                      balances'[t][a] = balances[t][a]
    <2> DEFINE n == escrowBal[q] + amount
    <2>1. /\ amount \in Nat
          /\ Transfer(asset, c, Contract, amount)
          /\ escrowBal' = [escrowBal EXCEPT ![q] = n]
      BY <1>4, EarnQuestV1Assumption DEF EarnQuestV1Assumption, DepositEscrow
    <2>2. n \in Nat
      BY <1>2, <2>1
    <2> HIDE DEF asset
    <2>3. /\ balances'[asset][Contract] = balances[asset][Contract] + amount
          /\ \A u \in Tokens \ {asset} : balances'[u] = balances[u]
          /\ \A x \in Tokens : \A a \in Accounts \ {c, Contract} :
               balances'[x][a] = balances[x][a]
      BY <1>2, <1>3, <2>1, TransferFacts, TransferRest
    <2>4. \A t \in Tokens : balances'[t][Contract] = balances[t][Contract] +
            (IF t = asset THEN n - escrowBal[q] ELSE 0)
      BY <1>2, <2>1, <2>3
    <2> HIDE DEF n
    <2> QED
      BY <1>3, <2>1, <2>2, <2>3, <2>4
  <1>5. ASSUME WithdrawUnclaimed(q, c)
        PROVE  \E n \in Nat :
                 /\ escrowBal' = [escrowBal EXCEPT ![q] = n]
                 /\ \A t \in Tokens : balances'[t][Contract] = balances[t][Contract] +
                      (IF t = asset THEN n - escrowBal[q] ELSE 0)
                 /\ \A t \in Tokens : \A a \in Submitters \ Creators :
                      balances'[t][a] = balances[t][a]
    <2> DEFINE n == 0
    <2>1. /\ n \in Nat
          /\ Transfer(asset, Contract, c, escrowBal[q])
          /\ escrowBal' = [escrowBal EXCEPT ![q] = n]
      BY <1>5 DEF WithdrawUnclaimed
    <2> HIDE DEF asset
    <2>3. /\ balances'[asset][Contract] = balances[asset][Contract] - escrowBal[q]
          /\ \A u \in Tokens \ {asset} : balances'[u] = balances[u]
          /\ \A x \in Tokens : \A a \in Accounts \ {Contract, c} :
               balances'[x][a] = balances[x][a]
      BY <1>2, <1>3, <2>1, TransferFacts, TransferRest
    <2>4. \A t \in Tokens : balances'[t][Contract] = balances[t][Contract] +
            (IF t = asset THEN n - escrowBal[q] ELSE 0)
      BY <1>2, <2>3
    <2> HIDE DEF n
    <2> QED
      BY <1>3, <2>1, <2>3, <2>4
  <1> QED
    BY <1>1, <1>4, <1>5

-----------------------------------------------------------------------------
(* What submitters have received.                                          *)

(* Calls that make nothing paid and leave the balances of submitters.      *)
LEMMA KeptRewardsExact ==
  ASSUME V1TypeOK, IsFiniteSet(DOMAIN quests), RewardsExact, RewardsKept,
         Paid' = Paid,
         \A t \in Tokens : \A a \in Submitters \ Creators : balances'[t][a] = balances[t][a]
  PROVE  RewardsExact'
  <1> SUFFICES ASSUME NEW a \in Submitters \ Creators, NEW t \in Tokens
               PROVE  balances'[t][a] = SumFunctionOnSet(RewardOf', PaidIn(a, t)')
    BY DEF RewardsExact
  <1>1. Paid \subseteq (DOMAIN quests) \X Submitters
    BY DEF V1TypeOK, Paid
  <1>2. PaidIn(a, t)' = PaidIn(a, t)
    BY <1>1 DEF PaidIn, PaidTo, RewardsKept
  <1>3. \A q \in PaidIn(a, t) : RewardOf[q] = RewardOf'[q]
    BY DEF PaidIn, PaidTo, RewardOf, RewardsKept
  <1>4. SumFunctionOnSet(RewardOf, PaidIn(a, t)) = SumFunctionOnSet(RewardOf', PaidIn(a, t))
    BY <1>3, SummandsTyped, SumSame
  <1> QED
    BY <1>2, <1>4 DEF RewardsExact

(* An approval adds the quest to what its submitter has been paid, and     *)
(* the reward to the balance.                                              *)
LEMMA ApprovalExact ==
  ASSUME V1TypeOK, V1TypeOK', IsFiniteSet(DOMAIN quests), RewardsExact,
         NEW q \in Quests, NEW s \in Submitters, NEW c,
         ApproveSubmission(q, s, c)
  PROVE  RewardsExact'
  <1> SUFFICES ASSUME NEW a \in Submitters \ Creators, NEW t \in Tokens
               PROVE  balances'[t][a] = SumFunctionOnSet(RewardOf', PaidIn(a, t)')
    BY DEF RewardsExact
  <1>1. /\ q \in DOMAIN quests /\ DOMAIN quests' = DOMAIN quests
        /\ <<q, s>> \notin Paid /\ Paid' = Paid \cup {<<q, s>>}
    BY ApprovalTyped
  <1>2. RewardsKept
    BY ApprovalRewards
  <1>3. /\ quests[q].rewardAmount \in Int
        /\ a \in Accounts \ {Contract} /\ balances[t][a] \in Int
    BY <1>1, ContractApart DEF V1TypeOK, Quest
  <1>4. balances'[t][a] = balances[t][a] +
          (IF a = s /\ t = quests[q].rewardAsset THEN quests[q].rewardAmount ELSE 0)
    BY <1>3, ApprovalMoves
  <1>5. balances[t][a] = SumFunctionOnSet(RewardOf, PaidIn(a, t))
    BY DEF RewardsExact
  <1>6. /\ IsFiniteSet(PaidIn(a, t))
        /\ \A x \in PaidIn(a, t) : RewardOf[x] \in Int /\ RewardOf[x] = RewardOf'[x]
    BY <1>2, SummandsTyped DEF RewardOf, RewardsKept
  <1>7. RewardOf'[q] = quests[q].rewardAmount
    BY <1>1, <1>2 DEF RewardOf, RewardsKept
  <1>8. CASE a = s /\ t = quests[q].rewardAsset
    <2>1. q \notin PaidIn(a, t) /\ PaidIn(a, t)' = PaidIn(a, t) \cup {q}
      BY <1>1, <1>2, <1>8 DEF PaidIn, PaidTo, RewardsKept
    <2>2. SumFunctionOnSet(RewardOf', PaidIn(a, t) \cup {q}) =
            SumFunctionOnSet(RewardOf, PaidIn(a, t)) + RewardOf'[q]
      <3> DEFINE f == RewardOf
                 g == RewardOf'
                 S == PaidIn(a, t)
      <3> HIDE DEF f, g, S
      <3>1. SumFunctionOnSet(g, S \cup {q}) = SumFunctionOnSet(f, S) + g[q]
        BY <1>3, <1>6, <1>7, <2>1, SumAddOne DEF f, g, S
      <3> QED
        BY <3>1 DEF f, g, S
    <2> QED
      BY <1>4, <1>5, <1>7, <1>8, <2>1, <2>2
  <1>9. CASE ~(a = s /\ t = quests[q].rewardAsset)
    <2>1. PaidIn(a, t)' = PaidIn(a, t)
      BY <1>1, <1>2, <1>9 DEF PaidIn, PaidTo, RewardsKept
    <2>2. SumFunctionOnSet(RewardOf, PaidIn(a, t)) = SumFunctionOnSet(RewardOf', PaidIn(a, t))
      BY <1>6, SumSame
    <2> QED
      BY <1>3, <1>4, <1>5, <1>9, <2>1, <2>2
  <1> QED
    BY <1>8, <1>9

-----------------------------------------------------------------------------
(* Both together.                                                          *)

MoneyInv == EscrowIsBacked /\ RewardsExact

(* A record that calls about other things leave alone.                     *)
LEMMA MoneyFrame ==
  ASSUME V1TypeOK, IsFiniteSet(DOMAIN quests), MoneyInv,
         UNCHANGED <<quests, escrowBal, balances>>, Paid' = Paid
  PROVE  MoneyInv'
  <1>1. RewardsKept
    BY DEF RewardsKept
  <1>2. RewardsExact'
    BY <1>1, KeptRewardsExact DEF MoneyInv
  <1> QED
    BY <1>2 DEF MoneyInv, EscrowIsBacked

LEMMA V1InitMoney ==
  Init => MoneyInv
  <1> SUFFICES ASSUME Init
               PROVE  MoneyInv
    OBVIOUS
  <1>1. DOMAIN quests = {} /\ DOMAIN submissions = {}
    BY DEF Init
  <1>2. \A t \in Tokens : /\ balances[t][Contract] = 0
                          /\ \A a \in Submitters \ Creators : balances[t][a] = 0
    BY ContractApart DEF Init
  <1>3. \A t : QuestsIn(t) = {}
    BY <1>1 DEF QuestsIn
  <1>4. \A a, t : PaidIn(a, t) = {}
    BY <1>1 DEF PaidIn, PaidTo
  <1>5. EscrowIsBacked
    BY <1>2, <1>3, SumEmpty DEF EscrowIsBacked, QuestsIn
  <1>6. RewardsExact
    BY <1>2, <1>4, SumEmpty DEF RewardsExact
  <1> QED
    BY <1>5, <1>6 DEF MoneyInv

LEMMA V1StepMoney ==
  ASSUME V1TypeOK, V1TypeOK', CountInv, CountInv', MoneyInv, [Next]_vars
  PROVE  MoneyInv'
  <1>0. IsFiniteSet(DOMAIN quests) /\ IsFiniteSet(DOMAIN quests')
    BY DEF CountInv
  <1>1. ASSUME UNCHANGED <<quests, escrowBal, balances>>, Paid' = Paid
        PROVE  MoneyInv'
    BY <1>0, <1>1, MoneyFrame
  <1>2. CASE ConfigNext \/ PauseNext \/ BadgeNext \/ Tick \/ UNCHANGED vars
    <2>1. UNCHANGED <<quests, submissions, escrowBal, balances>>
      BY <1>2 DEF ConfigNext, Initialize, UpdateConfig, TriggerMigration, TriggerRollback,
                    questVars, PauseNext, InitializePause,
                  RequestPause, CancelPauseRequest, UnpauseContract, UpdatePauseConfig,
                  BadgeNext, GrantBadge, Tick, vars
    <2> QED
      BY <1>1, <2>1 DEF Paid
  <1>3. ASSUME NEW q \in Quests, QuestCall(q)
        PROVE  MoneyInv'
    <2>1. RewardsKept
      BY <1>3, QuestCallRewards
    <2>2. UNCHANGED <<submissions, escrowBal, balances>>
      BY <1>3 DEF QuestCall
    <2>3. EscrowIsBacked'
      BY <1>0, <2>1, <2>2, QuestCallKeepsBacked DEF MoneyInv
    <2>4. RewardsExact'
      BY <1>0, <2>1, <2>2, KeptRewardsExact DEF MoneyInv, Paid
    <2> QED
      BY <2>3, <2>4 DEF MoneyInv
  <1>4. ASSUME NEW q \in Quests, NEW s \in Submitters, NEW c,
               SubmitProof(q, s) \/ RejectSubmission(q, s, c)
        PROVE  MoneyInv'
    <2>1. Paid' = Paid
      BY <1>4, SubmissionCallsTyped
    <2>2. UNCHANGED <<quests, escrowBal, balances>>
      BY <1>4 DEF SubmitProof, RejectSubmission
    <2> QED
      BY <1>1, <2>1, <2>2
  <1>5. ASSUME NEW q \in Quests, NEW s \in Submitters, NEW c, ApproveSubmission(q, s, c)
        PROVE  MoneyInv'
    <2>1. RewardsExact'
      BY <1>0, <1>5, ApprovalExact DEF MoneyInv
    <2>2. RewardsKept /\ q \in DOMAIN quests /\ DOMAIN quests' = DOMAIN quests
      BY <1>5, ApprovalRewards, ApprovalTyped
    <2>3. PICK n \in Nat :
            /\ escrowBal' = [escrowBal EXCEPT ![q] = n]
            /\ \A t \in Tokens : balances'[t][Contract] = balances[t][Contract] +
                 (IF t = quests[q].rewardAsset THEN n - escrowBal[q] ELSE 0)
      BY <1>5, ApprovalMoves
    <2>4. EscrowIsBacked'
      BY <1>0, <2>2, <2>3, EntryKeepsBacked DEF MoneyInv
    <2> QED
      BY <2>1, <2>4 DEF MoneyInv
  <1>6. ASSUME NEW q \in Quests, NEW c,
               (\E amount \in Deposits : DepositEscrow(q, c, amount)) \/ WithdrawUnclaimed(q, c)
        PROVE  MoneyInv'
    <2>1. UNCHANGED <<quests, submissions>>
      BY <1>6 DEF DepositEscrow, WithdrawUnclaimed
    <2>2. PICK n \in Nat :
            /\ escrowBal' = [escrowBal EXCEPT ![q] = n]
            /\ \A t \in Tokens : balances'[t][Contract] = balances[t][Contract] +
                 (IF t = quests[q].rewardAsset THEN n - escrowBal[q] ELSE 0)
      BY <1>6, EscrowCallMoves
    <2>3. q \in DOMAIN quests /\ RewardsKept
      BY <1>6, <2>1, EscrowCallMoves DEF RewardsKept
    <2>4. EscrowIsBacked'
      BY <1>0, <2>1, <2>2, <2>3, EntryKeepsBacked DEF MoneyInv
    <2>5. \A t \in Tokens : \A a \in Submitters \ Creators : balances'[t][a] = balances[t][a]
      BY <1>6, EscrowCallMoves
    <2>6. RewardsExact'
      BY <1>0, <2>1, <2>3, <2>5, KeptRewardsExact DEF MoneyInv, Paid
    <2> QED
      BY <2>4, <2>6 DEF MoneyInv
  <1> QED
    BY <1>2, <1>3, <1>4, <1>5, <1>6, StepKinds

LEMMA V1MoneyInvariant == Spec => [](V1TypeOK /\ CountInv /\ MoneyInv)
  <1>1. V1TypeOK /\ CountInv /\ [Next]_vars => V1TypeOK' /\ CountInv'
    BY V1StepTyped, V1StepCounted
  <1>2. V1TypeOK /\ V1TypeOK' /\ CountInv /\ CountInv' /\ MoneyInv /\ [Next]_vars => MoneyInv'
    BY V1StepMoney
  <1>3. Init => V1TypeOK /\ CountInv /\ MoneyInv
    BY V1InitTyped, V1InitCounted, V1InitMoney
  <1> QED
    BY <1>1, <1>2, <1>3, PTL DEF Spec

(* Approvals are exact for any number of quests and submitters: claims,    *)
(* points and levels count the paid submissions, and a submitter who       *)
(* creates no quest holds the sum of the rewards of exactly those.         *)
THEOREM ClaimsStayExact == Spec => []ClaimsAreExact
  <1>1. CountInv /\ MoneyInv => ClaimsAreExact
    BY DEF CountInv, MoneyInv, RewardsExact, RewardOf, PaidIn, ClaimsAreExact
  <1> QED
    BY <1>1, V1MoneyInvariant, PTL

(* The contract always holds, in each token, the sum of the entries of the *)
(* quests that pay in it.                                                  *)
THEOREM EscrowStaysBacked == Spec => []EscrowIsBacked
  <1>1. MoneyInv => EscrowIsBacked
    BY DEF MoneyInv
  <1> QED
    BY <1>1, V1MoneyInvariant, PTL
-----------------------------------------------------------------------------
(* The first contract implements the escrow ledger.                        *)

LedgerStep == Ledger!LedgerNext \/ UNCHANGED Ledger!ledgerVars

LEMMA V1SameTerms ==
  ASSUME DOMAIN quests' = DOMAIN quests,
         \A x \in DOMAIN quests :
            /\ quests'[x].creator = quests[x].creator
            /\ quests'[x].rewardAsset = quests[x].rewardAsset
  PROVE  LedgerTerms' = LedgerTerms
  BY DEF LedgerTerms

LEMMA V1LedgerFrame ==
  ASSUME UNCHANGED <<quests, escrowBal, balances>>
  PROVE  UNCHANGED Ledger!ledgerVars
  <1>1. LedgerTerms' = LedgerTerms /\ LedgerClosed' = LedgerClosed
    BY DEF LedgerTerms, LedgerClosed
  <1> QED
    BY <1>1 DEF Ledger!ledgerVars

(* The terms of a registered quest, and who moves its tokens.              *)
LEMMA V1LedgerTyped ==
  ASSUME V1TypeOK, NEW q \in DOMAIN quests
  PROVE  /\ q \in Quests /\ q \in DOMAIN LedgerTerms
         /\ LedgerTerms[q].owner = quests[q].creator
         /\ LedgerTerms[q].asset = quests[q].rewardAsset
         /\ quests[q].creator \in Creators /\ quests[q].rewardAsset \in Tokens
         /\ quests[q].rewardAmount \in Nat \ {0}
         /\ quests[q].status \in QuestStatus
         /\ escrowBal[q] \in Nat
  BY DEF V1TypeOK, Quest, LedgerTerms

-----------------------------------------------------------------------------
(* Registration, and the ends of quests: an account whose quest ends empty *)
(* is closed by that.                                                      *)
LEMMA V1RegisterLedger ==
  ASSUME V1TypeOK, V1TypeOK', NEW q \in Quests, NEW c, NEW t, NEW r, NEW v, NEW d, NEW n,
         RegisterQuest(q, c, t, r, v, d, n)
  PROVE  LedgerStep
  <1>1. /\ q \notin DOMAIN quests
        /\ DOMAIN quests' = DOMAIN quests \cup {q}
        /\ quests'[q].status = "Active"
        /\ \A x \in DOMAIN quests : quests'[x] = quests[x]
        /\ UNCHANGED <<escrowBal, balances>>
    BY DEF RegisterQuest, Put
  <1>2. LedgerClosed' = LedgerClosed
    BY <1>1 DEF LedgerClosed, Ended
  <1>3. DOMAIN quests' \subseteq Quests /\ \A x \in DOMAIN quests' : quests'[x] \in Quest
    BY DEF V1TypeOK
  <1>4. LedgerTerms' \in [DOMAIN quests' -> Ledger!Terms]
    BY <1>3 DEF LedgerTerms, Ledger!Terms, Quest
  <1>5. /\ DOMAIN LedgerTerms = DOMAIN quests /\ DOMAIN LedgerTerms' = DOMAIN quests'
        /\ \A x \in DOMAIN quests : LedgerTerms'[x] = LedgerTerms[x]
    BY <1>1 DEF LedgerTerms
  <1>6. Ledger!Register
    BY <1>1, <1>2, <1>3, <1>4, <1>5 DEF Ledger!Register
  <1> QED
    BY <1>6 DEF LedgerStep, Ledger!LedgerNext

(* Nothing is moved when nothing is left.                                  *)
LEMMA MoveNothing ==
  ASSUME V1TypeOK, NEW t \in Tokens, NEW a \in Accounts, UNCHANGED balances
  PROVE  Ledger!Move(t, Contract, a, 0)
  <1>1. /\ balances \in [Tokens -> [Accounts -> Nat]]
        /\ Contract \in Accounts
    BY ContractApart DEF V1TypeOK
  <1>2. balances[t][Contract] \in Nat /\ balances[t][a] \in Nat
    BY <1>1
  <1>3. balances[t][Contract] >= 0 /\ balances[t][Contract] - 0 = balances[t][Contract]
    BY <1>2
  <1>4. CASE a # Contract
    <2>1. balances = [balances EXCEPT ![t][Contract] = balances[t][Contract] - 0,
                                      ![t][a] = balances[t][a] + 0]
      BY <1>1, <1>2, <1>3, <1>4
    <2> QED
      BY <1>3, <2>1 DEF Ledger!Move
  <1>5. CASE a = Contract
    <2>1. balances = [balances EXCEPT ![t][Contract] = balances[t][Contract] - 0,
                                      ![t][a] = balances[t][a] + 0]
      BY <1>1, <1>2, <1>3, <1>5
    <2> QED
      BY <1>3, <2>1 DEF Ledger!Move
  <1> QED
    BY <1>4, <1>5

LEMMA V1StatusLedger ==
  ASSUME V1TypeOK, NEW q \in Quests, NEW c, NEW status,
         SetStatus(q, c, status), quests[q].status \in Ended => status \in Ended,
         UNCHANGED <<escrowBal, balances>>
  PROVE  LedgerStep
  <1>1. /\ q \in DOMAIN quests
        /\ DOMAIN quests' = DOMAIN quests
        /\ quests'[q].status = status
        /\ \A x \in DOMAIN quests :
             /\ quests'[x].creator = quests[x].creator
             /\ quests'[x].rewardAsset = quests[x].rewardAsset
             /\ x # q => quests'[x] = quests[x]
    BY DEF SetStatus, V1TypeOK, Quest
  <1>2. LedgerTerms' = LedgerTerms
    BY <1>1, V1SameTerms
  <1>3. CASE status \in Ended /\ quests[q].status \notin Ended /\ escrowBal[q] = 0
    <2>1. q \notin LedgerClosed /\ LedgerClosed' = LedgerClosed \cup {q}
      BY <1>1, <1>3 DEF LedgerClosed
    <2>2. /\ quests[q].creator \in Accounts /\ quests[q].rewardAsset \in Tokens
          /\ escrowBal = [escrowBal EXCEPT ![q] = 0]
      BY <1>1, <1>3, V1LedgerTyped DEF V1TypeOK, Accounts
    <2>3. Ledger!Close(q)
      BY <1>1, <1>2, <1>3, <2>1, <2>2, MoveNothing, V1LedgerTyped DEF Ledger!Close
    <2> QED
      BY <1>1, <2>3, V1LedgerTyped DEF LedgerStep, Ledger!LedgerNext
  <1>4. CASE ~(status \in Ended /\ quests[q].status \notin Ended /\ escrowBal[q] = 0)
    <2>1. LedgerClosed' = LedgerClosed
      BY <1>1, <1>4 DEF LedgerClosed
    <2> QED
      BY <1>2, <2>1 DEF LedgerStep, Ledger!ledgerVars
  <1> QED
    BY <1>3, <1>4

-----------------------------------------------------------------------------
(* Deposits, rewards and refunds.                                          *)

(* A transfer is a move of the ledger.                                     *)
LEMMA V1Move ==
  ASSUME NEW t, NEW from, NEW to, NEW amount, Transfer(t, from, to, amount)
  PROVE  Ledger!Move(t, from, to, amount)
  BY DEF Transfer, Ledger!Move

LEMMA V1DepositLedger ==
  ASSUME V1TypeOK, NEW q \in Quests, NEW c, NEW amount \in Deposits,
         DepositEscrow(q, c, amount)
  PROVE  LedgerStep
  <1>1. /\ q \in DOMAIN quests /\ c = quests[q].creator
        /\ amount > 0 /\ amount \in Int
        /\ quests[q].status \notin Ended
        /\ Ledger!Move(quests[q].rewardAsset, c, Contract, amount)
        /\ escrowBal' = [escrowBal EXCEPT ![q] = escrowBal[q] + amount]
        /\ UNCHANGED quests
    BY V1Move, EarnQuestV1Assumption DEF EarnQuestV1Assumption, DepositEscrow
  <1>2. escrowBal'[q] - escrowBal[q] = amount /\ \A x \in Quests : x # q => escrowBal'[x] = escrowBal[x]
    BY <1>1, V1LedgerTyped DEF V1TypeOK
  <1>3. LedgerTerms' = LedgerTerms
    BY <1>1, V1SameTerms
  <1>4. q \notin LedgerClosed /\ LedgerClosed' = LedgerClosed
    BY <1>1, <1>2 DEF LedgerClosed, V1TypeOK
  <1>5. Ledger!Deposit(q, escrowBal'[q] - escrowBal[q])
    BY <1>1, <1>2, <1>3, <1>4, V1LedgerTyped DEF Ledger!Deposit
  <1> QED
    BY <1>1, <1>5, V1LedgerTyped DEF LedgerStep, Ledger!LedgerNext

LEMMA V1WithdrawLedger ==
  ASSUME V1TypeOK, NEW q \in Quests, NEW c, WithdrawUnclaimed(q, c)
  PROVE  LedgerStep
  <1>1. /\ q \in DOMAIN quests /\ c = quests[q].creator
        /\ quests[q].status \in Ended /\ escrowBal[q] > 0
        /\ Ledger!Move(quests[q].rewardAsset, Contract, c, escrowBal[q])
        /\ escrowBal' = [escrowBal EXCEPT ![q] = 0]
        /\ UNCHANGED quests
    BY V1Move DEF WithdrawUnclaimed
  <1>2. escrowBal'[q] = 0 /\ \A x \in Quests : x # q => escrowBal'[x] = escrowBal[x]
    BY <1>1 DEF V1TypeOK
  <1>3. LedgerTerms' = LedgerTerms
    BY <1>1, V1SameTerms
  <1>4. q \notin LedgerClosed
    BY <1>1, V1LedgerTyped DEF LedgerClosed
  <1>5. LedgerClosed' = LedgerClosed \cup {q}
    BY <1>1, <1>2 DEF LedgerClosed, V1TypeOK
  <1>6. Ledger!Close(q)
    BY <1>1, <1>3, <1>4, <1>5, V1LedgerTyped DEF Ledger!Close
  <1> QED
    BY <1>1, <1>6, V1LedgerTyped DEF LedgerStep, Ledger!LedgerNext

(* An approval pays one reward out of the quest's account, and closes it   *)
(* if that was the last token of a quest that has ended or ends with it.   *)
LEMMA V1ApprovalLedger ==
  ASSUME V1TypeOK, NEW q \in Quests, NEW s \in Submitters, NEW c, ApproveSubmission(q, s, c)
  PROVE  LedgerStep
  <1> DEFINE reward == quests[q].rewardAmount
             asset == quests[q].rewardAsset
  <1>1. /\ q \in DOMAIN quests /\ escrowBal[q] >= reward
        /\ Ledger!Move(asset, Contract, s, reward)
        /\ escrowBal' = [escrowBal EXCEPT ![q] = escrowBal[q] - reward]
    BY V1Move DEF ApproveSubmission, ProcessPayout
  <1>2. reward \in Nat \ {0} /\ escrowBal[q] \in Nat
    BY <1>1, V1LedgerTyped
  <1>3. /\ DOMAIN quests' = DOMAIN quests
        /\ quests[q].status \in Ended => quests'[q].status \in Ended
        /\ \A x \in DOMAIN quests :
             /\ quests'[x].creator = quests[x].creator
             /\ quests'[x].rewardAsset = quests[x].rewardAsset
             /\ x # q => quests'[x] = quests[x]
    <2> DEFINE counted == [quests[q] EXCEPT !.totalClaims = @ + 1]
               r == AutoComplete(counted)
    <2>1. quests[q] \in Quest
      BY <1>1 DEF V1TypeOK
    <2>2. /\ r.creator = quests[q].creator /\ r.rewardAsset = quests[q].rewardAsset
          /\ r.status = quests[q].status \/ r.status = "Completed"
      BY <2>1 DEF AutoComplete, Quest
    <2>3. quests' = [quests EXCEPT ![q] = r]
      BY DEF ApproveSubmission
    <2> HIDE DEF r
    <2> QED
      BY <1>1, <2>2, <2>3 DEF Ended
  <1>4. LedgerTerms' = LedgerTerms
    BY <1>3, V1SameTerms
  <1> HIDE DEF reward
  <1>5. /\ escrowBal'[q] = escrowBal[q] - reward
        /\ \A x \in Quests : x # q => escrowBal'[x] = escrowBal[x]
    BY <1>1 DEF V1TypeOK
  <1>6. escrowBal[q] - escrowBal'[q] = reward /\ reward \in 0..escrowBal[q]
    BY <1>1, <1>2, <1>5
  <1>7. q \notin LedgerClosed
    BY <1>1, <1>2 DEF LedgerClosed
  <1>8. \/ LedgerClosed' = LedgerClosed
        \/ escrowBal'[q] = 0 /\ LedgerClosed' = LedgerClosed \cup {q}
    BY <1>1, <1>3, <1>5, <1>7 DEF LedgerClosed, V1TypeOK
  <1>9. escrowBal'[q] = 0 => reward = escrowBal[q]
    BY <1>2, <1>5
  <1>10. Ledger!Pay(q, s, escrowBal[q] - escrowBal'[q])
    BY <1>1, <1>4, <1>6, <1>7, <1>8, <1>9, V1LedgerTyped DEF Ledger!Pay
  <1> QED
    BY <1>1, <1>10, V1LedgerTyped DEF LedgerStep, Ledger!LedgerNext

-----------------------------------------------------------------------------
(* The refinement.                                                         *)

LEMMA V1InitLedger == Init => Ledger!LedgerInit
  <1> SUFFICES ASSUME Init PROVE Ledger!LedgerInit
    OBVIOUS
  <1>1. LedgerTerms = [q \in {} |-> {}]
    BY DEF Init, LedgerTerms
  <1>2. LedgerClosed = {} /\ escrowBal = [q \in Quests |-> 0]
    BY DEF Init, LedgerClosed
  <1>3. /\ balances \in [Tokens -> [(Creators \cup Submitters) \cup {Contract} -> Nat]]
        /\ \A t \in Tokens : balances[t][Contract] = 0
    BY ContractApart, EarnQuestV1Assumption DEF Init, Accounts, EarnQuestV1Assumption
  <1> QED
    BY <1>1, <1>2, <1>3 DEF Ledger!LedgerInit

LEMMA V1StepLedger ==
  ASSUME V1TypeOK, V1TypeOK', [Next]_vars
  PROVE  LedgerStep
  <1>1. ASSUME UNCHANGED <<quests, escrowBal, balances>> PROVE LedgerStep
    BY <1>1, V1LedgerFrame DEF LedgerStep
  <1>2. CASE ConfigNext \/ PauseNext \/ BadgeNext \/ Tick \/ UNCHANGED vars
    BY <1>1, <1>2 DEF ConfigNext, Initialize, UpdateConfig, TriggerMigration, TriggerRollback,
                       questVars, PauseNext,
       InitializePause, RequestPause, CancelPauseRequest, UnpauseContract, UpdatePauseConfig,
       BadgeNext, GrantBadge, Tick, vars
  <1>3. ASSUME NEW q \in Quests, QuestCall(q)
        PROVE  LedgerStep
    BY <1>3, V1RegisterLedger, V1StatusLedger DEF QuestCall
  <1>4. ASSUME NEW q \in Quests, NEW s \in Submitters, NEW c,
               SubmitProof(q, s) \/ RejectSubmission(q, s, c)
        PROVE  LedgerStep
    BY <1>1, <1>4 DEF SubmitProof, RejectSubmission
  <1> QED
    BY <1>2, <1>3, <1>4, V1ApprovalLedger, V1DepositLedger, V1WithdrawLedger, StepKinds

(* The first contract implements the same escrow ledger as the second one, *)
(* with an empty pool: no call moves its tokens past the entries, and a    *)
(* quest that has ended with an empty entry neither takes nor pays again.  *)
THEOREM FirstLedgerImplemented == Spec => ImplementsLedger
  <1>1. V1TypeOK /\ V1TypeOK' /\ [Next]_vars => [Ledger!LedgerNext]_(Ledger!ledgerVars)
    BY V1StepLedger DEF LedgerStep
  <1> QED
    BY V1InitLedger, <1>1, V1Typed, PTL DEF Spec, ImplementsLedger, Ledger!LedgerSpec

=============================================================================
