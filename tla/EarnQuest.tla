------------------------------ MODULE EarnQuest ------------------------------
(***************************************************************************)
(* The money path of the earn-quest contract: quests, submissions, the     *)
(* per-quest escrow records, the token balances the records stand for, the *)
(* payouts and the reputation they award (lib.rs, quest.rs, submission.rs, *)
(* escrow.rs, payout.rs, reputation.rs), composed with the emergency       *)
(* switch of EmergencyControl.  One action is one contract call that       *)
(* succeeds, with everything it does; calls are atomic and a call that     *)
(* returns an error leaves no trace.  Storage maps are functions whose     *)
(* domain is the set of stored keys, as has_quest and has_escrow see them. *)
(***************************************************************************)
EXTENDS EmergencyControl

CONSTANTS
    Quests,            \* quest identifiers: Symbols, of which there are finitely many
    Tokens,            \* token contracts
    Contract,          \* the address of the earn-quest contract itself
    Creators,          \* the addresses that register quests
    Verifiers,         \* the addresses named as verifiers
    Submitters,        \* the addresses that submit proofs
    Rewards,           \* the reward amounts offered at registration
    Deposits,          \* the amounts sent to escrow, pool or withdrawal
    Deadlines,         \* the deadlines offered at registration
    Badges,            \* the badges an admin can grant
    InitialBalance,    \* what each creator holds of each token at the start
    MaxRewardAmount,   \* MAX_REWARD_AMOUNT
    MaxQuestClaims,    \* MAX_QUEST_CLAIMS
    MaxBatch,          \* MAX_BATCH_QUEST_REGISTRATION and MAX_BATCH_APPROVALS
    MaxBadges          \* MAX_BADGES_COUNT

ASSUME EarnQuestAssumption ==
    /\ Contract \notin Addresses
    /\ IsFiniteSet(Quests)
    /\ Creators \subseteq Addresses
    /\ Verifiers \subseteq Addresses
    /\ Submitters \subseteq Addresses
    /\ Rewards \subseteq Int
    /\ Deposits \subseteq Int
    /\ Deadlines \subseteq Nat
    /\ InitialBalance \in Nat
    /\ MaxRewardAmount \in Nat
    /\ MaxQuestClaims \in Nat
    /\ MaxBatch \in Nat
    /\ MaxBadges \in Nat

VARIABLES
    quests,       \* DataKey::Quest: id -> quest
    submissions,  \* DataKey::Submission: <<id, submitter>> -> status
    escrows,      \* DataKey::Escrow: id -> escrow record
    userStats,    \* DataKey::UserStats, the default where none is stored
    balances,     \* the token contracts: token -> account -> amount
    poolFlow      \* history: token -> net flow into the contract's balance
                  \* that no escrow record accounts for

questVars == <<quests, submissions, escrows, userStats, balances, poolFlow>>

vars == <<emergencyVars, questVars>>

Accounts == Addresses \cup {Contract}

QuestStatus == {"Active", "Paused", "Completed", "Expired", "Cancelled"}

SubmissionStatus == {"Pending", "Approved", "Rejected", "Paid"}

Quest == [creator : Addresses, rewardAsset : Tokens, rewardAmount : Nat,
          verifier : Addresses, deadline : Nat, status : QuestStatus,
          totalClaims : Nat]

EscrowInfo == [depositor : Addresses, token : Tokens, totalDeposited : Nat,
               totalPaidOut : Nat, totalRefunded : Nat, isActive : BOOLEAN]

UserStats == [xp : Nat, level : 1..5, questsCompleted : Nat,
              badges : SUBSET Badges]

NewUserStats == [xp |-> 0, level |-> 1, questsCompleted |-> 0, badges |-> {}]

-----------------------------------------------------------------------------
(* Storage and validation.                                                 *)

Put(f, k, v) == [x \in DOMAIN f \cup {k} |-> IF x = k THEN v ELSE f[x]]

HasQuest(q) == q \in DOMAIN quests

HasSubmission(q, u) == <<q, u>> \in DOMAIN submissions

HasEscrow(q) == q \in DOMAIN escrows

ValidAmount(a) == a > 0 /\ a <= MaxRewardAmount

AddressesDistinct(a, b) == a # b

IsQuestTerminal(status) == status \in {"Completed", "Expired", "Cancelled"}

(* Mutant: an ended quest can be resumed.                                  *)
TransitionReopens(from, to) ==
    \/ from \in {"Active", "Paused"} /\ from # to
    \/ from = "Expired" /\ to = "Active"

ValidQuestTransition(from, to) ==
    <<from, to>> \in {<<"Active", "Paused">>, <<"Active", "Completed">>,
                      <<"Active", "Expired">>, <<"Paused", "Active">>,
                      <<"Paused", "Expired">>, <<"Active", "Cancelled">>,
                      <<"Paused", "Cancelled">>}

(* Mutant: a pending submission can be paid.                               *)
TransitionSkipsApproval(from, to) ==
    \/ from = "Pending"
    \/ from = "Approved" /\ to = "Paid"

ValidSubmissionTransition(from, to) ==
    <<from, to>> \in {<<"Pending", "Approved">>, <<"Pending", "Rejected">>,
                      <<"Approved", "Paid">>}

(* What is neither paid out nor refunded yet.                              *)
Available(e) == e.totalDeposited - e.totalPaidOut - e.totalRefunded

(* escrow::validate_sufficient                                             *)
SufficientEscrow(q, amount) ==
    /\ HasEscrow(q)
    /\ escrows[q].isActive
    /\ Available(escrows[q]) >= amount

(* The token contract refuses what the sender does not have.               *)
Transfer(t, from, to, amount) ==
    /\ balances[t][from] >= amount
    /\ balances' = [balances EXCEPT ![t][from] = @ - amount,
                                    ![t][to] = @ + amount]

-----------------------------------------------------------------------------
(* Quest registration and quest status.                                    *)

ValidTerms(creator, terms) ==
    /\ ValidAmount(terms.rewardAmount)
    /\ terms.deadline > now
    /\ AddressesDistinct(creator, terms.verifier)

NewQuest(creator, terms) ==
    [creator |-> creator, rewardAsset |-> terms.rewardAsset,
     rewardAmount |-> terms.rewardAmount, verifier |-> terms.verifier,
     deadline |-> terms.deadline, status |-> "Active", totalClaims |-> 0]

RegisterQuest(q, creator, terms) ==
    /\ RequireNotPaused
    /\ ~HasQuest(q)
    /\ ValidTerms(creator, terms)
    /\ quests' = Put(quests, q, NewQuest(creator, terms))
    /\ UNCHANGED <<emergencyVars, submissions, escrows, userStats, balances,
                   poolFlow>>

(* All or nothing: "batch" maps the identifiers of the call to their terms *)
(* (a call that repeats an identifier is rejected).                        *)
RegisterQuestsBatch(creator, batch) ==
    /\ RequireNotPaused
    /\ Cardinality(DOMAIN batch) \in 1..MaxBatch
    /\ \A q \in DOMAIN batch : ~HasQuest(q) /\ ValidTerms(creator, batch[q])
    /\ quests' = [q \in DOMAIN quests \cup DOMAIN batch |->
                    IF q \in DOMAIN batch THEN NewQuest(creator, batch[q])
                                          ELSE quests[q]]
    /\ UNCHANGED <<emergencyVars, submissions, escrows, userStats, balances,
                   poolFlow>>

(* storage::update_quest_status after validate_quest_status_transition     *)
SetQuestStatus(q, status) ==
    /\ ValidQuestTransition(quests[q].status, status)
    /\ quests' = [quests EXCEPT ![q].status = status]

PauseQuest(caller, q) ==
    /\ RequireNotPaused
    /\ IsAdmin(caller)
    /\ HasQuest(q)
    /\ SetQuestStatus(q, "Paused")
    /\ UNCHANGED <<emergencyVars, submissions, escrows, userStats, balances,
                   poolFlow>>

ResumeQuest(caller, q) ==
    /\ RequireNotPaused
    /\ IsAdmin(caller)
    /\ HasQuest(q)
    /\ SetQuestStatus(q, "Active")
    /\ UNCHANGED <<emergencyVars, submissions, escrows, userStats, balances,
                   poolFlow>>

-----------------------------------------------------------------------------
(* Submissions.                                                            *)

(* A submission already stored for the pair is replaced, whatever its      *)
(* status.                                                                 *)
SubmitProof(q, u) ==
    /\ RequireNotPaused
    /\ HasQuest(q)
    /\ quests[q].status = "Active"
    /\ now < quests[q].deadline
    /\ submissions' = Put(submissions, <<q, u>>, "Pending")
    /\ UNCHANGED <<emergencyVars, quests, escrows, userStats, balances,
                   poolFlow>>

(* What both approval calls require of one submission.  Nothing is         *)
(* reserved: the escrow only has to cover this one reward now.             *)
Approvable(q, u, verifier) ==
    /\ HasQuest(q)
    /\ verifier = quests[q].verifier
    /\ HasSubmission(q, u)
    /\ ValidSubmissionTransition(submissions[<<q, u>>], "Approved")
    /\ HasEscrow(q) => SufficientEscrow(q, quests[q].rewardAmount)

(* The single approval also requires the caller to differ from the quest's *)
(* verifier, whom it has just been required to be.                         *)
CanApproveSubmission(q, u, verifier) ==
    /\ RequireNotPaused
    /\ Approvable(q, u, verifier)
    /\ AddressesDistinct(verifier, quests[q].verifier)

ApproveSubmission(q, u, verifier) ==
    IF CanApproveSubmission(q, u, verifier)
      THEN /\ submissions' = [submissions EXCEPT ![<<q, u>>] = "Approved"]
           /\ UNCHANGED <<emergencyVars, quests, escrows, userStats, balances,
                          poolFlow>>
      ELSE UNCHANGED vars

(* All or nothing: "batch" is the set of pairs <<quest, submitter>> of the *)
(* call.  A pair given twice is rejected, and the checks of one item read  *)
(* nothing another item writes, so the order does not matter.              *)
ApproveSubmissionsBatch(verifier, batch) ==
    /\ RequireNotPaused
    /\ Cardinality(batch) \in 1..MaxBatch
    /\ \A s \in batch : /\ AddressesDistinct(verifier, s[2])
                       /\ Approvable(s[1], s[2], verifier)
    /\ submissions' = [s \in DOMAIN submissions |->
                         IF s \in batch THEN "Approved" ELSE submissions[s]]
    /\ UNCHANGED <<emergencyVars, quests, escrows, userStats, balances,
                   poolFlow>>

-----------------------------------------------------------------------------
(* Claims.                                                                 *)

ClaimXp == 100

CalculateLevel(xp) ==
    CASE xp >= 1500 -> 5
      [] xp >= 1000 /\ xp < 1500 -> 4
      [] xp >= 600 /\ xp < 1000 -> 3
      [] xp >= 300 /\ xp < 600 -> 2
      [] OTHER -> 1

(* Mutants: the level follows the points held before the award, or the     *)
(* completed quest is not counted.                                         *)
AwardXpStaleLevel(u, xp) ==
    userStats' = [userStats EXCEPT
                    ![u].xp = @ + xp,
                    ![u].questsCompleted = @ + 1,
                    ![u].level = CalculateLevel(userStats[u].xp)]

AwardXpUncounted(u, xp) ==
    userStats' = [userStats EXCEPT
                    ![u].xp = @ + xp,
                    ![u].level = CalculateLevel(userStats[u].xp + xp)]

AwardXp(u, xp) ==
    userStats' = [userStats EXCEPT
                    ![u].xp = @ + xp,
                    ![u].questsCompleted = @ + 1,
                    ![u].level = CalculateLevel(userStats[u].xp + xp)]

(* Mutant: one claim more than the limit.                                  *)
ValidClaimInclusive(q, u) ==
    /\ HasQuest(q)
    /\ HasSubmission(q, u)
    /\ ValidSubmissionTransition(submissions[<<q, u>>], "Paid")
    /\ quests[q].totalClaims <= MaxQuestClaims

(* submission::validate_claim; the quest's status and deadline play no part *)
ValidClaim(q, u) ==
    /\ HasQuest(q)
    /\ HasSubmission(q, u)
    /\ ValidSubmissionTransition(submissions[<<q, u>>], "Paid")
    /\ quests[q].totalClaims < MaxQuestClaims

(* Mutants: the payout is not recorded, or it is recorded twice.           *)
PayWithoutRecord(q, t, to, amount) ==
    /\ Transfer(t, Contract, to, amount)
    /\ HasEscrow(q) => SufficientEscrow(q, amount)
    /\ poolFlow' = [poolFlow EXCEPT ![t] = IF HasEscrow(q) THEN @ ELSE @ - amount]
    /\ UNCHANGED escrows

PayRecordedTwice(q, t, to, amount) ==
    /\ Transfer(t, Contract, to, amount)
    /\ SufficientEscrow(q, amount)
    /\ escrows' = [escrows EXCEPT ![q].totalPaidOut = @ + 2 * amount]
    /\ UNCHANGED poolFlow

(* payout::transfer_reward_from_escrow: a quest without an escrow record is *)
(* paid from whatever the contract holds of the token.                     *)
TransferRewardFromEscrow(q, t, to, amount) ==
    /\ Transfer(t, Contract, to, amount)
    /\ IF HasEscrow(q)
         THEN /\ SufficientEscrow(q, amount)
              /\ escrows' = [escrows EXCEPT ![q].totalPaidOut = @ + amount]
              /\ UNCHANGED poolFlow
         ELSE /\ poolFlow' = [poolFlow EXCEPT ![t] = @ - amount]
              /\ UNCHANGED escrows

ClaimReward(q, u) ==
    /\ RequireNotPaused
    /\ ValidClaim(q, u)
    /\ TransferRewardFromEscrow(q, quests[q].rewardAsset, u,
                                quests[q].rewardAmount)
    /\ submissions' = [submissions EXCEPT ![<<q, u>>] = "Paid"]
    /\ quests' = [quests EXCEPT ![q].totalClaims = @ + 1]
    /\ AwardXp(u, ClaimXp)
    /\ UNCHANGED emergencyVars

(* Granting a badge the user has changes nothing.                          *)
GrantBadge(caller, u, badge) ==
    /\ RequireNotPaused
    /\ Cardinality(userStats[u].badges) < MaxBadges
    /\ IsAdmin(caller)
    /\ userStats' = [userStats EXCEPT ![u].badges = @ \cup {badge}]
    /\ UNCHANGED <<emergencyVars, quests, submissions, escrows, balances,
                   poolFlow>>

-----------------------------------------------------------------------------
(* Escrow.                                                                 *)

NewEscrow(depositor, t) ==
    [depositor |-> depositor, token |-> t, totalDeposited |-> 0,
     totalPaidOut |-> 0, totalRefunded |-> 0, isActive |-> TRUE]

(* Mutant: any token goes into the quest's escrow.                         *)
AnyToken(q, t) == t \in Tokens

EscrowToken(q, t) == t = quests[q].rewardAsset

DepositEscrow(q, depositor, t, amount) ==
    /\ RequireNotPaused
    /\ ValidAmount(amount)
    /\ HasQuest(q)
    /\ depositor = quests[q].creator
    /\ ~IsQuestTerminal(quests[q].status)
    /\ EscrowToken(q, t)
    /\ Transfer(t, depositor, Contract, amount)
    /\ HasEscrow(q) => escrows[q].isActive
    /\ LET e == IF HasEscrow(q) THEN escrows[q] ELSE NewEscrow(depositor, t)
       IN escrows' = Put(escrows, q, [e EXCEPT !.totalDeposited = @ + amount])
    /\ UNCHANGED <<emergencyVars, quests, submissions, userStats, poolFlow>>

(* Mutants: the record stays open, or the refund is not recorded.          *)
RefundKeepsOpen(q) ==
    LET e == escrows[q]
    IN  /\ IF Available(e) > 0
             THEN Transfer(e.token, Contract, e.depositor, Available(e))
             ELSE UNCHANGED balances
        /\ escrows' = [escrows EXCEPT ![q].totalRefunded = @ + Available(e)]

RefundUnrecorded(q) ==
    LET e == escrows[q]
    IN  /\ IF Available(e) > 0
             THEN Transfer(e.token, Contract, e.depositor, Available(e))
             ELSE UNCHANGED balances
        /\ escrows' = [escrows EXCEPT ![q].isActive = FALSE]

(* Pays what is left to the depositor and closes the record.               *)
RefundRemaining(q) ==
    LET e == escrows[q]
    IN  /\ IF Available(e) > 0
             THEN Transfer(e.token, Contract, e.depositor, Available(e))
             ELSE UNCHANGED balances
        /\ escrows' = [escrows EXCEPT ![q].totalRefunded = @ + Available(e),
                                      ![q].isActive = FALSE]

(* The only caller that cancel_quest and expire_quest accept, although the *)
(* comment above expire_quest names an admin too.                          *)
MayClose(q, caller) == caller = quests[q].creator

(* The common part of cancel_quest and expire_quest.                       *)
CloseQuest(q, caller, status) ==
    /\ RequireNotPaused
    /\ HasQuest(q)
    /\ MayClose(q, caller)
    /\ ~IsQuestTerminal(quests[q].status)
    /\ SetQuestStatus(q, status)
    /\ IF HasEscrow(q) THEN RefundRemaining(q)
                       ELSE UNCHANGED <<escrows, balances>>
    /\ UNCHANGED <<emergencyVars, submissions, userStats, poolFlow>>

CancelQuest(q, caller) == CloseQuest(q, caller, "Cancelled")

ExpireQuest(q, caller) ==
    /\ HasQuest(q)
    /\ now >= quests[q].deadline
    /\ CloseQuest(q, caller, "Expired")

(* Rejected with NoFundsToWithdraw when nothing is left.                   *)
WithdrawUnclaimed(q, caller) ==
    /\ RequireNotPaused
    /\ HasQuest(q)
    /\ caller = quests[q].creator
    /\ IsQuestTerminal(quests[q].status)
    /\ HasEscrow(q)
    /\ IF Available(escrows[q]) > 0
         THEN /\ RefundRemaining(q)
              /\ UNCHANGED <<emergencyVars, quests, submissions, userStats,
                             poolFlow>>
         ELSE UNCHANGED vars

-----------------------------------------------------------------------------
(* Token movements outside the escrow records.                             *)

(* An admin drains the contract while it is paused; no escrow record       *)
(* changes.                                                                *)
EmergencyWithdraw(caller, t, to, amount) ==
    /\ ValidAmount(amount)
    /\ IsAdmin(caller)
    /\ paused
    /\ Transfer(t, Contract, to, amount)
    /\ poolFlow' = [poolFlow EXCEPT ![t] = @ - amount]
    /\ UNCHANGED <<emergencyVars, quests, submissions, escrows, userStats>>

(* Anyone can send tokens straight to the contract: this is how a quest    *)
(* without an escrow record is funded.                                     *)
FundPool(from, t, amount) ==
    /\ amount > 0
    /\ Transfer(t, from, Contract, amount)
    /\ poolFlow' = [poolFlow EXCEPT ![t] = @ + amount]
    /\ UNCHANGED <<emergencyVars, quests, submissions, escrows, userStats>>

-----------------------------------------------------------------------------
Init ==
    /\ ControlInit
    /\ quests = [q \in {} |-> {}]
    /\ submissions = [s \in {} |-> {}]
    /\ escrows = [q \in {} |-> {}]
    /\ userStats = [u \in Addresses |-> NewUserStats]
    /\ balances = [t \in Tokens |-> [a \in Accounts |->
                     IF a \in Creators THEN InitialBalance ELSE 0]]
    /\ poolFlow = [t \in Tokens |-> 0]

(* The terms a creator may offer.                                          *)
OfferedTerms == [rewardAsset : Tokens, rewardAmount : Rewards,
                 verifier : Verifiers, deadline : Deadlines]

QuestNext ==
    \/ \E q \in Quests, c \in Creators, terms \in OfferedTerms :
         RegisterQuest(q, c, terms)
    \/ \E ids \in SUBSET Quests, c \in Creators :
         \E batch \in [ids -> OfferedTerms] : RegisterQuestsBatch(c, batch)
    \/ \E a \in Addresses, q \in Quests :
         PauseQuest(a, q) \/ ResumeQuest(a, q)

SubmissionNext ==
    \/ \E q \in Quests, u \in Submitters :
         \/ SubmitProof(q, u)
         \/ \E v \in Verifiers : ApproveSubmission(q, u, v)
         \/ ClaimReward(q, u)
    \/ \E v \in Verifiers, batch \in SUBSET (Quests \X Submitters) :
         ApproveSubmissionsBatch(v, batch)
    \/ \E a, u \in Addresses, b \in Badges : GrantBadge(a, u, b)

EscrowNext ==
    \/ \E q \in Quests, c \in Addresses :
         \/ \E t \in Tokens, amount \in Deposits : DepositEscrow(q, c, t, amount)
         \/ CancelQuest(q, c)
         \/ ExpireQuest(q, c)
         \/ WithdrawUnclaimed(q, c)
    \/ \E a, to \in Addresses, t \in Tokens, amount \in Deposits :
         EmergencyWithdraw(a, t, to, amount)
    \/ \E from \in Addresses, t \in Tokens, amount \in Deposits :
         FundPool(from, t, amount)

Next ==
    \/ ControlNext /\ UNCHANGED questVars
    \/ QuestNext
    \/ SubmissionNext
    \/ EscrowNext

Spec == Init /\ [][Next]_vars

=============================================================================
