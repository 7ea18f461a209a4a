------------------------ MODULE EarnQuestProperties ------------------------
(***************************************************************************)
(* What the earn-quest contract has to guarantee about quests, escrow      *)
(* records, token balances and rewards, and what its documents say of it.  *)
(***************************************************************************)
EXTENDS EarnQuest, Functions

QuestTypeOK ==
    /\ DOMAIN quests \subseteq Quests
    /\ quests \in [DOMAIN quests -> Quest]
    /\ DOMAIN submissions \subseteq (DOMAIN quests) \X Addresses
    /\ submissions \in [DOMAIN submissions -> SubmissionStatus]
    /\ DOMAIN escrows \subseteq DOMAIN quests
    /\ escrows \in [DOMAIN escrows -> EscrowInfo]
    /\ userStats \in [Addresses -> UserStats]
    /\ balances \in [Tokens -> [Accounts -> Nat]]
    /\ poolFlow \in [Tokens -> Int]

(* Every variable has its type; in particular no balance, counter or       *)
(* escrow total is ever negative, and submissions and escrow records       *)
(* belong to registered quests.                                            *)
TypeOK == ControlTypeOK /\ QuestTypeOK

(* The escrow record of a quest names the quest's creator and its reward   *)
(* asset, and is open exactly as long as the quest is not terminal:        *)
(* cancel_quest and expire_quest close it in the same call, and            *)
(* deposit_escrow never opens one for a quest that has ended.              *)
EscrowFollowsQuest ==
    \A q \in DOMAIN escrows :
        /\ escrows[q].depositor = quests[q].creator
        /\ escrows[q].token = quests[q].rewardAsset
        /\ escrows[q].isActive <=> ~IsQuestTerminal(quests[q].status)

(* No record pays out or refunds more than was deposited, refunds happen   *)
(* only once, at the close, and leave nothing behind (so withdraw_unclaimed *)
(* never finds anything to withdraw).                                      *)
EscrowAccounting ==
    \A q \in DOMAIN escrows :
        /\ Available(escrows[q]) >= 0
        /\ escrows[q].isActive => escrows[q].totalRefunded = 0
        /\ ~escrows[q].isActive => Available(escrows[q]) = 0

(* The tokens recorded as paid out of an escrow are whole rewards, at most *)
(* one for each claim the quest has counted.                               *)
PayoutsWithinClaims ==
    \A q \in DOMAIN escrows :
        \E n \in 0..quests[q].totalClaims :
            escrows[q].totalPaidOut = n * quests[q].rewardAmount

(* For each token, what the contract holds is what its escrow records say  *)
(* is available plus the net flow that bypassed the records.               *)
BalanceBacksEscrows ==
    LET availableOf == [q \in DOMAIN escrows |-> Available(escrows[q])]
    IN  \A t \in Tokens :
          balances[t][Contract] =
            poolFlow[t] + SumFunctionOnSet(availableOf,
                              {q \in DOMAIN escrows : escrows[q].token = t})

(* Every claim a quest counts is credited to exactly one user.             *)
ClaimsCredited ==
    SumFunction([u \in Addresses |-> userStats[u].questsCompleted]) =
    SumFunction([q \in DOMAIN quests |-> quests[q].totalClaims])

(* Claims and badge grants rewrite one record, and neither loses what the  *)
(* other wrote: the experience points and the level always follow from the *)
(* number of completed quests, and the badges stay within their limit.     *)
StatsConsistent ==
    \A u \in Addresses :
        /\ userStats[u].xp = ClaimXp * userStats[u].questsCompleted
        /\ userStats[u].level = CalculateLevel(userStats[u].xp)
        /\ Cardinality(userStats[u].badges) <= MaxBadges

(* Nobody's proof is approved by themselves: an approved or paid           *)
(* submission is never the verifier's own.                                 *)
NoSelfApproval ==
    \A s \in DOMAIN submissions :
        submissions[s] \in {"Approved", "Paid"} =>
            s[2] # quests[s[1]].verifier

(* A quest never counts more claims than the limit, and at least one for   *)
(* each submission that stands as paid.                                    *)
PaidAreCounted ==
    \A q \in DOMAIN quests :
        /\ quests[q].totalClaims <= MaxQuestClaims
        /\ Cardinality({s \in DOMAIN submissions :
                          s[1] = q /\ submissions[s] = "Paid"})
             <= quests[q].totalClaims

-----------------------------------------------------------------------------
(* The three ways tokens leave the contract.                               *)

Outflow(t) == balances[t][Contract] - balances'[t][Contract]

RewardPaid(t) ==
    \E s \in DOMAIN submissions :
        /\ submissions[s] = "Approved" /\ submissions'[s] = "Paid"
        /\ quests[s[1]].rewardAsset = t
        /\ Outflow(t) = quests[s[1]].rewardAmount
        /\ balances'[t][s[2]] = balances[t][s[2]] + Outflow(t)

EscrowRefunded(t) ==
    \E q \in DOMAIN escrows :
        /\ escrows[q].isActive /\ ~escrows'[q].isActive
        /\ escrows[q].token = t
        /\ Outflow(t) = Available(escrows[q])
        /\ balances'[t][quests[q].creator] =
             balances[t][quests[q].creator] + Outflow(t)
        /\ IsQuestTerminal(quests'[q].status)

EmergencyDrain == paused /\ UNCHANGED <<quests, submissions, escrows, userStats>>

(* Tokens leave the contract only as the reward of a submission that was   *)
(* approved and is now paid, as the refund of the whole remainder to the   *)
(* creator of a quest that ends in the same call, or as an emergency       *)
(* withdrawal during a pause.                                              *)
OutflowJustified ==
    [][\A t \in Tokens : Outflow(t) > 0 =>
          RewardPaid(t) \/ EscrowRefunded(t) \/ EmergencyDrain]_vars

(* While the contract is paused no quest, submission, escrow record, user  *)
(* statistic or admin flag changes: require_not_paused guards every call   *)
(* but the emergency ones.                                                 *)
PausedFreezes ==
    [][paused => UNCHANGED <<quests, submissions, escrows, userStats, admins>>]_vars

(* A quest that was completed, cancelled or expired stays so, and its      *)
(* escrow record never changes again.                                      *)
TerminalIsFinal ==
    [][\A q \in DOMAIN quests : IsQuestTerminal(quests[q].status) =>
          /\ quests'[q].status = quests[q].status
          /\ (HasEscrow(q)' <=> HasEscrow(q))
          /\ HasEscrow(q) => escrows'[q] = escrows[q]]_vars

-----------------------------------------------------------------------------
(* The escrow seen from outside.                                           *)

LedgerTerms ==
    [q \in DOMAIN quests |-> [owner |-> quests[q].creator,
                              asset |-> quests[q].rewardAsset]]

LedgerClosed == {q \in DOMAIN quests : IsQuestTerminal(quests[q].status)}

LedgerHeld ==
    [q \in Quests |-> IF HasEscrow(q) THEN Available(escrows[q]) ELSE 0]

Ledger == INSTANCE EscrowLedger WITH
            Users <- Addresses, terms <- LedgerTerms, closed <- LedgerClosed,
            held <- LedgerHeld, wallets <- balances, pool <- poolFlow

(* The contract implements the escrow ledger: deposit, pay, refund and     *)
(* close change the record of one quest and move exactly that amount of    *)
(* its asset, in one call (escrow.rs, payout.rs), and whatever the other   *)
(* calls do, a closed account stays closed and empty.                      *)
ImplementsLedger == Ledger!LedgerSpec

-----------------------------------------------------------------------------
(* What the documents say and the code does not do.                        *)

(* README.md:142-143: the verifier approves with approve_submission.       *)
VerifierCanApprove ==
    \A s \in DOMAIN submissions :
        LET v == quests[s[1]].verifier
        IN  RequireNotPaused /\ Approvable(s[1], s[2], v) =>
                CanApproveSubmission(s[1], s[2], v)

=============================================================================
