------------------------------ MODULE QuorumVote ------------------------------
(***************************************************************************)
(* What the multi-signature wallet promises about its transactions,        *)
(* without wallets, signers' rows, counters and loaded copies: a poll has  *)
(* a fixed threshold and a roll of those who may decide; it is approved    *)
(* only by a quorum and rejected only by a refusal; and unless it was      *)
(* disturbed it is decided once, nobody decides twice, and nothing is      *)
(* heard any more afterwards.                                              *)
(***************************************************************************)
EXTENDS Naturals, FiniteSets

CONSTANTS Txs, Signers

VARIABLES
    polls,       \* the open and decided polls by transaction
    roll,        \* who may decide on what
    consents,    \* transaction -> who approved
    refusals,    \* transaction -> who rejected
    disturbed    \* transactions whose decisions overlapped or failed

quorumVars == <<polls, roll, consents, refusals, disturbed>>

Poll == [status : {"PENDING", "APPROVED", "REJECTED"}, threshold : Nat \ {0}]

Calm(x) == x \notin disturbed

Backed(x, status) ==
    /\ status = "APPROVED" => /\ Cardinality(consents[x]) >= polls[x].threshold
                              /\ Calm(x) => refusals[x] = {}
    /\ status = "REJECTED" => refusals[x] # {}

QuorumInit ==
    /\ polls \in [{} -> Poll]
    /\ roll = {}
    /\ consents = [x \in Txs |-> {}]
    /\ refusals = [x \in Txs |-> {}]
    /\ disturbed = {}

Open(x) ==
    /\ x \notin DOMAIN polls
    /\ polls' \in [DOMAIN polls \cup {x} -> Poll]
    /\ polls'[x].status = "PENDING"
    /\ \A y \in DOMAIN polls : polls'[y] = polls[y]
    /\ UNCHANGED <<roll, consents, refusals, disturbed>>

Enrol(x, s) ==
    /\ x \in DOMAIN polls
    /\ <<x, s>> \notin roll
    /\ roll' = roll \cup {<<x, s>>}
    /\ UNCHANGED <<polls, consents, refusals, disturbed>>

MayDecide(x, s) ==
    /\ <<x, s>> \in roll
    /\ Calm(x) => /\ polls[x].status = "PENDING"
                  /\ s \notin consents[x] \cup refusals[x]

Consent(x, s) ==
    /\ MayDecide(x, s)
    /\ consents' = [consents EXCEPT ![x] = @ \cup {s}]
    /\ UNCHANGED <<polls, roll, refusals, disturbed>>

Refuse(x, s) ==
    /\ MayDecide(x, s)
    /\ refusals' = [refusals EXCEPT ![x] = @ \cup {s}]
    /\ UNCHANGED <<polls, roll, consents, disturbed>>

(* A poll shows what has been decided.                                     *)
Show(x, status) ==
    /\ x \in DOMAIN polls
    /\ Calm(x) => polls[x].status = "PENDING"
    /\ Backed(x, status)
    /\ polls' = [polls EXCEPT ![x].status = status]
    /\ UNCHANGED <<roll, consents, refusals, disturbed>>

Disturb ==
    /\ \E X \in SUBSET DOMAIN polls : disturbed' = disturbed \cup X
    /\ UNCHANGED <<polls, roll, consents, refusals>>

QuorumNext ==
    \/ \E x \in Txs :
          \/ Open(x)
          \/ \E s \in Signers : Enrol(x, s) \/ Consent(x, s) \/ Refuse(x, s)
          \/ \E status \in {"PENDING", "APPROVED", "REJECTED"} : Show(x, status)
    \/ Disturb

QuorumSpec == QuorumInit /\ [][QuorumNext]_quorumVars

=============================================================================
