---------------------------- MODULE EscrowLedger ----------------------------
(***************************************************************************)
(* What the escrow of a contract promises, without submissions, claims,    *)
(* pauses or time: each quest has an account that its owner fills in the   *)
(* quest's asset, that pays out at most what it holds, and that is closed  *)
(* once, when everything left goes back to the owner.  Every change of an  *)
(* account moves exactly that amount of exactly that asset, and no account *)
(* changes when other tokens move.  Both versions of the contract          *)
(* implement it.                                                           *)
(***************************************************************************)
EXTENDS Integers

CONSTANTS Quests, Tokens, Users, Contract

VARIABLES
    terms,     \* quests that exist: id -> owner and asset
    closed,    \* quests whose account is closed
    held,      \* quest -> what its account holds
    wallets,   \* token -> account -> amount
    pool       \* token -> net flow into the contract outside the accounts

ledgerVars == <<terms, closed, held, wallets, pool>>

Terms == [owner : Users, asset : Tokens]

LedgerInit ==
    /\ terms = [q \in {} |-> {}]
    /\ closed = {}
    /\ held = [q \in Quests |-> 0]
    /\ wallets \in [Tokens -> [Users \cup {Contract} -> Nat]]
    /\ \A t \in Tokens : wallets[t][Contract] = 0
    /\ pool = [t \in Tokens |-> 0]

Move(t, from, to, amount) ==
    /\ wallets[t][from] >= amount
    /\ wallets' = [wallets EXCEPT ![t][from] = wallets[t][from] - amount,
                                  ![t][to] = wallets[t][to] + amount]

(* One or more new quests, whose terms never change afterwards. *)
Register ==
    /\ DOMAIN terms \subseteq DOMAIN terms'
    /\ DOMAIN terms' \subseteq Quests
    /\ terms' \in [DOMAIN terms' -> Terms]
    /\ \A q \in DOMAIN terms : terms'[q] = terms[q]
    /\ UNCHANGED <<closed, held, wallets, pool>>

Deposit(q, amount) ==
    /\ q \notin closed
    /\ amount > 0
    /\ Move(terms[q].asset, terms[q].owner, Contract, amount)
    /\ held' = [held EXCEPT ![q] = held[q] + amount]
    /\ UNCHANGED <<terms, closed, pool>>

(* A payment that empties the account may be its last.                     *)
Pay(q, user, amount) ==
    /\ q \notin closed
    /\ amount \in 0..held[q]
    /\ Move(terms[q].asset, Contract, user, amount)
    /\ held' = [held EXCEPT ![q] = held[q] - amount]
    /\ \/ closed' = closed
       \/ amount = held[q] /\ closed' = closed \cup {q}
    /\ UNCHANGED <<terms, pool>>

Close(q) ==
    /\ q \notin closed
    /\ Move(terms[q].asset, Contract, terms[q].owner, held[q])
    /\ held' = [held EXCEPT ![q] = 0]
    /\ closed' = closed \cup {q}
    /\ UNCHANGED <<terms, pool>>

Fund(t, user, amount) ==
    /\ amount > 0
    /\ Move(t, user, Contract, amount)
    /\ pool' = [pool EXCEPT ![t] = pool[t] + amount]
    /\ UNCHANGED <<terms, closed, held>>

Drain(t, user, amount) ==
    /\ amount >= 0
    /\ Move(t, Contract, user, amount)
    /\ pool' = [pool EXCEPT ![t] = pool[t] - amount]
    /\ UNCHANGED <<terms, closed, held>>

(* The amounts are what the account or the pool gains or loses in the step. *)
LedgerNext ==
    \/ Register
    \/ \E q \in DOMAIN terms :
         \/ Deposit(q, held'[q] - held[q])
         \/ \E u \in Users : Pay(q, u, held[q] - held'[q])
         \/ Close(q)
    \/ \E t \in Tokens, u \in Users :
         \/ Fund(t, u, pool'[t] - pool[t])
         \/ Drain(t, u, pool[t] - pool'[t])

LedgerSpec == LedgerInit /\ [][LedgerNext]_ledgerVars

=============================================================================
