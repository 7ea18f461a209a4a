------------------------------- MODULE MultiSig -------------------------------
(***************************************************************************)
(* The multi-signature wallet of the backend                               *)
(* (BackEnd/src/modules/stellar/multisig): a wallet with its signers, the  *)
(* transactions that need approvals, and one signature row per transaction *)
(* and approver.                                                           *)
(*                                                                         *)
(* Every call loads rows, awaits, and saves the loaded copies, which       *)
(* replace what other calls wrote meanwhile.  An action is the code of one *)
(* call from one await to the next.  Calls that decide about a transaction *)
(* (approve, reject) and calls that edit the wallet have separate slots.   *)
(***************************************************************************)
EXTENDS Naturals, FiniteSets

CONSTANTS
    Signers,     \* addresses that may become signers
    Txs,         \* transaction ids
    Thresholds,  \* thresholds and signer totals callers ask for
    Voters,      \* slots for approvals and rejections in flight
    Editors,     \* slots for the other calls in flight
    MaxFaults    \* bound on failed database calls and restarts

ASSUME MultiSigAssumption ==
    /\ IsFiniteSet(Signers)
    /\ Thresholds \subseteq Nat \ {0}       \* @Min(1) in the DTOs
    /\ MaxFaults \in Nat

VARIABLES
    wallet,      \* the wallet row, or NoWallet
    signers,     \* signer rows by address
    txs,         \* transaction rows by id
    sigs,        \* signature status by transaction and signer
    votes,       \* the approvals and rejections in flight
    edits,       \* the other calls in flight
    consents,    \* history: who ever saved an approval of a transaction
    refusals,    \* history: who ever saved a rejection of it
    disturbed,   \* history: transactions whose decisions overlapped or failed
    faults

vars == <<wallet, signers, txs, sigs, votes, edits, consents, refusals,
          disturbed, faults>>

NoWallet == [threshold |-> 0, totalSigners |-> 0]

Wallet == [threshold : Nat, totalSigners : Nat]

SignerRow == [role : {"APPROVER", "VIEWER"}, status : {"ACTIVE", "REMOVED"}]

Tx == [status : {"PENDING", "APPROVED", "REJECTED"}, threshold : Nat,
       approvals : Nat, rejections : Nat]

NewTx(threshold) == [status |-> "PENDING", threshold |-> threshold,
                     approvals |-> 0, rejections |-> 0]

Idle == [step |-> "idle"]

Deciding(v) == votes[v] # Idle

VoteSteps == {"readSignature", "saveSignature", "saveTransaction", "readSigner",
              "saveSigner", "saveApproved"}

Vote == [step : VoteSteps, kind : {"SIGNED", "REJECTED"}, x : Txs, s : Signers,
         tx : Tx, signer : SignerRow]

(* The vote goes on with another step; the other fields are what it holds. *)
VoteGoes(v, call, step) == votes' = [votes EXCEPT ![v] = [call EXCEPT !.step = step]]

VoteEnds(v) == votes' = [votes EXCEPT ![v] = Idle]

AtVote(v, step) == Deciding(v) /\ votes[v].step = step

-----------------------------------------------------------------------------
(* approveTransaction and rejectTransaction.                               *)

SomeSigner == [role |-> "APPROVER", status |-> "ACTIVE"]

LoadTransaction(v, kind, x, s) ==
    /\ ~Deciding(v)
    /\ x \in DOMAIN txs
    /\ txs[x].status = "PENDING"
    /\ votes' = [votes EXCEPT ![v] =
                   [step |-> "readSignature", kind |-> kind, x |-> x, s |-> s,
                    tx |-> txs[x], signer |-> SomeSigner]]
    /\ disturbed' = IF \E w \in Voters : Deciding(w) /\ votes[w].x = x
                      THEN disturbed \cup {x} ELSE disturbed
    /\ UNCHANGED <<wallet, signers, txs, sigs, edits, consents, refusals, faults>>

(* Mutant: a signature that was already given is accepted again.           *)
ReadSignatureAny(v) ==
    /\ AtVote(v, "readSignature")
    /\ LET c == votes[v]
       IN  IF <<c.x, c.s>> \in DOMAIN sigs
             THEN VoteGoes(v, c, "saveSignature")
             ELSE VoteEnds(v)
    /\ UNCHANGED <<wallet, signers, txs, sigs, edits, consents, refusals,
                   disturbed, faults>>

ReadSignature(v) ==
    /\ AtVote(v, "readSignature")
    /\ LET c == votes[v]
       IN  IF <<c.x, c.s>> \in DOMAIN sigs /\ sigs[<<c.x, c.s>>] = "PENDING"
             THEN VoteGoes(v, c, "saveSignature")
             ELSE VoteEnds(v)
    /\ UNCHANGED <<wallet, signers, txs, sigs, edits, consents, refusals,
                   disturbed, faults>>

SaveSignature(v) ==
    /\ AtVote(v, "saveSignature")
    /\ LET c == votes[v]
       IN  /\ sigs' = [sigs EXCEPT ![<<c.x, c.s>>] = c.kind]
           /\ IF c.kind = "SIGNED"
                THEN /\ consents' = [consents EXCEPT ![c.x] = @ \cup {c.s}]
                     /\ UNCHANGED refusals
                ELSE /\ refusals' = [refusals EXCEPT ![c.x] = @ \cup {c.s}]
                     /\ UNCHANGED consents
           /\ VoteGoes(v, c, "saveTransaction")
    /\ UNCHANGED <<wallet, signers, txs, edits, disturbed, faults>>

(* What a vote makes of the transaction it loaded.                         *)
Counted(tx, kind) ==
    IF kind = "SIGNED"
      THEN [tx EXCEPT !.approvals = tx.approvals + 1]
      ELSE [tx EXCEPT !.rejections = tx.rejections + 1, !.status = "REJECTED"]

SaveTransaction(v) ==
    /\ AtVote(v, "saveTransaction")
    /\ LET c  == votes[v]
           tx == Counted(c.tx, c.kind)
       IN  /\ txs' = [txs EXCEPT ![c.x] = tx]
           /\ VoteGoes(v, [c EXCEPT !.tx = tx], "readSigner")
    /\ UNCHANGED <<wallet, signers, sigs, edits, consents, refusals, disturbed,
                   faults>>

(* Mutant: more approvals are needed than the threshold says.              *)
ThresholdExceeded(tx) == tx.approvals > tx.threshold

ThresholdMet(tx) == tx.approvals >= tx.threshold

(* The end of a vote: an approval compares the count it saved with the     *)
(* threshold.                                                              *)
Decides(v, c) ==
    IF c.kind = "SIGNED" /\ ThresholdMet(c.tx)
      THEN VoteGoes(v, [c EXCEPT !.tx = [c.tx EXCEPT !.status = "APPROVED"]],
                    "saveApproved")
      ELSE VoteEnds(v)

ReadSigner(v) ==
    /\ AtVote(v, "readSigner")
    /\ LET c == votes[v]
       IN  IF c.s \in DOMAIN signers
             THEN VoteGoes(v, [c EXCEPT !.signer = signers[c.s]], "saveSigner")
             ELSE Decides(v, c)
    /\ UNCHANGED <<wallet, signers, txs, sigs, edits, consents, refusals,
                   disturbed, faults>>

(* The statistics of the signer are saved, with the status it was loaded   *)
(* with.                                                                   *)
SaveSigner(v) ==
    /\ AtVote(v, "saveSigner")
    /\ signers' = [signers EXCEPT ![votes[v].s] = votes[v].signer]
    /\ Decides(v, votes[v])
    /\ UNCHANGED <<wallet, txs, sigs, edits, consents, refusals, disturbed, faults>>

SaveApproved(v) ==
    /\ AtVote(v, "saveApproved")
    /\ txs' = [txs EXCEPT ![votes[v].x] = votes[v].tx]
    /\ VoteEnds(v)
    /\ UNCHANGED <<wallet, signers, sigs, edits, consents, refusals, disturbed,
                   faults>>

-----------------------------------------------------------------------------
(* The calls that edit the wallet end with a save of the wallet they       *)
(* loaded.  "s" and "row" are the signer a call works on, "x" and "todo"   *)
(* the transaction it creates and the signature rows it has yet to insert. *)

EditSteps == {"insertWallet", "saveWallet", "readExisting", "insertSigner",
              "saveRemoved", "readWallet", "insertTx", "findApprovers", "insertSigs"}

None == "none"

Edit == [step : EditSteps, wallet : Wallet, s : Signers \cup {None},
         row : SignerRow, x : Txs \cup {None}, todo : SUBSET Signers]

Editing(e) == edits[e] # Idle

AtEdit(e, step) == Editing(e) /\ edits[e].step = step

EditGoes(e, call, step) == edits' = [edits EXCEPT ![e] = [call EXCEPT !.step = step]]

EditEnds(e) == edits' = [edits EXCEPT ![e] = Idle]

Begin(e, step, w, s, row) ==
    /\ ~Editing(e)
    /\ edits' = [edits EXCEPT ![e] = [step |-> step, wallet |-> w, s |-> s,
                                      row |-> row, x |-> None, todo |-> {}]]
    /\ UNCHANGED <<wallet, signers, txs, sigs, votes, consents, refusals,
                   disturbed, faults>>

CreateWallet(e, threshold, total) ==
    /\ wallet = NoWallet
    /\ threshold <= total
    /\ Begin(e, "insertWallet",
             [threshold |-> threshold, totalSigners |-> total], None, SomeSigner)

(* The unique index on organization and address admits one wallet.         *)
InsertWallet(e) ==
    /\ AtEdit(e, "insertWallet")
    /\ wallet' = IF wallet = NoWallet THEN edits[e].wallet ELSE wallet
    /\ EditEnds(e)
    /\ UNCHANGED <<signers, txs, sigs, votes, consents, refusals, disturbed, faults>>

AddSigner(e, s, role) ==
    /\ wallet # NoWallet
    /\ Begin(e, "readExisting", wallet, s, [role |-> role, status |-> "ACTIVE"])

ReadExisting(e) ==
    /\ AtEdit(e, "readExisting")
    /\ LET c == edits[e]
       IN  IF c.s \in DOMAIN signers /\ signers[c.s].status # "REMOVED"
             THEN EditEnds(e)
             ELSE EditGoes(e, c, "insertSigner")
    /\ UNCHANGED <<wallet, signers, txs, sigs, votes, consents, refusals,
                   disturbed, faults>>

(* A signer that was removed keeps its row, and the unique index on wallet *)
(* and address refuses a second one.                                       *)
InsertSigner(e) ==
    /\ AtEdit(e, "insertSigner")
    /\ LET c == edits[e]
       IN  IF c.s \in DOMAIN signers
             THEN EditEnds(e) /\ UNCHANGED signers
             ELSE /\ signers' = [s \in DOMAIN signers \cup {c.s} |->
                                   IF s = c.s THEN c.row ELSE signers[s]]
                  /\ EditGoes(e, c, "saveWallet")
    /\ UNCHANGED <<wallet, txs, sigs, votes, consents, refusals, disturbed, faults>>

RemoveSigner(e, s) ==
    /\ s \in DOMAIN signers
    /\ Begin(e, "saveRemoved", wallet, s, [signers[s] EXCEPT !.status = "REMOVED"])

SaveRemoved(e) ==
    /\ AtEdit(e, "saveRemoved")
    /\ signers' = [signers EXCEPT ![edits[e].s] = edits[e].row]
    /\ EditGoes(e, edits[e], "readWallet")
    /\ UNCHANGED <<wallet, txs, sigs, votes, consents, refusals, disturbed, faults>>

ReadWallet(e) ==
    /\ AtEdit(e, "readWallet")
    /\ EditGoes(e, [edits[e] EXCEPT !.wallet = wallet], "saveWallet")
    /\ UNCHANGED <<wallet, signers, txs, sigs, votes, consents, refusals,
                   disturbed, faults>>

(* Mutant: the new threshold is not compared with the number of signers.   *)
UpdateThresholdUnchecked(e, threshold) ==
    /\ wallet # NoWallet
    /\ Begin(e, "saveWallet", [wallet EXCEPT !.threshold = threshold], None,
             SomeSigner)

UpdateThreshold(e, threshold) ==
    /\ wallet # NoWallet
    /\ threshold <= wallet.totalSigners
    /\ Begin(e, "saveWallet", [wallet EXCEPT !.threshold = threshold], None,
             SomeSigner)

CreateTransaction(e) ==
    /\ wallet # NoWallet
    /\ Begin(e, "insertTx", wallet, None, SomeSigner)

(* The transaction keeps the threshold of the wallet as it was loaded.     *)
InsertTx(e) ==
    /\ AtEdit(e, "insertTx")
    /\ \E x \in Txs \ DOMAIN txs :
         /\ txs' = [y \in DOMAIN txs \cup {x} |->
                      IF y = x THEN NewTx(edits[e].wallet.threshold) ELSE txs[y]]
         /\ EditGoes(e, [edits[e] EXCEPT !.x = x], "findApprovers")
    /\ UNCHANGED <<wallet, signers, sigs, votes, consents, refusals, disturbed,
                   faults>>

Approvers == {s \in DOMAIN signers : signers[s].status = "ACTIVE"
                                     /\ signers[s].role = "APPROVER"}

FindApprovers(e) ==
    /\ AtEdit(e, "findApprovers")
    /\ EditGoes(e, [edits[e] EXCEPT !.todo = Approvers], "insertSigs")
    /\ UNCHANGED <<wallet, signers, txs, sigs, votes, consents, refusals,
                   disturbed, faults>>

(* One signature row per save; after the last one the wallet is saved as   *)
(* it was loaded, with a count of its transactions that nothing reads.     *)
InsertSigs(e) ==
    /\ AtEdit(e, "insertSigs")
    /\ LET c == edits[e]
       IN  IF c.todo = {}
             THEN EditGoes(e, c, "saveWallet") /\ UNCHANGED sigs
             ELSE \E s \in c.todo :
                    /\ sigs' = [p \in DOMAIN sigs \cup {<<c.x, s>>} |->
                                  IF p = <<c.x, s>> THEN "PENDING" ELSE sigs[p]]
                    /\ EditGoes(e, [c EXCEPT !.todo = c.todo \ {s}], "insertSigs")
    /\ UNCHANGED <<wallet, signers, txs, votes, consents, refusals, disturbed, faults>>

SaveWallet(e) ==
    /\ AtEdit(e, "saveWallet")
    /\ wallet' = edits[e].wallet
    /\ EditEnds(e)
    /\ UNCHANGED <<signers, txs, sigs, votes, consents, refusals, disturbed, faults>>

-----------------------------------------------------------------------------
(* Faults: a database call of one request fails, or the process restarts.  *)

VoteFails(v) ==
    /\ faults < MaxFaults
    /\ Deciding(v)
    /\ VoteEnds(v)
    /\ disturbed' = disturbed \cup {votes[v].x}
    /\ faults' = faults + 1
    /\ UNCHANGED <<wallet, signers, txs, sigs, edits, consents, refusals>>

EditFails(e) ==
    /\ faults < MaxFaults
    /\ Editing(e)
    /\ EditEnds(e)
    /\ faults' = faults + 1
    /\ UNCHANGED <<wallet, signers, txs, sigs, votes, consents, refusals, disturbed>>

Restart ==
    /\ faults < MaxFaults
    /\ votes' = [v \in Voters |-> Idle]
    /\ edits' = [e \in Editors |-> Idle]
    /\ disturbed' = disturbed \cup {votes[v].x : v \in {w \in Voters : Deciding(w)}}
    /\ faults' = faults + 1
    /\ UNCHANGED <<wallet, signers, txs, sigs, consents, refusals>>

-----------------------------------------------------------------------------
Init ==
    /\ wallet = NoWallet
    /\ signers = [s \in {} |-> SomeSigner]
    /\ txs = [x \in {} |-> NewTx(1)]
    /\ sigs = [p \in {} |-> "PENDING"]
    /\ votes = [v \in Voters |-> Idle]
    /\ edits = [e \in Editors |-> Idle]
    /\ consents = [x \in Txs |-> {}]
    /\ refusals = [x \in Txs |-> {}]
    /\ disturbed = {}
    /\ faults = 0

VoteStep(v) ==
    \/ ReadSignature(v)
    \/ SaveSignature(v)
    \/ SaveTransaction(v)
    \/ ReadSigner(v)
    \/ SaveSigner(v)
    \/ SaveApproved(v)

EditBegins(e) ==
    \/ \E threshold \in Thresholds :
         \/ \E total \in Thresholds : CreateWallet(e, threshold, total)
         \/ UpdateThreshold(e, threshold)
    \/ \E s \in Signers :
         \/ \E role \in {"APPROVER", "VIEWER"} : AddSigner(e, s, role)
         \/ RemoveSigner(e, s)
    \/ CreateTransaction(e)

EditStep(e) ==
    \/ InsertWallet(e)
    \/ ReadExisting(e)
    \/ InsertSigner(e)
    \/ SaveRemoved(e)
    \/ ReadWallet(e)
    \/ InsertTx(e)
    \/ FindApprovers(e)
    \/ InsertSigs(e)
    \/ SaveWallet(e)

Next ==
    \/ \E v \in Voters :
         \/ \E kind \in {"SIGNED", "REJECTED"}, x \in Txs, s \in Signers :
              LoadTransaction(v, kind, x, s)
         \/ VoteStep(v)
         \/ VoteFails(v)
    \/ \E e \in Editors : EditBegins(e) \/ EditStep(e) \/ EditFails(e)
    \/ Restart

Spec == Init /\ [][Next]_vars

-----------------------------------------------------------------------------
(* Rows and calls have their types; signature rows and calls refer to rows *)
(* that exist; no wallet, loaded or stored, asks for more signatures than  *)
(* it has signers (multisig-wallet.service.ts:53, 189).                    *)
Fits(w) == w.threshold <= w.totalSigners

MultiSigTypeOK ==
    /\ wallet \in Wallet /\ Fits(wallet)
    /\ DOMAIN signers \subseteq Signers /\ signers \in [DOMAIN signers -> SignerRow]
    /\ DOMAIN txs \subseteq Txs /\ txs \in [DOMAIN txs -> Tx]
    /\ DOMAIN sigs \subseteq (DOMAIN txs) \X (DOMAIN signers)
    /\ sigs \in [DOMAIN sigs -> {"PENDING", "SIGNED", "REJECTED"}]
    /\ votes \in [Voters -> {Idle} \cup Vote]
    /\ \A v \in Voters : Deciding(v) => votes[v].x \in DOMAIN txs
    /\ edits \in [Editors -> {Idle} \cup Edit]
    /\ \A e \in Editors : Editing(e) => Fits(edits[e].wallet)
    /\ consents \in [Txs -> SUBSET Signers]
    /\ refusals \in [Txs -> SUBSET Signers]
    /\ disturbed \subseteq Txs
    /\ faults \in 0..MaxFaults

(* However approvals and rejections overwrite each other, a transaction is *)
(* approved only when as many different signers as its threshold asks for  *)
(* approved it, and rejected only when one of them did                     *)
(* (multisig-wallet.service.ts:319-359, 412-420): the counter never counts *)
(* one signer twice, although signature and counter are separate rows.     *)
DecisionIsBacked ==
    \A x \in DOMAIN txs :
        /\ txs[x].approvals <= Cardinality(consents[x])
        /\ txs[x].status = "APPROVED" =>
             Cardinality(consents[x]) >= txs[x].threshold
        /\ txs[x].status = "REJECTED" => refusals[x] # {}

(* Only overlapping or failing calls lose an approval: otherwise, once no  *)
(* call is in flight, every approval is counted, the transaction is        *)
(* approved as soon as the threshold is met, and a rejection is final      *)
(* (multisig-wallet.service.ts:324-359).                                   *)
UndisturbedIsExact ==
    \A x \in DOMAIN txs \ disturbed :
        (\A v \in Voters : Deciding(v) => votes[v].x # x) =>
            /\ txs[x].approvals = Cardinality(consents[x])
            /\ txs[x].rejections = Cardinality(refusals[x])
            /\ txs[x].status = IF refusals[x] # {} THEN "REJECTED"
                               ELSE IF Cardinality(consents[x]) >= txs[x].threshold
                                 THEN "APPROVED" ELSE "PENDING"

(* The wallet's transactions implement QuorumVote: saving a signature row  *)
(* is the decision, saving the transaction shows it                        *)
(* (multisig-wallet.service.ts:300-359, 388-420).                          *)
Polls == [x \in DOMAIN txs |-> [status |-> txs[x].status,
                                threshold |-> txs[x].threshold]]

Quorum == INSTANCE QuorumVote WITH polls <- Polls, roll <- DOMAIN sigs

ImplementsQuorum == Quorum!QuorumSpec

=============================================================================
