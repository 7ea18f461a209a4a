--------------------------- MODULE MultiSigProofs ---------------------------
(***************************************************************************)
(* Proofs about MultiSig for any sets of signers, transactions and calls   *)
(* in flight.  The inductive invariant says what a vote knows at each of   *)
(* its steps about the consents saved so far, although the rows it saves   *)
(* may be older than those it overwrites.                                  *)
(***************************************************************************)
EXTENDS MultiSig, FiniteSetTheorems, TLAPS

(* What only grows: the rows that exist and who has ever decided.          *)
Worlds == [txs : SUBSET Txs, signers : SUBSET Signers,
           sigs : SUBSET (Txs \X Signers),
           consents : [Txs -> SUBSET Signers], refusals : [Txs -> SUBSET Signers]]

World == [txs |-> DOMAIN txs, signers |-> DOMAIN signers, sigs |-> DOMAIN sigs,
          consents |-> consents, refusals |-> refusals]

Extends(w, u) ==
    /\ w.txs \subseteq u.txs
    /\ w.signers \subseteq u.signers
    /\ w.sigs \subseteq u.sigs
    /\ \A x \in Txs : /\ w.consents[x] \subseteq u.consents[x]
                      /\ w.refusals[x] \subseteq u.refusals[x]

(* The decisions a transaction row shows have been made.                   *)
TxBacked(tx, x, w) ==
    /\ tx.approvals <= Cardinality(w.consents[x])
    /\ tx.status = "APPROVED" => Cardinality(w.consents[x]) >= tx.threshold
    /\ tx.status = "REJECTED" => w.refusals[x] # {}

(* What a vote holds: before its signature is saved, the consents of the   *)
(* others cover the approvals it has loaded; then its own comes on top.    *)
VoteSound(c, w) ==
    /\ c \in Vote
    /\ c.x \in w.txs
    /\ TxBacked(c.tx, c.x, w)
    /\ c.step \in {"readSignature", "saveSignature", "saveTransaction"} =>
           c.tx.status = "PENDING"
    /\ c.step = "saveSignature" =>
           /\ <<c.x, c.s>> \in w.sigs
           /\ c.tx.approvals <= Cardinality(w.consents[c.x] \ {c.s})
    /\ c.step = "saveTransaction" =>
           IF c.kind = "SIGNED"
             THEN c.tx.approvals + 1 <= Cardinality(w.consents[c.x])
             ELSE w.refusals[c.x] # {}
    /\ c.step = "saveSigner" => c.s \in w.signers

EditSound(c, w) ==
    /\ c \in Edit
    /\ Fits(c.wallet)
    /\ c.step \in {"readExisting", "insertSigner"} => c.s \in Signers
    /\ c.step = "saveRemoved" => c.s \in w.signers
    /\ c.step \in {"findApprovers", "insertSigs"} => c.x \in w.txs
    /\ c.todo \subseteq w.signers

VotesSound ==
    /\ votes \in [Voters -> {Idle} \cup Vote]
    /\ \A v \in Voters : Deciding(v) => VoteSound(votes[v], World)

EditsSound ==
    /\ edits \in [Editors -> {Idle} \cup Edit]
    /\ \A e \in Editors : Editing(e) => EditSound(edits[e], World)

(* A call that is creating the signature rows of its transaction.          *)
Creating(e) == Editing(e) /\ edits[e].step \in {"findApprovers", "insertSigs"}

(* Every transaction has one creator, and the rows it has still to insert  *)
(* do not exist.                                                           *)
CreatorsFresh ==
    \A e \in Editors : Creating(e) =>
        /\ \A f \in Editors : Creating(f) /\ edits[f].x = edits[e].x => f = e
        /\ \A s \in Signers :
             edits[e].step = "findApprovers" \/ s \in edits[e].todo =>
                 <<edits[e].x, s>> \notin DOMAIN sigs

(* Rows have their types, transactions are backed, and whoever consented   *)
(* has a signature row that is no longer pending.                          *)
RowsSound ==
    /\ wallet \in Wallet /\ Fits(wallet)
    /\ DOMAIN signers \subseteq Signers /\ signers \in [DOMAIN signers -> SignerRow]
    /\ DOMAIN txs \subseteq Txs /\ txs \in [DOMAIN txs -> Tx]
    /\ DOMAIN sigs \subseteq (DOMAIN txs) \X (DOMAIN signers)
    /\ sigs \in [DOMAIN sigs -> {"PENDING", "SIGNED", "REJECTED"}]
    /\ consents \in [Txs -> SUBSET Signers]
    /\ refusals \in [Txs -> SUBSET Signers]
    /\ \A x \in DOMAIN txs : TxBacked(txs[x], x, World)
    /\ \A x \in Txs : \A s \in consents[x] :
           <<x, s>> \in DOMAIN sigs /\ sigs[<<x, s>>] # "PENDING"

CountsSound == disturbed \subseteq Txs /\ faults \in 0..MaxFaults

MultiSigInv ==
    RowsSound /\ VotesSound /\ EditsSound /\ CreatorsFresh /\ CountsSound

-----------------------------------------------------------------------------
(* Worlds.                                                                 *)

LEMMA WorldType ==
  ASSUME RowsSound
  PROVE  World \in Worlds
  BY DEF RowsSound, World, Worlds

(* Sets of signers are finite, and larger sets count more.                 *)
LEMMA SignerSets ==
  ASSUME NEW A \in SUBSET Signers
  PROVE  /\ IsFiniteSet(A) /\ Cardinality(A) \in Nat
         /\ \A B \in SUBSET A : Cardinality(B) \in Nat /\ Cardinality(B) <= Cardinality(A)
         /\ \A s \in A : Cardinality(A) = Cardinality(A \ {s}) + 1
  <1>1. IsFiniteSet(A) /\ Cardinality(A) \in Nat
    BY MultiSigAssumption, FS_Subset, FS_CardinalityType DEF MultiSigAssumption
  <1>2. \A B \in SUBSET A : Cardinality(B) \in Nat /\ Cardinality(B) <= Cardinality(A)
    BY <1>1, FS_Subset, FS_CardinalityType
  <1>3. ASSUME NEW s \in A PROVE Cardinality(A) = Cardinality(A \ {s}) + 1
    <2>1. Cardinality(A \ {s}) = Cardinality(A) - 1
      BY <1>1, FS_RemoveElement
    <2> QED
      BY <1>1, <2>1
  <1> QED
    BY <1>1, <1>2, <1>3

LEMMA ExtendsReflexive ==
  ASSUME NEW w PROVE Extends(w, w)
  BY DEF Extends

LEMMA TxBackedGrows ==
  ASSUME NEW w \in Worlds, NEW u \in Worlds, Extends(w, u),
         NEW x \in Txs, NEW tx \in Tx, TxBacked(tx, x, w)
  PROVE  TxBacked(tx, x, u)
  <1>1. w.consents[x] \subseteq u.consents[x] /\ u.consents[x] \in SUBSET Signers
        /\ w.refusals[x] \subseteq u.refusals[x]
    BY DEF Extends, Worlds
  <1>2. Cardinality(w.consents[x]) <= Cardinality(u.consents[x])
        /\ Cardinality(u.consents[x]) \in Nat /\ Cardinality(w.consents[x]) \in Nat
    BY <1>1, SignerSets
  <1> QED
    BY <1>1, <1>2 DEF TxBacked, Tx

LEMMA VoteSoundGrows ==
  ASSUME NEW w \in Worlds, NEW u \in Worlds, Extends(w, u),
         NEW c, VoteSound(c, w)
  PROVE  VoteSound(c, u)
  <1>1. c \in Vote /\ c.x \in Txs /\ c.s \in Signers /\ c.tx \in Tx
        /\ c.tx.approvals \in Nat
    BY DEF VoteSound, Vote, Tx
  <1>2. c.x \in u.txs /\ w.sigs \subseteq u.sigs /\ w.signers \subseteq u.signers
    BY DEF VoteSound, Extends
  <1>3. TxBacked(c.tx, c.x, u)
    BY <1>1, TxBackedGrows DEF VoteSound
  <1>4. /\ w.consents[c.x] \subseteq u.consents[c.x]
        /\ u.consents[c.x] \in SUBSET Signers
        /\ w.refusals[c.x] \subseteq u.refusals[c.x]
    BY <1>1 DEF Extends, Worlds
  <1>5. /\ Cardinality(w.consents[c.x]) <= Cardinality(u.consents[c.x])
        /\ Cardinality(w.consents[c.x]) \in Nat /\ Cardinality(u.consents[c.x]) \in Nat
    BY <1>4, SignerSets
  <1>6. /\ Cardinality(w.consents[c.x] \ {c.s}) <= Cardinality(u.consents[c.x] \ {c.s})
        /\ Cardinality(w.consents[c.x] \ {c.s}) \in Nat
        /\ Cardinality(u.consents[c.x] \ {c.s}) \in Nat
    <2>1. /\ u.consents[c.x] \ {c.s} \in SUBSET Signers
          /\ w.consents[c.x] \ {c.s} \in SUBSET (u.consents[c.x] \ {c.s})
      BY <1>4
    <2> QED
      BY <2>1, SignerSets
  <1> QED
    BY <1>1, <1>2, <1>3, <1>4, <1>5, <1>6 DEF VoteSound

LEMMA EditSoundGrows ==
  ASSUME NEW w, NEW u, Extends(w, u), NEW c, EditSound(c, w)
  PROVE  EditSound(c, u)
  BY DEF Extends, EditSound

-----------------------------------------------------------------------------
(* Calls in flight.                                                        *)

(* Votes stay sound when the world grows and one of them goes on soundly   *)
(* or ends.                                                                *)
LEMMA VotesGo ==
  ASSUME VotesSound, World \in Worlds, World' \in Worlds, Extends(World, World'),
         NEW v \in Voters, NEW r,
         votes' = [votes EXCEPT ![v] = r],
         r = Idle \/ VoteSound(r, World')
  PROVE  VotesSound'
  <1>1. r \in {Idle} \cup Vote
    BY DEF VoteSound
  <1>2. votes' \in [Voters -> {Idle} \cup Vote]
    BY <1>1 DEF VotesSound
  <1>3. ASSUME NEW y \in Voters, Deciding(y)' PROVE VoteSound(votes[y], World)'
    <2>1. CASE y = v
      BY <2>1, <1>3 DEF Deciding, VotesSound
    <2>2. CASE y # v
      <3>1. votes'[y] = votes[y] /\ Deciding(y)
        BY <2>2, <1>3 DEF Deciding, VotesSound
      <3>2. VoteSound(votes[y], World)
        BY <3>1 DEF VotesSound
      <3>3. VoteSound(votes[y], World')
        BY <3>2, VoteSoundGrows
      <3> QED
        BY <3>1, <3>3
    <2> QED
      BY <2>1, <2>2
  <1> QED
    BY <1>2, <1>3 DEF VotesSound

LEMMA VotesStay ==
  ASSUME VotesSound, World \in Worlds, World' \in Worlds, Extends(World, World'),
         UNCHANGED votes
  PROVE  VotesSound'
  <1>1. ASSUME NEW y \in Voters, Deciding(y)' PROVE VoteSound(votes[y], World)'
    <2>1. VoteSound(votes[y], World)
      BY <1>1 DEF Deciding, VotesSound
    <2>2. VoteSound(votes[y], World')
      BY <2>1, VoteSoundGrows
    <2> QED
      BY <2>2
  <1> QED
    BY <1>1 DEF VotesSound

LEMMA EditsGo ==
  ASSUME EditsSound, Extends(World, World'),
         NEW e \in Editors, NEW r,
         edits' = [edits EXCEPT ![e] = r],
         r = Idle \/ EditSound(r, World')
  PROVE  EditsSound'
  <1>1. r \in {Idle} \cup Edit
    BY DEF EditSound
  <1>2. edits' \in [Editors -> {Idle} \cup Edit]
    BY <1>1 DEF EditsSound
  <1>3. ASSUME NEW y \in Editors, Editing(y)' PROVE EditSound(edits[y], World)'
    <2>1. CASE y = e
      BY <2>1, <1>3 DEF Editing, EditsSound
    <2>2. CASE y # e
      <3>1. edits'[y] = edits[y] /\ Editing(y)
        BY <2>2, <1>3 DEF Editing, EditsSound
      <3>2. EditSound(edits[y], World)
        BY <3>1 DEF EditsSound
      <3>3. EditSound(edits[y], World')
        BY <3>2, EditSoundGrows
      <3> QED
        BY <3>1, <3>3
    <2> QED
      BY <2>1, <2>2
  <1> QED
    BY <1>2, <1>3 DEF EditsSound

LEMMA EditsStay ==
  ASSUME EditsSound, Extends(World, World'), UNCHANGED edits
  PROVE  EditsSound'
  <1>1. ASSUME NEW y \in Editors, Editing(y)' PROVE EditSound(edits[y], World)'
    <2>1. EditSound(edits[y], World)
      BY <1>1 DEF Editing, EditsSound
    <2>2. EditSound(edits[y], World')
      BY <2>1, EditSoundGrows
    <2> QED
      BY <2>2
  <1> QED
    BY <1>1 DEF EditsSound

(* The rows that have no creator stay without one when a call does not go  *)
(* on creating.                                                            *)
LEMMA FreshStays ==
  ASSUME CreatorsFresh, DOMAIN sigs' = DOMAIN sigs, UNCHANGED edits
  PROVE  CreatorsFresh'
  BY DEF CreatorsFresh, Creating, Editing

LEMMA FreshGo ==
  ASSUME CreatorsFresh, edits \in [Editors -> {Idle} \cup Edit],
         DOMAIN sigs' = DOMAIN sigs,
         NEW e \in Editors, NEW r,
         edits' = [edits EXCEPT ![e] = r],
         r.step \notin {"findApprovers", "insertSigs"}
  PROVE  CreatorsFresh'
  <1>1. ASSUME NEW y \in Editors, Creating(y)'
        PROVE  y # e /\ edits'[y] = edits[y] /\ Creating(y)
    BY <1>1 DEF Creating, Editing
  <1> QED
    BY <1>1 DEF CreatorsFresh

LEMMA SameRows ==
  ASSUME RowsSound, UNCHANGED <<wallet, signers, txs, sigs, consents, refusals>>
  PROVE  /\ RowsSound' /\ World' = World /\ Extends(World, World')
         /\ World \in Worlds /\ World' \in Worlds
  <1>1. World' = World
    BY DEF World
  <1>2. RowsSound'
    BY <1>1 DEF RowsSound
  <1> QED
    BY <1>1, <1>2, WorldType, ExtendsReflexive

(* A vote at some step is sound.                                           *)
LEMMA AtVoteFacts ==
  ASSUME RowsSound, VotesSound, NEW v \in Voters, NEW step, AtVote(v, step)
  PROVE  /\ VoteSound(votes[v], World) /\ votes[v] \in Vote
         /\ votes[v].step = step
         /\ votes[v].x \in Txs /\ votes[v].s \in Signers
         /\ votes[v].tx \in Tx /\ votes[v].signer \in SignerRow
         /\ votes[v].kind \in {"SIGNED", "REJECTED"}
         /\ votes[v].x \in DOMAIN txs
  <1>1. VoteSound(votes[v], World)
    BY DEF VotesSound, AtVote
  <1>2. votes[v] \in Vote /\ votes[v].x \in World.txs
    BY <1>1 DEF VoteSound
  <1> QED
    BY <1>1, <1>2 DEF AtVote, Vote, World

-----------------------------------------------------------------------------
(* Votes.                                                                  *)

LEMMA LoadKeeps ==
  ASSUME MultiSigInv, NEW v \in Voters, NEW kind \in {"SIGNED", "REJECTED"},
         NEW x \in Txs, NEW s \in Signers, LoadTransaction(v, kind, x, s)
  PROVE  MultiSigInv'
  <1> USE DEF MultiSigInv
  <1> DEFINE r == [step |-> "readSignature", kind |-> kind, x |-> x, s |-> s,
                   tx |-> txs[x], signer |-> SomeSigner]
  <1>1. RowsSound' /\ World' = World /\ Extends(World, World') /\ World \in Worlds
        /\ World' \in Worlds
    BY SameRows DEF LoadTransaction
  <1>2. VoteSound(r, World')
    <2>1. txs[x] \in Tx /\ TxBacked(txs[x], x, World) /\ x \in World.txs
          /\ txs[x].status = "PENDING"
      BY DEF LoadTransaction, RowsSound, World
    <2>2. r \in Vote
      BY <2>1 DEF Vote, VoteSteps, SomeSigner, SignerRow
    <2> QED
      BY <1>1, <2>1, <2>2 DEF VoteSound
  <1>3. votes' = [votes EXCEPT ![v] = r]
    BY DEF LoadTransaction
  <1> HIDE DEF r
  <1>4. VotesSound'
    BY <1>1, <1>2, <1>3, VotesGo
  <1>5. EditsSound' /\ CreatorsFresh'
    BY <1>1, EditsStay, FreshStays DEF LoadTransaction
  <1>6. CountsSound'
    BY DEF LoadTransaction, CountsSound
  <1> QED
    BY <1>1, <1>4, <1>5, <1>6

LEMMA ReadSignatureKeeps ==
  ASSUME MultiSigInv, NEW v \in Voters, ReadSignature(v)
  PROVE  MultiSigInv'
  <1> USE DEF MultiSigInv
  <1> DEFINE c == votes[v]
             r == [c EXCEPT !.step = "saveSignature"]
  <1>1. RowsSound' /\ World' = World /\ Extends(World, World') /\ World \in Worlds
        /\ World' \in Worlds
    BY SameRows DEF ReadSignature
  <1>2. /\ VoteSound(c, World) /\ c \in Vote /\ c.step = "readSignature"
        /\ c.x \in Txs /\ c.s \in Signers
    BY AtVoteFacts DEF ReadSignature
  <1>3. CASE <<c.x, c.s>> \in DOMAIN sigs /\ sigs[<<c.x, c.s>>] = "PENDING"
    <2>1. c.s \notin consents[c.x]
      BY <1>2, <1>3 DEF RowsSound
    <2>2. World.consents[c.x] \ {c.s} = World.consents[c.x] /\ <<c.x, c.s>> \in World.sigs
      BY <1>3, <2>1 DEF World
    <2>3. /\ r \in Vote /\ r.step = "saveSignature" /\ r.x = c.x /\ r.s = c.s
          /\ r.tx = c.tx
      BY <1>2 DEF Vote, VoteSteps
    <2>4. VoteSound(r, World')
      <3>1. c.tx.approvals <= Cardinality(World.consents[c.x] \ {c.s})
        BY <1>2, <2>2 DEF VoteSound, TxBacked
      <3> HIDE DEF r
      <3> QED
        BY <1>1, <1>2, <2>2, <2>3, <3>1 DEF VoteSound
    <2>5. votes' = [votes EXCEPT ![v] = r]
      BY <1>3 DEF ReadSignature, VoteGoes
    <2> HIDE DEF r
    <2> QED
      BY <1>1, <2>4, <2>5, VotesGo, EditsStay, FreshStays
         DEF ReadSignature, CountsSound
  <1>4. CASE ~(<<c.x, c.s>> \in DOMAIN sigs /\ sigs[<<c.x, c.s>>] = "PENDING")
    <2>1. votes' = [votes EXCEPT ![v] = Idle]
      BY <1>4 DEF ReadSignature, VoteEnds
    <2> QED
      BY <1>1, <2>1, VotesGo, EditsStay, FreshStays DEF ReadSignature, CountsSound
  <1> QED
    BY <1>3, <1>4

(* The signature is saved before the transaction: the consent of the vote  *)
(* comes on top of those that cover the approvals it loaded.               *)
LEMMA SaveSignatureKeeps ==
  ASSUME MultiSigInv, NEW v \in Voters, SaveSignature(v)
  PROVE  MultiSigInv'
  <1> USE DEF MultiSigInv
  <1> DEFINE c == votes[v]
             r == [c EXCEPT !.step = "saveTransaction"]
  <1>1. /\ VoteSound(c, World) /\ c \in Vote /\ c.step = "saveSignature"
        /\ c.x \in Txs /\ c.s \in Signers /\ c.tx \in Tx
        /\ c.kind \in {"SIGNED", "REJECTED"}
    BY AtVoteFacts DEF SaveSignature
  <1>2. <<c.x, c.s>> \in DOMAIN sigs
    BY <1>1 DEF VoteSound, World
  <1>3. /\ sigs' = [sigs EXCEPT ![<<c.x, c.s>>] = c.kind]
        /\ DOMAIN sigs' = DOMAIN sigs
        /\ sigs' \in [DOMAIN sigs' -> {"PENDING", "SIGNED", "REJECTED"}]
    BY <1>1, <1>2 DEF SaveSignature, RowsSound
  <1>4. /\ consents' \in [Txs -> SUBSET Signers] /\ refusals' \in [Txs -> SUBSET Signers]
        /\ \A x \in Txs : consents[x] \subseteq consents'[x]
                          /\ refusals[x] \subseteq refusals'[x]
        /\ \A x \in Txs : \A s \in consents'[x] :
               s \in consents[x] \/ (x = c.x /\ s = c.s)
        /\ c.kind = "SIGNED" => consents'[c.x] = consents[c.x] \cup {c.s}
        /\ c.kind = "REJECTED" => c.s \in refusals'[c.x]
    <2>1. CASE c.kind = "SIGNED"
      <3>1. consents' = [consents EXCEPT ![c.x] = consents[c.x] \cup {c.s}]
            /\ refusals' = refusals
        BY <2>1 DEF SaveSignature
      <3> QED
        BY <1>1, <2>1, <3>1 DEF RowsSound
    <2>2. CASE c.kind = "REJECTED"
      <3>1. refusals' = [refusals EXCEPT ![c.x] = refusals[c.x] \cup {c.s}]
            /\ consents' = consents
        BY <2>2 DEF SaveSignature
      <3> QED
        BY <1>1, <2>2, <3>1 DEF RowsSound
    <2> QED
      BY <1>1, <2>1, <2>2
  <1>5. /\ World \in Worlds /\ World' \in Worlds /\ Extends(World, World')
    <2>1. World \in Worlds
      BY WorldType
    <2>2. World'.txs = World.txs /\ World'.signers = World.signers
          /\ World'.sigs = World.sigs /\ World'.consents = consents'
          /\ World'.refusals = refusals' /\ World.consents = consents
          /\ World.refusals = refusals
      BY <1>3 DEF World, SaveSignature
    <2>3. World' \in Worlds
      BY <1>3, <1>4 DEF World, Worlds, SaveSignature, RowsSound
    <2> QED
      BY <1>4, <2>1, <2>2, <2>3 DEF Extends
  <1>6. RowsSound'
    <2>1. ASSUME NEW x \in DOMAIN txs PROVE TxBacked(txs[x], x, World')
      <3>1. x \in Txs /\ txs[x] \in Tx /\ TxBacked(txs[x], x, World)
        BY DEF RowsSound
      <3> QED
        BY <1>5, <3>1, TxBackedGrows
    <2>2. ASSUME NEW x \in Txs, NEW s \in consents'[x]
          PROVE  <<x, s>> \in DOMAIN sigs' /\ sigs'[<<x, s>>] # "PENDING"
      <3>1. CASE x = c.x /\ s = c.s
        BY <1>1, <1>2, <1>3, <3>1
      <3>2. CASE ~(x = c.x /\ s = c.s)
        <4>1. s \in consents[x]
          BY <1>4, <3>2
        <4>2. <<x, s>> \in DOMAIN sigs /\ sigs[<<x, s>>] # "PENDING"
          BY <4>1 DEF RowsSound
        <4> QED
          BY <1>3, <3>2, <4>2
      <3> QED
        BY <3>1, <3>2
    <2>3. UNCHANGED <<wallet, signers, txs>>
      BY DEF SaveSignature
    <2> QED
      BY <1>3, <1>4, <2>1, <2>2, <2>3 DEF RowsSound
  <1>7. r \in Vote /\ r.step = "saveTransaction" /\ r.x = c.x /\ r.s = c.s
        /\ r.tx = c.tx /\ r.kind = c.kind
    BY <1>1 DEF Vote, VoteSteps
  <1>8. VoteSound(c, World')
    BY <1>1, <1>5, VoteSoundGrows
  <1>9. VoteSound(r, World')
    <2>1. CASE c.kind = "SIGNED"
      <3>1. World'.consents[c.x] = consents[c.x] \cup {c.s}
            /\ World.consents[c.x] = consents[c.x]
        BY <1>1, <1>4, <2>1 DEF World
      <3>2. World'.consents[c.x] \ {c.s} = consents[c.x] \ {c.s}
            /\ World'.consents[c.x] \in SUBSET Signers
            /\ c.s \in World'.consents[c.x]
        BY <1>1, <3>1 DEF RowsSound
      <3>3. Cardinality(World'.consents[c.x]) =
              Cardinality(consents[c.x] \ {c.s}) + 1
            /\ Cardinality(consents[c.x] \ {c.s}) \in Nat
        BY <3>2, SignerSets
      <3>4. c.tx.approvals <= Cardinality(consents[c.x] \ {c.s})
        BY <1>1, <3>1 DEF VoteSound
      <3>5. c.tx.approvals + 1 <= Cardinality(World'.consents[c.x])
        BY <1>1, <3>3, <3>4 DEF Tx
      <3> HIDE DEF r
      <3> QED
        BY <1>7, <1>8, <1>1, <2>1, <3>5 DEF VoteSound
    <2>2. CASE c.kind = "REJECTED"
      <3>1. World'.refusals[c.x] # {}
        BY <1>4, <2>2 DEF World
      <3> HIDE DEF r
      <3> QED
        BY <1>7, <1>8, <1>1, <2>2, <3>1 DEF VoteSound
    <2> QED
      BY <1>1, <2>1, <2>2
  <1>10. votes' = [votes EXCEPT ![v] = r]
    BY DEF SaveSignature, VoteGoes
  <1> HIDE DEF r
  <1> QED
    BY <1>3, <1>5, <1>6, <1>9, <1>10, VotesGo, EditsStay, FreshStays
       DEF SaveSignature, CountsSound

(* What is saved over the transaction counts one more consent than the     *)
(* copy that was loaded.                                                   *)
LEMMA SaveTransactionKeeps ==
  ASSUME MultiSigInv, NEW v \in Voters, SaveTransaction(v)
  PROVE  MultiSigInv'
  <1> USE DEF MultiSigInv
  <1> DEFINE c == votes[v]
             t == Counted(c.tx, c.kind)
             m == [c EXCEPT !.tx = t]
             r == [m EXCEPT !.step = "readSigner"]
  <1>1. /\ VoteSound(c, World) /\ c \in Vote /\ c.step = "saveTransaction"
        /\ c.x \in Txs /\ c.s \in Signers /\ c.tx \in Tx /\ c.x \in DOMAIN txs
        /\ c.kind \in {"SIGNED", "REJECTED"}
    BY AtVoteFacts DEF SaveTransaction
  <1>2. t \in Tx /\ TxBacked(t, c.x, World)
    <2>1. World.consents[c.x] \in SUBSET Signers
      BY <1>1 DEF World, RowsSound
    <2>2. Cardinality(World.consents[c.x]) \in Nat
      BY <2>1, SignerSets
    <2>3. CASE c.kind = "SIGNED"
      <3>1. t = [c.tx EXCEPT !.approvals = c.tx.approvals + 1]
        BY <2>3 DEF Counted
      <3>2. t \in Tx /\ t.approvals = c.tx.approvals + 1 /\ t.status = "PENDING"
        BY <1>1, <3>1 DEF Tx, VoteSound
      <3> HIDE DEF t
      <3> QED
        BY <1>1, <2>3, <3>2 DEF VoteSound, TxBacked
    <2>4. CASE c.kind = "REJECTED"
      <3> DEFINE f == [c.tx EXCEPT !.rejections = c.tx.rejections + 1]
      <3>1. t = [f EXCEPT !.status = "REJECTED"]
        BY <2>4 DEF Counted
      <3>3. f \in Tx /\ f.approvals = c.tx.approvals
        BY <1>1 DEF Tx
      <3> HIDE DEF f
      <3>2. t \in Tx /\ t.approvals = c.tx.approvals /\ t.status = "REJECTED"
        BY <3>1, <3>3 DEF Tx
      <3> HIDE DEF t
      <3> QED
        BY <1>1, <2>4, <3>2 DEF VoteSound, TxBacked
    <2> QED
      BY <1>1, <2>3, <2>4
  <1>3. txs' = [txs EXCEPT ![c.x] = t]
    BY DEF SaveTransaction
  <1>4. votes' = [votes EXCEPT ![v] = r]
    BY DEF SaveTransaction, VoteGoes
  <1> HIDE DEF t
  <1>5. World' = World /\ World \in Worlds /\ Extends(World, World')
    <2>1. World' = World
      BY <1>3 DEF World, SaveTransaction
    <2> QED
      BY <2>1, WorldType, ExtendsReflexive
  <1>6. RowsSound'
    <2>1. DOMAIN txs' = DOMAIN txs /\ txs' \in [DOMAIN txs' -> Tx]
      BY <1>2, <1>3 DEF RowsSound
    <2>2. ASSUME NEW x \in DOMAIN txs PROVE TxBacked(txs'[x], x, World)
      BY <1>1, <1>2, <1>3, <2>1 DEF RowsSound
    <2>3. UNCHANGED <<wallet, signers, sigs, consents, refusals>>
      BY DEF SaveTransaction
    <2> QED
      BY <1>5, <2>1, <2>2, <2>3 DEF RowsSound
  <1>7. r \in Vote /\ r.step = "readSigner" /\ r.x = c.x /\ r.tx = t
    BY <1>1, <1>2 DEF Vote, VoteSteps
  <1> HIDE DEF r
  <1>8. VoteSound(r, World')
    BY <1>1, <1>2, <1>5, <1>7 DEF VoteSound
  <1> QED
    BY <1>4, <1>5, <1>6, <1>8, VotesGo, EditsStay, FreshStays
       DEF SaveTransaction, CountsSound

LEMMA DecidesKeeps ==
  ASSUME MultiSigInv, NEW v \in Voters,
         VoteSound(votes[v], World), votes[v] \in Vote,
         votes[v].step \in {"readSigner", "saveSigner"},
         votes[v].x \in Txs, votes[v].tx \in Tx,
         RowsSound', World' = World, World \in Worlds, Extends(World, World'),
         UNCHANGED <<txs, sigs, consents, refusals, edits, disturbed, faults>>,
         Decides(v, votes[v])
  PROVE  MultiSigInv'
  <1> USE DEF MultiSigInv
  <1> DEFINE c == votes[v]
             t == [c.tx EXCEPT !.status = "APPROVED"]
             m == [c EXCEPT !.tx = t]
             r == [m EXCEPT !.step = "saveApproved"]
  <1>6. CASE c.kind = "SIGNED" /\ ThresholdMet(c.tx)
    <2>1. World.consents[c.x] \in SUBSET Signers
      BY DEF World, RowsSound
    <2>2. Cardinality(World.consents[c.x]) \in Nat
      BY <2>1, SignerSets
    <2>3. t \in Tx /\ t.approvals = c.tx.approvals /\ t.status = "APPROVED"
          /\ t.threshold = c.tx.threshold
      BY DEF Tx
    <2>4. votes' = [votes EXCEPT ![v] = r]
      BY <1>6 DEF Decides, VoteGoes
    <2> HIDE DEF t
    <2>5. TxBacked(t, c.x, World)
      BY <1>6, <2>2, <2>3 DEF VoteSound, TxBacked, ThresholdMet, Tx
    <2>6. r \in Vote /\ r.step = "saveApproved" /\ r.x = c.x /\ r.tx = t
      BY <2>3 DEF Vote, VoteSteps
    <2> HIDE DEF r
    <2>7. VoteSound(r, World')
      BY <2>5, <2>6 DEF VoteSound
    <2> QED
      BY <2>4, <2>7, VotesGo, EditsStay, FreshStays DEF CountsSound
  <1>7. CASE ~(c.kind = "SIGNED" /\ ThresholdMet(c.tx))
    <2>1. votes' = [votes EXCEPT ![v] = Idle]
      BY <1>7 DEF Decides, VoteEnds
    <2> QED
      BY <2>1, VotesGo, EditsStay, FreshStays DEF CountsSound
  <1> QED
    BY <1>6, <1>7

LEMMA ReadSignerKeeps ==
  ASSUME MultiSigInv, NEW v \in Voters, ReadSigner(v)
  PROVE  MultiSigInv'
  <1> USE DEF MultiSigInv
  <1> DEFINE c == votes[v]
             m == [c EXCEPT !.signer = signers[c.s]]
             r == [m EXCEPT !.step = "saveSigner"]
  <1>1. RowsSound' /\ World' = World /\ Extends(World, World') /\ World \in Worlds
        /\ World' \in Worlds
    BY SameRows DEF ReadSigner
  <1>2. /\ VoteSound(c, World) /\ c \in Vote /\ c.step = "readSigner"
        /\ c.s \in Signers
    BY AtVoteFacts DEF ReadSigner
  <1>3. CASE c.s \in DOMAIN signers
    <2>1. signers[c.s] \in SignerRow /\ c.s \in World.signers
      BY <1>3 DEF RowsSound, World
    <2>2. r \in Vote /\ r.step = "saveSigner" /\ r.x = c.x /\ r.s = c.s /\ r.tx = c.tx
      BY <1>2, <2>1 DEF Vote, VoteSteps
    <2>3. votes' = [votes EXCEPT ![v] = r]
      BY <1>3 DEF ReadSigner, VoteGoes
    <2> HIDE DEF r
    <2>4. VoteSound(r, World')
      BY <1>1, <1>2, <2>1, <2>2 DEF VoteSound
    <2> QED
      BY <1>1, <2>3, <2>4, VotesGo, EditsStay, FreshStays DEF ReadSigner, CountsSound
  <1>4. CASE c.s \notin DOMAIN signers
    <2>1. Decides(v, c) /\ c.x \in Txs /\ c.tx \in Tx
          /\ UNCHANGED <<txs, sigs, consents, refusals, edits, disturbed, faults>>
      BY <1>2, <1>4 DEF ReadSigner, Vote
    <2> QED
      BY <1>1, <1>2, <2>1, DecidesKeeps
  <1> QED
    BY <1>3, <1>4

LEMMA SaveSignerKeeps ==
  ASSUME MultiSigInv, NEW v \in Voters, SaveSigner(v)
  PROVE  MultiSigInv'
  <1> USE DEF MultiSigInv
  <1> DEFINE c == votes[v]
  <1>1. /\ VoteSound(c, World) /\ c \in Vote /\ c.step = "saveSigner"
        /\ c.x \in Txs /\ c.s \in Signers /\ c.tx \in Tx /\ c.signer \in SignerRow
    BY AtVoteFacts DEF SaveSigner
  <1>2. c.s \in DOMAIN signers
    BY <1>1 DEF VoteSound, World
  <1>3. signers' = [signers EXCEPT ![c.s] = c.signer]
    BY DEF SaveSigner
  <1>4. World' = World /\ World \in Worlds /\ Extends(World, World')
    <2>1. World' = World
      BY <1>3 DEF World, SaveSigner
    <2> QED
      BY <2>1, WorldType, ExtendsReflexive
  <1>5. RowsSound'
    <2>1. DOMAIN signers' = DOMAIN signers /\ signers' \in [DOMAIN signers' -> SignerRow]
      BY <1>1, <1>3 DEF RowsSound
    <2>2. UNCHANGED <<wallet, txs, sigs, consents, refusals>>
      BY DEF SaveSigner
    <2> QED
      BY <1>4, <2>1, <2>2 DEF RowsSound
  <1>6. Decides(v, c)
        /\ UNCHANGED <<txs, sigs, consents, refusals, edits, disturbed, faults>>
    BY DEF SaveSigner
  <1> QED
    BY <1>1, <1>4, <1>5, <1>6, DecidesKeeps

LEMMA SaveApprovedKeeps ==
  ASSUME MultiSigInv, NEW v \in Voters, SaveApproved(v)
  PROVE  MultiSigInv'
  <1> USE DEF MultiSigInv
  <1> DEFINE c == votes[v]
  <1>1. /\ VoteSound(c, World) /\ c.x \in Txs /\ c.tx \in Tx /\ c.x \in DOMAIN txs
    BY AtVoteFacts DEF SaveApproved
  <1>2. txs' = [txs EXCEPT ![c.x] = c.tx] /\ votes' = [votes EXCEPT ![v] = Idle]
    BY DEF SaveApproved, VoteEnds
  <1>3. World' = World /\ World \in Worlds /\ Extends(World, World')
    <2>1. World' = World
      BY <1>2 DEF World, SaveApproved
    <2> QED
      BY <2>1, WorldType, ExtendsReflexive
  <1>4. RowsSound'
    <2>1. DOMAIN txs' = DOMAIN txs /\ txs' \in [DOMAIN txs' -> Tx]
      BY <1>1, <1>2 DEF RowsSound
    <2>2. TxBacked(c.tx, c.x, World)
      BY <1>1 DEF VoteSound
    <2>3. ASSUME NEW x \in DOMAIN txs PROVE TxBacked(txs'[x], x, World)
      BY <1>1, <1>2, <2>1, <2>2 DEF RowsSound
    <2>4. UNCHANGED <<wallet, signers, sigs, consents, refusals>>
      BY DEF SaveApproved
    <2> QED
      BY <1>3, <2>1, <2>3, <2>4 DEF RowsSound
  <1> QED
    BY <1>2, <1>3, <1>4, VotesGo, EditsStay, FreshStays DEF SaveApproved, CountsSound

LEMMA VoteFailsKeeps ==
  ASSUME MultiSigInv, NEW v \in Voters, VoteFails(v)
  PROVE  MultiSigInv'
  <1> USE DEF MultiSigInv
  <1>1. RowsSound' /\ World' = World /\ Extends(World, World') /\ World \in Worlds
        /\ World' \in Worlds
    BY SameRows DEF VoteFails
  <1>2. votes[v].x \in Txs
    BY DEF VoteFails, Deciding, VotesSound, Vote
  <1>3. CountsSound'
    BY <1>2, MultiSigAssumption DEF VoteFails, CountsSound, MultiSigAssumption
  <1> QED
    BY <1>1, <1>3, VotesGo, EditsStay, FreshStays DEF VoteFails, VoteEnds

-----------------------------------------------------------------------------
(* Calls that edit the wallet.                                             *)

(* A call at some step is sound.                                           *)
LEMMA AtEditFacts ==
  ASSUME RowsSound, EditsSound, NEW e \in Editors, NEW step, AtEdit(e, step)
  PROVE  /\ EditSound(edits[e], World) /\ edits[e] \in Edit
         /\ edits[e].step = step
         /\ edits[e].wallet \in Wallet /\ Fits(edits[e].wallet)
         /\ edits[e].row \in SignerRow
         /\ edits[e].todo \subseteq DOMAIN signers
  <1>1. EditSound(edits[e], World)
    BY DEF EditsSound, AtEdit
  <1> QED
    BY <1>1 DEF AtEdit, Edit, EditSound, World

(* A call that leaves the rows alone goes on soundly or ends.              *)
LEMMA EditReads ==
  ASSUME MultiSigInv, NEW e \in Editors, NEW r,
         UNCHANGED <<wallet, signers, txs, sigs, votes, consents, refusals>>,
         edits' = [edits EXCEPT ![e] = r],
         r = Idle \/ EditSound(r, World),
         r.step \notin {"findApprovers", "insertSigs"},
         CountsSound'
  PROVE  MultiSigInv'
  <1> USE DEF MultiSigInv
  <1>1. RowsSound' /\ World' = World /\ Extends(World, World') /\ World \in Worlds
        /\ World' \in Worlds
    BY SameRows
  <1>2. VotesSound' /\ EditsSound'
    BY <1>1, VotesStay, EditsGo
  <1>3. CreatorsFresh'
    BY FreshGo DEF EditsSound
  <1> QED
    BY <1>1, <1>2, <1>3

LEMMA BeginKeeps ==
  ASSUME MultiSigInv, NEW e \in Editors,
         NEW step \in EditSteps \ {"findApprovers", "insertSigs"},
         NEW w \in Wallet, Fits(w), NEW s \in Signers \cup {None},
         NEW row \in SignerRow,
         step \in {"readExisting", "insertSigner"} => s \in Signers,
         step = "saveRemoved" => s \in DOMAIN signers,
         Begin(e, step, w, s, row)
  PROVE  MultiSigInv'
  <1> USE DEF MultiSigInv
  <1> DEFINE r == [step |-> step, wallet |-> w, s |-> s, row |-> row, x |-> None,
                   todo |-> {}]
  <1>1. EditSound(r, World)
    BY DEF EditSound, Edit, World
  <1>2. r.step \notin {"findApprovers", "insertSigs"}
    OBVIOUS
  <1>3. edits' = [edits EXCEPT ![e] = r]
    BY DEF Begin
  <1> HIDE DEF r
  <1> QED
    BY <1>1, <1>2, <1>3, EditReads DEF Begin, CountsSound

LEMMA EditBeginsKeeps ==
  ASSUME MultiSigInv, NEW e \in Editors, EditBegins(e)
  PROVE  MultiSigInv'
  <1>1. /\ wallet \in Wallet /\ Fits(wallet) /\ DOMAIN signers \subseteq Signers
        /\ signers \in [DOMAIN signers -> SignerRow] /\ SomeSigner \in SignerRow
    BY DEF MultiSigInv, RowsSound, SomeSigner, SignerRow
  <1>2. ASSUME NEW threshold \in Thresholds, NEW total \in Thresholds,
               CreateWallet(e, threshold, total)
        PROVE  MultiSigInv'
    <2> DEFINE w == [threshold |-> threshold, totalSigners |-> total]
    <2>1. w \in Wallet /\ Fits(w)
      BY <1>2, MultiSigAssumption DEF CreateWallet, MultiSigAssumption, Wallet, Fits
    <2>2. Begin(e, "insertWallet", w, None, SomeSigner)
      BY <1>2 DEF CreateWallet
    <2> HIDE DEF w
    <2> QED
      BY <1>1, <2>1, <2>2, BeginKeeps DEF EditSteps
  <1>3. ASSUME NEW threshold \in Thresholds, UpdateThreshold(e, threshold)
        PROVE  MultiSigInv'
    <2> DEFINE w == [wallet EXCEPT !.threshold = threshold]
    <2>1. w \in Wallet /\ Fits(w)
      BY <1>1, <1>3, MultiSigAssumption
         DEF UpdateThreshold, MultiSigAssumption, Wallet, Fits
    <2>2. Begin(e, "saveWallet", w, None, SomeSigner)
      BY <1>3 DEF UpdateThreshold
    <2> HIDE DEF w
    <2> QED
      BY <1>1, <2>1, <2>2, BeginKeeps DEF EditSteps
  <1>4. ASSUME NEW s \in Signers, NEW role \in {"APPROVER", "VIEWER"},
               AddSigner(e, s, role)
        PROVE  MultiSigInv'
    <2> DEFINE row == [role |-> role, status |-> "ACTIVE"]
    <2>1. row \in SignerRow /\ Begin(e, "readExisting", wallet, s, row)
      BY <1>4 DEF AddSigner, SignerRow
    <2> HIDE DEF row
    <2> QED
      BY <1>1, <2>1, BeginKeeps DEF EditSteps
  <1>5. ASSUME NEW s \in Signers, RemoveSigner(e, s)
        PROVE  MultiSigInv'
    <2> DEFINE row == [signers[s] EXCEPT !.status = "REMOVED"]
    <2>1. s \in DOMAIN signers /\ Begin(e, "saveRemoved", wallet, s, row)
      BY <1>5 DEF RemoveSigner
    <2>2. row \in SignerRow
      BY <1>1, <2>1 DEF SignerRow
    <2> HIDE DEF row
    <2> QED
      BY <1>1, <2>1, <2>2, BeginKeeps DEF EditSteps
  <1>6. CASE CreateTransaction(e)
    BY <1>1, <1>6, BeginKeeps DEF CreateTransaction, EditSteps
  <1> QED
    BY <1>2, <1>3, <1>4, <1>5, <1>6 DEF EditBegins

(* Storing a wallet.                                                       *)
LEMMA WalletKeeps ==
  ASSUME MultiSigInv, NEW e \in Editors, InsertWallet(e) \/ SaveWallet(e)
  PROVE  MultiSigInv'
  <1> USE DEF MultiSigInv
  <1>1. edits[e].wallet \in Wallet /\ Fits(edits[e].wallet)
    BY AtEditFacts DEF InsertWallet, SaveWallet
  <1>2. wallet' \in Wallet /\ Fits(wallet)'
    BY <1>1 DEF InsertWallet, SaveWallet, RowsSound, Fits
  <1>3. UNCHANGED <<signers, txs, sigs, votes, consents, refusals, disturbed, faults>>
    BY DEF InsertWallet, SaveWallet
  <1>4. World' = World /\ World \in Worlds /\ Extends(World, World')
    <2>1. World' = World
      BY <1>3 DEF World
    <2> QED
      BY <2>1, WorldType, ExtendsReflexive
  <1>5. RowsSound'
    BY <1>2, <1>3, <1>4 DEF RowsSound
  <1>6. edits' = [edits EXCEPT ![e] = Idle]
    BY DEF InsertWallet, SaveWallet, EditEnds
  <1>7. Idle.step \notin {"findApprovers", "insertSigs"}
    BY DEF Idle
  <1>8. CreatorsFresh'
    BY <1>3, <1>6, <1>7, FreshGo DEF EditsSound
  <1> QED
    BY <1>3, <1>4, <1>5, <1>6, <1>8, VotesStay, EditsGo DEF CountsSound

LEMMA ReadExistingKeeps ==
  ASSUME MultiSigInv, NEW e \in Editors, ReadExisting(e)
  PROVE  MultiSigInv'
  <1> USE DEF MultiSigInv
  <1> DEFINE c == edits[e]
             r == [c EXCEPT !.step = "insertSigner"]
  <1>1. EditSound(c, World) /\ c \in Edit /\ c.step = "readExisting"
    BY AtEditFacts DEF ReadExisting
  <1>2. r \in Edit /\ r.step = "insertSigner" /\ r.wallet = c.wallet /\ r.s = c.s
        /\ r.todo = c.todo
    BY <1>1 DEF Edit, EditSteps
  <1>3. edits' = [edits EXCEPT ![e] = Idle] \/ edits' = [edits EXCEPT ![e] = r]
    BY DEF ReadExisting, EditEnds, EditGoes
  <1> HIDE DEF r
  <1>4. EditSound(r, World)
    BY <1>1, <1>2 DEF EditSound
  <1>5. Idle.step \notin {"findApprovers", "insertSigs"}
    BY DEF Idle
  <1>6. CountsSound' /\ UNCHANGED <<wallet, signers, txs, sigs, votes, consents, refusals>>
    BY DEF ReadExisting, CountsSound
  <1>7. CASE edits' = [edits EXCEPT ![e] = Idle]
    BY <1>5, <1>6, <1>7, EditReads
  <1>8. CASE edits' = [edits EXCEPT ![e] = r]
    BY <1>2, <1>4, <1>6, <1>8, EditReads
  <1> QED
    BY <1>3, <1>7, <1>8

LEMMA ReadWalletKeeps ==
  ASSUME MultiSigInv, NEW e \in Editors, ReadWallet(e)
  PROVE  MultiSigInv'
  <1> USE DEF MultiSigInv
  <1> DEFINE c == edits[e]
             m == [c EXCEPT !.wallet = wallet]
             r == [m EXCEPT !.step = "saveWallet"]
  <1>1. EditSound(c, World) /\ c \in Edit
    BY AtEditFacts DEF ReadWallet
  <1>2. wallet \in Wallet /\ Fits(wallet)
    BY DEF RowsSound
  <1>3. m \in Edit /\ m.wallet = wallet /\ m.todo = c.todo
    BY <1>1, <1>2 DEF Edit
  <1>4. edits' = [edits EXCEPT ![e] = r]
    BY DEF ReadWallet, EditGoes
  <1> HIDE DEF m
  <1>5. r \in Edit /\ r.step = "saveWallet" /\ r.wallet = wallet /\ r.todo = c.todo
    BY <1>3 DEF Edit, EditSteps
  <1> HIDE DEF r
  <1>6. EditSound(r, World)
    BY <1>1, <1>2, <1>5 DEF EditSound
  <1> QED
    BY <1>4, <1>5, <1>6, EditReads DEF ReadWallet, CountsSound

(* A signer row is replaced or inserted.                                   *)
LEMMA SignersKeep ==
  ASSUME MultiSigInv, NEW e \in Editors, NEW s \in Signers, NEW row \in SignerRow,
         signers' = [z \in DOMAIN signers \cup {s} |-> IF z = s THEN row ELSE signers[z]],
         NEW r, edits' = [edits EXCEPT ![e] = r],
         EditSound(r, World), r.step \notin {"findApprovers", "insertSigs"},
         UNCHANGED <<wallet, txs, sigs, votes, consents, refusals, disturbed, faults>>
  PROVE  MultiSigInv'
  <1> USE DEF MultiSigInv
  <1>1. /\ DOMAIN signers \subseteq DOMAIN signers' /\ DOMAIN signers' \subseteq Signers
        /\ signers' \in [DOMAIN signers' -> SignerRow]
    BY DEF RowsSound
  <1>2. /\ World'.txs = World.txs /\ World'.signers = DOMAIN signers'
        /\ World.signers = DOMAIN signers
        /\ World'.sigs = World.sigs /\ World'.consents = World.consents
        /\ World'.refusals = World.refusals
    BY DEF World
  <1>3. World \in Worlds /\ World' \in Worlds /\ Extends(World, World')
    <2>1. World' \in Worlds
      BY <1>1 DEF World, Worlds, RowsSound
    <2> QED
      BY <1>1, <1>2, <2>1, WorldType DEF Extends
  <1>4. RowsSound'
    <2>1. ASSUME NEW x \in DOMAIN txs PROVE TxBacked(txs[x], x, World')
      <3>1. x \in Txs /\ txs[x] \in Tx /\ TxBacked(txs[x], x, World)
        BY DEF RowsSound
      <3> QED
        BY <1>3, <3>1, TxBackedGrows
    <2> QED
      BY <1>1, <2>1 DEF RowsSound
  <1>5. EditSound(r, World')
    BY <1>3, EditSoundGrows
  <1>6. VotesSound' /\ EditsSound'
    BY <1>3, <1>5, VotesStay, EditsGo
  <1>7. CreatorsFresh'
    BY FreshGo DEF EditsSound
  <1> QED
    BY <1>4, <1>6, <1>7 DEF CountsSound

LEMMA InsertSignerKeeps ==
  ASSUME MultiSigInv, NEW e \in Editors, InsertSigner(e)
  PROVE  MultiSigInv'
  <1> USE DEF MultiSigInv
  <1> DEFINE c == edits[e]
             r == [c EXCEPT !.step = "saveWallet"]
  <1>1. /\ EditSound(c, World) /\ c \in Edit /\ c.s \in Signers /\ c.row \in SignerRow
    <2>1. EditSound(c, World) /\ c \in Edit /\ c.step = "insertSigner" /\ c.row \in SignerRow
      BY AtEditFacts DEF InsertSigner
    <2> QED
      BY <2>1 DEF EditSound
  <1>2. CASE c.s \in DOMAIN signers
    <2>1. edits' = [edits EXCEPT ![e] = Idle]
          /\ UNCHANGED <<wallet, signers, txs, sigs, votes, consents, refusals>>
          /\ CountsSound'
      BY <1>2 DEF InsertSigner, EditEnds, CountsSound
    <2>2. Idle.step \notin {"findApprovers", "insertSigs"}
      BY DEF Idle
    <2> QED
      BY <2>1, <2>2, EditReads
  <1>3. CASE c.s \notin DOMAIN signers
    <2>1. r \in Edit /\ r.step = "saveWallet" /\ r.wallet = c.wallet /\ r.todo = c.todo
      BY <1>1 DEF Edit, EditSteps
    <2>2. /\ signers' = [z \in DOMAIN signers \cup {c.s} |->
                           IF z = c.s THEN c.row ELSE signers[z]]
          /\ edits' = [edits EXCEPT ![e] = r]
          /\ UNCHANGED <<wallet, txs, sigs, votes, consents, refusals, disturbed, faults>>
      BY <1>3 DEF InsertSigner, EditGoes
    <2> HIDE DEF r
    <2>3. EditSound(r, World)
      BY <1>1, <2>1 DEF EditSound
    <2> QED
      BY <1>1, <2>1, <2>2, <2>3, SignersKeep
  <1> QED
    BY <1>2, <1>3

LEMMA SaveRemovedKeeps ==
  ASSUME MultiSigInv, NEW e \in Editors, SaveRemoved(e)
  PROVE  MultiSigInv'
  <1> USE DEF MultiSigInv
  <1> DEFINE c == edits[e]
             r == [c EXCEPT !.step = "readWallet"]
  <1>1. /\ EditSound(c, World) /\ c \in Edit /\ c.s \in DOMAIN signers
        /\ c.s \in Signers /\ c.row \in SignerRow
    <2>1. EditSound(c, World) /\ c \in Edit /\ c.step = "saveRemoved" /\ c.row \in SignerRow
      BY AtEditFacts DEF SaveRemoved
    <2> QED
      BY <2>1 DEF EditSound, World, RowsSound
  <1>2. r \in Edit /\ r.step = "readWallet" /\ r.wallet = c.wallet /\ r.todo = c.todo
    BY <1>1 DEF Edit, EditSteps
  <1>3. signers' = [z \in DOMAIN signers \cup {c.s} |->
                      IF z = c.s THEN c.row ELSE signers[z]]
    <2>1. signers' = [signers EXCEPT ![c.s] = c.row]
      BY DEF SaveRemoved
    <2> QED
      BY <1>1, <2>1 DEF RowsSound
  <1>4. edits' = [edits EXCEPT ![e] = r]
        /\ UNCHANGED <<wallet, txs, sigs, votes, consents, refusals, disturbed, faults>>
    BY DEF SaveRemoved, EditGoes
  <1> HIDE DEF r
  <1>5. EditSound(r, World)
    BY <1>1, <1>2 DEF EditSound
  <1> QED
    BY <1>1, <1>2, <1>3, <1>4, <1>5, SignersKeep

(* A new transaction has no signature rows, and its creator is the only    *)
(* one that knows it.                                                      *)
LEMMA InsertTxKeeps ==
  ASSUME MultiSigInv, NEW e \in Editors, InsertTx(e)
  PROVE  MultiSigInv'
  <1> USE DEF MultiSigInv
  <1> DEFINE c == edits[e]
             n == NewTx(c.wallet.threshold)
  <1>1. /\ EditSound(c, World) /\ c \in Edit /\ c.step = "insertTx"
        /\ c.wallet \in Wallet
    BY AtEditFacts DEF InsertTx
  <1>2. n \in Tx /\ n.approvals = 0 /\ n.status = "PENDING"
    BY <1>1 DEF NewTx, Tx, Wallet
  <1>3. PICK x \in Txs \ DOMAIN txs :
          /\ txs' = [y \in DOMAIN txs \cup {x} |-> IF y = x THEN n ELSE txs[y]]
          /\ EditGoes(e, [c EXCEPT !.x = x], "findApprovers")
    BY DEF InsertTx
  <1> DEFINE m == [c EXCEPT !.x = x]
             r == [m EXCEPT !.step = "findApprovers"]
  <1>4. edits' = [edits EXCEPT ![e] = r]
    BY <1>3 DEF EditGoes
  <1>5. m \in Edit /\ m.x = x /\ m.wallet = c.wallet /\ m.todo = c.todo
    BY <1>1 DEF Edit
  <1> HIDE DEF n, m
  <1>6. r \in Edit /\ r.step = "findApprovers" /\ r.x = x /\ r.wallet = c.wallet
        /\ r.todo = c.todo
    BY <1>5 DEF Edit, EditSteps
  <1>7. DOMAIN txs' = DOMAIN txs \cup {x} /\ txs' \in [DOMAIN txs' -> Tx]
        /\ DOMAIN txs' \subseteq Txs
    BY <1>2, <1>3 DEF RowsSound
  <1>8. UNCHANGED <<wallet, signers, sigs, votes, consents, refusals, disturbed, faults>>
    BY DEF InsertTx
  <1>9. /\ World'.txs = DOMAIN txs' /\ World.txs = DOMAIN txs
        /\ World'.signers = World.signers /\ World'.sigs = World.sigs
        /\ World'.consents = World.consents /\ World'.refusals = World.refusals
    BY <1>8 DEF World
  <1>10. World \in Worlds /\ World' \in Worlds /\ Extends(World, World')
    <2>1. World' \in Worlds
      BY <1>7, <1>8 DEF World, Worlds, RowsSound
    <2> QED
      BY <1>7, <1>9, <2>1, WorldType DEF Extends
  <1>11. RowsSound'
    <2>1. ASSUME NEW y \in DOMAIN txs' PROVE TxBacked(txs'[y], y, World')
      <3>1. CASE y = x
        <4>1. World'.consents[x] \in SUBSET Signers
          BY <1>3, <1>10 DEF Worlds
        <4>2. Cardinality(World'.consents[x]) \in Nat
          BY <4>1, SignerSets
        <4>3. txs'[y] = n
          BY <1>3, <3>1
        <4> QED
          BY <1>2, <3>1, <4>2, <4>3 DEF TxBacked
      <3>2. CASE y # x
        <4>1. y \in DOMAIN txs /\ txs'[y] = txs[y]
          BY <1>3, <1>7, <3>2
        <4>2. y \in Txs /\ txs[y] \in Tx /\ TxBacked(txs[y], y, World)
          BY <4>1 DEF RowsSound
        <4>3. TxBacked(txs[y], y, World')
          BY <1>10, <4>2, TxBackedGrows
        <4> QED
          BY <4>1, <4>3
      <3> QED
        BY <3>1, <3>2
    <2>2. DOMAIN sigs \subseteq (DOMAIN txs') \X (DOMAIN signers)
      BY <1>7 DEF RowsSound
    <2> QED
      BY <1>7, <1>8, <2>1, <2>2 DEF RowsSound
  <1> HIDE DEF r
  <1>12. EditSound(r, World')
    <2>1. EditSound(c, World') /\ x \in World'.txs
      BY <1>1, <1>7, <1>9, <1>10, EditSoundGrows
    <2> QED
      BY <1>6, <2>1 DEF EditSound
  <1>13. CreatorsFresh'
    <2>1. \A f \in Editors : f # e =>
            /\ edits'[f] = edits[f]
            /\ Creating(f) => edits[f].x \in DOMAIN txs
      BY <1>4 DEF EditsSound, EditSound, Creating, World
    <2>2. edits'[e] = r
      BY <1>4 DEF EditsSound
    <2>3. \A s \in Signers : <<x, s>> \notin DOMAIN sigs
      BY <1>3 DEF RowsSound
    <2>4. \A f \in Editors : Creating(f)' => f = e \/ (Creating(f) /\ edits[f].x # x)
      BY <1>3, <2>1 DEF Creating, Editing
    <2> QED
      BY <1>3, <1>6, <1>8, <2>1, <2>2, <2>3, <2>4 DEF CreatorsFresh
  <1> QED
    BY <1>4, <1>8, <1>10, <1>11, <1>12, <1>13, VotesStay, EditsGo DEF CountsSound

LEMMA FindApproversKeeps ==
  ASSUME MultiSigInv, NEW e \in Editors, FindApprovers(e)
  PROVE  MultiSigInv'
  <1> USE DEF MultiSigInv
  <1> DEFINE c == edits[e]
             m == [c EXCEPT !.todo = Approvers]
             r == [m EXCEPT !.step = "insertSigs"]
  <1>1. EditSound(c, World) /\ c \in Edit /\ c.step = "findApprovers"
    BY AtEditFacts DEF FindApprovers
  <1>2. Approvers \subseteq DOMAIN signers /\ Approvers \subseteq Signers
        /\ World.signers = DOMAIN signers
    BY DEF Approvers, RowsSound, World
  <1>3. m \in Edit /\ m.x = c.x /\ m.wallet = c.wallet /\ m.todo = Approvers
    BY <1>1, <1>2 DEF Edit
  <1>4. edits' = [edits EXCEPT ![e] = r]
    BY DEF FindApprovers, EditGoes
  <1> HIDE DEF m
  <1>5. r \in Edit /\ r.step = "insertSigs" /\ r.x = c.x /\ r.wallet = c.wallet
        /\ r.todo = Approvers
    BY <1>3 DEF Edit, EditSteps
  <1> HIDE DEF r
  <1>6. RowsSound' /\ World' = World /\ Extends(World, World') /\ World \in Worlds
        /\ World' \in Worlds
    BY SameRows DEF FindApprovers
  <1>7. EditSound(r, World')
    BY <1>1, <1>2, <1>5, <1>6 DEF EditSound
  <1>8. CreatorsFresh'
    <2>1. edits'[e] = r /\ \A f \in Editors : f # e => edits'[f] = edits[f]
      BY <1>4 DEF EditsSound
    <2>2. Creating(e)
      BY <1>1 DEF Creating, Editing, Idle
    <2>3. \A f \in Editors : Creating(f)' => Creating(f) /\ edits'[f].x = edits[f].x
      BY <1>5, <2>1, <2>2 DEF Creating, Editing
    <2>4. sigs' = sigs
      BY DEF FindApprovers
    <2> QED
      BY <1>1, <2>1, <2>2, <2>3, <2>4 DEF CreatorsFresh
  <1> QED
    BY <1>4, <1>6, <1>7, <1>8, VotesStay, EditsGo DEF FindApprovers, CountsSound

(* The next signature row is new: nobody has consented through it.         *)
LEMMA InsertSigsKeeps ==
  ASSUME MultiSigInv, NEW e \in Editors, InsertSigs(e)
  PROVE  MultiSigInv'
  <1> USE DEF MultiSigInv
  <1> DEFINE c == edits[e]
  <1>1. /\ EditSound(c, World) /\ c \in Edit /\ c.step = "insertSigs"
        /\ c.wallet \in Wallet /\ Fits(c.wallet) /\ c.todo \subseteq DOMAIN signers
    BY AtEditFacts DEF InsertSigs
  <1>2. CASE c.todo = {}
    <2> DEFINE r == [c EXCEPT !.step = "saveWallet"]
    <2>1. edits' = [edits EXCEPT ![e] = r] /\ sigs' = sigs
      BY <1>2 DEF InsertSigs, EditGoes
    <2>2. r \in Edit /\ r.step = "saveWallet" /\ r.wallet = c.wallet /\ r.todo = c.todo
      BY <1>1 DEF Edit, EditSteps
    <2> HIDE DEF r
    <2>3. EditSound(r, World)
      BY <1>1, <2>2 DEF EditSound
    <2>4. CountsSound' /\ UNCHANGED <<wallet, signers, txs, sigs, votes, consents, refusals>>
      BY <2>1 DEF InsertSigs, CountsSound
    <2> QED
      BY <2>1, <2>2, <2>3, <2>4, EditReads
  <1>3. CASE c.todo # {}
    <2>1. PICK s \in c.todo :
            /\ sigs' = [p \in DOMAIN sigs \cup {<<c.x, s>>} |->
                          IF p = <<c.x, s>> THEN "PENDING" ELSE sigs[p]]
            /\ EditGoes(e, [c EXCEPT !.todo = c.todo \ {s}], "insertSigs")
      BY <1>3 DEF InsertSigs
    <2> DEFINE m == [c EXCEPT !.todo = c.todo \ {s}]
               r == [m EXCEPT !.step = "insertSigs"]
    <2>2. edits' = [edits EXCEPT ![e] = r]
      BY <2>1 DEF EditGoes
    <2>3. m \in Edit /\ m.x = c.x /\ m.wallet = c.wallet /\ m.todo = c.todo \ {s}
      BY <1>1 DEF Edit
    <2> HIDE DEF m
    <2>4. r \in Edit /\ r.step = "insertSigs" /\ r.x = c.x /\ r.wallet = c.wallet
          /\ r.todo = c.todo \ {s}
      BY <2>3 DEF Edit, EditSteps
    <2> HIDE DEF r
    <2>5. c.x \in DOMAIN txs /\ s \in DOMAIN signers /\ c.x \in Txs /\ s \in Signers
      BY <1>1 DEF EditSound, World, RowsSound
    <2>6. Creating(e)
      BY <1>1 DEF Creating, Editing, Idle
    <2>7. <<c.x, s>> \notin DOMAIN sigs
      BY <2>5, <2>6 DEF CreatorsFresh
    <2>8. /\ DOMAIN sigs' = DOMAIN sigs \cup {<<c.x, s>>}
          /\ DOMAIN sigs' \subseteq (DOMAIN txs) \X (DOMAIN signers)
          /\ sigs' \in [DOMAIN sigs' -> {"PENDING", "SIGNED", "REJECTED"}]
      BY <2>1, <2>5 DEF RowsSound
    <2>9. UNCHANGED <<wallet, signers, txs, votes, consents, refusals, disturbed, faults>>
      BY DEF InsertSigs
    <2>10. World \in Worlds /\ World' \in Worlds /\ Extends(World, World')
      <3>1. /\ World'.txs = World.txs /\ World'.signers = World.signers
            /\ World'.sigs = DOMAIN sigs' /\ World.sigs = DOMAIN sigs
            /\ World'.consents = World.consents /\ World'.refusals = World.refusals
        BY <2>9 DEF World
      <3>2. World' \in Worlds
        BY <2>8, <2>9 DEF World, Worlds, RowsSound
      <3> QED
        BY <2>8, <3>1, <3>2, WorldType DEF Extends
    <2>11. RowsSound'
      <3>1. ASSUME NEW x \in DOMAIN txs PROVE TxBacked(txs[x], x, World')
        <4>1. x \in Txs /\ txs[x] \in Tx /\ TxBacked(txs[x], x, World)
          BY DEF RowsSound
        <4> QED
          BY <2>10, <4>1, TxBackedGrows
      <3>2. ASSUME NEW x \in Txs, NEW z \in consents[x]
            PROVE  <<x, z>> \in DOMAIN sigs' /\ sigs'[<<x, z>>] # "PENDING"
        <4>1. <<x, z>> \in DOMAIN sigs /\ sigs[<<x, z>>] # "PENDING"
          BY DEF RowsSound
        <4>2. <<x, z>> # <<c.x, s>>
          BY <2>7, <4>1
        <4> QED
          BY <2>1, <4>1, <4>2
      <3> QED
        BY <2>8, <2>9, <3>1, <3>2 DEF RowsSound
    <2>12. EditSound(r, World')
      <3>1. EditSound(c, World')
        BY <1>1, <2>10, EditSoundGrows
      <3> QED
        BY <1>1, <2>4, <3>1 DEF EditSound
    <2>13. CreatorsFresh'
      <3>1. edits'[e] = r /\ \A f \in Editors : f # e => edits'[f] = edits[f]
        BY <2>2 DEF EditsSound
      <3>2. \A f \in Editors : Creating(f)' => Creating(f) /\ edits'[f].x = edits[f].x
        BY <2>4, <2>6, <3>1 DEF Creating, Editing
      <3>3. \A f \in Editors : Creating(f)' /\ f # e => edits[f].x # c.x
        BY <2>6, <3>2 DEF CreatorsFresh
      <3>4. \A f \in Editors : Creating(f)' =>
               \A g \in Editors : Creating(g)' /\ edits'[g].x = edits'[f].x => g = f
        BY <3>2 DEF CreatorsFresh
      <3>5. ASSUME NEW f \in Editors, Creating(f)', NEW z \in Signers,
                   edits'[f].step = "findApprovers" \/ z \in edits'[f].todo
            PROVE  <<edits'[f].x, z>> \notin DOMAIN sigs'
        <4>1. CASE f = e
          <5>1. z \in c.todo /\ z # s
            BY <2>4, <3>1, <3>5, <4>1
          <5>2. <<c.x, z>> \notin DOMAIN sigs
            BY <2>6, <5>1 DEF CreatorsFresh
          <5> QED
            BY <2>4, <2>8, <3>1, <4>1, <5>1, <5>2
        <4>2. CASE f # e
          <5>1. <<edits[f].x, z>> \notin DOMAIN sigs /\ edits'[f] = edits[f]
            BY <3>1, <3>2, <3>5, <4>2 DEF CreatorsFresh
          <5>2. edits[f].x # c.x
            BY <3>3, <3>5, <4>2
          <5> QED
            BY <2>8, <5>1, <5>2
        <4> QED
          BY <4>1, <4>2
      <3> QED
        BY <3>4, <3>5 DEF CreatorsFresh
    <2> QED
      BY <2>2, <2>9, <2>10, <2>11, <2>12, <2>13, VotesStay, EditsGo DEF CountsSound
  <1> QED
    BY <1>2, <1>3

LEMMA EditFailsKeeps ==
  ASSUME MultiSigInv, NEW e \in Editors, EditFails(e)
  PROVE  MultiSigInv'
  <1>1. CountsSound'
    BY MultiSigAssumption DEF MultiSigInv, EditFails, CountsSound, MultiSigAssumption
  <1>2. Idle.step \notin {"findApprovers", "insertSigs"}
    BY DEF Idle
  <1> QED
    BY <1>1, <1>2, EditReads DEF EditFails, EditEnds

LEMMA RestartKeeps ==
  ASSUME MultiSigInv, Restart
  PROVE  MultiSigInv'
  <1> USE DEF MultiSigInv
  <1>1. RowsSound'
    BY SameRows DEF Restart
  <1>2. VotesSound' /\ EditsSound' /\ CreatorsFresh'
    BY DEF Restart, VotesSound, EditsSound, CreatorsFresh, Deciding, Editing, Creating
  <1>3. \A v \in Voters : Deciding(v) => votes[v].x \in Txs
    BY DEF VotesSound, Deciding, Vote
  <1>4. CountsSound'
    BY <1>3, MultiSigAssumption DEF Restart, CountsSound, MultiSigAssumption
  <1> QED
    BY <1>1, <1>2, <1>4

-----------------------------------------------------------------------------
(* The theorems.                                                           *)

LEMMA InitHolds ==
  ASSUME Init
  PROVE  MultiSigInv
  <1>1. RowsSound
    BY DEF Init, RowsSound, NoWallet, Wallet, Fits
  <1>2. VotesSound /\ EditsSound /\ CreatorsFresh
    BY DEF Init, VotesSound, EditsSound, CreatorsFresh, Deciding, Editing, Creating
  <1>3. CountsSound
    BY MultiSigAssumption DEF Init, CountsSound, MultiSigAssumption
  <1> QED
    BY <1>1, <1>2, <1>3 DEF MultiSigInv

LEMMA StepKeeps ==
  ASSUME MultiSigInv, [Next]_vars
  PROVE  MultiSigInv'
  <1>1. ASSUME NEW v \in Voters, NEW kind \in {"SIGNED", "REJECTED"}, NEW x \in Txs,
               NEW s \in Signers, LoadTransaction(v, kind, x, s)
        PROVE  MultiSigInv'
    BY <1>1, LoadKeeps
  <1>2. ASSUME NEW v \in Voters, VoteStep(v)
        PROVE  MultiSigInv'
    BY <1>2, ReadSignatureKeeps, SaveSignatureKeeps, SaveTransactionKeeps,
       ReadSignerKeeps, SaveSignerKeeps, SaveApprovedKeeps DEF VoteStep
  <1>3. ASSUME NEW v \in Voters, VoteFails(v)
        PROVE  MultiSigInv'
    BY <1>3, VoteFailsKeeps
  <1>4. ASSUME NEW e \in Editors, EditBegins(e) \/ EditFails(e)
        PROVE  MultiSigInv'
    BY <1>4, EditBeginsKeeps, EditFailsKeeps
  <1>5. ASSUME NEW e \in Editors, EditStep(e)
        PROVE  MultiSigInv'
    BY <1>5, WalletKeeps, ReadExistingKeeps, InsertSignerKeeps, SaveRemovedKeeps,
       ReadWalletKeeps, InsertTxKeeps, FindApproversKeeps, InsertSigsKeeps
       DEF EditStep
  <1>6. CASE Restart
    BY <1>6, RestartKeeps
  <1>7. CASE UNCHANGED vars
    <2> USE DEF MultiSigInv
    <2>1. RowsSound' /\ World' = World /\ Extends(World, World') /\ World \in Worlds
          /\ World' \in Worlds
      BY <1>7, SameRows DEF vars
    <2> QED
      BY <1>7, <2>1, VotesStay, EditsStay, FreshStays DEF vars, CountsSound
  <1> QED
    BY <1>1, <1>2, <1>3, <1>4, <1>5, <1>6, <1>7 DEF Next

(* The inductive invariant of the multi-signature wallet                   *)
(* (multisig-wallet.service.ts:41-448).                                    *)
THEOREM MultiSigInvariance == Spec => []MultiSigInv
  <1>1. Init => MultiSigInv
    BY InitHolds
  <1>2. MultiSigInv /\ [Next]_vars => MultiSigInv'
    BY StepKeeps
  <1> QED
    BY <1>1, <1>2, PTL DEF Spec

(* Rows and calls in flight keep their types and refer to rows that exist, *)
(* and no wallet asks for more signatures than it has signers              *)
(* (multisig-wallet.service.ts:53, 189).                                   *)
THEOREM MultiSigTyped == Spec => []MultiSigTypeOK
  <1>1. MultiSigInv => MultiSigTypeOK
    <2> SUFFICES ASSUME MultiSigInv PROVE MultiSigTypeOK
      OBVIOUS
    <2>1. \A v \in Voters : Deciding(v) => votes[v].x \in DOMAIN txs
      BY DEF MultiSigInv, VotesSound, VoteSound, World
    <2>2. \A e \in Editors : Editing(e) => Fits(edits[e].wallet)
      BY DEF MultiSigInv, EditsSound, EditSound
    <2> QED
      BY <2>1, <2>2 DEF MultiSigInv, RowsSound, VotesSound, EditsSound, CountsSound,
                        MultiSigTypeOK
  <1> QED
    BY <1>1, MultiSigInvariance, PTL

(* A transaction is approved only with the consent of as many different    *)
(* signers as its threshold asks for, and rejected only by one of them,    *)
(* whatever calls overwrite, fail or are cut off by a restart              *)
(* (multisig-wallet.service.ts:319-359).                                   *)
THEOREM DecisionsBacked == Spec => []DecisionIsBacked
  <1>1. MultiSigInv => DecisionIsBacked
    <2> SUFFICES ASSUME MultiSigInv PROVE DecisionIsBacked
      OBVIOUS
    <2>1. \A x \in DOMAIN txs : TxBacked(txs[x], x, World)
      BY DEF MultiSigInv, RowsSound
    <2>2. World.consents = consents /\ World.refusals = refusals
      BY DEF World
    <2> QED
      BY <2>1, <2>2 DEF DecisionIsBacked, TxBacked
  <1> QED
    BY <1>1, MultiSigInvariance, PTL

-----------------------------------------------------------------------------
(* Decisions that nothing disturbed: exact counts.                         *)

(* The row counts these consents and refusals and has decided by them.     *)
Exact(row, A, R) ==
    /\ row.approvals = Cardinality(A)
    /\ row.rejections = Cardinality(R)
    /\ row.status = IF R # {} THEN "REJECTED"
                    ELSE IF Cardinality(A) >= row.threshold THEN "APPROVED" ELSE "PENDING"

(* What the only vote on a transaction holds at each of its steps: the row *)
(* as it is, then the row it is about to save, one decision ahead or       *)
(* behind.                                                                 *)
VoteExact(c, row, A, R) ==
    /\ c.step \in {"readSignature", "saveSignature"} =>
           row = c.tx /\ Exact(row, A, R) /\ row.status = "PENDING"
    /\ c.step = "saveSignature" => c.s \notin A \cup R
    /\ c.step = "saveTransaction" =>
           IF c.kind = "SIGNED"
             THEN /\ c.tx.approvals + 1 = Cardinality(A) /\ c.tx.rejections = 0
                  /\ R = {} /\ c.tx.status = "PENDING"
             ELSE /\ c.tx.approvals = Cardinality(A)
                  /\ c.tx.rejections + 1 = Cardinality(R) /\ R # {}
    /\ c.step \in {"readSigner", "saveSigner"} =>
           /\ row = c.tx
           /\ c.tx.approvals = Cardinality(A) /\ c.tx.rejections = Cardinality(R)
           /\ IF c.kind = "SIGNED" THEN R = {} /\ c.tx.status = "PENDING"
                                   ELSE R # {} /\ c.tx.status = "REJECTED"
    /\ c.step = "saveApproved" => Exact(c.tx, A, R)
    /\ c.step \in {"saveTransaction", "saveApproved"} => row.status = "PENDING"

VoteOn(v, x) == Deciding(v) /\ votes[v].x = x

ExactAt(x) ==
    /\ \A v \in Voters, w \in Voters : VoteOn(v, x) /\ VoteOn(w, x) => v = w
    /\ \A v \in Voters : VoteOn(v, x) =>
           VoteExact(votes[v], txs[x], consents[x], refusals[x])
    /\ (\A v \in Voters : ~VoteOn(v, x)) => Exact(txs[x], consents[x], refusals[x])

UndisturbedExact == \A x \in DOMAIN txs \ disturbed : ExactAt(x)

(* Whoever refused has a signature row that is no longer pending.          *)
RefusalRows ==
    \A x \in Txs : \A s \in refusals[x] :
        <<x, s>> \in DOMAIN sigs /\ sigs[<<x, s>>] # "PENDING"

(* A wallet that exists, and one a call works on, asks for a signature.    *)
GoodWallet(w) == w = NoWallet \/ w.threshold > 0

GoodEdit(c) ==
    \/ c.wallet.threshold > 0
    \/ c.wallet = NoWallet /\ c.step \in {"saveRemoved", "readWallet", "saveWallet"}

ThresholdsPositive ==
    GoodWallet(wallet) /\ \A e \in Editors : Editing(e) => GoodEdit(edits[e])

ExactInv == RefusalRows /\ ThresholdsPositive /\ UndisturbedExact

-----------------------------------------------------------------------------
(* What a step does to the transactions that it is not about.              *)
LEMMA ExactElsewhere ==
  ASSUME NEW y, ExactAt(y), txs'[y] = txs[y], consents'[y] = consents[y],
         refusals'[y] = refusals[y],
         \A w \in Voters : (VoteOn(w, y))' <=> VoteOn(w, y),
         \A w \in Voters : VoteOn(w, y) => votes'[w] = votes[w]
  PROVE  (ExactAt(y))'
  BY DEF ExactAt

(* The only vote on x goes on, or ends.                                    *)
LEMMA ExactVoteGoes ==
  ASSUME MultiSigInv, UndisturbedExact, NEW v \in Voters, Deciding(v), NEW r,
         votes' = [votes EXCEPT ![v] = r],
         r = Idle \/ (r # Idle /\ r.x = votes[v].x),
         DOMAIN txs' = DOMAIN txs, disturbed' = disturbed,
         \A y \in Txs : y # votes[v].x =>
             /\ txs'[y] = txs[y] /\ consents'[y] = consents[y] /\ refusals'[y] = refusals[y],
         votes[v].x \notin disturbed =>
             IF r = Idle
               THEN Exact(txs'[votes[v].x], consents'[votes[v].x], refusals'[votes[v].x])
               ELSE VoteExact(r, txs'[votes[v].x], consents'[votes[v].x], refusals'[votes[v].x])
  PROVE  UndisturbedExact'
  <1> DEFINE x == votes[v].x
  <1>1. SUFFICES ASSUME NEW y \in DOMAIN txs', y \notin disturbed'
                 PROVE  (ExactAt(y))'
    BY DEF UndisturbedExact
  <1>2. ExactAt(y) /\ y \in Txs
    BY <1>1 DEF UndisturbedExact, MultiSigInv, RowsSound
  <1>3. /\ votes'[v] = r /\ VoteOn(v, x)
        /\ \A w \in Voters : w # v => votes'[w] = votes[w]
    BY DEF MultiSigInv, VotesSound, VoteOn
  <1>4. CASE y # x
    <2>1. ASSUME NEW w \in Voters
          PROVE  /\ (VoteOn(w, y))' <=> VoteOn(w, y)
                 /\ VoteOn(w, y) => votes'[w] = votes[w]
      BY <1>3, <1>4 DEF VoteOn, Deciding
    <2> QED
      BY <1>2, <1>4, <2>1, ExactElsewhere
  <1>5. CASE y = x
    <2>1. \A w \in Voters : w # v => ~VoteOn(w, y)
      BY <1>2, <1>3, <1>5 DEF ExactAt
    <2>2. \A w \in Voters : w # v => ~(VoteOn(w, y))'
      BY <1>3, <2>1 DEF VoteOn, Deciding
    <2>3. CASE r = Idle
      <3>1. \A w \in Voters : ~(VoteOn(w, y))'
        BY <1>3, <2>2, <2>3 DEF VoteOn, Deciding
      <3> QED
        BY <1>1, <1>5, <2>3, <3>1 DEF ExactAt
    <2>4. CASE r # Idle
      <3>1. VoteExact(votes'[v], txs'[y], consents'[y], refusals'[y])
        BY <1>1, <1>3, <1>5, <2>4
      <3>2. (VoteOn(v, y))'
        BY <1>3, <1>5, <2>4 DEF VoteOn, Deciding
      <3> QED
        BY <2>2, <3>1, <3>2 DEF ExactAt
    <2> QED
      BY <2>3, <2>4
  <1> QED
    BY <1>4, <1>5

(* What is known of the only vote on an undisturbed transaction.           *)
LEMMA AtVoteExact ==
  ASSUME MultiSigInv, UndisturbedExact, NEW v \in Voters, NEW step, AtVote(v, step)
  PROVE  /\ Deciding(v) /\ votes[v].step = step /\ votes[v] \in Vote
         /\ votes[v].x \in DOMAIN txs /\ votes[v].x \in Txs /\ votes[v].s \in Signers
         /\ votes[v].tx \in Tx /\ votes[v].kind \in {"SIGNED", "REJECTED"}
         /\ votes[v].x \notin disturbed =>
              VoteExact(votes[v], txs[votes[v].x], consents[votes[v].x], refusals[votes[v].x])
  <1>1. /\ Deciding(v) /\ votes[v].step = step /\ votes[v] \in Vote
        /\ votes[v].x \in DOMAIN txs /\ votes[v].x \in Txs /\ votes[v].s \in Signers
        /\ votes[v].tx \in Tx /\ votes[v].kind \in {"SIGNED", "REJECTED"}
    BY AtVoteFacts DEF MultiSigInv, AtVote
  <1> QED
    BY <1>1 DEF UndisturbedExact, ExactAt, VoteOn

LEMMA LoadIsExact ==
  ASSUME MultiSigInv, UndisturbedExact, NEW v \in Voters,
         NEW kind \in {"SIGNED", "REJECTED"}, NEW x \in Txs, NEW s \in Signers,
         LoadTransaction(v, kind, x, s)
  PROVE  UndisturbedExact'
  <1> DEFINE r == [step |-> "readSignature", kind |-> kind, x |-> x, s |-> s,
                   tx |-> txs[x], signer |-> SomeSigner]
  <1>1. /\ UNCHANGED <<txs, consents, refusals>> /\ ~Deciding(v)
        /\ txs[x].status = "PENDING"
        /\ votes' = [votes EXCEPT ![v] = r]
    BY DEF LoadTransaction
  <1>2. /\ disturbed \subseteq disturbed'
        /\ (\E w \in Voters : VoteOn(w, x)) => x \in disturbed'
    BY DEF LoadTransaction, VoteOn
  <1>3. /\ votes'[v] = r /\ r.x = x /\ r.step = "readSignature" /\ r.tx = txs[x]
        /\ \A w \in Voters : w # v => votes'[w] = votes[w]
    BY <1>1 DEF MultiSigInv, VotesSound
  <1> HIDE DEF r
  <1>4. SUFFICES ASSUME NEW y \in DOMAIN txs', y \notin disturbed'
                 PROVE  (ExactAt(y))'
    BY DEF UndisturbedExact
  <1>5. ExactAt(y)
    BY <1>1, <1>2, <1>4 DEF UndisturbedExact
  <1>6. CASE y # x
    <2>1. ASSUME NEW w \in Voters
          PROVE  /\ (VoteOn(w, y))' <=> VoteOn(w, y)
                 /\ VoteOn(w, y) => votes'[w] = votes[w]
      BY <1>1, <1>3, <1>6 DEF VoteOn, Deciding
    <2> QED
      BY <1>1, <1>5, <2>1, ExactElsewhere
  <1>7. CASE y = x
    <2>1. \A w \in Voters : ~VoteOn(w, x)
      BY <1>2, <1>4, <1>7
    <2>2. Exact(txs[x], consents[x], refusals[x])
      BY <1>5, <1>7, <2>1 DEF ExactAt
    <2>3. VoteExact(r, txs'[x], consents'[x], refusals'[x])
      BY <1>1, <1>3, <2>2 DEF VoteExact
    <2>4. \A w \in Voters : w # v => ~(VoteOn(w, x))'
      BY <1>3, <2>1 DEF VoteOn, Deciding
    <2>5. (VoteOn(v, x))'
      <3>1. r # Idle
        BY <1>3 DEF Idle
      <3> QED
        BY <1>3, <3>1 DEF VoteOn, Deciding
    <2> QED
      BY <1>3, <1>7, <2>3, <2>4, <2>5 DEF ExactAt
  <1> QED
    BY <1>6, <1>7

LEMMA ReadSignatureIsExact ==
  ASSUME MultiSigInv, ExactInv, NEW v \in Voters, ReadSignature(v)
  PROVE  UndisturbedExact'
  <1> DEFINE c == votes[v]
             r == [c EXCEPT !.step = "saveSignature"]
  <1>1. /\ Deciding(v) /\ c.step = "readSignature" /\ c \in Vote /\ c.x \in Txs
        /\ c.s \in Signers
        /\ c.x \notin disturbed => VoteExact(c, txs[c.x], consents[c.x], refusals[c.x])
    BY AtVoteExact DEF ReadSignature, ExactInv
  <1>2. UNCHANGED <<txs, sigs, consents, refusals, disturbed>>
    BY DEF ReadSignature
  <1>3. CASE <<c.x, c.s>> \in DOMAIN sigs /\ sigs[<<c.x, c.s>>] = "PENDING"
    <2>1. c.s \notin consents[c.x] \cup refusals[c.x]
      BY <1>1, <1>3 DEF MultiSigInv, RowsSound, ExactInv, RefusalRows
    <2>2. /\ r.step = "saveSignature" /\ r.x = c.x /\ r.s = c.s /\ r.tx = c.tx
          /\ r # Idle
      BY <1>1 DEF Vote, Idle
    <2>3. votes' = [votes EXCEPT ![v] = r]
      BY <1>3 DEF ReadSignature, VoteGoes
    <2> HIDE DEF r
    <2>4. c.x \notin disturbed => VoteExact(r, txs[c.x], consents[c.x], refusals[c.x])
      BY <1>1, <2>1, <2>2 DEF VoteExact
    <2> QED
      BY <1>1, <1>2, <2>2, <2>3, <2>4, ExactVoteGoes DEF ExactInv
  <1>4. CASE ~(<<c.x, c.s>> \in DOMAIN sigs /\ sigs[<<c.x, c.s>>] = "PENDING")
    <2>1. votes' = [votes EXCEPT ![v] = Idle]
      BY <1>4 DEF ReadSignature, VoteEnds
    <2>2. c.x \notin disturbed => Exact(txs[c.x], consents[c.x], refusals[c.x])
      BY <1>1 DEF VoteExact
    <2> QED
      BY <1>1, <1>2, <2>1, <2>2, ExactVoteGoes DEF ExactInv
  <1> QED
    BY <1>3, <1>4

LEMMA SaveSignatureIsExact ==
  ASSUME MultiSigInv, ExactInv, NEW v \in Voters, SaveSignature(v)
  PROVE  UndisturbedExact'
  <1> DEFINE c == votes[v]
             r == [c EXCEPT !.step = "saveTransaction"]
             A == consents[c.x]
             R == refusals[c.x]
  <1>1. /\ Deciding(v) /\ c.step = "saveSignature" /\ c \in Vote /\ c.x \in Txs
        /\ c.s \in Signers /\ c.tx \in Tx /\ c.kind \in {"SIGNED", "REJECTED"}
        /\ c.x \notin disturbed => VoteExact(c, txs[c.x], A, R)
    BY AtVoteExact DEF SaveSignature, ExactInv
  <1>2. UNCHANGED <<txs, disturbed>> /\ votes' = [votes EXCEPT ![v] = r]
    BY DEF SaveSignature, VoteGoes
  <1>3. /\ A \in SUBSET Signers /\ R \in SUBSET Signers
        /\ consents \in [Txs -> SUBSET Signers] /\ refusals \in [Txs -> SUBSET Signers]
    BY <1>1 DEF MultiSigInv, RowsSound
  <1>4. /\ r.step = "saveTransaction" /\ r.x = c.x /\ r.s = c.s /\ r.tx = c.tx
        /\ r.kind = c.kind /\ r # Idle
    BY <1>1 DEF Vote, Idle
  <1> HIDE DEF r
  <1>5. /\ \A y \in Txs : y # c.x => consents'[y] = consents[y] /\ refusals'[y] = refusals[y]
        /\ c.kind = "SIGNED" => consents'[c.x] = A \cup {c.s} /\ refusals'[c.x] = R
        /\ c.kind = "REJECTED" => consents'[c.x] = A /\ refusals'[c.x] = R \cup {c.s}
    <2>1. CASE c.kind = "SIGNED"
      <3>1. consents' = [consents EXCEPT ![c.x] = A \cup {c.s}] /\ refusals' = refusals
        BY <2>1 DEF SaveSignature
      <3> QED
        BY <1>1, <1>3, <2>1, <3>1
    <2>2. CASE c.kind = "REJECTED"
      <3>1. refusals' = [refusals EXCEPT ![c.x] = R \cup {c.s}] /\ consents' = consents
        BY <2>2 DEF SaveSignature
      <3> QED
        BY <1>1, <1>3, <2>2, <3>1
    <2> QED
      BY <1>1, <2>1, <2>2
  <1>6. ASSUME c.x \notin disturbed
        PROVE  VoteExact(r, txs[c.x], consents'[c.x], refusals'[c.x])
    <2>1. /\ Exact(c.tx, A, R) /\ c.tx.status = "PENDING" /\ txs[c.x] = c.tx
          /\ c.s \notin A /\ c.s \notin R
      BY <1>1, <1>6 DEF VoteExact
    <2>2. R = {} /\ c.tx.approvals = Cardinality(A) /\ c.tx.rejections = Cardinality(R)
      BY <2>1 DEF Exact
    <2>3. Cardinality(R) = 0
      BY <2>2, FS_EmptySet
    <2>4. /\ Cardinality(A \cup {c.s}) = Cardinality(A) + 1
          /\ Cardinality(R \cup {c.s}) = Cardinality(R) + 1
      <3>1. (A \cup {c.s}) \ {c.s} = A /\ (R \cup {c.s}) \ {c.s} = R
        BY <2>1
      <3>2. A \cup {c.s} \in SUBSET Signers /\ R \cup {c.s} \in SUBSET Signers
        BY <1>1, <1>3
      <3>3. c.s \in A \cup {c.s} /\ c.s \in R \cup {c.s}
        OBVIOUS
      <3> HIDE DEF A, R, c
      <3> QED
        BY <3>1, <3>2, <3>3, SignerSets
    <2>5. CASE c.kind = "SIGNED"
      <3>1. consents'[c.x] = A \cup {c.s} /\ refusals'[c.x] = {}
        BY <1>5, <2>2, <2>5
      <3> QED
        BY <1>4, <2>1, <2>2, <2>3, <2>4, <2>5, <3>1 DEF VoteExact
    <2>6. CASE c.kind = "REJECTED"
      <3>1. consents'[c.x] = A /\ refusals'[c.x] = R \cup {c.s} /\ R \cup {c.s} # {}
        BY <1>5, <2>6
      <3> QED
        BY <1>4, <2>1, <2>2, <2>4, <2>6, <3>1 DEF VoteExact
    <2> QED
      BY <1>1, <2>5, <2>6
  <1> QED
    BY <1>1, <1>2, <1>4, <1>5, <1>6, ExactVoteGoes DEF ExactInv

LEMMA SaveTransactionIsExact ==
  ASSUME MultiSigInv, UndisturbedExact, NEW v \in Voters, SaveTransaction(v)
  PROVE  UndisturbedExact'
  <1> DEFINE c == votes[v]
             tx == Counted(c.tx, c.kind)
             m == [c EXCEPT !.tx = tx]
             r == [m EXCEPT !.step = "readSigner"]
             A == consents[c.x]
             R == refusals[c.x]
  <1>1. /\ Deciding(v) /\ c.step = "saveTransaction" /\ c \in Vote /\ c.x \in Txs
        /\ c.tx \in Tx /\ c.kind \in {"SIGNED", "REJECTED"} /\ c.x \in DOMAIN txs
        /\ c.x \notin disturbed => VoteExact(c, txs[c.x], A, R)
    BY AtVoteExact DEF SaveTransaction
  <1>2. /\ UNCHANGED <<consents, refusals, disturbed>> /\ votes' = [votes EXCEPT ![v] = r]
        /\ txs' = [txs EXCEPT ![c.x] = tx]
    BY DEF SaveTransaction, VoteGoes
  <1>3. DOMAIN txs' = DOMAIN txs /\ txs'[c.x] = tx /\ \A y \in Txs : y # c.x => txs'[y] = txs[y]
    <2>1. txs \in [DOMAIN txs -> Tx]
      BY DEF MultiSigInv, RowsSound
    <2> HIDE DEF tx, c
    <2> QED
      BY <1>1, <1>2, <2>1
  <1>4. /\ c.kind = "SIGNED" => /\ tx.approvals = c.tx.approvals + 1
                                /\ tx.rejections = c.tx.rejections
                                /\ tx.status = c.tx.status
        /\ c.kind = "REJECTED" => /\ tx.approvals = c.tx.approvals
                                  /\ tx.rejections = c.tx.rejections + 1
                                  /\ tx.status = "REJECTED"
    BY <1>1 DEF Counted, Tx
  <1> HIDE DEF tx
  <1>5. m.step = c.step /\ m.x = c.x /\ m.kind = c.kind /\ m.tx = tx /\ m.signer = c.signer /\ m.s = c.s
        /\ m = [step |-> c.step, kind |-> c.kind, x |-> c.x, s |-> c.s, tx |-> tx, signer |-> c.signer]
    BY <1>1 DEF Vote
  <1> HIDE DEF m
  <1>6. r.step = "readSigner" /\ r.x = c.x /\ r.kind = c.kind /\ r.tx = tx /\ r # Idle
    BY <1>5 DEF Idle
  <1> HIDE DEF r
  <1>7. c.x \notin disturbed => VoteExact(r, tx, A, R)
    BY <1>1, <1>4, <1>6, FS_EmptySet DEF VoteExact
  <1> QED
    BY <1>1, <1>2, <1>3, <1>6, <1>7, ExactVoteGoes

(* The end of a vote: by then its row shows all decisions, and what is     *)
(* left is the approval.                                                   *)
LEMMA DecidesIsExact ==
  ASSUME MultiSigInv, UndisturbedExact, NEW v \in Voters,
         AtVote(v, "readSigner") \/ AtVote(v, "saveSigner"),
         Decides(v, votes[v]), UNCHANGED <<txs, consents, refusals, disturbed>>
  PROVE  UndisturbedExact'
  <1> DEFINE c == votes[v]
             tx == [c.tx EXCEPT !.status = "APPROVED"]
             m == [c EXCEPT !.tx = tx]
             r == [m EXCEPT !.step = "saveApproved"]
             A == consents[c.x]
             R == refusals[c.x]
  <1>1. /\ Deciding(v) /\ c.step \in {"readSigner", "saveSigner"} /\ c \in Vote
        /\ c.x \in Txs /\ c.tx \in Tx /\ c.kind \in {"SIGNED", "REJECTED"}
        /\ c.x \notin disturbed => VoteExact(c, txs[c.x], A, R)
    BY AtVoteExact
  <1>2. ASSUME c.x \notin disturbed
        PROVE  /\ txs[c.x] = c.tx
               /\ c.tx.approvals = Cardinality(A) /\ c.tx.rejections = Cardinality(R)
               /\ c.kind = "SIGNED" => R = {} /\ c.tx.status = "PENDING"
               /\ c.kind = "REJECTED" => R # {} /\ c.tx.status = "REJECTED"
    BY <1>1, <1>2 DEF VoteExact
  <1>3. CASE c.kind = "SIGNED" /\ ThresholdMet(c.tx)
    <2>1. votes' = [votes EXCEPT ![v] = r]
      BY <1>3 DEF Decides, VoteGoes
    <2>2. /\ tx.status = "APPROVED" /\ tx.approvals = c.tx.approvals
          /\ tx.rejections = c.tx.rejections /\ tx.threshold = c.tx.threshold
      BY <1>1 DEF Tx
    <2> HIDE DEF tx
    <2>3. m = [step |-> c.step, kind |-> c.kind, x |-> c.x, s |-> c.s, tx |-> tx,
               signer |-> c.signer]
      BY <1>1 DEF Vote
    <2> HIDE DEF m
    <2>4. r.step = "saveApproved" /\ r.x = c.x /\ r.tx = tx /\ r # Idle
      BY <2>3 DEF Idle
    <2> HIDE DEF r
    <2>5. c.x \notin disturbed => VoteExact(r, txs[c.x], A, R)
      <3>1. c.tx.approvals \in Nat /\ c.tx.threshold \in Nat
        BY <1>1 DEF Tx
      <3> QED
        BY <1>2, <1>3, <2>2, <2>4, <3>1 DEF VoteExact, Exact, ThresholdMet
    <2> QED
      BY <1>1, <2>1, <2>4, <2>5, ExactVoteGoes
  <1>4. CASE ~(c.kind = "SIGNED" /\ ThresholdMet(c.tx))
    <2>1. votes' = [votes EXCEPT ![v] = Idle]
      BY <1>4 DEF Decides, VoteEnds
    <2>2. c.x \notin disturbed => Exact(txs[c.x], A, R)
      BY <1>1, <1>2, <1>4 DEF Exact, ThresholdMet
    <2> QED
      BY <1>1, <2>1, <2>2, ExactVoteGoes
  <1> QED
    BY <1>3, <1>4

LEMMA ReadSignerIsExact ==
  ASSUME MultiSigInv, UndisturbedExact, NEW v \in Voters, ReadSigner(v)
  PROVE  UndisturbedExact'
  <1> DEFINE c == votes[v]
             m == [c EXCEPT !.signer = signers[c.s]]
             r == [m EXCEPT !.step = "saveSigner"]
             A == consents[c.x]
             R == refusals[c.x]
  <1>1. /\ Deciding(v) /\ c.step = "readSigner" /\ c \in Vote /\ c.x \in Txs
        /\ c.x \notin disturbed => VoteExact(c, txs[c.x], A, R)
    BY AtVoteExact DEF ReadSigner
  <1>2. UNCHANGED <<txs, consents, refusals, disturbed>> /\ AtVote(v, "readSigner")
    BY DEF ReadSigner
  <1>3. CASE c.s \in DOMAIN signers
    <2>1. votes' = [votes EXCEPT ![v] = r]
      BY <1>3 DEF ReadSigner, VoteGoes
    <2>2. m = [step |-> c.step, kind |-> c.kind, x |-> c.x, s |-> c.s, tx |-> c.tx,
               signer |-> signers[c.s]]
      BY <1>1 DEF Vote
    <2> HIDE DEF m
    <2>3. r.step = "saveSigner" /\ r.x = c.x /\ r.tx = c.tx /\ r.kind = c.kind /\ r # Idle
      BY <2>2 DEF Idle
    <2> HIDE DEF r
    <2>4. c.x \notin disturbed => VoteExact(r, txs[c.x], A, R)
      BY <1>1, <2>3 DEF VoteExact
    <2> QED
      BY <1>1, <1>2, <2>1, <2>3, <2>4, ExactVoteGoes
  <1>4. CASE c.s \notin DOMAIN signers
    <2>1. Decides(v, votes[v])
      BY <1>4 DEF ReadSigner
    <2> QED
      BY <1>2, <2>1, DecidesIsExact
  <1> QED
    BY <1>3, <1>4

LEMMA SaveApprovedIsExact ==
  ASSUME MultiSigInv, UndisturbedExact, NEW v \in Voters, SaveApproved(v)
  PROVE  UndisturbedExact'
  <1> DEFINE c == votes[v]
             A == consents[c.x]
             R == refusals[c.x]
  <1>1. /\ Deciding(v) /\ c.step = "saveApproved" /\ c \in Vote /\ c.x \in Txs
        /\ c.x \in DOMAIN txs
        /\ c.x \notin disturbed => VoteExact(c, txs[c.x], A, R)
    BY AtVoteExact DEF SaveApproved
  <1>2. /\ UNCHANGED <<consents, refusals, disturbed>> /\ votes' = [votes EXCEPT ![v] = Idle]
        /\ txs' = [txs EXCEPT ![c.x] = c.tx]
    BY DEF SaveApproved, VoteEnds
  <1>3. DOMAIN txs' = DOMAIN txs /\ txs'[c.x] = c.tx /\ \A y \in Txs : y # c.x => txs'[y] = txs[y]
    <2>1. txs \in [DOMAIN txs -> Tx]
      BY DEF MultiSigInv, RowsSound
    <2> QED
      BY <1>1, <1>2, <2>1
  <1>4. c.x \notin disturbed => Exact(c.tx, A, R)
    BY <1>1 DEF VoteExact
  <1> QED
    BY <1>1, <1>2, <1>3, <1>4, ExactVoteGoes

(* A vote cut off by a failure or a restart disturbs its transaction.      *)
LEMMA CutOffIsExact ==
  ASSUME MultiSigInv, UndisturbedExact, UNCHANGED <<txs, consents, refusals>>,
         votes' \in [Voters -> {Idle} \cup Vote],
         \A v \in Voters : votes'[v] = votes[v] \/ votes'[v] = Idle,
         disturbed \subseteq disturbed',
         \A v \in Voters : Deciding(v) /\ votes'[v] # votes[v] => votes[v].x \in disturbed'
  PROVE  UndisturbedExact'
  <1> SUFFICES ASSUME NEW y \in DOMAIN txs', y \notin disturbed'
               PROVE  (ExactAt(y))'
    BY DEF UndisturbedExact
  <1>1. ExactAt(y)
    BY DEF UndisturbedExact
  <1>2. ASSUME NEW w \in Voters
        PROVE  /\ (VoteOn(w, y))' <=> VoteOn(w, y)
               /\ VoteOn(w, y) => votes'[w] = votes[w]
    BY DEF VoteOn, Deciding
  <1> QED
    BY <1>1, <1>2, ExactElsewhere

(* A new transaction has neither consents nor refusals, and its threshold  *)
(* asks for one at least.                                                  *)
LEMMA InsertTxIsExact ==
  ASSUME MultiSigInv, ExactInv, NEW e \in Editors, InsertTx(e)
  PROVE  UndisturbedExact'
  <1>1. PICK x \in Txs \ DOMAIN txs :
          txs' = [y \in DOMAIN txs \cup {x} |->
                    IF y = x THEN NewTx(edits[e].wallet.threshold) ELSE txs[y]]
    BY DEF InsertTx
  <1>2. UNCHANGED <<votes, consents, refusals, disturbed>>
    BY DEF InsertTx
  <1>3. edits[e].wallet.threshold > 0 /\ edits[e].wallet.threshold \in Nat
    <2>1. /\ Editing(e) /\ edits[e].step = "insertTx" /\ edits[e].wallet \in Wallet
      BY AtEditFacts DEF InsertTx, MultiSigInv, AtEdit
    <2> QED
      BY <2>1 DEF ExactInv, ThresholdsPositive, GoodEdit, Wallet
  <1>4. SUFFICES ASSUME NEW y \in DOMAIN txs', y \notin disturbed'
                 PROVE  (ExactAt(y))'
    BY DEF UndisturbedExact
  <1>5. CASE y # x
    <2>1. ExactAt(y) /\ txs'[y] = txs[y]
      BY <1>1, <1>2, <1>4, <1>5 DEF ExactInv, UndisturbedExact
    <2>2. ASSUME NEW w \in Voters
          PROVE  /\ (VoteOn(w, y))' <=> VoteOn(w, y)
                 /\ VoteOn(w, y) => votes'[w] = votes[w]
      BY <1>2 DEF VoteOn, Deciding
    <2> QED
      BY <1>2, <2>1, <2>2, ExactElsewhere
  <1>6. CASE y = x
    <2>1. consents[x] = {} /\ refusals[x] = {}
      <3>1. DOMAIN sigs \subseteq (DOMAIN txs) \X (DOMAIN signers)
        BY DEF MultiSigInv, RowsSound
      <3>2. \A s : <<x, s>> \notin DOMAIN sigs
        BY <3>1
      <3>3. \A s \in consents[x] : <<x, s>> \in DOMAIN sigs
        BY DEF MultiSigInv, RowsSound
      <3>4. \A s \in refusals[x] : <<x, s>> \in DOMAIN sigs
        BY DEF ExactInv, RefusalRows
      <3> QED
        BY <3>2, <3>3, <3>4
    <2>2. \A w \in Voters : ~(VoteOn(w, y))'
      <3>1. \A w \in Voters : Deciding(w) => votes[w].x \in DOMAIN txs
        BY DEF MultiSigInv, VotesSound, VoteSound, World
      <3> QED
        BY <1>1, <1>2, <1>6, <3>1 DEF VoteOn, Deciding
    <2>3. txs'[x] = NewTx(edits[e].wallet.threshold)
      BY <1>1
    <2>4. Exact(txs'[x], {}, {})
      BY <1>3, <2>3, FS_EmptySet DEF Exact, NewTx
    <2> QED
      BY <1>2, <1>6, <2>1, <2>2, <2>4 DEF ExactAt
  <1> QED
    BY <1>5, <1>6

LEMMA UndisturbedStep ==
  ASSUME MultiSigInv, ExactInv, [Next]_vars
  PROVE  UndisturbedExact'
  <1> USE DEF ExactInv
  <1>1. ASSUME NEW v \in Voters, NEW kind \in {"SIGNED", "REJECTED"}, NEW x \in Txs,
               NEW s \in Signers, LoadTransaction(v, kind, x, s)
        PROVE  UndisturbedExact'
    BY <1>1, LoadIsExact
  <1>2. ASSUME NEW v \in Voters, VoteStep(v)
        PROVE  UndisturbedExact'
    <2>1. CASE SaveSigner(v)
      BY <2>1, DecidesIsExact DEF SaveSigner
    <2> QED
      BY <1>2, <2>1, ReadSignatureIsExact, SaveSignatureIsExact, SaveTransactionIsExact,
         ReadSignerIsExact, SaveApprovedIsExact DEF VoteStep
  <1>3. ASSUME NEW v \in Voters, VoteFails(v)
        PROVE  UndisturbedExact'
    <2>1. /\ votes' = [votes EXCEPT ![v] = Idle] /\ disturbed' = disturbed \cup {votes[v].x}
          /\ UNCHANGED <<txs, consents, refusals>>
      BY <1>3 DEF VoteFails, VoteEnds
    <2>2. votes \in [Voters -> {Idle} \cup Vote]
      BY DEF MultiSigInv, VotesSound
    <2> QED
      BY <2>1, <2>2, CutOffIsExact
  <1>4. CASE Restart
    <2>1. /\ votes' = [v \in Voters |-> Idle] /\ UNCHANGED <<txs, consents, refusals>>
          /\ disturbed' = disturbed \cup {votes[v].x : v \in {w \in Voters : Deciding(w)}}
      BY <1>4 DEF Restart
    <2> QED
      BY <2>1, CutOffIsExact
  <1>5. ASSUME UNCHANGED <<txs, votes, consents, refusals, disturbed>>
        PROVE  UndisturbedExact'
    <2>1. votes \in [Voters -> {Idle} \cup Vote]
      BY DEF MultiSigInv, VotesSound
    <2> QED
      BY <1>5, <2>1, CutOffIsExact
  <1>6. ASSUME NEW e \in Editors, EditBegins(e) \/ EditFails(e)
        PROVE  UNCHANGED <<txs, votes, consents, refusals, disturbed>>
    BY <1>6, Zenon DEF EditBegins, EditFails, CreateWallet, UpdateThreshold, AddSigner,
                       RemoveSigner, CreateTransaction, Begin
  <1>7. ASSUME NEW e \in Editors, EditStep(e)
        PROVE  InsertTx(e) \/ UNCHANGED <<txs, votes, consents, refusals, disturbed>>
    BY <1>7, Zenon DEF EditStep, InsertWallet, ReadExisting, InsertSigner, SaveRemoved,
                       ReadWallet, FindApprovers, InsertSigs, SaveWallet
  <1>8. ASSUME UNCHANGED vars
        PROVE  UNCHANGED <<txs, votes, consents, refusals, disturbed>>
    BY <1>8, Zenon DEF vars
  <1> QED
    BY <1>1, <1>2, <1>3, <1>4, <1>5, <1>6, <1>7, <1>8, InsertTxIsExact DEF Next

-----------------------------------------------------------------------------
(* The rows of refusals, and the thresholds.                               *)

LEMMA RefusalRowsStep ==
  ASSUME MultiSigInv, RefusalRows, [Next]_vars
  PROVE  RefusalRows'
  <1>1. ASSUME UNCHANGED <<sigs, refusals>>
        PROVE  RefusalRows'
    BY <1>1 DEF RefusalRows
  <1>2. ASSUME NEW v \in Voters, SaveSignature(v)
        PROVE  RefusalRows'
    <2> DEFINE c == votes[v]
    <2>1. /\ VoteSound(c, World) /\ c.step = "saveSignature"
          /\ c.x \in Txs /\ c.s \in Signers /\ c.kind \in {"SIGNED", "REJECTED"}
      BY <1>2, AtVoteFacts DEF SaveSignature, MultiSigInv
    <2>2. <<c.x, c.s>> \in DOMAIN sigs
      BY <2>1 DEF VoteSound, World
    <2>3. sigs' = [sigs EXCEPT ![<<c.x, c.s>>] = c.kind]
      BY <1>2 DEF SaveSignature
    <2>4. \A x \in Txs : \A s \in refusals'[x] : s \in refusals[x] \/ (x = c.x /\ s = c.s)
      <3>1. refusals' = refusals \/ refusals' = [refusals EXCEPT ![c.x] = refusals[c.x] \cup {c.s}]
        BY <1>2 DEF SaveSignature
      <3>2. refusals \in [Txs -> SUBSET Signers]
        BY DEF MultiSigInv, RowsSound
      <3> QED
        BY <2>1, <3>1, <3>2
    <2>5. /\ DOMAIN sigs' = DOMAIN sigs
          /\ \A p \in DOMAIN sigs : sigs'[p] = sigs[p] \/ sigs'[p] = c.kind
          /\ sigs'[<<c.x, c.s>>] = c.kind
      BY <2>2, <2>3 DEF MultiSigInv, RowsSound
    <2>6. c.kind # "PENDING"
      BY <2>1
    <2> HIDE DEF c
    <2>7. ASSUME NEW x \in Txs, NEW s \in refusals'[x]
          PROVE  <<x, s>> \in DOMAIN sigs' /\ sigs'[<<x, s>>] # "PENDING"
      <3>1. CASE s \in refusals[x]
        BY <2>5, <2>6, <3>1 DEF RefusalRows
      <3>2. CASE x = c.x /\ s = c.s
        BY <2>2, <2>5, <2>6, <3>2
      <3> QED
        BY <2>4, <2>7, <3>1, <3>2
    <2> QED
      BY <2>7 DEF RefusalRows
  <1>3. ASSUME NEW e \in Editors, InsertSigs(e)
        PROVE  RefusalRows'
    <2> DEFINE c == edits[e]
    <2>1. refusals' = refusals /\ AtEdit(e, "insertSigs")
      BY <1>3 DEF InsertSigs
    <2>2. CASE c.todo = {}
      BY <1>1, <1>3, <2>2 DEF InsertSigs
    <2>3. CASE c.todo # {}
      <3>1. PICK s \in c.todo :
              sigs' = [p \in DOMAIN sigs \cup {<<c.x, s>>} |->
                         IF p = <<c.x, s>> THEN "PENDING" ELSE sigs[p]]
        BY <1>3, <2>3 DEF InsertSigs
      <3>2. s \in Signers
        BY <2>1, AtEditFacts DEF MultiSigInv, RowsSound
      <3>3. <<c.x, s>> \notin DOMAIN sigs
        BY <2>1, <3>2 DEF MultiSigInv, CreatorsFresh, Creating, AtEdit
      <3> HIDE DEF c
      <3>4. ASSUME NEW y \in Txs, NEW t \in refusals'[y]
            PROVE  <<y, t>> \in DOMAIN sigs' /\ sigs'[<<y, t>>] # "PENDING"
        <4>1. <<y, t>> \in DOMAIN sigs /\ sigs[<<y, t>>] # "PENDING"
          BY <2>1, <3>4 DEF RefusalRows
        <4>2. <<y, t>> # <<c.x, s>>
          BY <3>3, <4>1
        <4> QED
          BY <3>1, <4>1, <4>2
      <3> QED
        BY <3>4 DEF RefusalRows
    <2> QED
      BY <2>2, <2>3
  <1>4. ASSUME NEW v \in Voters, NEW kind \in {"SIGNED", "REJECTED"}, NEW x \in Txs,
               NEW s \in Signers, LoadTransaction(v, kind, x, s)
        PROVE  UNCHANGED <<sigs, refusals>>
    BY <1>4 DEF LoadTransaction
  <1>5. ASSUME NEW v \in Voters, VoteStep(v) \/ VoteFails(v)
        PROVE  SaveSignature(v) \/ UNCHANGED <<sigs, refusals>>
    BY <1>5, Zenon DEF VoteStep, VoteFails, ReadSignature, SaveTransaction, ReadSigner,
                       SaveSigner, SaveApproved
  <1>6. ASSUME NEW e \in Editors, EditBegins(e) \/ EditFails(e)
        PROVE  UNCHANGED <<sigs, refusals>>
    BY <1>6, Zenon DEF EditBegins, EditFails, CreateWallet, UpdateThreshold, AddSigner,
                       RemoveSigner, CreateTransaction, Begin
  <1>7. ASSUME NEW e \in Editors, EditStep(e)
        PROVE  InsertSigs(e) \/ UNCHANGED <<sigs, refusals>>
    BY <1>7, Zenon DEF EditStep, InsertWallet, ReadExisting, InsertSigner, SaveRemoved,
                       ReadWallet, InsertTx, FindApprovers, SaveWallet
  <1>8. ASSUME Restart \/ UNCHANGED vars
        PROVE  UNCHANGED <<sigs, refusals>>
    BY <1>8, Zenon DEF Restart, vars
  <1> QED
    BY <1>1, <1>2, <1>3, <1>4, <1>5, <1>6, <1>7, <1>8, Zenon DEF Next

(* A call goes on with a good wallet, and the stored one stays good.       *)
LEMMA ThresholdsGo ==
  ASSUME MultiSigInv, ThresholdsPositive, NEW e \in Editors, NEW r,
         edits' = [edits EXCEPT ![e] = r], r = Idle \/ GoodEdit(r), GoodWallet(wallet')
  PROVE  ThresholdsPositive'
  <1>1. edits'[e] = r /\ \A f \in Editors : f # e => edits'[f] = edits[f]
    BY DEF MultiSigInv, EditsSound
  <1>2. ASSUME NEW f \in Editors, (Editing(f))'
        PROVE  GoodEdit(edits'[f])
    <2>1. CASE f = e
      BY <1>1, <1>2, <2>1 DEF Editing
    <2>2. CASE f # e
      BY <1>1, <1>2, <2>2 DEF Editing, ThresholdsPositive
    <2> QED
      BY <2>1, <2>2
  <1> QED
    BY <1>2 DEF ThresholdsPositive, GoodEdit, GoodWallet

(* The calls that have something to do with an existing wallet begin with  *)
(* a good one, or are removing a signer.                                   *)
LEMMA ThresholdsBegin ==
  ASSUME MultiSigInv, ThresholdsPositive, NEW e \in Editors, NEW step, NEW w, NEW s, NEW row,
         Begin(e, step, w, s, row),
         w.threshold > 0 \/ (w = NoWallet /\ step = "saveRemoved")
  PROVE  ThresholdsPositive'
  <1> DEFINE r == [step |-> step, wallet |-> w, s |-> s, row |-> row, x |-> None, todo |-> {}]
  <1>1. edits' = [edits EXCEPT ![e] = r] /\ wallet' = wallet
    BY DEF Begin
  <1>2. GoodEdit(r)
    BY DEF GoodEdit
  <1>3. GoodWallet(wallet')
    BY <1>1 DEF ThresholdsPositive
  <1> HIDE DEF r
  <1> QED
    BY <1>1, <1>2, <1>3, ThresholdsGo

LEMMA ThresholdsStep ==
  ASSUME MultiSigInv, ThresholdsPositive, [Next]_vars
  PROVE  ThresholdsPositive'
  <1>1. ASSUME UNCHANGED <<wallet, edits>>
        PROVE  ThresholdsPositive'
    BY <1>1 DEF ThresholdsPositive, Editing
  <1>2. /\ wallet \in Wallet /\ GoodWallet(wallet)
        /\ wallet # NoWallet => wallet.threshold > 0
    BY DEF MultiSigInv, RowsSound, ThresholdsPositive, GoodWallet
  <1>3. \A k \in Thresholds : k \in Nat /\ k > 0
    BY MultiSigAssumption DEF MultiSigAssumption
  <1>4. ASSUME NEW e \in Editors, NEW threshold \in Thresholds, NEW total \in Thresholds,
               CreateWallet(e, threshold, total)
        PROVE  ThresholdsPositive'
    BY <1>3, <1>4, ThresholdsBegin DEF CreateWallet
  <1>5. ASSUME NEW e \in Editors, NEW threshold \in Thresholds, UpdateThreshold(e, threshold)
        PROVE  ThresholdsPositive'
    <2>1. [wallet EXCEPT !.threshold = threshold].threshold = threshold
      BY <1>2 DEF Wallet
    <2> QED
      BY <1>3, <1>5, <2>1, ThresholdsBegin DEF UpdateThreshold
  <1>6. ASSUME NEW e \in Editors, NEW s \in Signers, NEW role \in {"APPROVER", "VIEWER"},
               AddSigner(e, s, role)
        PROVE  ThresholdsPositive'
    BY <1>2, <1>6, ThresholdsBegin DEF AddSigner
  <1>7. ASSUME NEW e \in Editors, NEW s \in Signers, RemoveSigner(e, s)
        PROVE  ThresholdsPositive'
    BY <1>2, <1>7, ThresholdsBegin DEF RemoveSigner
  <1>8. ASSUME NEW e \in Editors, CreateTransaction(e)
        PROVE  ThresholdsPositive'
    BY <1>2, <1>8, ThresholdsBegin DEF CreateTransaction
  <1>9. ASSUME NEW e \in Editors, EditFails(e)
        PROVE  ThresholdsPositive'
    BY <1>2, <1>9, ThresholdsGo DEF EditFails, EditEnds
  <1>10. ASSUME NEW e \in Editors, EditStep(e)
         PROVE  ThresholdsPositive'
    <2> DEFINE c == edits[e]
    <2>1. /\ Editing(e) /\ c \in Edit /\ c.wallet \in Wallet /\ GoodEdit(c)
      <3>1. Editing(e)
        BY <1>10, Zenon DEF EditStep, AtEdit, InsertWallet, ReadExisting, InsertSigner,
                            SaveRemoved, ReadWallet, InsertTx, FindApprovers, InsertSigs,
                            SaveWallet
      <3>2. c \in Edit
        BY <3>1 DEF MultiSigInv, EditsSound, EditSound
      <3> QED
        BY <3>1, <3>2 DEF Edit, ThresholdsPositive
    <2>2. GoodWallet(c.wallet)
      BY <2>1 DEF GoodEdit, GoodWallet
    <2>3. CASE InsertWallet(e) \/ SaveWallet(e)
      <3>1. edits' = [edits EXCEPT ![e] = Idle] /\ (wallet' = wallet \/ wallet' = c.wallet)
        BY <2>3 DEF InsertWallet, SaveWallet, EditEnds
      <3> QED
        BY <1>2, <2>2, <3>1, ThresholdsGo
    <2>4. ASSUME NEW m \in Edit, NEW step, edits' = [edits EXCEPT ![e] = [m EXCEPT !.step = step]],
                 wallet' = wallet, GoodEdit([step |-> step, wallet |-> m.wallet])
          PROVE  ThresholdsPositive'
      <3> DEFINE r == [m EXCEPT !.step = step]
      <3>1. r.step = step /\ r.wallet = m.wallet
        BY DEF Edit
      <3> HIDE DEF r
      <3>2. GoodEdit(r)
        BY <2>4, <3>1 DEF GoodEdit
      <3>3. edits' = [edits EXCEPT ![e] = r]
        BY <2>4 DEF r
      <3> QED
        BY <1>2, <2>4, <3>2, <3>3, ThresholdsGo
    <2>5. CASE ReadExisting(e) \/ InsertSigner(e)
      <3>1. c.wallet.threshold > 0 /\ wallet' = wallet
        BY <2>1, <2>5 DEF GoodEdit, ReadExisting, InsertSigner, AtEdit
      <3>2. CASE edits' = [edits EXCEPT ![e] = Idle]
        BY <1>2, <3>1, <3>2, ThresholdsGo
      <3>3. CASE \E step : edits' = [edits EXCEPT ![e] = [c EXCEPT !.step = step]]
        <4>1. PICK step : edits' = [edits EXCEPT ![e] = [c EXCEPT !.step = step]]
          BY <3>3
        <4>2. GoodEdit([step |-> step, wallet |-> c.wallet])
          BY <3>1 DEF GoodEdit
        <4> QED
          BY <2>1, <2>4, <3>1, <4>1, <4>2
      <3> QED
        BY <2>5, <3>2, <3>3 DEF ReadExisting, InsertSigner, EditGoes, EditEnds
    <2>6. CASE SaveRemoved(e)
      <3>1. edits' = [edits EXCEPT ![e] = [c EXCEPT !.step = "readWallet"]] /\ wallet' = wallet
        BY <2>6 DEF SaveRemoved, EditGoes
      <3>2. GoodEdit([step |-> "readWallet", wallet |-> c.wallet])
        BY <2>1 DEF GoodEdit
      <3> QED
        BY <2>1, <2>4, <3>1, <3>2
    <2>7. CASE ReadWallet(e)
      <3> DEFINE m == [c EXCEPT !.wallet = wallet]
      <3>1. edits' = [edits EXCEPT ![e] = [m EXCEPT !.step = "saveWallet"]] /\ wallet' = wallet
        BY <2>7 DEF ReadWallet, EditGoes
      <3>2. m \in Edit /\ m.wallet = wallet
        BY <1>2, <2>1 DEF Edit
      <3> HIDE DEF m
      <3>3. GoodEdit([step |-> "saveWallet", wallet |-> m.wallet])
        BY <1>2, <3>2 DEF GoodEdit, GoodWallet
      <3> QED
        BY <2>4, <3>1, <3>2, <3>3
    <2>8. CASE InsertTx(e)
      <3>1. PICK x \in Txs \ DOMAIN txs :
              edits' = [edits EXCEPT ![e] = [[c EXCEPT !.x = x] EXCEPT !.step = "findApprovers"]]
        BY <2>8 DEF InsertTx, EditGoes
      <3> DEFINE m == [c EXCEPT !.x = x]
      <3>2. m \in Edit /\ m.wallet = c.wallet
        BY <2>1 DEF Edit
      <3>3. c.wallet.threshold > 0 /\ wallet' = wallet
        BY <2>1, <2>8 DEF GoodEdit, InsertTx, AtEdit
      <3>4. edits' = [edits EXCEPT ![e] = [m EXCEPT !.step = "findApprovers"]]
        BY <3>1
      <3> HIDE DEF m
      <3>5. GoodEdit([step |-> "findApprovers", wallet |-> m.wallet])
        BY <3>2, <3>3 DEF GoodEdit
      <3> QED
        BY <2>4, <3>2, <3>3, <3>4, <3>5
    <2>9. CASE FindApprovers(e)
      <3> DEFINE m == [c EXCEPT !.todo = Approvers]
      <3>1. edits' = [edits EXCEPT ![e] = [m EXCEPT !.step = "insertSigs"]] /\ wallet' = wallet
        BY <2>9 DEF FindApprovers, EditGoes
      <3>2. m \in Edit /\ m.wallet = c.wallet
        <4>1. Approvers \in SUBSET Signers
          BY DEF Approvers, MultiSigInv, RowsSound
        <4> HIDE DEF c
        <4> QED
          BY <2>1, <4>1 DEF Edit
      <3>3. c.wallet.threshold > 0
        BY <2>1, <2>9 DEF GoodEdit, FindApprovers, AtEdit
      <3> HIDE DEF m
      <3>4. GoodEdit([step |-> "insertSigs", wallet |-> m.wallet])
        BY <3>2, <3>3 DEF GoodEdit
      <3> QED
        BY <2>4, <3>1, <3>2, <3>4
    <2>10. CASE InsertSigs(e)
      <3>1. c.wallet.threshold > 0 /\ wallet' = wallet
        BY <2>1, <2>10 DEF GoodEdit, InsertSigs, AtEdit
      <3>2. CASE c.todo = {}
        <4>1. edits' = [edits EXCEPT ![e] = [c EXCEPT !.step = "saveWallet"]]
          BY <2>10, <3>2 DEF InsertSigs, EditGoes
        <4>2. GoodEdit([step |-> "saveWallet", wallet |-> c.wallet])
          BY <3>1 DEF GoodEdit
        <4> QED
          BY <2>1, <2>4, <3>1, <4>1, <4>2
      <3>3. CASE c.todo # {}
        <4>1. PICK s \in c.todo :
                edits' = [edits EXCEPT ![e] = [[c EXCEPT !.todo = c.todo \ {s}]
                                                  EXCEPT !.step = "insertSigs"]]
          BY <2>10, <3>3 DEF InsertSigs, EditGoes
        <4> DEFINE m == [c EXCEPT !.todo = c.todo \ {s}]
        <4>2. m \in Edit /\ m.wallet = c.wallet
          BY <2>1 DEF Edit
        <4>3. edits' = [edits EXCEPT ![e] = [m EXCEPT !.step = "insertSigs"]]
          BY <4>1
        <4> HIDE DEF m
        <4>4. GoodEdit([step |-> "insertSigs", wallet |-> m.wallet])
          BY <3>1, <4>2 DEF GoodEdit
        <4> QED
          BY <2>4, <3>1, <4>2, <4>3, <4>4
      <3> QED
        BY <3>2, <3>3
    <2> QED
      BY <1>10, <2>3, <2>5, <2>6, <2>7, <2>8, <2>9, <2>10 DEF EditStep
  <1>11. CASE Restart
    BY <1>2, <1>11 DEF Restart, ThresholdsPositive, Editing
  <1>12. ASSUME NEW v \in Voters,
                VoteFails(v) \/ VoteStep(v)
                  \/ \E kind \in {"SIGNED", "REJECTED"}, x \in Txs, s \in Signers :
                        LoadTransaction(v, kind, x, s)
         PROVE  UNCHANGED <<wallet, edits>>
    BY <1>12, Zenon DEF VoteFails, VoteStep, LoadTransaction, ReadSignature, SaveSignature,
                        SaveTransaction, ReadSigner, SaveSigner, SaveApproved
  <1>13. ASSUME UNCHANGED vars
         PROVE  UNCHANGED <<wallet, edits>>
    BY <1>13, Zenon DEF vars
  <1>14. ASSUME NEW e \in Editors, EditBegins(e)
         PROVE  ThresholdsPositive'
    BY <1>4, <1>5, <1>6, <1>7, <1>8, <1>14, Zenon DEF EditBegins
  <1> QED
    BY <1>1, <1>9, <1>10, <1>11, <1>12, <1>13, <1>14, Zenon DEF Next

LEMMA ExactInit == Init => ExactInv
  <1> SUFFICES ASSUME Init
               PROVE  ExactInv
    OBVIOUS
  <1>1. RefusalRows
    BY DEF Init, RefusalRows
  <1>2. ThresholdsPositive
    BY DEF Init, ThresholdsPositive, GoodWallet, Editing
  <1>3. UndisturbedExact
    BY DEF Init, UndisturbedExact
  <1> QED
    BY <1>1, <1>2, <1>3 DEF ExactInv

LEMMA ExactStep ==
  ASSUME MultiSigInv, ExactInv, [Next]_vars
  PROVE  ExactInv'
  <1>1. RefusalRows'
    BY RefusalRowsStep DEF ExactInv
  <1>2. ThresholdsPositive'
    BY ThresholdsStep DEF ExactInv
  <1>3. UndisturbedExact'
    BY UndisturbedStep
  <1> QED
    BY <1>1, <1>2, <1>3 DEF ExactInv

(* Only overlapping or failing calls lose an approval: otherwise, once no  *)
(* call is in flight, every approval is counted, the transaction is        *)
(* approved as soon as the threshold is met, and a rejection is final      *)
(* (multisig-wallet.service.ts:324-359).                                   *)
THEOREM UndisturbedStaysExact == Spec => []UndisturbedIsExact
  <1>1. Init => MultiSigInv /\ ExactInv
    BY InitHolds, ExactInit
  <1>2. MultiSigInv /\ ExactInv /\ [Next]_vars => MultiSigInv' /\ ExactInv'
    BY StepKeeps, ExactStep
  <1>3. ExactInv => UndisturbedIsExact
    <2> SUFFICES ASSUME ExactInv, NEW x \in DOMAIN txs \ disturbed,
                        \A v \in Voters : Deciding(v) => votes[v].x # x
                 PROVE  Exact(txs[x], consents[x], refusals[x])
      BY DEF UndisturbedIsExact, Exact
    <2> QED
      BY DEF ExactInv, UndisturbedExact, ExactAt, VoteOn
  <1> QED
    BY <1>1, <1>2, <1>3, PTL DEF Spec

-----------------------------------------------------------------------------
(* The wallet's transactions implement QuorumVote.                         *)

(* A vote keeps the threshold of the transaction it loaded.                *)
ThresholdHeld ==
    \A v \in Voters : Deciding(v) => votes[v].tx.threshold = txs[votes[v].x].threshold

(* Every transaction asks for a signature.                                 *)
AllAsk == \A x \in DOMAIN txs : txs[x].threshold > 0

LEMMA HeldGoes ==
  ASSUME MultiSigInv, ThresholdHeld,
         \A x \in DOMAIN txs : txs'[x].threshold = txs[x].threshold,
         \A v \in Voters : \/ votes'[v] = votes[v]
                           \/ votes'[v] = Idle
                           \/ votes'[v].tx.threshold = txs'[votes'[v].x].threshold
  PROVE  ThresholdHeld'
  <1>1. \A v \in Voters : Deciding(v) => votes[v].x \in DOMAIN txs
    BY DEF MultiSigInv, VotesSound, VoteSound, World
  <1> QED
    BY <1>1 DEF ThresholdHeld, Deciding

(* What the steps of a vote do to the transactions, and what it holds      *)
(* after them.                                                             *)
LEMMA VoteHolds ==
  ASSUME MultiSigInv, ThresholdHeld, NEW v \in Voters, VoteStep(v)
  PROVE  /\ \A w \in Voters : w # v => votes'[w] = votes[w]
         /\ \/ votes'[v] = Idle
            \/ /\ votes'[v].x = votes[v].x
               /\ votes'[v].tx.threshold = votes[v].tx.threshold
         /\ \/ UNCHANGED txs
            \/ \E row \in Tx :
                 /\ txs' = [txs EXCEPT ![votes[v].x] = row]
                 /\ row.threshold = votes[v].tx.threshold
  <1> DEFINE c == votes[v]
  <1>1. /\ votes \in [Voters -> {Idle} \cup Vote] /\ Deciding(v)
        /\ c \in Vote /\ c.tx \in Tx /\ c.kind \in {"SIGNED", "REJECTED"}
    <2>1. PICK step \in VoteSteps : AtVote(v, step)
      BY Zenon DEF VoteStep, ReadSignature, SaveSignature, SaveTransaction, ReadSigner,
                   SaveSigner, SaveApproved, VoteSteps
    <2> QED
      BY <2>1, AtVoteFacts DEF MultiSigInv, VotesSound, AtVote
  <1>2. ASSUME NEW m \in Vote, NEW step, m.x = c.x, m.tx.threshold = c.tx.threshold,
               VoteGoes(v, m, step)
        PROVE  /\ \A w \in Voters : w # v => votes'[w] = votes[w]
               /\ votes'[v].x = c.x /\ votes'[v].tx.threshold = c.tx.threshold
    <2> DEFINE r == [m EXCEPT !.step = step]
    <2>1. r.x = c.x /\ r.tx.threshold = c.tx.threshold
      BY <1>2 DEF Vote
    <2>2. votes' = [votes EXCEPT ![v] = r]
      BY <1>2 DEF VoteGoes
    <2> HIDE DEF r, c
    <2> QED
      BY <1>1, <2>1, <2>2
  <1>3. ASSUME VoteEnds(v)
        PROVE  votes'[v] = Idle /\ \A w \in Voters : w # v => votes'[w] = votes[w]
    BY <1>1, <1>3 DEF VoteEnds
  <1>4. ASSUME NEW row \in Tx, NEW s \in SignerRow
        PROVE  /\ [c EXCEPT !.tx = row] \in Vote
               /\ [c EXCEPT !.tx = row].x = c.x /\ [c EXCEPT !.tx = row].tx = row
               /\ [c EXCEPT !.signer = s] \in Vote
               /\ [c EXCEPT !.signer = s].x = c.x /\ [c EXCEPT !.signer = s].tx = c.tx
               /\ [c EXCEPT !.signer = s].kind = c.kind
    BY <1>1 DEF Vote
  <1>5. CASE ReadSignature(v)
    <2>1. UNCHANGED txs /\ (VoteGoes(v, c, "saveSignature") \/ VoteEnds(v))
      BY <1>5 DEF ReadSignature
    <2>2. CASE VoteGoes(v, c, "saveSignature")
      BY <1>1, <1>2, <2>1, <2>2
    <2>3. CASE VoteEnds(v)
      BY <1>3, <2>1, <2>3
    <2> QED
      BY <2>1, <2>2, <2>3
  <1>6. CASE SaveSignature(v)
    <2>1. UNCHANGED txs /\ VoteGoes(v, c, "saveTransaction")
      BY <1>6 DEF SaveSignature
    <2> QED
      BY <1>1, <1>2, <2>1
  <1>7. CASE SaveTransaction(v)
    <2> DEFINE tx == Counted(c.tx, c.kind)
    <2>1. tx \in Tx /\ tx.threshold = c.tx.threshold
      <3>1. ASSUME NEW a \in Nat, NEW b \in Nat, NEW status \in {"PENDING", "REJECTED"}
            PROVE  /\ [c.tx EXCEPT !.approvals = a] \in Tx
                   /\ [c.tx EXCEPT !.approvals = a].threshold = c.tx.threshold
                   /\ [c.tx EXCEPT !.rejections = b, !.status = status] \in Tx
                   /\ [c.tx EXCEPT !.rejections = b, !.status = status].threshold
                        = c.tx.threshold
        BY <1>1 DEF Tx
      <3>2. c.tx.approvals + 1 \in Nat /\ c.tx.rejections + 1 \in Nat
        BY <1>1 DEF Tx
      <3> QED
        BY <1>1, <3>1, <3>2 DEF Counted
    <2>2. /\ txs' = [txs EXCEPT ![c.x] = tx]
          /\ VoteGoes(v, [c EXCEPT !.tx = tx], "readSigner")
      BY <1>7 DEF SaveTransaction
    <2> HIDE DEF tx
    <2>3. SomeSigner \in SignerRow
      BY DEF SomeSigner, SignerRow
    <2> HIDE DEF c
    <2>4. /\ [c EXCEPT !.tx = tx] \in Vote /\ [c EXCEPT !.tx = tx].x = c.x
          /\ [c EXCEPT !.tx = tx].tx = tx
      BY <1>4, <2>1, <2>3
    <2> QED
      BY <1>2, <2>1, <2>2, <2>4 DEF c
  <1>8. ASSUME NEW m \in Vote, m.x = c.x, m.tx = c.tx, UNCHANGED txs, Decides(v, m)
        PROVE  /\ \A w \in Voters : w # v => votes'[w] = votes[w]
               /\ \/ votes'[v] = Idle
                  \/ votes'[v].x = c.x /\ votes'[v].tx.threshold = c.tx.threshold
    <2> DEFINE tx == [m.tx EXCEPT !.status = "APPROVED"]
               n == [m EXCEPT !.tx = tx]
    <2>1. tx \in Tx /\ tx.threshold = c.tx.threshold
      BY <1>1, <1>8 DEF Tx
    <2>2. VoteGoes(v, n, "saveApproved") \/ VoteEnds(v)
      BY <1>8 DEF Decides
    <2> HIDE DEF tx
    <2>3. n \in Vote /\ n.x = c.x /\ n.tx.threshold = c.tx.threshold
      BY <1>8, <2>1 DEF Vote
    <2> HIDE DEF n, c
    <2> QED
      BY <1>2, <1>3, <2>2, <2>3
  <1>9. CASE ReadSigner(v)
    <2>1. UNCHANGED txs
      BY <1>9 DEF ReadSigner
    <2>2. CASE c.s \in DOMAIN signers
      <3>1. VoteGoes(v, [c EXCEPT !.signer = signers[c.s]], "saveSigner")
        BY <1>9, <2>2 DEF ReadSigner
      <3>2. signers[c.s] \in SignerRow
        BY <2>2 DEF MultiSigInv, RowsSound
      <3> DEFINE m == [c EXCEPT !.signer = signers[c.s]]
      <3>3. m \in Vote /\ m.x = c.x /\ m.tx = c.tx
        BY <1>1, <3>2 DEF Vote
      <3>4. VoteGoes(v, m, "saveSigner")
        BY <3>1
      <3> HIDE DEF m
      <3> QED
        BY <1>2, <2>1, <3>3, <3>4
    <2>3. CASE c.s \notin DOMAIN signers
      BY <1>1, <1>8, <1>9, <2>1, <2>3 DEF ReadSigner
    <2> QED
      BY <2>2, <2>3
  <1>10. CASE SaveSigner(v)
    BY <1>1, <1>8, <1>10 DEF SaveSigner
  <1>11. CASE SaveApproved(v)
    BY <1>1, <1>3, <1>11 DEF SaveApproved
  <1> QED
    BY <1>5, <1>6, <1>7, <1>9, <1>10, <1>11 DEF VoteStep

(* The transactions keep their thresholds, and the votes those they have.  *)
LEMMA HeldStep ==
  ASSUME MultiSigInv, ThresholdHeld, [Next]_vars
  PROVE  ThresholdHeld'
  <1>1. ASSUME NEW v \in Voters, NEW kind \in {"SIGNED", "REJECTED"}, NEW x \in Txs,
               NEW s \in Signers, LoadTransaction(v, kind, x, s)
        PROVE  ThresholdHeld'
    <2> DEFINE r == [step |-> "readSignature", kind |-> kind, x |-> x, s |-> s,
                     tx |-> txs[x], signer |-> SomeSigner]
    <2>1. UNCHANGED txs /\ votes' = [votes EXCEPT ![v] = r] /\ r.x = x /\ r.tx = txs[x]
      BY <1>1 DEF LoadTransaction
    <2> HIDE DEF r
    <2>2. votes'[v] = r /\ \A w \in Voters : w # v => votes'[w] = votes[w]
      BY <2>1 DEF MultiSigInv, VotesSound
    <2> QED
      BY <2>1, <2>2, HeldGoes
  <1>2. ASSUME NEW v \in Voters, VoteStep(v)
        PROVE  ThresholdHeld'
    <2> DEFINE c == votes[v]
    <2>1. Deciding(v) /\ c.x \in DOMAIN txs /\ txs \in [DOMAIN txs -> Tx]
      <3>1. PICK step \in VoteSteps : AtVote(v, step)
        BY <1>2, Zenon DEF VoteStep, ReadSignature, SaveSignature, SaveTransaction,
                           ReadSigner, SaveSigner, SaveApproved, VoteSteps
      <3> QED
        BY <3>1, AtVoteFacts DEF MultiSigInv, RowsSound, AtVote
    <2>2. c.tx.threshold = txs[c.x].threshold
      BY <2>1 DEF ThresholdHeld
    <2> HIDE DEF c
    <2>3. /\ \A x \in DOMAIN txs : txs'[x].threshold = txs[x].threshold
          /\ \A w \in Voters : w # v => votes'[w] = votes[w]
          /\ votes'[v] = Idle \/ votes'[v].tx.threshold = txs'[votes'[v].x].threshold
      BY <1>2, <2>1, <2>2, VoteHolds DEF c
    <2> QED
      BY <2>3, HeldGoes
  <1>3. ASSUME NEW e \in Editors, InsertTx(e)
        PROVE  ThresholdHeld'
    <2>1. /\ UNCHANGED votes
          /\ \A x \in DOMAIN txs : txs'[x].threshold = txs[x].threshold
      BY <1>3 DEF InsertTx
    <2> QED
      BY <2>1, HeldGoes
  <1>4. ASSUME UNCHANGED txs,
               \A v \in Voters : votes'[v] = votes[v] \/ votes'[v] = Idle
        PROVE  ThresholdHeld'
    BY <1>4, HeldGoes
  <1>5. ASSUME NEW v \in Voters, VoteFails(v)
        PROVE  ThresholdHeld'
    <2>1. UNCHANGED txs /\ votes' = [votes EXCEPT ![v] = Idle]
      BY <1>5 DEF VoteFails, VoteEnds
    <2> QED
      BY <1>4, <2>1 DEF MultiSigInv, VotesSound
  <1>6. CASE Restart
    BY <1>4, <1>6 DEF Restart
  <1>7. ASSUME UNCHANGED <<txs, votes>>
        PROVE  ThresholdHeld'
    BY <1>4, <1>7
  <1>8. ASSUME NEW e \in Editors, EditBegins(e) \/ EditFails(e)
        PROVE  UNCHANGED <<txs, votes>>
    BY <1>8, Zenon DEF EditBegins, EditFails, CreateWallet, UpdateThreshold, AddSigner,
                       RemoveSigner, CreateTransaction, Begin
  <1>9. ASSUME NEW e \in Editors, EditStep(e)
        PROVE  InsertTx(e) \/ UNCHANGED <<txs, votes>>
    BY <1>9, Zenon DEF EditStep, InsertWallet, ReadExisting, InsertSigner, SaveRemoved,
                       ReadWallet, FindApprovers, InsertSigs, SaveWallet
  <1>10. ASSUME UNCHANGED vars
         PROVE  UNCHANGED <<txs, votes>>
    BY <1>10, Zenon DEF vars
  <1> QED
    BY <1>1, <1>2, <1>3, <1>5, <1>6, <1>7, <1>8, <1>9, <1>10 DEF Next

-----------------------------------------------------------------------------
(* The steps of the wallet as steps of QuorumVote.                         *)

LEMMA SamePolls ==
  ASSUME UNCHANGED txs
  PROVE  Polls' = Polls
  BY DEF Polls

(* A saved transaction row shows in its poll, and in no other.             *)
LEMMA RowShows ==
  ASSUME RowsSound, NEW x \in DOMAIN txs, NEW row \in Tx,
         txs' = [txs EXCEPT ![x] = row], row.threshold = txs[x].threshold
  PROVE  Polls' = [Polls EXCEPT ![x].status = row.status]
  <1>1. txs \in [DOMAIN txs -> Tx]
    BY DEF RowsSound
  <1>2. DOMAIN txs' = DOMAIN txs /\ \A y \in DOMAIN txs : txs'[y] = IF y = x THEN row ELSE txs[y]
    BY <1>1
  <1>3. Polls' = [y \in DOMAIN txs |->
                    [status |-> IF y = x THEN row.status ELSE txs[y].status,
                     threshold |-> txs[y].threshold]]
    BY <1>2 DEF Polls
  <1> QED
    BY <1>3 DEF Polls

LEMMA PollFacts ==
  ASSUME RowsSound, NEW x \in DOMAIN txs
  PROVE  /\ x \in Txs /\ x \in DOMAIN Polls
         /\ Polls[x].status = txs[x].status /\ Polls[x].threshold = txs[x].threshold
         /\ txs[x].status \in {"PENDING", "APPROVED", "REJECTED"}
  BY DEF RowsSound, Polls, Tx

(* Saving a signature is the decision.                                     *)
LEMMA SignatureDecides ==
  ASSUME MultiSigInv, ExactInv, NEW v \in Voters, SaveSignature(v)
  PROVE  Quorum!QuorumNext
  <1>1. /\ Deciding(v) /\ votes[v].step = "saveSignature" /\ votes[v].x \in DOMAIN txs
        /\ votes[v].x \in Txs /\ votes[v].s \in Signers
        /\ votes[v].kind \in {"SIGNED", "REJECTED"}
        /\ votes[v].x \notin disturbed =>
             VoteExact(votes[v], txs[votes[v].x], consents[votes[v].x], refusals[votes[v].x])
    BY AtVoteExact DEF SaveSignature, ExactInv
  <1>2. <<votes[v].x, votes[v].s>> \in DOMAIN sigs
    <2>1. VoteSound(votes[v], World)
      BY <1>1 DEF MultiSigInv, VotesSound
    <2> QED
      BY <1>1, <2>1 DEF VoteSound, World
  <1>3. PICK x \in Txs, s \in Signers : x = votes[v].x /\ s = votes[v].s
    BY <1>1
  <1>4. /\ <<x, s>> \in DOMAIN sigs
        /\ x \notin disturbed => /\ Polls[x].status = "PENDING"
                                 /\ s \notin consents[x] \cup refusals[x]
    <2>1. x \in DOMAIN txs
      BY <1>1, <1>3
    <2>2. Polls[x].status = txs[x].status
      BY <2>1, PollFacts DEF MultiSigInv
    <2> QED
      BY <1>1, <1>2, <1>3, <2>2 DEF VoteExact
  <1>5. Quorum!MayDecide(x, s)
    BY <1>4 DEF Quorum!MayDecide, Quorum!Calm
  <1>6. UNCHANGED <<Polls, DOMAIN sigs, disturbed>>
    <2>1. UNCHANGED <<txs, disturbed>> /\ DOMAIN sigs' = DOMAIN sigs
      BY DEF SaveSignature
    <2> QED
      BY <2>1, SamePolls
  <1>7. CASE votes[v].kind = "SIGNED"
    <2>1. consents' = [consents EXCEPT ![x] = consents[x] \cup {s}] /\ UNCHANGED refusals
      BY <1>3, <1>7 DEF SaveSignature
    <2>2. Quorum!Consent(x, s)
      BY <1>5, <1>6, <2>1 DEF Quorum!Consent
    <2> QED
      BY <2>2 DEF Quorum!QuorumNext
  <1>8. CASE votes[v].kind = "REJECTED"
    <2>1. refusals' = [refusals EXCEPT ![x] = refusals[x] \cup {s}] /\ UNCHANGED consents
      BY <1>3, <1>8 DEF SaveSignature
    <2>2. Quorum!Refuse(x, s)
      BY <1>5, <1>6, <2>1 DEF Quorum!Refuse
    <2> QED
      BY <2>2 DEF Quorum!QuorumNext
  <1> QED
    BY <1>1, <1>7, <1>8

LEMMA CountedKeeps ==
  ASSUME NEW tx \in Tx, NEW kind, tx.status = "PENDING"
  PROVE  /\ Counted(tx, kind) \in Tx
         /\ Counted(tx, kind).threshold = tx.threshold
         /\ Counted(tx, kind).status # "APPROVED"
  <1>1. tx.approvals + 1 \in Nat /\ tx.rejections + 1 \in Nat
    BY DEF Tx
  <1> QED
    BY <1>1 DEF Counted, Tx

(* Saving the transaction shows what has been decided: it was backed       *)
(* before, since the save itself decides nothing.                          *)
LEMMA TransactionShows ==
  ASSUME MultiSigInv, MultiSigInv', ExactInv, ThresholdHeld, NEW v \in Voters,
         SaveTransaction(v) \/ SaveApproved(v)
  PROVE  Quorum!QuorumNext
  <1>1. PICK x \in Txs : x = votes[v].x
    BY AtVoteFacts DEF MultiSigInv, SaveTransaction, SaveApproved
  <1>2. /\ Deciding(v) /\ votes[v].step \in {"saveTransaction", "saveApproved"}
        /\ x \in DOMAIN txs
        /\ x \notin disturbed => VoteExact(votes[v], txs[x], consents[x], refusals[x])
    BY <1>1, AtVoteExact DEF SaveTransaction, SaveApproved, ExactInv
  <1>3. PICK row \in Tx :
          /\ txs' = [txs EXCEPT ![x] = row]
          /\ row.threshold = txs[x].threshold
          /\ x \notin disturbed /\ row.status = "APPROVED" => refusals[x] = {}
    <2>1. /\ votes[v].tx \in Tx /\ votes[v].tx.threshold = txs[x].threshold
          /\ VoteSound(votes[v], World)
      BY <1>1, <1>2 DEF ThresholdHeld, MultiSigInv, VotesSound, VoteSound, Vote
    <2>2. CASE SaveTransaction(v)
      <3> DEFINE tx == Counted(votes[v].tx, votes[v].kind)
      <3>1. votes[v].tx.status = "PENDING"
        BY <2>1, <2>2 DEF SaveTransaction, AtVote, VoteSound
      <3>2. tx \in Tx /\ tx.threshold = votes[v].tx.threshold /\ tx.status # "APPROVED"
        BY <2>1, <3>1, CountedKeeps
      <3>3. txs' = [txs EXCEPT ![x] = tx]
        BY <1>1, <2>2 DEF SaveTransaction
      <3> HIDE DEF tx
      <3> QED
        BY <2>1, <3>2, <3>3
    <2>3. CASE SaveApproved(v)
      <3>1. txs' = [txs EXCEPT ![x] = votes[v].tx] /\ votes[v].step = "saveApproved"
        BY <1>1, <2>3 DEF SaveApproved, AtVote
      <3>2. x \notin disturbed /\ votes[v].tx.status = "APPROVED" => refusals[x] = {}
        BY <1>2, <3>1 DEF VoteExact, Exact
      <3> QED
        BY <2>1, <3>1, <3>2
    <2> QED
      BY <2>2, <2>3
  <1>4. UNCHANGED <<sigs, consents, refusals, disturbed>>
    BY DEF SaveTransaction, SaveApproved
  <1>5. /\ Polls' = [Polls EXCEPT ![x].status = row.status]
        /\ x \in DOMAIN Polls /\ Polls[x].threshold = txs[x].threshold
        /\ x \notin disturbed => Polls[x].status = "PENDING"
    BY <1>2, <1>3, RowShows, PollFacts DEF MultiSigInv, VoteExact
  <1>6. TxBacked(row, x, World')
    <2>1. x \in DOMAIN txs' /\ txs'[x] = row
      BY <1>2, <1>3 DEF MultiSigInv, RowsSound
    <2> QED
      BY <2>1 DEF MultiSigInv, RowsSound
  <1>7. World'.consents = consents /\ World'.refusals = refusals
    BY <1>4 DEF World
  <1>8. PICK status \in {"PENDING", "APPROVED", "REJECTED"} : status = row.status
    BY DEF Tx
  <1>9. Quorum!Backed(x, status)
    <2>1. /\ status = "APPROVED" => Cardinality(consents[x]) >= Polls[x].threshold
          /\ status = "REJECTED" => refusals[x] # {}
      BY <1>3, <1>5, <1>6, <1>7, <1>8 DEF TxBacked
    <2>2. status = "APPROVED" /\ x \notin disturbed => refusals[x] = {}
      BY <1>3, <1>8
    <2>3. Quorum!Cardinality(consents[x]) = Cardinality(consents[x])
      BY DEF Quorum!Cardinality, Cardinality
    <2> QED
      BY <2>1, <2>2, <2>3 DEF Quorum!Backed, Quorum!Calm
  <1>10. Quorum!Show(x, status)
    BY <1>4, <1>5, <1>8, <1>9 DEF Quorum!Show, Quorum!Calm
  <1> QED
    BY <1>8, <1>10 DEF Quorum!QuorumNext

(* A new transaction asks for a signature.                                 *)
LEMMA NewAsks ==
  ASSUME MultiSigInv, ExactInv, NEW e \in Editors, InsertTx(e)
  PROVE  edits[e].wallet.threshold \in Nat /\ edits[e].wallet.threshold > 0
  <1>1. /\ Editing(e) /\ edits[e].step = "insertTx" /\ edits[e].wallet \in Wallet
    BY AtEditFacts DEF InsertTx, MultiSigInv, AtEdit
  <1> QED
    BY <1>1 DEF ExactInv, ThresholdsPositive, GoodEdit, Wallet

LEMMA AskStep ==
  ASSUME MultiSigInv, ExactInv, ThresholdHeld, AllAsk, [Next]_vars
  PROVE  AllAsk'
  <1>1. ASSUME UNCHANGED txs
        PROVE  AllAsk'
    BY <1>1 DEF AllAsk
  <1>2. ASSUME NEW v \in Voters, VoteStep(v)
        PROVE  AllAsk'
    <2>1. PICK step \in VoteSteps : AtVote(v, step)
      BY <1>2, Zenon DEF VoteStep, ReadSignature, SaveSignature, SaveTransaction,
                         ReadSigner, SaveSigner, SaveApproved, VoteSteps
    <2>2. /\ votes[v].x \in DOMAIN txs /\ txs \in [DOMAIN txs -> Tx]
          /\ votes[v].tx.threshold = txs[votes[v].x].threshold
      BY <2>1, AtVoteFacts DEF MultiSigInv, RowsSound, ThresholdHeld, AtVote
    <2>3. CASE UNCHANGED txs
      BY <1>1, <2>3
    <2>4. ASSUME NEW row \in Tx, txs' = [txs EXCEPT ![votes[v].x] = row],
                 row.threshold = votes[v].tx.threshold
          PROVE  AllAsk'
      BY <2>2, <2>4 DEF AllAsk
    <2> QED
      BY <1>2, <2>3, <2>4, VoteHolds
  <1>3. ASSUME NEW e \in Editors, InsertTx(e)
        PROVE  AllAsk'
    BY <1>3, NewAsks DEF InsertTx, AllAsk, NewTx
  <1>4. ASSUME NEW v \in Voters,
               VoteFails(v) \/ \E kind \in {"SIGNED", "REJECTED"}, x \in Txs, s \in Signers :
                                  LoadTransaction(v, kind, x, s)
        PROVE  UNCHANGED txs
    BY <1>4, Zenon DEF VoteFails, LoadTransaction
  <1>5. ASSUME NEW e \in Editors, EditBegins(e) \/ EditFails(e)
        PROVE  UNCHANGED txs
    BY <1>5, Zenon DEF EditBegins, EditFails, CreateWallet, UpdateThreshold, AddSigner,
                       RemoveSigner, CreateTransaction, Begin
  <1>6. ASSUME NEW e \in Editors, EditStep(e)
        PROVE  InsertTx(e) \/ UNCHANGED txs
    BY <1>6, Zenon DEF EditStep, InsertWallet, ReadExisting, InsertSigner, SaveRemoved,
                       ReadWallet, FindApprovers, InsertSigs, SaveWallet
  <1>7. ASSUME Restart \/ UNCHANGED vars
        PROVE  UNCHANGED txs
    BY <1>7, Zenon DEF Restart, vars
  <1> QED
    BY <1>1, <1>2, <1>3, <1>4, <1>5, <1>6, <1>7, Zenon DEF Next

(* The calls that create a transaction open its poll and enrol the signers *)
(* one by one.                                                             *)
LEMMA CreationOpens ==
  ASSUME MultiSigInv, ExactInv, AllAsk, NEW e \in Editors, InsertTx(e)
  PROVE  Quorum!QuorumNext
  <1> DEFINE n == edits[e].wallet.threshold
  <1>1. n \in Nat /\ n > 0
    BY NewAsks
  <1>2. PICK x \in Txs \ DOMAIN txs :
          txs' = [y \in DOMAIN txs \cup {x} |-> IF y = x THEN NewTx(n) ELSE txs[y]]
    BY DEF InsertTx
  <1> HIDE DEF n
  <1>3. UNCHANGED <<sigs, consents, refusals, disturbed>>
    BY DEF InsertTx
  <1>4. Polls' = [y \in DOMAIN txs \cup {x} |->
                    IF y = x THEN [status |-> "PENDING", threshold |-> n] ELSE Polls[y]]
    BY <1>2 DEF Polls, NewTx
  <1>5. /\ DOMAIN Polls = DOMAIN txs
        /\ \A y \in DOMAIN txs : Polls[y] \in Quorum!Poll
    BY DEF Polls, MultiSigInv, RowsSound, Tx, AllAsk, Quorum!Poll
  <1>6. [status |-> "PENDING", threshold |-> n] \in Quorum!Poll
    BY <1>1 DEF Quorum!Poll
  <1>7. Polls' \in [DOMAIN Polls \cup {x} -> Quorum!Poll]
    BY <1>4, <1>5, <1>6
  <1>8. x \notin DOMAIN Polls /\ Polls'[x].status = "PENDING"
        /\ \A y \in DOMAIN Polls : Polls'[y] = Polls[y]
    BY <1>2, <1>4, <1>5
  <1>9. Quorum!Open(x)
    BY <1>3, <1>7, <1>8 DEF Quorum!Open
  <1> QED
    BY <1>9 DEF Quorum!QuorumNext

LEMMA RowEnrols ==
  ASSUME MultiSigInv, NEW e \in Editors, InsertSigs(e)
  PROVE  Quorum!QuorumNext \/ UNCHANGED <<txs, sigs, consents, refusals, disturbed>>
  <1>1. /\ UNCHANGED <<txs, consents, refusals, disturbed>>
        /\ AtEdit(e, "insertSigs")
    BY DEF InsertSigs
  <1>2. CASE edits[e].todo = {}
    BY <1>1, <1>2 DEF InsertSigs
  <1>3. CASE edits[e].todo # {}
    <2>1. PICK s \in edits[e].todo :
            sigs' = [p \in DOMAIN sigs \cup {<<edits[e].x, s>>} |->
                       IF p = <<edits[e].x, s>> THEN "PENDING" ELSE sigs[p]]
      BY <1>3 DEF InsertSigs
    <2>2. /\ s \in Signers /\ edits[e].x \in DOMAIN txs /\ edits[e].x \in Txs
          /\ <<edits[e].x, s>> \notin DOMAIN sigs
      <3>1. EditSound(edits[e], World) /\ edits[e].todo \subseteq DOMAIN signers
            /\ edits[e].step = "insertSigs" /\ Editing(e)
        BY <1>1, AtEditFacts DEF MultiSigInv, AtEdit
      <3>2. s \in Signers
        BY <2>1, <3>1 DEF MultiSigInv, RowsSound
      <3>3. edits[e].x \in DOMAIN txs
        BY <3>1 DEF EditSound, World
      <3> QED
        BY <2>1, <3>1, <3>2, <3>3 DEF MultiSigInv, RowsSound, CreatorsFresh, Creating
    <2>3. PICK x \in Txs : x = edits[e].x
      BY <2>2
    <2>4. DOMAIN sigs' = DOMAIN sigs \cup {<<x, s>>}
      BY <2>1, <2>3
    <2>5. x \in DOMAIN Polls /\ <<x, s>> \notin DOMAIN sigs
      BY <2>2, <2>3 DEF Polls
    <2>6. Quorum!Enrol(x, s)
      BY <1>1, <2>4, <2>5, SamePolls DEF Quorum!Enrol
    <2> QED
      BY <2>2, <2>6 DEF Quorum!QuorumNext
  <1> QED
    BY <1>2, <1>3

(* Overlapping calls, failures and restarts.                               *)
LEMMA CallsDisturb ==
  ASSUME MultiSigInv,
         \/ Restart
         \/ \E v \in Voters :
              \/ VoteFails(v)
              \/ \E kind \in {"SIGNED", "REJECTED"}, x \in Txs, s \in Signers :
                    LoadTransaction(v, kind, x, s)
  PROVE  Quorum!QuorumNext
  <1>1. UNCHANGED <<txs, sigs, consents, refusals>>
    BY Zenon DEF Restart, VoteFails, LoadTransaction
  <1>2. \A v \in Voters : Deciding(v) => votes[v].x \in DOMAIN txs
    BY DEF MultiSigInv, VotesSound, VoteSound, World
  <1>3. disturbed \subseteq disturbed' /\ disturbed' \ disturbed \subseteq DOMAIN txs
    BY <1>2 DEF Restart, VoteFails, LoadTransaction
  <1>4. DOMAIN Polls = DOMAIN txs
    BY DEF Polls
  <1>5. Quorum!Disturb
    <2>1. disturbed' = disturbed \cup (disturbed' \ disturbed)
      BY <1>3
    <2>2. \E X \in SUBSET DOMAIN Polls : disturbed' = disturbed \cup X
      BY <1>3, <1>4, <2>1
    <2> QED
      BY <1>1, <2>2, SamePolls DEF Quorum!Disturb
  <1> QED
    BY <1>5 DEF Quorum!QuorumNext

LEMMA QuorumStep ==
  ASSUME MultiSigInv, MultiSigInv', ExactInv, ThresholdHeld, AllAsk, [Next]_vars
  PROVE  Quorum!QuorumNext \/ UNCHANGED <<txs, sigs, consents, refusals, disturbed>>
  <1>1. ASSUME NEW v \in Voters, VoteStep(v)
        PROVE  \/ SaveSignature(v) \/ SaveTransaction(v) \/ SaveApproved(v)
               \/ UNCHANGED <<txs, sigs, consents, refusals, disturbed>>
    BY <1>1, Zenon DEF VoteStep, ReadSignature, ReadSigner, SaveSigner
  <1>2. ASSUME NEW e \in Editors, EditBegins(e) \/ EditFails(e)
        PROVE  UNCHANGED <<txs, sigs, consents, refusals, disturbed>>
    BY <1>2, Zenon DEF EditBegins, EditFails, CreateWallet, UpdateThreshold, AddSigner,
                       RemoveSigner, CreateTransaction, Begin
  <1>3. ASSUME NEW e \in Editors, EditStep(e)
        PROVE  \/ InsertTx(e) \/ InsertSigs(e)
               \/ UNCHANGED <<txs, sigs, consents, refusals, disturbed>>
    BY <1>3, Zenon DEF EditStep, InsertWallet, ReadExisting, InsertSigner, SaveRemoved,
                       ReadWallet, FindApprovers, SaveWallet
  <1>4. ASSUME NEW v \in Voters,
               VoteFails(v) \/ \E kind \in {"SIGNED", "REJECTED"}, x \in Txs, s \in Signers :
                                  LoadTransaction(v, kind, x, s)
        PROVE  Quorum!QuorumNext
    BY <1>4, CallsDisturb, Zenon
  <1>5. CASE Restart
    BY <1>5, CallsDisturb
  <1>6. CASE UNCHANGED vars
    BY <1>6, Zenon DEF vars
  <1> QED
    BY <1>1, <1>2, <1>3, <1>4, <1>5, <1>6, SignatureDecides, TransactionShows, CreationOpens,
       RowEnrols, Zenon DEF Next

(* A transaction keeps its threshold and its signers, it is approved only  *)
(* by a quorum of them and rejected only by one of them, whatever calls    *)
(* overwrite; and one on which calls neither overlapped nor failed is      *)
(* decided once and for all, each signer being heard once and nobody after *)
(* the decision (multisig-wallet.service.ts:291-425).                      *)
THEOREM QuorumImplemented == Spec => ImplementsQuorum
  <1> DEFINE Inv == MultiSigInv /\ ExactInv /\ ThresholdHeld /\ AllAsk
  <1>1. Init => Inv
    <2>1. Init => ThresholdHeld /\ AllAsk
      BY DEF Init, ThresholdHeld, AllAsk, Deciding
    <2> QED
      BY <2>1, InitHolds, ExactInit
  <1>2. Inv /\ [Next]_vars => Inv'
    BY StepKeeps, ExactStep, HeldStep, AskStep
  <1>3. Init => Quorum!QuorumInit
    BY DEF Init, Quorum!QuorumInit, Polls
  <1>4. Inv /\ Inv' /\ [Next]_vars => [Quorum!QuorumNext]_(Quorum!quorumVars)
    <2>1. UNCHANGED <<txs, sigs, consents, refusals, disturbed>> =>
            UNCHANGED <<Polls, DOMAIN sigs, consents, refusals, disturbed>>
      BY SamePolls
    <2> QED
      BY <2>1, QuorumStep DEF Quorum!quorumVars
  <1> HIDE DEF Inv
  <1> QED
    BY <1>1, <1>2, <1>3, <1>4, PTL DEF Spec, ImplementsQuorum, Quorum!QuorumSpec

=============================================================================
