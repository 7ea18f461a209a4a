--------------------------- MODULE QuestCacheProofs ---------------------------
(***************************************************************************)
(* Proofs about QuestCache for any number of quests, reads, writes and     *)
(* faults: types, that no change is lost but by calls that overlap, and    *)
(* why a cached answer may be stale.                                       *)
(***************************************************************************)
EXTENDS QuestCache, TLAPS

-----------------------------------------------------------------------------
(* Reads and writes in flight.                                             *)

LEMMA NotIdle ==
  ASSUME NEW c \in Reader \cup Writer
  PROVE  c # Idle
  BY DEF Reader, Writer, Idle

LEMMA ReaderMoves ==
  ASSUME NEW c \in Reader, NEW step \in {"fallback", "query", "set", "setLocal"}
  PROVE  LET k == [c EXCEPT !.step = step]
         IN  k \in Reader /\ k.step = step /\ k.key = c.key /\ k.value = c.value
  BY DEF Reader

LEMMA ReaderLearns ==
  ASSUME NEW c \in Reader, NEW value \in Answers
  PROVE  LET k == [c EXCEPT !.value = value]
         IN  k \in Reader /\ k.key = c.key /\ k.value = value
  BY DEF Reader

WriterSteps == {"save", "remove", "saveItem", "del", "delLocal"}

LEMMA WriterMoves ==
  ASSUME NEW c \in Writer, NEW step \in WriterSteps
  PROVE  LET k == [c EXCEPT !.step = step]
         IN  k \in Writer /\ k.step = step /\ k.todo = c.todo /\ k.id = c.id
  BY DEF Writer, WriterSteps

LEMMA WriterDrops ==
  ASSUME NEW c \in Writer, NEW todo \in SUBSET Keys
  PROVE  LET k == [c EXCEPT !.todo = todo]
         IN  k \in Writer /\ k.todo = todo /\ k.id = c.id
  BY DEF Writer

LEMMA WriterClears ==
  ASSUME NEW c \in Writer
  PROVE  LET k == [c EXCEPT !.alone = FALSE]
         IN  /\ k \in Writer /\ k.step = c.step /\ k.todo = c.todo /\ k.id = c.id
             /\ k.row = c.row /\ ~k.alone
  BY DEF Writer

LEMMA WriterForgets ==
  ASSUME NEW c \in Writer, NEW row \in Row
  PROVE  LET k == [c EXCEPT !.row = row, !.alone = FALSE]
         IN  k \in Writer /\ k.todo = c.todo /\ k.id = c.id
  <1> DEFINE i == [c EXCEPT !.row = row]
             j == [i EXCEPT !.alone = FALSE]
  <1>1. i \in Writer /\ i.todo = c.todo /\ i.id = c.id
    BY DEF Writer
  <1>2. j \in Writer /\ j.todo = c.todo /\ j.id = c.id
    <2> HIDE DEF i
    <2> QED
      BY <1>1, WriterClears
  <1>3. j = [c EXCEPT !.row = row, !.alone = FALSE]
    OBVIOUS
  <1> QED
    BY <1>2, <1>3

LEMMA ReaderInFlight ==
  ASSUME QuestCacheTypeOK, NEW r \in Readers, readers[r] # Idle
  PROVE  /\ readers[r] \in Reader /\ readers[r].key \in Keys
         /\ readers[r].value \in Answers
  BY DEF QuestCacheTypeOK, Reader

LEMMA WriterInFlight ==
  ASSUME QuestCacheTypeOK, NEW w \in Writers, writers[w] # Idle
  PROVE  /\ writers[w] \in Writer /\ writers[w].id \in Ids /\ writers[w].todo \subseteq Keys
         /\ writers[w].row \in Row /\ KeyOf(w) \in Keys
  BY DEF QuestCacheTypeOK, Writer, KeyOf, Keys

-----------------------------------------------------------------------------
(* Answers.                                                                *)

LEMMA NewRowTyped == NewRow \in Row
  BY DEF NewRow, Row

LEMMA NoRowsTyped == NoRows \in Answers
  <1>1. NoRows \in [{} -> Row]
    BY DEF NoRows
  <1> QED
    BY <1>1 DEF Answers

LEMMA AnswerTyped ==
  ASSUME QuestCacheTypeOK, NEW key \in Keys
  PROVE  Answer(key) \in Answers
  <1> DEFINE S == DOMAIN rows \cap Covers(key)
  <1>1. S \in SUBSET Ids /\ \A id \in S : rows[id] \in Row
    BY DEF QuestCacheTypeOK
  <1>2. Answer(key) \in [S -> Row]
    BY <1>1 DEF Answer
  <1> HIDE DEF S
  <1> QED
    BY <1>1, <1>2 DEF Answers

(* The details of a quest that does not exist are no rows, and those of a  *)
(* quest that does are not.                                                *)
LEMMA DetailsEmpty ==
  ASSUME NEW id \in Ids
  PROVE  Answer(id) = NoRows <=> id \notin DOMAIN rows
  <1>1. id # "list"
    BY QuestCacheAssumption
  <1>2. DOMAIN Answer(id) = DOMAIN rows \cap {id} /\ DOMAIN NoRows = {}
    BY <1>1 DEF Answer, Covers, NoRows
  <1>3. ASSUME id \notin DOMAIN rows
        PROVE  Answer(id) = NoRows
    <2>1. DOMAIN rows \cap Covers(id) = {}
      BY <1>1, <1>3 DEF Covers
    <2> QED
      BY <2>1 DEF Answer, NoRows
  <1>4. ASSUME Answer(id) = NoRows
        PROVE  id \notin DOMAIN rows
    BY <1>2, <1>4
  <1> QED
    BY <1>3, <1>4

(* The details of a quest are the same when its row is.                    *)
LEMMA AnswerKept ==
  ASSUME NEW k \in Ids,
         k \in DOMAIN rows' <=> k \in DOMAIN rows,
         k \in DOMAIN rows => rows'[k] = rows[k]
  PROVE  Answer(k)' = Answer(k)
  <1>1. k # "list"
    BY QuestCacheAssumption
  <1>2. /\ DOMAIN rows \cap Covers(k) = DOMAIN rows' \cap Covers(k)
        /\ \A x \in DOMAIN rows \cap Covers(k) : rows'[x] = rows[x]
    BY <1>1 DEF Covers
  <1> QED
    BY <1>2 DEF Answer

-----------------------------------------------------------------------------
(* Steps of reads: each keeps the types, and what it does.                 *)

(* One read goes to k.                                                     *)
ReaderTo(r, k) ==
    /\ readers' \in [Readers -> {Idle} \cup Reader]
    /\ readers'[r] = k
    /\ \A q \in Readers : q # r => readers'[q] = readers[q]

LEMMA ReaderChange ==
  ASSUME QuestCacheTypeOK, NEW r \in Readers, NEW k \in {Idle} \cup Reader,
         readers' = [readers EXCEPT ![r] = k]
  PROVE  ReaderTo(r, k)
  BY DEF QuestCacheTypeOK, ReaderTo

(* The entry of one key is replaced.                                       *)
EntryTo(cache, cacheP, key, entry) ==
    /\ cacheP \in [Keys -> Cached]
    /\ cacheP[key] = entry
    /\ \A k \in Keys : k # key => cacheP[k] = cache[k]

LEMMA EntryChange ==
  ASSUME NEW cache \in [Keys -> Cached], NEW key \in Keys, NEW entry \in Cached
  PROVE  EntryTo(cache, [cache EXCEPT ![key] = entry], key, entry)
  BY DEF EntryTo

LEMMA EntryTyped ==
  ASSUME NEW value \in Answers
  PROVE  {value} \in Cached /\ {value} # Absent /\ Absent \in Cached
  BY DEF Cached, Absent

(* A read that only goes on.                                               *)
LEMMA ReaderGoesTyped ==
  ASSUME QuestCacheTypeOK, NEW r \in Readers, NEW k \in {Idle} \cup Reader,
         readers' = [readers EXCEPT ![r] = k],
         UNCHANGED <<rows, store, local, registry, writers, excused>>
  PROVE  QuestCacheTypeOK' /\ ReaderTo(r, k)
  <1>1. ReaderTo(r, k)
    BY ReaderChange
  <1> QED
    BY <1>1 DEF ReaderTo, QuestCacheTypeOK

LEMMA GetFacts ==
  ASSUME QuestCacheTypeOK, NEW r \in Readers, NEW key \in Keys,
         Get(r, key) \/ GetFails(r, key)
  PROVE  /\ QuestCacheTypeOK' /\ readers[r] = Idle
         /\ UNCHANGED <<rows, store, local, registry, writers, excused>>
         /\ \E k \in Reader : k.step \in {"fallback", "query"} /\ ReaderTo(r, k)
  <1> DEFINE call(step) == [step |-> step, key |-> key, value |-> NoRows]
  <1>1. /\ readers[r] = Idle
        /\ \E step \in {"fallback", "query"} :
             readers' = [readers EXCEPT ![r] = call(step)]
        /\ UNCHANGED <<rows, store, local, registry, writers, excused>>
    BY DEF Get, GetFails
  <1>2. PICK step \in {"fallback", "query"} : readers' = [readers EXCEPT ![r] = call(step)]
    BY <1>1
  <1>3. call(step) \in Reader /\ call(step).step = step
    BY NoRowsTyped DEF Reader
  <1> HIDE DEF call
  <1>4. QuestCacheTypeOK' /\ ReaderTo(r, call(step))
    BY <1>1, <1>2, <1>3, ReaderGoesTyped
  <1> QED
    BY <1>1, <1>3, <1>4

LEMMA GetLocalFacts ==
  ASSUME QuestCacheTypeOK, NEW r \in Readers, GetLocal(r)
  PROVE  /\ QuestCacheTypeOK' /\ readers[r] # Idle /\ readers[r].step = "fallback"
         /\ UNCHANGED <<rows, store, local, registry, writers, excused>>
         /\ \/ ReaderTo(r, Idle)
            \/ \E k \in Reader : k.step = "query" /\ ReaderTo(r, k)
  <1> DEFINE k == [readers[r] EXCEPT !.step = "query"]
  <1>1. /\ readers[r] # Idle /\ readers[r].step = "fallback"
        /\ UNCHANGED <<rows, store, local, registry, writers, excused>>
        /\ \/ readers' = [readers EXCEPT ![r] = Idle]
           \/ readers' = [readers EXCEPT ![r] = k]
    BY DEF GetLocal, AtReader, ReaderGoes, ReaderEnds
  <1>2. k \in Reader /\ k.step = "query"
    BY <1>1, ReaderInFlight, ReaderMoves
  <1> HIDE DEF k
  <1>3. CASE readers' = [readers EXCEPT ![r] = Idle]
    BY <1>1, <1>3, ReaderGoesTyped
  <1>4. CASE readers' = [readers EXCEPT ![r] = k]
    <2>1. QuestCacheTypeOK' /\ ReaderTo(r, k)
      BY <1>1, <1>2, <1>4, ReaderGoesTyped
    <2> QED
      BY <1>1, <1>2, <2>1
  <1> QED
    BY <1>1, <1>3, <1>4

LEMMA QueryFacts ==
  ASSUME QuestCacheTypeOK, NEW r \in Readers, Query(r)
  PROVE  /\ QuestCacheTypeOK' /\ readers[r] # Idle /\ readers[r].step = "query"
         /\ UNCHANGED <<rows, store, local, registry, writers, excused>>
         /\ \/ ReaderTo(r, Idle)
            \/ \E k \in Reader : /\ k.step = "set" /\ ReaderTo(r, k)
                                 /\ k.key \in Ids => k.value # NoRows
  <1> DEFINE key == readers[r].key
             i == [readers[r] EXCEPT !.value = Answer(key)]
             k == [i EXCEPT !.step = "set"]
  <1>1. /\ readers[r] # Idle /\ readers[r].step = "query"
        /\ UNCHANGED <<rows, store, local, registry, writers, excused>>
    BY DEF Query, AtReader
  <1>2. readers[r] \in Reader /\ key \in Keys /\ Answer(key) \in Answers
    BY <1>1, ReaderInFlight, AnswerTyped
  <1>3. CASE key # "list" /\ key \notin DOMAIN rows
    <2>1. readers' = [readers EXCEPT ![r] = Idle]
      BY <1>3 DEF Query, ReaderEnds
    <2>2. QuestCacheTypeOK' /\ ReaderTo(r, Idle)
      BY <1>1, <2>1, ReaderGoesTyped
    <2> QED
      BY <1>1, <2>2
  <1>4. CASE ~(key # "list" /\ key \notin DOMAIN rows)
    <2>1. readers' = [readers EXCEPT ![r] = k]
      BY <1>4 DEF Query, ReaderGoes
    <2>2. i \in Reader /\ i.key = key /\ i.value = Answer(key)
      BY <1>2, ReaderLearns
    <2> HIDE DEF i
    <2>3. k \in Reader /\ k.step = "set" /\ k.key = key /\ k.value = Answer(key)
      BY <2>2, ReaderMoves
    <2> HIDE DEF k
    <2>4. QuestCacheTypeOK' /\ ReaderTo(r, k)
      BY <1>1, <2>1, <2>3, ReaderGoesTyped
    <2>5. k.key \in Ids => k.value # NoRows
      BY <1>4, <2>3, DetailsEmpty, QuestCacheAssumption
    <2> QED
      BY <1>1, <2>3, <2>4, <2>5
  <1> QED
    BY <1>3, <1>4

LEMMA ReaderFailsFacts ==
  ASSUME QuestCacheTypeOK, NEW r \in Readers, ReaderFails(r)
  PROVE  /\ QuestCacheTypeOK' /\ readers[r] # Idle /\ readers[r].step = "query"
         /\ UNCHANGED <<rows, store, local, registry, writers, excused>>
         /\ ReaderTo(r, Idle)
  <1>1. /\ readers[r] # Idle /\ readers[r].step = "query"
        /\ UNCHANGED <<rows, store, local, registry, writers, excused>>
        /\ readers' = [readers EXCEPT ![r] = Idle]
    BY DEF ReaderFails, AtReader, ReaderEnds
  <1> QED
    BY <1>1, ReaderGoesTyped

LEMMA SetStoreFacts ==
  ASSUME QuestCacheTypeOK, NEW r \in Readers, SetStore(r)
  PROVE  LET key == readers[r].key
             value == readers[r].value
         IN  /\ QuestCacheTypeOK' /\ readers[r] # Idle /\ readers[r].step = "set"
             /\ UNCHANGED <<rows, local, registry, writers>>
             /\ key \in Keys /\ EntryTo(store, store', key, {value})
             /\ excused \subseteq excused'
             /\ value # Answer(key) => key \in excused'
             /\ \E k \in Reader : /\ k.step = "setLocal" /\ k.key = key
                                  /\ k.value = value /\ ReaderTo(r, k)
  <1> DEFINE call == readers[r]
             key == call.key
             value == call.value
             k == [call EXCEPT !.step = "setLocal"]
  <1>1. /\ call # Idle /\ call.step = "set"
        /\ UNCHANGED <<rows, local, registry, writers>>
        /\ store' = [store EXCEPT ![key] = {value}]
        /\ excused' \in {excused, excused \cup {key}}
        /\ value # Answer(key) => key \in excused'
        /\ readers' = [readers EXCEPT ![r] = k]
    BY DEF SetStore, AtReader, ReaderGoes, Outdated
  <1>2. call \in Reader /\ key \in Keys /\ value \in Answers
    BY <1>1, ReaderInFlight
  <1> HIDE DEF call
  <1>3. k \in Reader /\ k.step = "setLocal" /\ k.key = key /\ k.value = value
    BY <1>2, ReaderMoves
  <1> HIDE DEF k, key, value
  <1>4. ReaderTo(r, k)
    BY <1>1, <1>3, ReaderChange
  <1>5. EntryTo(store, store', key, {value})
    BY <1>1, <1>2, EntryTyped, EntryChange DEF QuestCacheTypeOK
  <1>6. QuestCacheTypeOK'
    BY <1>1, <1>2, <1>4, <1>5 DEF QuestCacheTypeOK, ReaderTo, EntryTo
  <1> QED
    BY <1>1, <1>2, <1>3, <1>4, <1>5, <1>6 DEF key, value, call

LEMMA SetLocalFacts ==
  ASSUME QuestCacheTypeOK, NEW r \in Readers, SetLocal(r) \/ SetFails(r)
  PROVE  LET key == readers[r].key
             value == readers[r].value
         IN  /\ QuestCacheTypeOK' /\ readers[r] # Idle
             /\ readers[r].step \in {"set", "setLocal"}
             /\ UNCHANGED <<rows, store, writers>>
             /\ key \in Keys /\ EntryTo(local, local', key, {value})
             /\ registry' = registry \cup {key}
             /\ excused \subseteq excused'
             /\ value # Answer(key) \/ Stale(store, key) => key \in excused'
             /\ ReaderTo(r, Idle)
  <1> DEFINE call == readers[r]
             key == call.key
             value == call.value
  <1>1. /\ call # Idle /\ call.step \in {"set", "setLocal"}
        /\ UNCHANGED <<rows, store, writers>>
        /\ local' = [local EXCEPT ![key] = {value}]
        /\ registry' = registry \cup {key}
        /\ excused' \in {excused, excused \cup {key}}
        /\ value # Answer(key) \/ Stale(store, key) => key \in excused'
        /\ readers' = [readers EXCEPT ![r] = Idle]
    BY DEF SetLocal, SetFails, AtReader, ReaderEnds, Outdated, Stale
  <1>2. key \in Keys /\ value \in Answers
    BY <1>1, ReaderInFlight
  <1> HIDE DEF call, key, value
  <1>3. ReaderTo(r, Idle)
    BY <1>1, ReaderChange
  <1>4. EntryTo(local, local', key, {value})
    BY <1>1, <1>2, EntryTyped, EntryChange DEF QuestCacheTypeOK
  <1>5. QuestCacheTypeOK'
    BY <1>1, <1>2, <1>3, <1>4 DEF QuestCacheTypeOK, ReaderTo, EntryTo
  <1> QED
    BY <1>1, <1>2, <1>3, <1>4, <1>5 DEF key, value, call

(* An entry expires, in the store or in the fallback.                      *)
LEMMA ExpireFacts ==
  ASSUME QuestCacheTypeOK, NEW key \in Keys, Expire(key)
  PROVE  /\ QuestCacheTypeOK'
         /\ UNCHANGED <<rows, registry, readers, writers>>
         /\ \A k \in Keys : store'[k] = store[k] \/ (k = key /\ store'[k] = Absent)
         /\ \A k \in Keys : local'[k] = local[k] \/ (k = key /\ local'[k] = Absent)
         /\ excused' = Lifted(key)
  <1>1. /\ UNCHANGED <<rows, registry, readers, writers>>
        /\ excused' = Lifted(key)
        /\ \/ store' = [store EXCEPT ![key] = Absent] /\ local' = local
           \/ local' = [local EXCEPT ![key] = Absent] /\ store' = store
    BY DEF Expire, StoreExpires, LocalExpires
  <1>2. excused' \subseteq excused
    BY <1>1 DEF Lifted
  <1>3. Absent \in Cached /\ store \in [Keys -> Cached] /\ local \in [Keys -> Cached]
    BY DEF Cached, QuestCacheTypeOK
  <1>4. /\ \A k \in Keys : store'[k] = store[k] \/ (k = key /\ store'[k] = Absent)
        /\ \A k \in Keys : local'[k] = local[k] \/ (k = key /\ local'[k] = Absent)
        /\ store' \in [Keys -> Cached] /\ local' \in [Keys -> Cached]
    BY <1>1, <1>3
  <1>5. QuestCacheTypeOK'
    BY <1>1, <1>2, <1>4 DEF QuestCacheTypeOK
  <1> QED
    BY <1>1, <1>4, <1>5

-----------------------------------------------------------------------------
(* Steps of writes: each keeps the types, and what it does.                *)

(* One write goes to k.                                                    *)
WriterTo(w, k) ==
    /\ writers' \in [Writers -> {Idle} \cup Writer]
    /\ writers'[w] = k
    /\ \A v \in Writers : v # w => writers'[v] = writers[v]

LEMMA WriterChange ==
  ASSUME QuestCacheTypeOK, NEW w \in Writers, NEW k \in {Idle} \cup Writer,
         writers' = [writers EXCEPT ![w] = k]
  PROVE  WriterTo(w, k)
  BY DEF QuestCacheTypeOK, WriterTo

(* The other writes keep what they know when one begins, but those of the  *)
(* same quest are no longer alone.                                         *)
LEMMA BeginFacts ==
  ASSUME QuestCacheTypeOK, NEW w \in Writers, NEW step \in {"save", "remove"},
         NEW todo \in SUBSET Keys, NEW id \in Ids, NEW row \in Row,
         Begin(w, step, todo, id, row)
  PROVE  /\ QuestCacheTypeOK' /\ writers[w] = Idle
         /\ UNCHANGED <<rows, store, local, registry, readers, excused, writes>>
         /\ writers'[w] # Idle
         /\ writers'[w].step = step /\ writers'[w].todo = todo
         /\ writers'[w].id = id /\ writers'[w].row = row
         /\ writers'[w].alone => Alone(id)
         /\ \A v \in Writers : v # w =>
              /\ writers'[v] # Idle <=> writers[v] # Idle
              /\ writers[v] # Idle =>
                   /\ writers'[v].step = writers[v].step
                   /\ writers'[v].todo = writers[v].todo
                   /\ writers'[v].id = writers[v].id
                   /\ writers'[v].row = writers[v].row
                   /\ writers'[v].alone => writers[v].alone
                   /\ AtWriter(v, "save") /\ writers[v].id = id => ~writers'[v].alone
  <1> DEFINE k == [step |-> step, todo |-> todo, id |-> id, row |-> row,
                   alone |-> Alone(id)]
             disturbed(v) == [writers[v] EXCEPT !.alone = FALSE]
  <1>1. /\ writers[w] = Idle
        /\ UNCHANGED <<rows, store, local, registry, readers, excused, writes>>
        /\ writers' = [v \in Writers |->
              IF v = w THEN k
              ELSE IF AtWriter(v, "save") /\ writers[v].id = id THEN disturbed(v)
              ELSE writers[v]]
    BY DEF Begin
  <1>2. Alone(id) \in BOOLEAN
    BY DEF Alone
  <1>3. k \in Writer
    BY <1>2 DEF Writer
  <1>4. k # Idle /\ k.step = step /\ k.todo = todo /\ k.id = id /\ k.row = row
        /\ (k.alone => Alone(id))
    BY <1>3, NotIdle
  <1> HIDE DEF k
  <1>5. ASSUME NEW v \in Writers, writers[v] # Idle
        PROVE  /\ disturbed(v) \in Writer /\ disturbed(v) # Idle
               /\ disturbed(v).step = writers[v].step
               /\ disturbed(v).todo = writers[v].todo
               /\ disturbed(v).id = writers[v].id
               /\ disturbed(v).row = writers[v].row
               /\ ~disturbed(v).alone
    <2>1. writers[v] \in Writer
      BY <1>5, WriterInFlight
    <2> QED
      BY <2>1, WriterClears, NotIdle
  <1> HIDE DEF disturbed
  <1>6. \A v \in Writers : AtWriter(v, "save") => writers[v] # Idle
    BY DEF AtWriter
  <1>7. writers' \in [Writers -> {Idle} \cup Writer]
    BY <1>1, <1>3, <1>5, <1>6 DEF QuestCacheTypeOK
  <1>8. QuestCacheTypeOK'
    BY <1>1, <1>7 DEF QuestCacheTypeOK
  <1>9. writers'[w] = k
    BY <1>1
  <1>10. \A v \in Writers : v # w =>
           writers'[v] = IF AtWriter(v, "save") /\ writers[v].id = id
                           THEN disturbed(v) ELSE writers[v]
    BY <1>1
  <1>11. \A v \in Writers : v # w =>
           /\ writers'[v] # Idle <=> writers[v] # Idle
           /\ writers[v] # Idle =>
                /\ writers'[v].step = writers[v].step
                /\ writers'[v].todo = writers[v].todo
                /\ writers'[v].id = writers[v].id
                /\ writers'[v].row = writers[v].row
                /\ writers'[v].alone => writers[v].alone
                /\ AtWriter(v, "save") /\ writers[v].id = id => ~writers'[v].alone
    BY <1>5, <1>6, <1>10
  <1> QED
    BY <1>1, <1>4, <1>8, <1>9, <1>11

LEMMA SaveFacts ==
  ASSUME QuestCacheTypeOK, writes \in Nat, NEW w \in Writers, Save(w)
  PROVE  LET c == writers[w]
         IN  /\ QuestCacheTypeOK' /\ c # Idle /\ c.step = "save" /\ writes' \in Nat
             /\ UNCHANGED <<store, local, registry, readers, excused>>
             /\ DOMAIN rows' = DOMAIN rows \cup {c.id}
             /\ c.row \subseteq rows'[c.id]
             /\ \A id \in DOMAIN rows : id # c.id => rows'[id] = rows[id]
             /\ \E k \in Writer : /\ k.step = "saveItem" /\ k.todo = c.todo
                                  /\ k.id = c.id /\ WriterTo(w, k)
  <1> DEFINE c == writers[w]
             row == c.row \cup {writes + 1}
             j == [c EXCEPT !.row = NewRow, !.alone = FALSE]
             k == [j EXCEPT !.step = "saveItem"]
  <1>1. /\ c # Idle /\ c.step = "save" /\ writes < MaxWrites
        /\ UNCHANGED <<store, local, registry, readers, excused>>
        /\ rows' = [id \in DOMAIN rows \cup {c.id} |-> IF id = c.id THEN row ELSE rows[id]]
        /\ writes' = writes + 1
        /\ writers' = [writers EXCEPT ![w] = k]
    BY DEF Save, AtWriter, WriterGoes
  <1>2. c \in Writer /\ c.id \in Ids /\ c.row \in Row
    BY <1>1, WriterInFlight
  <1> HIDE DEF c
  <1>3. row \in Row /\ c.row \subseteq row
    <2>1. writes + 1 \in 1..MaxWrites
      BY <1>1, QuestCacheAssumption
    <2> QED
      BY <1>2, <2>1 DEF Row
  <1>4. j \in Writer /\ j.todo = c.todo /\ j.id = c.id
    BY <1>2, WriterForgets, NewRowTyped
  <1> HIDE DEF j
  <1>5. k \in Writer /\ k.step = "saveItem" /\ k.todo = c.todo /\ k.id = c.id
    BY <1>4, WriterMoves DEF WriterSteps
  <1> HIDE DEF k, row
  <1>6. WriterTo(w, k)
    BY <1>1, <1>5, WriterChange
  <1>7. /\ DOMAIN rows' = DOMAIN rows \cup {c.id}
        /\ rows'[c.id] = row
        /\ \A id \in DOMAIN rows : id # c.id => rows'[id] = rows[id]
        /\ DOMAIN rows' \subseteq Ids /\ rows' \in [DOMAIN rows' -> Row]
    BY <1>1, <1>2, <1>3 DEF QuestCacheTypeOK
  <1>8. QuestCacheTypeOK'
    BY <1>1, <1>6, <1>7 DEF QuestCacheTypeOK, WriterTo
  <1> QED
    BY <1>1, <1>3, <1>5, <1>6, <1>7, <1>8 DEF c

LEMMA RemoveRowFacts ==
  ASSUME QuestCacheTypeOK, NEW w \in Writers, RemoveRow(w)
  PROVE  LET c == writers[w]
         IN  /\ QuestCacheTypeOK' /\ c # Idle /\ c.step = "remove"
             /\ UNCHANGED <<store, local, registry, readers, excused, writes>>
             /\ DOMAIN rows' = DOMAIN rows \ {c.id}
             /\ \A id \in DOMAIN rows : id # c.id => rows'[id] = rows[id]
             /\ \E k \in Writer : /\ k.step = "del" /\ k.todo = c.todo
                                  /\ k.id = c.id /\ WriterTo(w, k)
  <1> DEFINE c == writers[w]
             j == [c EXCEPT !.alone = FALSE]
             k == [j EXCEPT !.step = "del"]
  <1>1. /\ c # Idle /\ c.step = "remove"
        /\ UNCHANGED <<store, local, registry, readers, excused, writes>>
        /\ rows' = [id \in DOMAIN rows \ {c.id} |-> rows[id]]
        /\ writers' = [writers EXCEPT ![w] = k]
    BY DEF RemoveRow, AtWriter, WriterGoes
  <1>2. c \in Writer
    BY <1>1, WriterInFlight
  <1> HIDE DEF c
  <1>3. j \in Writer /\ j.todo = c.todo /\ j.id = c.id
    BY <1>2, WriterClears
  <1> HIDE DEF j
  <1>4. k \in Writer /\ k.step = "del" /\ k.todo = c.todo /\ k.id = c.id
    BY <1>3, WriterMoves DEF WriterSteps
  <1> HIDE DEF k
  <1>5. WriterTo(w, k)
    BY <1>1, <1>4, WriterChange
  <1>6. /\ DOMAIN rows' = DOMAIN rows \ {c.id}
        /\ \A id \in DOMAIN rows : id # c.id => rows'[id] = rows[id]
        /\ DOMAIN rows' \subseteq Ids /\ rows' \in [DOMAIN rows' -> Row]
    BY <1>1 DEF QuestCacheTypeOK
  <1>7. QuestCacheTypeOK'
    BY <1>1, <1>5, <1>6 DEF QuestCacheTypeOK, WriterTo
  <1> QED
    BY <1>1, <1>4, <1>5, <1>6, <1>7 DEF c

LEMMA WriterGoesTo ==
  ASSUME QuestCacheTypeOK, NEW w \in Writers, writers[w] # Idle,
         NEW step \in WriterSteps, WriterGoes(w, writers[w], step)
  PROVE  \E k \in Writer : /\ k.step = step /\ k.todo = writers[w].todo
                           /\ k.id = writers[w].id /\ WriterTo(w, k)
  <1> DEFINE c == writers[w]
             k == [c EXCEPT !.step = step]
  <1>1. c \in Writer /\ writers' = [writers EXCEPT ![w] = k]
    BY WriterInFlight DEF WriterGoes
  <1> HIDE DEF c
  <1>2. k \in Writer /\ k.step = step /\ k.todo = c.todo /\ k.id = c.id
    BY <1>1, WriterMoves
  <1> HIDE DEF k
  <1>3. WriterTo(w, k)
    BY <1>1, <1>2, WriterChange
  <1> QED
    BY <1>2, <1>3 DEF c

(* A write that has dealt with one key ends or goes to the next.           *)
LEMMA NextKeyFacts ==
  ASSUME QuestCacheTypeOK, NEW w \in Writers, writers[w] # Idle, NextKey(w)
  PROVE  \/ WriterTo(w, Idle) /\ writers[w].todo \subseteq {KeyOf(w)}
         \/ \E k \in Writer : /\ k.step = "del" /\ k.id = writers[w].id
                              /\ k.todo = writers[w].todo \ {KeyOf(w)}
                              /\ WriterTo(w, k)
  <1> DEFINE c == writers[w]
             left == c.todo \ {KeyOf(w)}
             j == [c EXCEPT !.todo = left]
             k == [j EXCEPT !.step = "del"]
  <1>1. CASE left = {}
    <2>1. writers' = [writers EXCEPT ![w] = Idle]
      BY <1>1 DEF NextKey, WriterEnds
    <2>2. WriterTo(w, Idle)
      BY <2>1, WriterChange
    <2> QED
      BY <1>1, <2>2
  <1>2. CASE left # {}
    <2>1. writers' = [writers EXCEPT ![w] = k]
      BY <1>2 DEF NextKey, WriterGoes
    <2>2. c \in Writer /\ left \in SUBSET Keys
      BY WriterInFlight
    <2> HIDE DEF c, left
    <2>3. j \in Writer /\ j.todo = left /\ j.id = c.id
      BY <2>2, WriterDrops
    <2> HIDE DEF j
    <2>4. k \in Writer /\ k.step = "del" /\ k.todo = left /\ k.id = c.id
      BY <2>3, WriterMoves DEF WriterSteps
    <2> HIDE DEF k
    <2>5. WriterTo(w, k)
      BY <2>1, <2>4, WriterChange
    <2> QED
      BY <2>4, <2>5 DEF c, left
  <1> QED
    BY <1>1, <1>2

LEMMA SaveItemFacts ==
  ASSUME QuestCacheTypeOK, NEW w \in Writers, SaveItem(w)
  PROVE  /\ QuestCacheTypeOK' /\ writers[w] # Idle /\ writers[w].step = "saveItem"
         /\ UNCHANGED <<rows, store, local, registry, readers, excused, writes>>
         /\ \E k \in Writer : /\ k.step = "del" /\ k.todo = writers[w].todo
                              /\ k.id = writers[w].id /\ WriterTo(w, k)
  <1>1. /\ writers[w] # Idle /\ writers[w].step = "saveItem"
        /\ UNCHANGED <<rows, store, local, registry, readers, excused, writes>>
        /\ WriterGoes(w, writers[w], "del")
    BY DEF SaveItem, AtWriter
  <1>2. \E k \in Writer : /\ k.step = "del" /\ k.todo = writers[w].todo
                          /\ k.id = writers[w].id /\ WriterTo(w, k)
    BY <1>1, WriterGoesTo DEF WriterSteps
  <1>3. QuestCacheTypeOK'
    BY <1>1, <1>2 DEF QuestCacheTypeOK, WriterTo
  <1> QED
    BY <1>1, <1>2, <1>3

(* A list key that is not registered is passed over.                       *)
LEMMA DelStoreFacts ==
  ASSUME QuestCacheTypeOK, NEW w \in Writers, DelStore(w)
  PROVE  /\ QuestCacheTypeOK' /\ writers[w] # Idle /\ writers[w].step = "del"
         /\ UNCHANGED <<rows, local, registry, readers, excused, writes>>
         /\ \/ /\ EntryTo(store, store', KeyOf(w), Absent)
               /\ \E k \in Writer : /\ k.step = "delLocal" /\ k.todo = writers[w].todo
                                    /\ k.id = writers[w].id /\ WriterTo(w, k)
            \/ /\ KeyOf(w) = "list" /\ "list" \notin registry /\ store' = store
               /\ NextKey(w)
  <1>1. /\ writers[w] # Idle /\ writers[w].step = "del"
        /\ UNCHANGED <<rows, local, registry, readers, excused, writes>>
    BY DEF DelStore, AtWriter
  <1>2. KeyOf(w) \in Keys
    BY <1>1, WriterInFlight
  <1>3. CASE ToDelete(KeyOf(w))
    <2>1. /\ store' = [store EXCEPT ![KeyOf(w)] = Absent]
          /\ WriterGoes(w, writers[w], "delLocal")
      BY <1>3 DEF DelStore
    <2>2. EntryTo(store, store', KeyOf(w), Absent)
      BY <1>2, <2>1, EntryChange DEF QuestCacheTypeOK, Cached
    <2>3. \E k \in Writer : /\ k.step = "delLocal" /\ k.todo = writers[w].todo
                            /\ k.id = writers[w].id /\ WriterTo(w, k)
      BY <1>1, <2>1, WriterGoesTo DEF WriterSteps
    <2>4. QuestCacheTypeOK'
      BY <1>1, <2>2, <2>3 DEF QuestCacheTypeOK, WriterTo, EntryTo
    <2> QED
      BY <1>1, <2>2, <2>3, <2>4
  <1>4. CASE ~ToDelete(KeyOf(w))
    <2>1. KeyOf(w) = "list" /\ "list" \notin registry /\ store' = store /\ NextKey(w)
      BY <1>4 DEF DelStore, ToDelete
    <2>2. writers' \in [Writers -> {Idle} \cup Writer]
      BY <1>1, <2>1, NextKeyFacts DEF WriterTo
    <2>3. QuestCacheTypeOK'
      BY <1>1, <2>1, <2>2 DEF QuestCacheTypeOK
    <2> QED
      BY <1>1, <2>1, <2>3
  <1> QED
    BY <1>3, <1>4

(* Fallback and registry forget the key; when the store did not answer, it *)
(* is excused.                                                             *)
LEMMA DelLocalFacts ==
  ASSUME QuestCacheTypeOK, NEW w \in Writers, DelLocal(w) \/ DelFails(w)
  PROVE  LET key == KeyOf(w)
         IN  /\ QuestCacheTypeOK' /\ writers[w] # Idle /\ key \in Keys
             /\ UNCHANGED <<rows, store, readers, writes>>
             /\ EntryTo(local, local', key, Absent)
             /\ registry' = registry \ {key}
             /\ \/ writers[w].step = "delLocal" /\ excused' = Lifted(key)
                \/ writers[w].step = "del" /\ excused' = excused \cup {key}
             /\ NextKey(w)
  <1> DEFINE key == KeyOf(w)
  <1>1. /\ writers[w] # Idle
        /\ UNCHANGED <<rows, store, readers, writes>>
        /\ local' = [local EXCEPT ![key] = Absent]
        /\ registry' = registry \ {key}
        /\ \/ writers[w].step = "delLocal" /\ excused' = Lifted(key)
           \/ writers[w].step = "del" /\ excused' = excused \cup {key}
        /\ NextKey(w)
    BY DEF DelLocal, DelFails, AtWriter
  <1>2. key \in Keys
    BY <1>1, WriterInFlight
  <1> HIDE DEF key
  <1>3. EntryTo(local, local', key, Absent)
    BY <1>1, <1>2, EntryChange DEF QuestCacheTypeOK, Cached
  <1>4. writers' \in [Writers -> {Idle} \cup Writer]
    BY <1>1, NextKeyFacts DEF WriterTo
  <1>5. excused' \subseteq Keys
    BY <1>1, <1>2 DEF QuestCacheTypeOK, Lifted
  <1>6. QuestCacheTypeOK'
    BY <1>1, <1>3, <1>4, <1>5 DEF QuestCacheTypeOK, EntryTo
  <1> QED
    BY <1>1, <1>2, <1>3, <1>6 DEF key

(* A write ends early: a call of the database fails, or the scan blocks.   *)
LEMMA WriterFailsFacts ==
  ASSUME QuestCacheTypeOK, NEW w \in Writers, WriterFails(w) \/ ScanBlocks(w)
  PROVE  /\ QuestCacheTypeOK' /\ writers[w] # Idle
         /\ writers[w].step \in {"save", "remove", "saveItem"}
         /\ UNCHANGED <<rows, store, local, registry, readers, writes>>
         /\ excused \subseteq excused'
         /\ writers[w].step = "saveItem" => writers[w].todo \subseteq excused'
         /\ WriterTo(w, Idle)
  <1>1. /\ writers[w] # Idle
        /\ writers[w].step \in {"save", "remove", "saveItem"}
        /\ UNCHANGED <<rows, store, local, registry, readers, writes>>
        /\ excused' = IF writers[w].step = "saveItem"
                        THEN excused \cup writers[w].todo ELSE excused
        /\ writers' = [writers EXCEPT ![w] = Idle]
    BY DEF WriterFails, ScanBlocks, AtWriter, WriterEnds
  <1>2. WriterTo(w, Idle)
    BY <1>1, WriterChange
  <1>3. writers[w].todo \subseteq Keys
    BY <1>1, WriterInFlight
  <1>4. QuestCacheTypeOK'
    BY <1>1, <1>2, <1>3 DEF QuestCacheTypeOK, WriterTo
  <1> QED
    BY <1>1, <1>2, <1>4

LEMMA RestartFacts ==
  ASSUME QuestCacheTypeOK, Restart
  PROVE  /\ QuestCacheTypeOK'
         /\ UNCHANGED <<rows, writes>>
         /\ \A r \in Readers : readers'[r] = Idle
         /\ \A w \in Writers : writers'[w] = Idle
         /\ \A k \in Keys : local'[k] = Absent
         /\ \A k \in Keys : store'[k] \in {store[k], Absent}
         /\ \A k \in Keys : store'[k] # Absent /\ Stale(store, k) => k \in excused'
  <1>1. /\ UNCHANGED <<rows, writes>>
        /\ readers' = [r \in Readers |-> Idle]
        /\ writers' = [w \in Writers |-> Idle]
        /\ local' = [k \in Keys |-> Absent]
        /\ store' \in {store, [k \in Keys |-> Absent]}
        /\ registry' = {}
        /\ excused' = {k \in Keys : store'[k] # Absent /\ (k \in excused \/ Stale(store, k))}
    BY DEF Restart
  <1>2. Absent \in Cached
    BY DEF Cached
  <1>3. QuestCacheTypeOK'
    BY <1>1, <1>2 DEF QuestCacheTypeOK
  <1> QED
    BY <1>1, <1>3

-----------------------------------------------------------------------------
(* What writes know about their quest.                                     *)

(* The keys a write has to invalidate: a new quest has no details cached.  *)
TodoOK ==
    \A w \in Writers : writers[w] # Idle =>
        /\ writers[w].step \in {"save", "saveItem"} =>
             writers[w].todo \in {{"list"}, {"list", writers[w].id}}
        /\ writers[w].step = "remove" => writers[w].todo = {"list", writers[w].id}

Creates(w) == AtWriter(w, "save") /\ writers[w].id \notin writers[w].todo

(* No other write has the quest of one that creates it or is alone.        *)
Undisturbed ==
    \A w, v \in Writers :
        AtWriter(w, "save") /\ (Creates(w) \/ writers[w].alone)
        /\ v # w /\ writers[v] # Idle =>
            writers[v].id # writers[w].id

CreatesNew == \A w \in Writers : Creates(w) => writers[w].id \notin DOMAIN rows

(* An update that is alone holds its row as it is.                         *)
LoadedRow ==
    \A w \in Writers :
        AtWriter(w, "save") /\ writers[w].alone /\ writers[w].id \in writers[w].todo =>
            /\ writers[w].id \in DOMAIN rows
            /\ rows[writers[w].id] = writers[w].row

WritersOK == TodoOK /\ Undisturbed /\ CreatesNew /\ LoadedRow

(* A write that has left "save" changes its own row only.                  *)
LEMMA WriterLeaves ==
  ASSUME WritersOK, NEW w \in Writers, writers[w] # Idle, NEW k, WriterTo(w, k),
         k # Idle => /\ k.id = writers[w].id /\ k.step # "save"
                     /\ k.step = "saveItem" =>
                          k.todo \in {{"list"}, {"list", writers[w].id}}
                     /\ k.step # "remove",
         \A id \in Ids : id # writers[w].id =>
           /\ id \in DOMAIN rows' <=> id \in DOMAIN rows
           /\ id \in DOMAIN rows => rows'[id] = rows[id],
         \A v \in Writers : writers[v] # Idle => writers[v].id \in Ids
  PROVE  WritersOK'
  <1>1. /\ writers'[w] = k
        /\ \A v \in Writers : v # w => writers'[v] = writers[v]
    BY DEF WriterTo
  <1>2. TodoOK'
    BY <1>1 DEF WritersOK, TodoOK
  <1>3. \A v \in Writers : AtWriter(v, "save")' =>
          v # w /\ AtWriter(v, "save") /\ writers'[v] = writers[v]
    BY <1>1 DEF AtWriter
  <1>4. \A v \in Writers : Creates(v)' => Creates(v)
    BY <1>3 DEF Creates
  <1>5. \A v \in Writers : writers'[v] # Idle =>
          writers[v] # Idle /\ writers'[v].id = writers[v].id
    BY <1>1
  <1>6. Undisturbed'
    BY <1>3, <1>4, <1>5 DEF WritersOK, Undisturbed
  <1>7. \A v \in Writers :
          AtWriter(v, "save") /\ v # w /\ (Creates(v) \/ writers[v].alone) =>
            writers[v].id # writers[w].id /\ writers[v].id \in Ids
    BY DEF WritersOK, Undisturbed, AtWriter
  <1>8. CreatesNew'
    BY <1>3, <1>4, <1>7 DEF WritersOK, CreatesNew, Creates
  <1>9. LoadedRow'
    <2> SUFFICES ASSUME NEW v \in Writers, AtWriter(v, "save")', writers'[v].alone,
                        writers'[v].id \in writers'[v].todo
                 PROVE  /\ writers'[v].id \in DOMAIN rows'
                        /\ rows'[writers'[v].id] = writers'[v].row
      BY DEF LoadedRow
    <2>1. v # w /\ AtWriter(v, "save") /\ writers'[v] = writers[v]
      BY <1>3
    <2>2. writers[v].id # writers[w].id /\ writers[v].id \in Ids
      BY <1>7, <2>1
    <2>3. /\ writers[v].id \in DOMAIN rows
          /\ rows[writers[v].id] = writers[v].row
      BY <2>1 DEF WritersOK, LoadedRow
    <2> QED
      BY <2>1, <2>2, <2>3
  <1> QED
    BY <1>2, <1>6, <1>8, <1>9 DEF WritersOK

(* A write begins.                                                         *)
LEMMA WriterBegins ==
  ASSUME QuestCacheTypeOK, WritersOK, NEW w \in Writers, NEW step \in {"save", "remove"},
         NEW todo \in SUBSET Keys, NEW id \in Ids, NEW row \in Row,
         Begin(w, step, todo, id, row),
         \/ /\ step = "save" /\ todo = {"list"} /\ id \notin DOMAIN rows /\ Alone(id)
         \/ /\ step = "save" /\ todo = {"list", id} /\ id \in DOMAIN rows
            /\ rows[id] = row
         \/ step = "remove" /\ todo = {"list", id} /\ id \in DOMAIN rows
  PROVE  WritersOK'
  <1>1. /\ writers[w] = Idle /\ rows' = rows
        /\ writers'[w] # Idle
        /\ writers'[w].step = step /\ writers'[w].todo = todo
        /\ writers'[w].id = id /\ writers'[w].row = row
        /\ writers'[w].alone => Alone(id)
        /\ \A v \in Writers : v # w =>
             /\ writers'[v] # Idle <=> writers[v] # Idle
             /\ writers[v] # Idle =>
                  /\ writers'[v].step = writers[v].step
                  /\ writers'[v].todo = writers[v].todo
                  /\ writers'[v].id = writers[v].id
                  /\ writers'[v].row = writers[v].row
                  /\ writers'[v].alone => writers[v].alone
                  /\ AtWriter(v, "save") /\ writers[v].id = id => ~writers'[v].alone
    BY BeginFacts
  <1>2. id # "list"
    BY QuestCacheAssumption
  <1>3. TodoOK'
    BY <1>1 DEF WritersOK, TodoOK
  <1>4. \A v \in Writers : v # w => /\ AtWriter(v, "save")' <=> AtWriter(v, "save")
                                    /\ Creates(v)' <=> Creates(v)
    BY <1>1 DEF AtWriter, Creates
  <1>5. CreatesNew'
    BY <1>1, <1>2, <1>4 DEF WritersOK, CreatesNew, Creates, AtWriter
  <1>6. LoadedRow'
    BY <1>1, <1>2, <1>4 DEF WritersOK, LoadedRow, AtWriter
  <1>7. Undisturbed'
    <2> SUFFICES ASSUME NEW u \in Writers, NEW v \in Writers, AtWriter(u, "save")',
                        Creates(u)' \/ writers'[u].alone, v # u, writers'[v] # Idle
                 PROVE  writers'[v].id # writers'[u].id
      BY DEF Undisturbed
    <2>1. CASE u = w
      <3>1. Alone(id)
        BY <1>1, <1>2, <2>1 DEF Creates, AtWriter
      <3> QED
        BY <1>1, <2>1, <3>1 DEF Alone
    <2>2. CASE u # w /\ v # w
      BY <1>1, <1>4, <2>2 DEF WritersOK, Undisturbed, AtWriter
    <2>3. CASE u # w /\ v = w
      <3>1. writers[u] # Idle /\ AtWriter(u, "save")
        BY <1>4, <2>3 DEF AtWriter
      <3>2. CASE Creates(u)'
        <4>1. writers[u].id \notin DOMAIN rows
          BY <1>4, <2>3, <3>2 DEF WritersOK, CreatesNew
        <4>2. CASE id \in DOMAIN rows
          BY <1>1, <2>3, <3>1, <4>1, <4>2
        <4>3. CASE Alone(id)
          BY <1>1, <2>3, <3>1, <4>3 DEF Alone
        <4> QED
          BY <4>2, <4>3
      <3>3. CASE writers'[u].alone
        BY <1>1, <2>3, <3>1, <3>3
      <3> QED
        BY <3>2, <3>3
    <2> QED
      BY <2>1, <2>2, <2>3
  <1> QED
    BY <1>3, <1>5, <1>6, <1>7 DEF WritersOK

(* What a call of create, update or remove does when it starts.            *)
LEMMA StartFacts ==
  ASSUME QuestCacheTypeOK, WritersOK, NEW w \in Writers, NEW id \in Ids,
         Create(w, id) \/ Update(w, id) \/ Remove(w, id)
  PROVE  /\ QuestCacheTypeOK' /\ WritersOK'
         /\ UNCHANGED <<rows, store, local, registry, readers, excused, writes>>
         /\ writers[w] = Idle /\ writers'[w] # Idle
         /\ writers'[w].step \in {"save", "remove"}
         /\ \A v \in Writers : v # w =>
              /\ writers'[v] # Idle <=> writers[v] # Idle
              /\ writers[v] # Idle =>
                   /\ writers'[v].step = writers[v].step
                   /\ writers'[v].todo = writers[v].todo
                   /\ writers'[v].id = writers[v].id
  <1>1. {"list"} \in SUBSET Keys /\ {"list", id} \in SUBSET Keys
    BY DEF Keys
  <1>2. id \in DOMAIN rows => rows[id] \in Row
    BY DEF QuestCacheTypeOK
  <1>3. ASSUME Create(w, id)
        PROVE  \E step \in {"save", "remove"}, todo \in SUBSET Keys, row \in Row :
                 /\ Begin(w, step, todo, id, row)
                 /\ step = "save" /\ todo = {"list"} /\ id \notin DOMAIN rows /\ Alone(id)
    BY <1>1, <1>3, NewRowTyped DEF Create
  <1>4. ASSUME Update(w, id)
        PROVE  \E step \in {"save", "remove"}, todo \in SUBSET Keys, row \in Row :
                 /\ Begin(w, step, todo, id, row)
                 /\ step = "save" /\ todo = {"list", id} /\ id \in DOMAIN rows
                 /\ rows[id] = row
    BY <1>1, <1>2, <1>4 DEF Update
  <1>5. ASSUME Remove(w, id)
        PROVE  \E step \in {"save", "remove"}, todo \in SUBSET Keys, row \in Row :
                 /\ Begin(w, step, todo, id, row)
                 /\ step = "remove" /\ todo = {"list", id} /\ id \in DOMAIN rows
    BY <1>1, <1>5, NewRowTyped DEF Remove
  <1>6. PICK step \in {"save", "remove"}, todo \in SUBSET Keys, row \in Row :
          /\ Begin(w, step, todo, id, row)
          /\ \/ /\ step = "save" /\ todo = {"list"} /\ id \notin DOMAIN rows /\ Alone(id)
             \/ /\ step = "save" /\ todo = {"list", id} /\ id \in DOMAIN rows
                /\ rows[id] = row
             \/ step = "remove" /\ todo = {"list", id} /\ id \in DOMAIN rows
    BY <1>3, <1>4, <1>5
  <1>7. WritersOK'
    BY <1>6, WriterBegins
  <1> QED
    BY <1>6, <1>7, BeginFacts

-----------------------------------------------------------------------------
(* Types and what writes know are invariant.                               *)

TypeInv == QuestCacheTypeOK /\ writes \in Nat /\ WritersOK

(* The steps after a call has started.                                     *)
LEMMA WriterStepsTyped ==
  ASSUME TypeInv, NEW w \in Writers, WriterStep(w) \/ ScanBlocks(w) \/ DelFails(w) \/ WriterFails(w)
  PROVE  TypeInv'
  <1>1. \A v \in Writers : writers[v] # Idle => writers[v].id \in Ids
    BY WriterInFlight DEF TypeInv
  <1>2. ASSUME NextKey(w), writers[w] # Idle, rows' = rows
        PROVE  WritersOK'
    <2>1. CASE WriterTo(w, Idle)
      BY <1>1, <1>2, <2>1, WriterLeaves DEF TypeInv
    <2>2. CASE \E k \in Writer : /\ k.step = "del" /\ k.id = writers[w].id
                                 /\ k.todo = writers[w].todo \ {KeyOf(w)}
                                 /\ WriterTo(w, k)
      <3>1. PICK k \in Writer : k.step = "del" /\ k.id = writers[w].id /\ WriterTo(w, k)
        BY <2>2
      <3> QED
        BY <1>1, <1>2, <3>1, WriterLeaves DEF TypeInv
    <2> QED
      BY <1>2, <2>1, <2>2, NextKeyFacts DEF TypeInv
  <1>3. CASE Save(w)
    <2> DEFINE c == writers[w]
    <2>1. /\ QuestCacheTypeOK' /\ c # Idle /\ c.step = "save" /\ writes' \in Nat
          /\ DOMAIN rows' = DOMAIN rows \cup {c.id}
          /\ \A id \in DOMAIN rows : id # c.id => rows'[id] = rows[id]
          /\ \E k \in Writer : /\ k.step = "saveItem" /\ k.todo = c.todo
                               /\ k.id = c.id /\ WriterTo(w, k)
      BY <1>3, SaveFacts DEF TypeInv
    <2>2. c.todo \in {{"list"}, {"list", c.id}}
      BY <2>1 DEF TypeInv, WritersOK, TodoOK
    <2>3. PICK k \in Writer : /\ k.step = "saveItem" /\ k.todo = c.todo
                              /\ k.id = c.id /\ WriterTo(w, k)
      BY <2>1
    <2>4. WritersOK'
      BY <1>1, <2>1, <2>2, <2>3, WriterLeaves DEF TypeInv
    <2> QED
      BY <2>1, <2>4 DEF TypeInv
  <1>4. CASE RemoveRow(w)
    <2> DEFINE c == writers[w]
    <2>1. /\ QuestCacheTypeOK' /\ c # Idle /\ writes' = writes
          /\ DOMAIN rows' = DOMAIN rows \ {c.id}
          /\ \A id \in DOMAIN rows : id # c.id => rows'[id] = rows[id]
          /\ \E k \in Writer : /\ k.step = "del" /\ k.todo = c.todo
                               /\ k.id = c.id /\ WriterTo(w, k)
      BY <1>4, RemoveRowFacts DEF TypeInv
    <2>2. PICK k \in Writer : k.step = "del" /\ k.id = c.id /\ WriterTo(w, k)
      BY <2>1
    <2>3. WritersOK'
      BY <1>1, <2>1, <2>2, WriterLeaves DEF TypeInv
    <2> QED
      BY <2>1, <2>3 DEF TypeInv
  <1>5. CASE SaveItem(w)
    <2>1. /\ QuestCacheTypeOK' /\ writers[w] # Idle /\ UNCHANGED <<rows, writes>>
          /\ \E k \in Writer : /\ k.step = "del" /\ k.todo = writers[w].todo
                               /\ k.id = writers[w].id /\ WriterTo(w, k)
      BY <1>5, SaveItemFacts DEF TypeInv
    <2>2. PICK k \in Writer : k.step = "del" /\ k.id = writers[w].id /\ WriterTo(w, k)
      BY <2>1
    <2>3. WritersOK'
      BY <1>1, <2>1, <2>2, WriterLeaves DEF TypeInv
    <2> QED
      BY <2>1, <2>3 DEF TypeInv
  <1>6. CASE DelStore(w)
    <2>1. /\ QuestCacheTypeOK' /\ writers[w] # Idle /\ UNCHANGED <<rows, writes>>
          /\ \/ \E k \in Writer : /\ k.step = "delLocal" /\ k.todo = writers[w].todo
                                  /\ k.id = writers[w].id /\ WriterTo(w, k)
             \/ NextKey(w)
      BY <1>6, DelStoreFacts DEF TypeInv
    <2>2. CASE NextKey(w)
      BY <1>2, <2>1, <2>2 DEF TypeInv
    <2>3. CASE \E k \in Writer : /\ k.step = "delLocal" /\ k.todo = writers[w].todo
                                 /\ k.id = writers[w].id /\ WriterTo(w, k)
      <3>1. PICK k \in Writer : k.step = "delLocal" /\ k.id = writers[w].id /\ WriterTo(w, k)
        BY <2>3
      <3>2. WritersOK'
        BY <1>1, <2>1, <3>1, WriterLeaves DEF TypeInv
      <3> QED
        BY <2>1, <3>2 DEF TypeInv
    <2> QED
      BY <2>1, <2>2, <2>3
  <1>7. CASE DelLocal(w) \/ DelFails(w)
    <2>1. /\ QuestCacheTypeOK' /\ writers[w] # Idle /\ UNCHANGED <<rows, writes>>
          /\ NextKey(w)
      BY <1>7, DelLocalFacts DEF TypeInv
    <2> QED
      BY <1>2, <2>1 DEF TypeInv
  <1>8. CASE WriterFails(w) \/ ScanBlocks(w)
    <2>1. /\ QuestCacheTypeOK' /\ writers[w] # Idle /\ UNCHANGED <<rows, writes>>
          /\ WriterTo(w, Idle)
      BY <1>8, WriterFailsFacts DEF TypeInv
    <2>2. WritersOK'
      BY <1>1, <2>1, WriterLeaves DEF TypeInv
    <2> QED
      BY <2>1, <2>2 DEF TypeInv
  <1> QED
    BY <1>3, <1>4, <1>5, <1>6, <1>7, <1>8 DEF WriterStep

LEMMA WritersSame ==
  ASSUME WritersOK, UNCHANGED <<rows, writers>>
  PROVE  WritersOK'
  BY DEF WritersOK, TodoOK, Undisturbed, CreatesNew, LoadedRow, Creates, AtWriter

LEMMA NextTyped ==
  ASSUME TypeInv, [Next]_vars
  PROVE  TypeInv'
  <1>1. ASSUME NEW r \in Readers,
               \/ \E key \in Keys : Get(r, key) \/ GetFails(r, key)
               \/ ReaderStep(r)
               \/ SetFails(r) \/ ReaderFails(r)
        PROVE  TypeInv'
    <2>1. QuestCacheTypeOK'
      BY <1>1, GetFacts, GetLocalFacts, QueryFacts, SetStoreFacts, SetLocalFacts, ReaderFailsFacts
         DEF TypeInv, ReaderStep
    <2>2. UNCHANGED <<rows, writers, writes>>
      BY <1>1 DEF Get, GetFails, ReaderStep, GetLocal, Query, SetStore, SetLocal,
                  SetFails, ReaderFails
    <2> QED
      BY <2>1, <2>2, WritersSame DEF TypeInv
  <1>2. ASSUME NEW w \in Writers, NEW id \in Ids,
               Create(w, id) \/ Update(w, id) \/ Remove(w, id)
        PROVE  TypeInv'
    BY <1>2, StartFacts DEF TypeInv
  <1>3. ASSUME NEW w \in Writers, WriterStep(w) \/ ScanBlocks(w) \/ DelFails(w) \/ WriterFails(w)
        PROVE  TypeInv'
    BY <1>3, WriterStepsTyped
  <1>4. ASSUME NEW key \in Keys, Expire(key)
        PROVE  TypeInv'
    <2>1. QuestCacheTypeOK' /\ UNCHANGED <<rows, writers>>
      BY <1>4, ExpireFacts DEF TypeInv
    <2>2. writes' = writes
      BY <1>4 DEF Expire, StoreExpires, LocalExpires
    <2> QED
      BY <2>1, <2>2, WritersSame DEF TypeInv
  <1>5. CASE Restart
    <2>1. /\ QuestCacheTypeOK' /\ UNCHANGED <<rows, writes>>
          /\ \A w \in Writers : writers'[w] = Idle
      BY <1>5, RestartFacts DEF TypeInv
    <2>2. WritersOK'
      BY <2>1 DEF WritersOK, TodoOK, Undisturbed, CreatesNew, LoadedRow, Creates,
                  AtWriter
    <2> QED
      BY <2>1, <2>2 DEF TypeInv
  <1>6. CASE UNCHANGED vars
    BY <1>6, WritersSame DEF vars, TypeInv, QuestCacheTypeOK
  <1> QED
    BY <1>1, <1>2, <1>3, <1>4, <1>5, <1>6 DEF Next

LEMMA InitTyped ==
  ASSUME Init
  PROVE  TypeInv
  <1>1. Absent \in Cached
    BY DEF Cached
  <1>2. QuestCacheTypeOK
    BY <1>1 DEF Init, QuestCacheTypeOK, NoRows
  <1>3. WritersOK
    <2>1. \A w \in Writers : writers[w] = Idle
      BY DEF Init
    <2> QED
      BY <2>1 DEF WritersOK, TodoOK, Undisturbed, CreatesNew, LoadedRow, Creates,
                  AtWriter
  <1> QED
    BY <1>2, <1>3 DEF TypeInv, Init

LEMMA AlwaysTyped == Spec => []TypeInv
  <1>1. Init => TypeInv
    BY InitTyped
  <1>2. TypeInv /\ [Next]_vars => TypeInv'
    BY NextTyped
  <1> QED
    BY <1>1, <1>2, PTL DEF Spec

(* Rows, cached answers and calls in flight have their types, and a list   *)
(* in the fallback is always registered (cache.service.ts:95-106): the     *)
(* pattern deletion of an update finds it.                                 *)
THEOREM FallbackIsRegistered == Spec => []QuestCacheTypeOK
  <1>1. TypeInv => QuestCacheTypeOK
    BY DEF TypeInv
  <1> QED
    BY <1>1, AlwaysTyped, PTL

-----------------------------------------------------------------------------
(* Changes of quests.                                                      *)

(* Only its own save takes a write from "save" to "saveItem".              *)
LEMMA OnlySaveSaves ==
  ASSUME TypeInv, Next, NEW w \in Writers, AtWriter(w, "save"), AtWriter(w, "saveItem")'
  PROVE  Save(w)
  <1>1. /\ writers[w] # Idle /\ writers[w].step = "save"
        /\ writers'[w] # Idle /\ writers'[w].step = "saveItem"
        /\ QuestCacheTypeOK /\ WritersOK
    BY DEF AtWriter, TypeInv
  <1>2. CASE writers'[w] = writers[w]
    BY <1>1, <1>2
  <1>3. ASSUME NEW r \in Readers,
               \/ \E key \in Keys : Get(r, key) \/ GetFails(r, key)
               \/ ReaderStep(r)
               \/ SetFails(r) \/ ReaderFails(r)
        PROVE  writers' = writers
    BY <1>3 DEF Get, GetFails, ReaderStep, GetLocal, Query, SetStore, SetLocal,
                SetFails, ReaderFails
  <1>4. ASSUME NEW v \in Writers, NEW id \in Ids,
               Create(v, id) \/ Update(v, id) \/ Remove(v, id)
        PROVE  FALSE
    BY <1>1, <1>4, StartFacts
  <1>5. ASSUME NEW v \in Writers, WriterStep(v) \/ ScanBlocks(v) \/ DelFails(v) \/ WriterFails(v)
        PROVE  Save(w)
    <2>1. CASE Save(v)
      <3>1. CASE v = w
        BY <2>1, <3>1
      <3>2. CASE v # w
        <4>1. writers'[w] = writers[w]
          BY <1>1, <2>1, <3>2, SaveFacts DEF WriterTo, TypeInv
        <4> QED
          BY <1>2, <4>1
      <3> QED
        BY <3>1, <3>2
    <2>2. CASE SaveItem(v) \/ RemoveRow(v) \/ DelStore(v) \/ DelLocal(v) \/ DelFails(v)
      <3>1. v # w
        BY <1>1, <2>2 DEF SaveItem, RemoveRow, DelStore, DelLocal, DelFails, AtWriter
      <3>2. ASSUME NextKey(v), writers[v] # Idle
            PROVE  writers'[w] = writers[w]
        BY <1>1, <3>1, <3>2, NextKeyFacts DEF WriterTo
      <3>3. writers'[w] = writers[w]
        <4>1. CASE SaveItem(v)
          BY <1>1, <3>1, <4>1, SaveItemFacts DEF WriterTo
        <4>2. CASE RemoveRow(v)
          BY <1>1, <3>1, <4>2, RemoveRowFacts DEF WriterTo
        <4>3. CASE DelStore(v)
          BY <1>1, <3>1, <3>2, <4>3, DelStoreFacts DEF WriterTo
        <4>4. CASE DelLocal(v) \/ DelFails(v)
          BY <1>1, <3>2, <4>4, DelLocalFacts
        <4> QED
          BY <2>2, <4>1, <4>2, <4>3, <4>4
      <3> QED
        BY <1>2, <3>3
    <2>3. CASE WriterFails(v) \/ ScanBlocks(v)
      <3>1. writers'[w] \in {Idle, writers[w]}
        BY <1>1, <2>3, WriterFailsFacts DEF WriterTo
      <3> QED
        BY <1>1, <3>1
    <2> QED
      BY <1>5, <2>1, <2>2, <2>3 DEF WriterStep
  <1>6. ASSUME NEW key \in Keys, Expire(key)
        PROVE  writers' = writers
    BY <1>6 DEF Expire, StoreExpires, LocalExpires
  <1>7. CASE Restart
    BY <1>1, <1>7, RestartFacts
  <1> QED
    BY <1>2, <1>3, <1>4, <1>5, <1>6, <1>7 DEF Next

(* An update that no other write of its quest overlaps keeps every change  *)
(* that was saved before, and its quest was not removed meanwhile          *)
(* (quests.service.ts:214-248), although the moderation scan is awaited    *)
(* between the query and the save.                                         *)
THEOREM ChangesAlwaysSurvive == Spec => ChangesSurvive
  <1> DEFINE Step == \A w \in Writers :
               AtWriter(w, "save") /\ writers[w].alone /\ writers[w].id \in writers[w].todo
               /\ AtWriter(w, "saveItem")' =>
                  /\ writers[w].id \in DOMAIN rows
                  /\ rows[writers[w].id] \subseteq rows'[writers[w].id]
  <1>1. ASSUME TypeInv, Next
        PROVE  Step
    <2> SUFFICES ASSUME NEW w \in Writers,
                        AtWriter(w, "save"), writers[w].alone,
                        writers[w].id \in writers[w].todo, AtWriter(w, "saveItem")'
                 PROVE  /\ writers[w].id \in DOMAIN rows
                        /\ rows[writers[w].id] \subseteq rows'[writers[w].id]
      OBVIOUS
    <2>1. writers[w].id \in DOMAIN rows /\ rows[writers[w].id] = writers[w].row
      BY <1>1 DEF TypeInv, WritersOK, LoadedRow
    <2>2. Save(w)
      BY <1>1, OnlySaveSaves
    <2>3. writers[w].row \subseteq rows'[writers[w].id]
      BY <1>1, <2>2, SaveFacts DEF TypeInv
    <2> QED
      BY <2>1, <2>3
  <1>2. TypeInv /\ [Next]_vars => [Step]_vars
    <2> HIDE DEF Step
    <2> QED
      BY <1>1
  <1> QED
    BY <1>2, AlwaysTyped, PTL DEF Spec, ChangesSurvive

-----------------------------------------------------------------------------
(* Stale answers.                                                          *)

(* What is cached as the details of a quest is never empty.                *)
NoEmpty ==
    /\ \A k \in Ids : store[k] # {NoRows} /\ local[k] # {NoRows}
    /\ \A r \in Readers :
         readers[r] # Idle /\ readers[r].step \in {"set", "setLocal"}
         /\ readers[r].key \in Ids => readers[r].value # NoRows

StaleStore(k) == Stale(store, k)
StaleLocal(k) == Stale(local, k)

(* A write that will still delete the entry of the store.                  *)
WillClear(w, k) ==
    WillDelete(w, k) /\ ~(writers[w].step = "delLocal" /\ k = KeyOf(w))

Filling(k) == \E r \in Readers : AtReader(r, "setLocal") /\ readers[r].key = k

Hidden(k) == k = "list" /\ "list" \notin registry

Caused(k) ==
    /\ StaleStore(k) => \/ k \in excused \/ Filling(k) \/ Hidden(k)
                        \/ \E w \in Writers : WillClear(w, k)
    /\ StaleLocal(k) => \/ k \in excused \/ Filling(k) \/ Hidden(k)
                        \/ \E w \in Writers : WillDelete(w, k)

CausesOK == \A k \in Keys : Caused(k)

CacheInv == NoEmpty /\ CausesOK

LEMMA CauseKept ==
  ASSUME NEW x \in Keys, Caused(x),
         StaleStore(x)' => StaleStore(x), StaleLocal(x)' => StaleLocal(x),
         x \in excused => x \in excused',
         \A w \in Writers : /\ WillDelete(w, x) => WillDelete(w, x)'
                            /\ WillClear(w, x) => WillClear(w, x)',
         Filling(x) => Filling(x)', Hidden(x) => Hidden(x)'
  PROVE  Caused(x)'
  BY DEF Caused

(* Entries of which the rows and the copy stay.                            *)
LEMMA StaleSame ==
  ASSUME NEW x, Answer(x)' = Answer(x)
  PROVE  /\ store'[x] \in {store[x], Absent} => (StaleStore(x)' => StaleStore(x))
         /\ local'[x] \in {local[x], Absent} => (StaleLocal(x)' => StaleLocal(x))
  BY DEF StaleStore, StaleLocal, Stale

LEMMA SameAnswer ==
  ASSUME NEW x, rows' = rows
  PROVE  Answer(x)' = Answer(x)
  BY DEF Answer

LEMMA WritersWait ==
  ASSUME writers' = writers, NEW x
  PROVE  \A w \in Writers : /\ WillDelete(w, x) => WillDelete(w, x)'
                            /\ WillClear(w, x) => WillClear(w, x)'
  BY DEF WillDelete, WillClear, KeyOf

(* A read that is not filling the fallback goes on.                        *)
LEMMA FillingKept ==
  ASSUME NEW r \in Readers, NEW k, ReaderTo(r, k), NEW x,
         ~(AtReader(r, "setLocal") /\ readers[r].key = x), Filling(x)
  PROVE  Filling(x)'
  BY DEF Filling, ReaderTo, AtReader

(* A write that has not yet deleted the entry goes on.                     *)
LEMMA WriterProceeds ==
  ASSUME NEW w \in Writers, NEW k, WriterTo(w, k), NEW x,
         \/ ~WillDelete(w, x)
         \/ k # Idle /\ k.step \in {"saveItem", "del"} /\ x \in k.todo
  PROVE  \A v \in Writers : /\ WillDelete(v, x) => WillDelete(v, x)'
                            /\ WillClear(v, x) => WillClear(v, x)'
  <1>1. /\ writers'[w] = k
        /\ \A v \in Writers : v # w => writers'[v] = writers[v]
    BY DEF WriterTo
  <1>2. \A v \in Writers : v # w =>
          (WillDelete(v, x)' <=> WillDelete(v, x)) /\ (WillClear(v, x)' <=> WillClear(v, x))
    BY <1>1 DEF WillDelete, WillClear, KeyOf
  <1>3. CASE ~WillDelete(w, x)
    BY <1>2, <1>3 DEF WillClear
  <1>4. CASE k # Idle /\ k.step \in {"saveItem", "del"} /\ x \in k.todo
    <2>1. WillDelete(w, x)' /\ WillClear(w, x)'
      BY <1>1, <1>4 DEF WillDelete, WillClear
    <2> QED
      BY <1>2, <2>1
  <1> QED
    BY <1>3, <1>4

LEMMA NextKeyProceeds ==
  ASSUME QuestCacheTypeOK, NEW w \in Writers, writers[w] # Idle, NextKey(w), NEW x,
         x # KeyOf(w)
  PROVE  \A v \in Writers : /\ WillDelete(v, x) => WillDelete(v, x)'
                            /\ WillClear(v, x) => WillClear(v, x)'
  <1>1. CASE WriterTo(w, Idle) /\ writers[w].todo \subseteq {KeyOf(w)}
    <2>1. ~WillDelete(w, x)
      BY <1>1 DEF WillDelete
    <2> QED
      BY <1>1, <2>1, WriterProceeds
  <1>2. CASE \E k \in Writer : /\ k.step = "del" /\ k.id = writers[w].id
                               /\ k.todo = writers[w].todo \ {KeyOf(w)}
                               /\ WriterTo(w, k)
    <2>1. PICK k \in Writer : /\ k.step = "del"
                              /\ k.todo = writers[w].todo \ {KeyOf(w)}
                              /\ WriterTo(w, k)
      BY <1>2
    <2>2. ~WillDelete(w, x) \/ (k # Idle /\ k.step \in {"saveItem", "del"} /\ x \in k.todo)
      BY <2>1, NotIdle DEF WillDelete
    <2> QED
      BY <2>1, <2>2, WriterProceeds
  <1> QED
    BY <1>1, <1>2, NextKeyFacts

LEMMA SetStoreCaused ==
  ASSUME TypeInv, CacheInv, NEW r \in Readers, SetStore(r)
  PROVE  CacheInv'
  <1> DEFINE key == readers[r].key
             value == readers[r].value
  <1>1. /\ readers[r] # Idle /\ readers[r].step = "set"
        /\ UNCHANGED <<rows, local, registry, writers>>
        /\ key \in Keys /\ EntryTo(store, store', key, {value})
        /\ excused \subseteq excused'
        /\ value # Answer(key) => key \in excused'
        /\ \E k \in Reader : /\ k.step = "setLocal" /\ k.key = key
                             /\ k.value = value /\ ReaderTo(r, k)
    BY SetStoreFacts DEF TypeInv
  <1>2. PICK k \in Reader : /\ k.step = "setLocal" /\ k.key = key
                            /\ k.value = value /\ ReaderTo(r, k)
    BY <1>1
  <1>3. key \in Ids => value # NoRows
    BY <1>1 DEF CacheInv, NoEmpty
  <1>4. NoEmpty'
    BY <1>1, <1>2, <1>3 DEF CacheInv, NoEmpty, EntryTo, ReaderTo, Keys
  <1>5. ~AtReader(r, "setLocal")
    BY <1>1 DEF AtReader
  <1>6. ASSUME NEW x \in Keys
        PROVE  Caused(x)'
    <2>1. Filling(x) => Filling(x)'
      BY <1>2, <1>5, FillingKept
    <2>2. StaleLocal(x)' => StaleLocal(x)
      BY <1>1, SameAnswer, StaleSame
    <2>3. CASE x # key
      <3>1. StaleStore(x)' => StaleStore(x)
        BY <1>1, <2>3, SameAnswer, StaleSame DEF EntryTo
      <3> QED
        BY <1>1, <2>1, <2>2, <3>1, WritersWait, CauseKept DEF CacheInv, CausesOK, Hidden
    <2>4. CASE x = key
      <3>1. StaleStore(x)' => x \in excused'
        BY <1>1, <2>4, SameAnswer DEF StaleStore, Stale, EntryTo
      <3>2. StaleLocal(x) => \/ x \in excused \/ Filling(x) \/ Hidden(x)
                             \/ \E w \in Writers : WillDelete(w, x)
        BY DEF CacheInv, CausesOK, Caused
      <3>3. \A w \in Writers : WillDelete(w, x) => WillDelete(w, x)'
        BY <1>1, WritersWait
      <3> QED
        BY <1>1, <2>1, <2>2, <3>1, <3>2, <3>3 DEF Caused, Hidden
    <2> QED
      BY <2>3, <2>4
  <1> QED
    BY <1>4, <1>6 DEF CacheInv, CausesOK

LEMMA SetLocalCaused ==
  ASSUME TypeInv, CacheInv, NEW r \in Readers, SetLocal(r) \/ SetFails(r)
  PROVE  CacheInv'
  <1> DEFINE key == readers[r].key
             value == readers[r].value
  <1>1. /\ readers[r] # Idle
        /\ readers[r].step \in {"set", "setLocal"}
        /\ UNCHANGED <<rows, store, writers>>
        /\ key \in Keys /\ EntryTo(local, local', key, {value})
        /\ registry' = registry \cup {key}
        /\ excused \subseteq excused'
        /\ value # Answer(key) \/ Stale(store, key) => key \in excused'
        /\ ReaderTo(r, Idle)
    BY SetLocalFacts DEF TypeInv
  <1>2. key \in Ids => value # NoRows
    BY <1>1 DEF CacheInv, NoEmpty
  <1>3. NoEmpty'
    BY <1>1, <1>2 DEF CacheInv, NoEmpty, EntryTo, ReaderTo, Keys
  <1>4. ASSUME NEW x \in Keys
        PROVE  Caused(x)'
    <2>1. StaleStore(x)' => StaleStore(x)
      BY <1>1, SameAnswer, StaleSame
    <2>2. CASE x # key
      <3>1. Filling(x) => Filling(x)'
        BY <1>1, <2>2, FillingKept
      <3>2. StaleLocal(x)' => StaleLocal(x)
        BY <1>1, <2>2, SameAnswer, StaleSame DEF EntryTo
      <3>3. Hidden(x) => Hidden(x)'
        BY <1>1, <2>2 DEF Hidden
      <3> QED
        BY <1>1, <2>1, <3>1, <3>2, <3>3, WritersWait, CauseKept DEF CacheInv, CausesOK
    <2>3. CASE x = key
      <3>1. StaleLocal(x)' => x \in excused'
        BY <1>1, <2>3, SameAnswer DEF StaleLocal, Stale, EntryTo
      <3>2. StaleStore(x) => x \in excused'
        BY <1>1, <2>3 DEF StaleStore
      <3> QED
        BY <2>1, <3>1, <3>2 DEF Caused
    <2> QED
      BY <2>2, <2>3
  <1> QED
    BY <1>3, <1>4 DEF CacheInv, CausesOK

(* Reads that neither fill nor change an entry.                            *)
LEMMA ReadCaused ==
  ASSUME TypeInv, CacheInv, NEW r \in Readers, NEW k, ReaderTo(r, k),
         UNCHANGED <<rows, store, local, registry, writers, excused>>,
         ~AtReader(r, "setLocal"),
         k # Idle => \/ k.step \in {"fallback", "query"}
                     \/ k.step = "set" /\ (k.key \in Ids => k.value # NoRows)
  PROVE  CacheInv'
  <1>1. NoEmpty'
    BY DEF CacheInv, NoEmpty, ReaderTo
  <1>2. ASSUME NEW x \in Keys
        PROVE  Caused(x)'
    <2>1. Filling(x) => Filling(x)'
      BY FillingKept
    <2>2. (StaleStore(x)' => StaleStore(x)) /\ (StaleLocal(x)' => StaleLocal(x))
      BY SameAnswer, StaleSame
    <2> QED
      BY <2>1, <2>2, WritersWait, CauseKept DEF CacheInv, CausesOK, Hidden
  <1> QED
    BY <1>1, <1>2 DEF CacheInv, CausesOK

LEMMA ReaderCaused ==
  ASSUME TypeInv, CacheInv, NEW r \in Readers,
         \/ \E key \in Keys : Get(r, key) \/ GetFails(r, key)
         \/ ReaderStep(r)
         \/ SetFails(r) \/ ReaderFails(r)
  PROVE  CacheInv'
  <1>1. ASSUME NEW key \in Keys, Get(r, key) \/ GetFails(r, key)
        PROVE  CacheInv'
    <2>1. /\ readers[r] = Idle
          /\ UNCHANGED <<rows, store, local, registry, writers, excused>>
          /\ \E k \in Reader : k.step \in {"fallback", "query"} /\ ReaderTo(r, k)
      BY <1>1, GetFacts DEF TypeInv
    <2>2. PICK k \in Reader : k.step \in {"fallback", "query"} /\ ReaderTo(r, k)
      BY <2>1
    <2>3. ~AtReader(r, "setLocal")
      BY <2>1 DEF AtReader
    <2> QED
      BY <2>1, <2>2, <2>3, ReadCaused
  <1>2. CASE Query(r)
    <2>1. /\ readers[r] # Idle /\ readers[r].step = "query"
          /\ UNCHANGED <<rows, store, local, registry, writers, excused>>
          /\ \/ ReaderTo(r, Idle)
             \/ \E k \in Reader : /\ k.step = "set" /\ ReaderTo(r, k)
                                  /\ k.key \in Ids => k.value # NoRows
      BY <1>2, QueryFacts DEF TypeInv
    <2>2. ~AtReader(r, "setLocal")
      BY <2>1 DEF AtReader
    <2>3. CASE ReaderTo(r, Idle)
      BY <2>1, <2>2, <2>3, ReadCaused
    <2>4. CASE \E k \in Reader : /\ k.step = "set" /\ ReaderTo(r, k)
                                 /\ k.key \in Ids => k.value # NoRows
      <3>1. PICK k \in Reader : /\ k.step = "set" /\ ReaderTo(r, k)
                                /\ k.key \in Ids => k.value # NoRows
        BY <2>4
      <3> QED
        BY <2>1, <2>2, <3>1, ReadCaused
    <2> QED
      BY <2>1, <2>3, <2>4
  <1>3. CASE ReaderFails(r)
    <2>1. ~AtReader(r, "setLocal")
      BY <1>3 DEF ReaderFails, AtReader
    <2> QED
      BY <1>3, <2>1, ReaderFailsFacts, ReadCaused DEF TypeInv
  <1>4. CASE GetLocal(r)
    <2>1. /\ readers[r] # Idle /\ readers[r].step = "fallback"
          /\ UNCHANGED <<rows, store, local, registry, writers, excused>>
          /\ \/ ReaderTo(r, Idle)
             \/ \E k \in Reader : k.step = "query" /\ ReaderTo(r, k)
      BY <1>4, GetLocalFacts DEF TypeInv
    <2>2. ~AtReader(r, "setLocal")
      BY <2>1 DEF AtReader
    <2>3. CASE ReaderTo(r, Idle)
      BY <2>1, <2>2, <2>3, ReadCaused
    <2>4. CASE \E k \in Reader : k.step = "query" /\ ReaderTo(r, k)
      <3>1. PICK k \in Reader : k.step = "query" /\ ReaderTo(r, k)
        BY <2>4
      <3> QED
        BY <2>1, <2>2, <3>1, ReadCaused
    <2> QED
      BY <2>1, <2>3, <2>4
  <1> QED
    BY <1>1, <1>2, <1>3, <1>4, SetStoreCaused, SetLocalCaused DEF ReaderStep

LEMMA ExpireCaused ==
  ASSUME TypeInv, CacheInv, NEW key \in Keys, Expire(key)
  PROVE  CacheInv'
  <1>1. /\ UNCHANGED <<rows, registry, readers, writers>>
        /\ \A k \in Keys : store'[k] = store[k] \/ (k = key /\ store'[k] = Absent)
        /\ \A k \in Keys : local'[k] = local[k] \/ (k = key /\ local'[k] = Absent)
        /\ excused' = Lifted(key)
    BY ExpireFacts DEF TypeInv
  <1>2. NoEmpty'
    BY <1>1 DEF CacheInv, NoEmpty, Keys, Absent
  <1>3. ASSUME NEW x \in Keys
        PROVE  Caused(x)'
    <2>1. (StaleStore(x)' => StaleStore(x)) /\ (StaleLocal(x)' => StaleLocal(x))
      BY <1>1, SameAnswer, StaleSame
    <2>2. (Filling(x) => Filling(x)') /\ (Hidden(x) => Hidden(x)')
      BY <1>1 DEF Filling, Hidden, AtReader
    <2>3. CASE x \in excused => x \in excused'
      BY <1>1, <2>1, <2>2, <2>3, WritersWait, CauseKept DEF CacheInv, CausesOK
    <2>4. CASE ~(x \in excused => x \in excused')
      <3>1. store'[x] = Absent /\ local'[x] = Absent
        BY <1>1, <2>4 DEF Lifted
      <3> QED
        BY <3>1 DEF Caused, StaleStore, StaleLocal, Stale
    <2> QED
      BY <2>3, <2>4
  <1> QED
    BY <1>2, <1>3 DEF CacheInv, CausesOK

LEMMA StartCaused ==
  ASSUME TypeInv, CacheInv, NEW w \in Writers, NEW id \in Ids,
         Create(w, id) \/ Update(w, id) \/ Remove(w, id)
  PROVE  CacheInv'
  <1>1. /\ UNCHANGED <<rows, store, local, registry, readers, excused>>
        /\ writers[w] = Idle
        /\ \A v \in Writers : v # w =>
             /\ writers'[v] # Idle <=> writers[v] # Idle
             /\ writers[v] # Idle =>
                  /\ writers'[v].step = writers[v].step
                  /\ writers'[v].todo = writers[v].todo
                  /\ writers'[v].id = writers[v].id
    BY StartFacts DEF TypeInv
  <1>2. NoEmpty'
    BY <1>1 DEF CacheInv, NoEmpty
  <1>3. ASSUME NEW x \in Keys
        PROVE  Caused(x)'
    <2>1. (StaleStore(x)' => StaleStore(x)) /\ (StaleLocal(x)' => StaleLocal(x))
      BY <1>1, SameAnswer, StaleSame
    <2>2. (Filling(x) => Filling(x)') /\ (Hidden(x) => Hidden(x)')
      BY <1>1 DEF Filling, Hidden, AtReader
    <2>3. \A v \in Writers : /\ WillDelete(v, x) => WillDelete(v, x)'
                             /\ WillClear(v, x) => WillClear(v, x)'
      BY <1>1 DEF WillDelete, WillClear, KeyOf
    <2> QED
      BY <1>1, <2>1, <2>2, <2>3, CauseKept DEF CacheInv, CausesOK
  <1> QED
    BY <1>2, <1>3 DEF CacheInv, CausesOK

-----------------------------------------------------------------------------
(* A write changes its row: what becomes stale it will delete.  The        *)
(* details of a quest that did not exist were stale before, if any.        *)
LEMMA ChangeCaused ==
  ASSUME TypeInv, CacheInv, NEW w \in Writers, writers[w] # Idle,
         NEW k, WriterTo(w, k), k # Idle, k.step \in {"saveItem", "del"},
         k.todo = writers[w].todo,
         UNCHANGED <<store, local, registry, readers, excused>>,
         writers[w].todo \in {{"list"}, {"list", writers[w].id}},
         writers[w].id \notin writers[w].todo => writers[w].id \notin DOMAIN rows,
         \A id \in Ids : id # writers[w].id =>
           /\ id \in DOMAIN rows' <=> id \in DOMAIN rows
           /\ id \in DOMAIN rows => rows'[id] = rows[id]
  PROVE  CacheInv'
  <1>1. NoEmpty'
    BY DEF CacheInv, NoEmpty
  <1>2. ASSUME NEW x \in Keys
        PROVE  Caused(x)'
    <2>1. (Filling(x) => Filling(x)') /\ (Hidden(x) => Hidden(x)')
      BY DEF Filling, Hidden, AtReader
    <2>2. CASE x \in writers[w].todo
      <3>1. WillDelete(w, x)' /\ WillClear(w, x)'
        BY <2>2 DEF WriterTo, WillDelete, WillClear
      <3> QED
        BY <3>1 DEF Caused
    <2>3. CASE x \notin writers[w].todo
      <3>1. x \in Ids
        BY <2>3 DEF Keys
      <3>2. ~WillDelete(w, x)
        BY <2>3 DEF WillDelete
      <3>3. \A v \in Writers : /\ WillDelete(v, x) => WillDelete(v, x)'
                               /\ WillClear(v, x) => WillClear(v, x)'
        BY <3>2, WriterProceeds
      <3>4. (StaleStore(x)' => StaleStore(x)) /\ (StaleLocal(x)' => StaleLocal(x))
        <4>1. CASE x # writers[w].id
          <5>1. Answer(x)' = Answer(x)
            BY <3>1, <4>1, AnswerKept
          <5> QED
            BY <5>1, StaleSame
        <4>2. CASE x = writers[w].id
          <5>1. Answer(x) = NoRows
            BY <2>3, <3>1, <4>2, DetailsEmpty
          <5>2. store[x] # {NoRows} /\ local[x] # {NoRows}
            BY <3>1 DEF CacheInv, NoEmpty
          <5> QED
            BY <5>1, <5>2 DEF StaleStore, StaleLocal, Stale
        <4> QED
          BY <4>1, <4>2
      <3> QED
        BY <2>1, <3>3, <3>4, CauseKept DEF CacheInv, CausesOK
    <2> QED
      BY <2>2, <2>3
  <1> QED
    BY <1>1, <1>2 DEF CacheInv, CausesOK

LEMMA SaveCaused ==
  ASSUME TypeInv, CacheInv, NEW w \in Writers, Save(w) \/ RemoveRow(w)
  PROVE  CacheInv'
  <1> DEFINE c == writers[w]
  <1>1. CASE Save(w)
    <2>1. /\ c # Idle /\ c.step = "save"
          /\ UNCHANGED <<store, local, registry, readers, excused>>
          /\ DOMAIN rows' = DOMAIN rows \cup {c.id}
          /\ \A id \in DOMAIN rows : id # c.id => rows'[id] = rows[id]
          /\ \E k \in Writer : /\ k.step = "saveItem" /\ k.todo = c.todo
                               /\ k.id = c.id /\ WriterTo(w, k)
      BY <1>1, SaveFacts DEF TypeInv
    <2>2. PICK k \in Writer : k.step = "saveItem" /\ k.todo = c.todo /\ WriterTo(w, k)
      BY <2>1
    <2>3. k # Idle
      BY NotIdle
    <2>4. /\ c.todo \in {{"list"}, {"list", c.id}}
          /\ c.id \notin c.todo => c.id \notin DOMAIN rows
      BY <2>1 DEF TypeInv, WritersOK, TodoOK, CreatesNew, Creates, AtWriter
    <2> QED
      BY <2>1, <2>2, <2>3, <2>4, ChangeCaused
  <1>2. CASE RemoveRow(w)
    <2>1. /\ c # Idle /\ c.step = "remove"
          /\ UNCHANGED <<store, local, registry, readers, excused>>
          /\ DOMAIN rows' = DOMAIN rows \ {c.id}
          /\ \A id \in DOMAIN rows : id # c.id => rows'[id] = rows[id]
          /\ \E k \in Writer : /\ k.step = "del" /\ k.todo = c.todo
                               /\ k.id = c.id /\ WriterTo(w, k)
      BY <1>2, RemoveRowFacts DEF TypeInv
    <2>2. PICK k \in Writer : k.step = "del" /\ k.todo = c.todo /\ WriterTo(w, k)
      BY <2>1
    <2>3. k # Idle
      BY NotIdle
    <2>4. c.todo = {"list", c.id}
      BY <2>1 DEF TypeInv, WritersOK, TodoOK
    <2> QED
      BY <2>1, <2>2, <2>3, <2>4, ChangeCaused
  <1> QED
    BY <1>1, <1>2

LEMMA SaveItemCaused ==
  ASSUME TypeInv, CacheInv, NEW w \in Writers, SaveItem(w)
  PROVE  CacheInv'
  <1>1. /\ writers[w] # Idle
        /\ UNCHANGED <<rows, store, local, registry, readers, excused>>
        /\ \E k \in Writer : /\ k.step = "del" /\ k.todo = writers[w].todo
                             /\ k.id = writers[w].id /\ WriterTo(w, k)
    BY SaveItemFacts DEF TypeInv
  <1>2. PICK k \in Writer : k.step = "del" /\ k.todo = writers[w].todo /\ WriterTo(w, k)
    BY <1>1
  <1>3. NoEmpty'
    BY <1>1 DEF CacheInv, NoEmpty
  <1>4. ASSUME NEW x \in Keys
        PROVE  Caused(x)'
    <2>1. ~WillDelete(w, x) \/ (k # Idle /\ k.step \in {"saveItem", "del"} /\ x \in k.todo)
      BY <1>2, NotIdle DEF WillDelete
    <2>2. \A v \in Writers : /\ WillDelete(v, x) => WillDelete(v, x)'
                             /\ WillClear(v, x) => WillClear(v, x)'
      BY <1>2, <2>1, WriterProceeds
    <2>3. (StaleStore(x)' => StaleStore(x)) /\ (StaleLocal(x)' => StaleLocal(x))
      BY <1>1, SameAnswer, StaleSame
    <2>4. (Filling(x) => Filling(x)') /\ (Hidden(x) => Hidden(x)')
      BY <1>1 DEF Filling, Hidden, AtReader
    <2> QED
      BY <1>1, <2>2, <2>3, <2>4, CauseKept DEF CacheInv, CausesOK
  <1> QED
    BY <1>3, <1>4 DEF CacheInv, CausesOK

(* The entry of the store goes before that of the fallback.                *)
LEMMA DelStoreCaused ==
  ASSUME TypeInv, CacheInv, NEW w \in Writers, DelStore(w)
  PROVE  CacheInv'
  <1> DEFINE key == KeyOf(w)
  <1>1. /\ writers[w] # Idle /\ writers[w].step = "del"
        /\ UNCHANGED <<rows, local, registry, readers, excused>>
        /\ \/ /\ EntryTo(store, store', key, Absent)
              /\ \E k \in Writer : /\ k.step = "delLocal" /\ k.todo = writers[w].todo
                                   /\ k.id = writers[w].id /\ WriterTo(w, k)
           \/ /\ key = "list" /\ "list" \notin registry /\ store' = store
              /\ NextKey(w)
    BY DelStoreFacts DEF TypeInv
  <1>2. \A x \in Keys : (Filling(x) => Filling(x)') /\ (Hidden(x) <=> Hidden(x)')
    BY <1>1 DEF Filling, Hidden, AtReader
  <1>3. CASE /\ EntryTo(store, store', key, Absent)
             /\ \E k \in Writer : /\ k.step = "delLocal" /\ k.todo = writers[w].todo
                                  /\ k.id = writers[w].id /\ WriterTo(w, k)
    <2>1. PICK k \in Writer : /\ k.step = "delLocal" /\ k.todo = writers[w].todo
                              /\ k.id = writers[w].id /\ WriterTo(w, k)
      BY <1>3
    <2>2. k # Idle
      BY NotIdle
    <2>3. NoEmpty'
      BY <1>1, <1>3 DEF CacheInv, NoEmpty, EntryTo, Keys, Absent
    <2>4. ASSUME NEW x \in Keys
          PROVE  Caused(x)'
      <3>1. (StaleStore(x)' => StaleStore(x)) /\ (StaleLocal(x)' => StaleLocal(x))
        <4>1. store'[x] \in {store[x], Absent} /\ local'[x] = local[x]
          BY <1>1, <1>3 DEF EntryTo
        <4> QED
          BY <1>1, <4>1, SameAnswer, StaleSame
      <3>2. /\ writers'[w] = k
            /\ \A v \in Writers : v # w => writers'[v] = writers[v]
        BY <2>1 DEF WriterTo
      <3>3. KeyOf(w)' = KeyOf(w)
        BY <2>1, <3>2 DEF KeyOf
      <3>4. \A v \in Writers : WillDelete(v, x) => WillDelete(v, x)'
        BY <2>1, <2>2, <3>2 DEF WillDelete
      <3>5. CASE x # key
        <4>1. \A v \in Writers : WillClear(v, x) => WillClear(v, x)'
          <5>1. \A v \in Writers : v # w => (WillClear(v, x)' <=> WillClear(v, x))
            BY <3>2 DEF WillClear, WillDelete, KeyOf
          <5>2. WillClear(w, x) => WillClear(w, x)'
            BY <3>3, <3>4, <3>5 DEF WillClear
          <5> QED
            BY <5>1, <5>2
        <4> QED
          BY <1>1, <1>2, <3>1, <3>4, <4>1, CauseKept DEF CacheInv, CausesOK
      <3>6. CASE x = key
        <4>1. ~StaleStore(x)'
          BY <1>3, <3>6 DEF StaleStore, Stale, EntryTo
        <4>2. StaleLocal(x) => \/ x \in excused \/ Filling(x) \/ Hidden(x)
                               \/ \E v \in Writers : WillDelete(v, x)
          BY DEF CacheInv, CausesOK, Caused
        <4> QED
          BY <1>1, <1>2, <3>1, <3>4, <4>1, <4>2 DEF Caused
      <3> QED
        BY <3>5, <3>6
    <2> QED
      BY <2>3, <2>4 DEF CacheInv, CausesOK
  <1>4. CASE /\ key = "list" /\ "list" \notin registry /\ store' = store
             /\ NextKey(w)
    <2>1. NoEmpty'
      BY <1>1, <1>4 DEF CacheInv, NoEmpty
    <2>2. ASSUME NEW x \in Keys
          PROVE  Caused(x)'
      <3>1. (StaleStore(x)' => StaleStore(x)) /\ (StaleLocal(x)' => StaleLocal(x))
        BY <1>1, <1>4, SameAnswer, StaleSame
      <3>2. CASE x = "list"
        <4>1. Hidden(x)'
          BY <1>1, <1>4, <3>2 DEF Hidden
        <4> QED
          BY <4>1 DEF Caused
      <3>3. CASE x # "list"
        <4>1. \A v \in Writers : /\ WillDelete(v, x) => WillDelete(v, x)'
                                 /\ WillClear(v, x) => WillClear(v, x)'
          BY <1>1, <1>4, <3>3, NextKeyProceeds DEF TypeInv
        <4> QED
          BY <1>1, <1>2, <3>1, <4>1, CauseKept DEF CacheInv, CausesOK
      <3> QED
        BY <3>2, <3>3
    <2> QED
      BY <2>1, <2>2 DEF CacheInv, CausesOK
  <1> QED
    BY <1>1, <1>3, <1>4

(* The entry of the fallback goes; one of the store that has come back     *)
(* meanwhile has a cause of its own.                                       *)
LEMMA DelLocalCaused ==
  ASSUME TypeInv, CacheInv, NEW w \in Writers, DelLocal(w) \/ DelFails(w)
  PROVE  CacheInv'
  <1> DEFINE key == KeyOf(w)
  <1>1. /\ writers[w] # Idle /\ key \in Keys
        /\ UNCHANGED <<rows, store, readers>>
        /\ EntryTo(local, local', key, Absent)
        /\ registry' = registry \ {key}
        /\ \/ writers[w].step = "delLocal" /\ excused' = Lifted(key)
           \/ writers[w].step = "del" /\ excused' = excused \cup {key}
        /\ NextKey(w)
    BY DelLocalFacts DEF TypeInv
  <1>2. NoEmpty'
    BY <1>1 DEF CacheInv, NoEmpty, EntryTo, Keys, Absent
  <1>3. ASSUME NEW x \in Keys
        PROVE  Caused(x)'
    <2>1. (StaleStore(x)' => StaleStore(x)) /\ (StaleLocal(x)' => StaleLocal(x))
      <3>1. store'[x] = store[x] /\ local'[x] \in {local[x], Absent}
        BY <1>1 DEF EntryTo
      <3> QED
        BY <1>1, <3>1, SameAnswer, StaleSame
    <2>2. (Filling(x) => Filling(x)') /\ (Hidden(x) => Hidden(x)')
      BY <1>1 DEF Filling, Hidden, AtReader
    <2>3. CASE x # key
      <3>1. \A v \in Writers : /\ WillDelete(v, x) => WillDelete(v, x)'
                               /\ WillClear(v, x) => WillClear(v, x)'
        BY <1>1, <2>3, NextKeyProceeds DEF TypeInv
      <3>2. x \in excused => x \in excused'
        BY <1>1, <2>3 DEF Lifted
      <3> QED
        BY <2>1, <2>2, <3>1, <3>2, CauseKept DEF CacheInv, CausesOK
    <2>4. CASE x = key /\ writers[w].step = "del"
      <3>1. x \in excused'
        BY <1>1, <2>4
      <3> QED
        BY <3>1 DEF Caused
    <2>5. CASE x = key /\ writers[w].step = "delLocal"
      <3>1. ~StaleLocal(x)'
        BY <1>1, <2>5 DEF StaleLocal, Stale, EntryTo
      <3>2. ASSUME StaleStore(x)'
            PROVE  \/ x \in excused' \/ Filling(x)' \/ Hidden(x)'
                   \/ \E v \in Writers : WillClear(v, x)'
        <4>1. \/ x \in excused \/ Filling(x) \/ Hidden(x)
              \/ \E v \in Writers : WillClear(v, x)
          BY <2>1, <3>2 DEF CacheInv, CausesOK, Caused
        <4>2. CASE x \in excused
          <5>1. store'[x] # Absent
            BY <3>2 DEF StaleStore, Stale
          <5>2. excused' = excused
            BY <1>1, <2>5, <5>1 DEF Lifted
          <5> QED
            BY <4>2, <5>2
        <4>3. ASSUME NEW v \in Writers, WillClear(v, x)
              PROVE  WillClear(v, x)'
          <5>1. v # w
            BY <2>5, <4>3 DEF WillClear
          <5>2. writers'[v] = writers[v]
            BY <1>1, <5>1, NextKeyFacts DEF TypeInv, WriterTo
          <5> QED
            BY <4>3, <5>2 DEF WillClear, WillDelete, KeyOf
        <4> QED
          BY <2>2, <4>1, <4>2, <4>3
      <3> QED
        BY <3>1, <3>2 DEF Caused
    <2> QED
      BY <1>1, <2>3, <2>4, <2>5
  <1> QED
    BY <1>2, <1>3 DEF CacheInv, CausesOK

LEMMA WriterFailsCaused ==
  ASSUME TypeInv, CacheInv, NEW w \in Writers, WriterFails(w) \/ ScanBlocks(w)
  PROVE  CacheInv'
  <1>1. /\ writers[w] # Idle
        /\ writers[w].step \in {"save", "remove", "saveItem"}
        /\ UNCHANGED <<rows, store, local, registry, readers>>
        /\ excused \subseteq excused'
        /\ writers[w].step = "saveItem" => writers[w].todo \subseteq excused'
        /\ WriterTo(w, Idle)
    BY WriterFailsFacts DEF TypeInv
  <1>2. NoEmpty'
    BY <1>1 DEF CacheInv, NoEmpty
  <1>3. ASSUME NEW x \in Keys
        PROVE  Caused(x)'
    <2>1. CASE x \in excused'
      BY <2>1 DEF Caused
    <2>2. CASE x \notin excused'
      <3>1. ~WillDelete(w, x)
        BY <1>1, <2>2 DEF WillDelete
      <3>2. \A v \in Writers : /\ WillDelete(v, x) => WillDelete(v, x)'
                               /\ WillClear(v, x) => WillClear(v, x)'
        BY <1>1, <3>1, WriterProceeds
      <3>3. (StaleStore(x)' => StaleStore(x)) /\ (StaleLocal(x)' => StaleLocal(x))
        BY <1>1, SameAnswer, StaleSame
      <3>4. (Filling(x) => Filling(x)') /\ (Hidden(x) => Hidden(x)')
        BY <1>1 DEF Filling, Hidden, AtReader
      <3>5. x \in excused => x \in excused'
        BY <1>1
      <3> QED
        BY <3>2, <3>3, <3>4, <3>5, CauseKept DEF CacheInv, CausesOK
    <2> QED
      BY <2>1, <2>2
  <1> QED
    BY <1>2, <1>3 DEF CacheInv, CausesOK

LEMMA RestartCaused ==
  ASSUME TypeInv, CacheInv, Restart
  PROVE  CacheInv'
  <1>1. /\ rows' = rows
        /\ \A r \in Readers : readers'[r] = Idle
        /\ \A k \in Keys : local'[k] = Absent
        /\ \A k \in Keys : store'[k] \in {store[k], Absent}
        /\ \A k \in Keys : store'[k] # Absent /\ Stale(store, k) => k \in excused'
    BY RestartFacts DEF TypeInv
  <1>2. NoEmpty'
    BY <1>1 DEF CacheInv, NoEmpty, Keys, Absent
  <1>3. ASSUME NEW x \in Keys
        PROVE  Caused(x)'
    <2>1. StaleStore(x)' => StaleStore(x) /\ store'[x] # Absent
      <3>1. StaleStore(x)' => StaleStore(x)
        BY <1>1, SameAnswer, StaleSame
      <3>2. StaleStore(x)' => store'[x] # Absent
        BY DEF StaleStore, Stale
      <3> QED
        BY <3>1, <3>2
    <2>2. StaleStore(x)' => x \in excused'
      BY <1>1, <2>1 DEF StaleStore
    <2>3. ~StaleLocal(x)'
      BY <1>1 DEF StaleLocal, Stale
    <2> QED
      BY <2>2, <2>3 DEF Caused
  <1> QED
    BY <1>2, <1>3 DEF CacheInv, CausesOK

LEMMA NextCaused ==
  ASSUME TypeInv, CacheInv, [Next]_vars
  PROVE  CacheInv'
  <1>1. ASSUME NEW w \in Writers, WriterStep(w) \/ ScanBlocks(w) \/ DelFails(w) \/ WriterFails(w)
        PROVE  CacheInv'
    BY <1>1, SaveCaused, SaveItemCaused, DelStoreCaused, DelLocalCaused,
       WriterFailsCaused DEF WriterStep
  <1>2. CASE UNCHANGED vars
    <2>1. UNCHANGED <<rows, store, local, registry, readers, writers, excused>>
      BY <1>2 DEF vars
    <2>2. NoEmpty'
      BY <2>1 DEF CacheInv, NoEmpty
    <2>3. ASSUME NEW x \in Keys
          PROVE  Caused(x)' <=> Caused(x)
      <3>1. StaleStore(x)' <=> StaleStore(x)
        BY <2>1 DEF StaleStore, Stale, Answer
      <3>2. StaleLocal(x)' <=> StaleLocal(x)
        BY <2>1 DEF StaleLocal, Stale, Answer
      <3> QED
        BY <2>1, <3>1, <3>2 DEF Caused, Filling, Hidden, WillClear, WillDelete, KeyOf,
                                AtReader, AtWriter
    <2> QED
      BY <2>2, <2>3 DEF CacheInv, CausesOK
  <1> QED
    BY <1>1, <1>2, ReaderCaused, StartCaused, ExpireCaused, RestartCaused DEF Next

(* A cached answer differs from the database only while a write is about   *)
(* to invalidate it or a read to replace it, after a race or a fault, or   *)
(* when its list key is not registered (quests.service.ts:265-266,         *)
(* cache.service.ts:95-106).                                               *)
THEOREM StaleAlwaysCaused == Spec => []StaleHasCause
  <1>1. Init => CacheInv
    <2>1. Init => /\ \A k \in Keys : store[k] = Absent /\ local[k] = Absent
                  /\ \A r \in Readers : readers[r] = Idle
      BY DEF Init
    <2> QED
      BY <2>1 DEF CacheInv, NoEmpty, CausesOK, Caused, StaleStore, StaleLocal, Stale,
                  Absent, Keys
  <1>2. TypeInv /\ CacheInv /\ [Next]_vars => CacheInv'
    BY NextCaused
  <1>3. CacheInv => StaleHasCause
    BY DEF CacheInv, CausesOK, Caused, StaleStore, StaleLocal, StaleHasCause, Filling,
           Hidden, WillClear
  <1> QED
    BY <1>1, <1>2, <1>3, AlwaysTyped, PTL DEF Spec

=============================================================================
