------------------------------ MODULE QuestCache ------------------------------
(***************************************************************************)
(* Quests and their cache (BackEnd/src/modules/quests/quests.service.ts,   *)
(* BackEnd/src/modules/cache/cache.service.ts): quest rows in the          *)
(* database, and copies of query results in the store behind the cache     *)
(* manager (the memory of the process, or Redis), each with a local        *)
(* fallback copy and an entry in the registry of known keys.               *)
(*                                                                         *)
(* A read fills the cache after a miss, a write invalidates it after the   *)
(* row is saved; both await between their steps, so fills and              *)
(* invalidations interleave.  One key, "list", stands for a query over all *)
(* quests; a quest id stands for the key of its details.                   *)
(*                                                                         *)
(* The status of a quest is not among the contents of its row: the API     *)
(* accepts lower-case statuses only, the table of transitions knows only   *)
(* upper-case ones, so every update that asks for a change is refused.     *)
(***************************************************************************)
EXTENDS Naturals, FiniteSets

CONSTANTS
    Ids,         \* quest ids
    Readers,     \* slots for findAll and findOne calls in flight
    Writers,     \* slots for create, update and remove calls in flight
    CacheTypes,  \* the values of CACHE_TYPE the service is started with
    MaxWrites,   \* bound on saved changes
    MaxFaults    \* bound on failed calls and restarts

ASSUME QuestCacheAssumption ==
    /\ CacheTypes \subseteq {"memory", "redis"}
    /\ MaxWrites \in Nat /\ MaxFaults \in Nat
    /\ "list" \notin Ids

VARIABLES
    rows,        \* the quests table: id -> row
    store,       \* the cache manager's store: key -> value or Absent
    local,       \* localFallbackStore: key -> value or Absent
    registry,    \* keyRegistry
    cacheType,   \* the CACHE_TYPE of the running process
    readers,     \* the reads in flight
    writers,     \* the writes in flight
    excused,     \* history: keys a race or a fault left stale, until cleared
    writes,      \* saved changes so far
    faults

vars == <<rows, store, local, registry, cacheType, readers, writers, excused,
          writes, faults>>

(* The content of a row: the saved changes that are in it.                 *)
Row == SUBSET (1..MaxWrites)

Keys == {"list"} \cup Ids

(* What a query answers now, as the rows it returns.                       *)
Covers(key) == IF key = "list" THEN Ids ELSE {key}

Answer(key) == [id \in DOMAIN rows \cap Covers(key) |-> rows[id]]

NewRow == {}

NoRows == [id \in {} |-> NewRow]

Answers == UNION {[S -> Row] : S \in SUBSET Ids}

(* What is cached for a key: nothing, or one answer.                       *)
Absent == {}

Cached == {Absent} \cup {{a} : a \in Answers}

Idle == [step |-> "idle"]

Reader == [step : {"fallback", "query", "set", "setLocal"}, key : Keys, value : Answers]

Writer == [step : {"save", "remove", "saveItem", "del", "delLocal"},
           todo : SUBSET Keys, id : Ids, row : Row, alone : BOOLEAN]

AtReader(r, step) == readers[r] # Idle /\ readers[r].step = step

AtWriter(w, step) == writers[w] # Idle /\ writers[w].step = step

ReaderGoes(r, call, step) ==
    readers' = [readers EXCEPT ![r] = [call EXCEPT !.step = step]]

ReaderEnds(r) == readers' = [readers EXCEPT ![r] = Idle]

WriterGoes(w, call, step) ==
    writers' = [writers EXCEPT ![w] = [call EXCEPT !.step = step]]

WriterEnds(w) == writers' = [writers EXCEPT ![w] = Idle]

(* The excuse of a key ends when nothing is cached for it.                 *)
Lifted(key) ==
    IF store'[key] = Absent /\ local'[key] = Absent THEN excused \ {key} ELSE excused

-----------------------------------------------------------------------------
(* CacheService.get, then findAll or findOne.                              *)

(* The store answers: a hit is returned and changes nothing.               *)
Get(r, key) ==
    /\ readers[r] = Idle
    /\ store[key] = Absent
    /\ readers' = [readers EXCEPT ![r] =
         [step |-> "fallback", key |-> key, value |-> NoRows]]
    /\ UNCHANGED <<rows, store, local, registry, cacheType, writers, excused,
                   writes, faults>>

(* After a miss the fallback is looked at.                                 *)
GetLocal(r) ==
    /\ AtReader(r, "fallback")
    /\ IF local[readers[r].key] = Absent THEN ReaderGoes(r, readers[r], "query")
                                        ELSE ReaderEnds(r)
    /\ UNCHANGED <<rows, store, local, registry, cacheType, writers, excused,
                   writes, faults>>

(* A get that throws counts as a miss, whatever is cached.                 *)
GetFails(r, key) ==
    /\ cacheType = "redis" /\ faults < MaxFaults
    /\ readers[r] = Idle
    /\ readers' = [readers EXCEPT ![r] =
         [step |-> "query", key |-> key, value |-> NoRows]]
    /\ faults' = faults + 1
    /\ UNCHANGED <<rows, store, local, registry, cacheType, writers, excused, writes>>

(* The query; a quest that does not exist is not cached.                   *)
Query(r) ==
    /\ AtReader(r, "query")
    /\ LET key == readers[r].key
       IN  IF key # "list" /\ key \notin DOMAIN rows
             THEN ReaderEnds(r)
             ELSE ReaderGoes(r, [readers[r] EXCEPT !.value = Answer(key)], "set")
    /\ UNCHANGED <<rows, store, local, registry, cacheType, writers, excused,
                   writes, faults>>

-----------------------------------------------------------------------------
(* CacheService.set: the store first, registry and fallback after it.      *)

Stale(cache, key) == cache[key] # Absent /\ cache[key] # {Answer(key)}

Outdated(r) == readers[r].value # Answer(readers[r].key)

SetStore(r) ==
    /\ AtReader(r, "set")
    /\ store' = [store EXCEPT ![readers[r].key] = {readers[r].value}]
    /\ excused' = IF Outdated(r) THEN excused \cup {readers[r].key} ELSE excused
    /\ ReaderGoes(r, readers[r], "setLocal")
    /\ UNCHANGED <<rows, local, registry, cacheType, writers, writes, faults>>

SetLocal(r) ==
    /\ AtReader(r, "setLocal")
    /\ LET key == readers[r].key
       IN  /\ local' = [local EXCEPT ![key] = {readers[r].value}]
           /\ registry' = registry \cup {key}
           /\ excused' = IF Outdated(r) \/ Stale(store, key)
                           THEN excused \cup {key} ELSE excused
    /\ ReaderEnds(r)
    /\ UNCHANGED <<rows, store, cacheType, writers, writes, faults>>

(* The store refuses the value: only the fallback is filled.               *)
SetFails(r) ==
    /\ cacheType = "redis" /\ faults < MaxFaults
    /\ AtReader(r, "set")
    /\ LET key == readers[r].key
       IN  /\ local' = [local EXCEPT ![key] = {readers[r].value}]
           /\ registry' = registry \cup {key}
           /\ excused' = IF Outdated(r) \/ store[key] # Absent
                           THEN excused \cup {key} ELSE excused
    /\ ReaderEnds(r)
    /\ faults' = faults + 1
    /\ UNCHANGED <<rows, store, cacheType, writers, writes>>

(* The time to live of an entry ends; the fallback's is never shorter than *)
(* the store's.                                                            *)
StoreExpires(key) ==
    /\ store[key] # Absent
    /\ store' = [store EXCEPT ![key] = Absent]
    /\ UNCHANGED <<rows, local, registry, cacheType, readers, writers, writes, faults>>
    /\ excused' = Lifted(key)

LocalExpires(key) ==
    /\ store[key] = Absent /\ local[key] # Absent
    /\ local' = [local EXCEPT ![key] = Absent]
    /\ UNCHANGED <<rows, store, registry, cacheType, readers, writers, writes, faults>>
    /\ excused' = Lifted(key)

-----------------------------------------------------------------------------
(* QuestsService.create, update and remove.                                *)

(* A call is alone on its quest as long as no other write of the quest is  *)
(* in flight with it.                                                      *)
Alone(id) == \A w \in Writers : writers[w] # Idle => writers[w].id # id

Begin(w, step, todo, id, row) ==
    /\ writers[w] = Idle
    /\ writers' =
         [v \in Writers |->
            IF v = w THEN [step |-> step, todo |-> todo, id |-> id, row |-> row,
                           alone |-> Alone(id)]
            ELSE IF AtWriter(v, "save") /\ writers[v].id = id
                   THEN [writers[v] EXCEPT !.alone = FALSE]
            ELSE writers[v]]
    /\ UNCHANGED <<rows, store, local, registry, cacheType, readers, excused,
                   writes, faults>>

(* Both calls scan the text before they save, an await during which others *)
(* may write.                                                              *)
Create(w, id) ==
    /\ id \notin DOMAIN rows /\ Alone(id)
    /\ Begin(w, "save", {"list"}, id, NewRow)

(* Mutant: the quest is loaded through the cache.                          *)
UpdateCached(w, id) ==
    /\ id \in DOMAIN rows
    /\ \E a \in IF store[id] = Absent THEN {Answer(id)} ELSE store[id] :
          Begin(w, "save", {"list", id}, id, a[id])

Update(w, id) ==
    /\ id \in DOMAIN rows
    /\ Begin(w, "save", {"list", id}, id, rows[id])

Remove(w, id) ==
    /\ id \in DOMAIN rows
    /\ Begin(w, "remove", {"list", id}, id, NewRow)

(* The moderation scan blocks the text.                                    *)
ScanBlocks(w) ==
    /\ AtWriter(w, "save")
    /\ WriterEnds(w)
    /\ UNCHANGED <<rows, store, local, registry, cacheType, readers, excused,
                   writes, faults>>

(* Saving the loaded entity writes back every column as it was loaded, and *)
(* inserts the row again if it was removed.                                *)
Save(w) ==
    /\ AtWriter(w, "save") /\ writes < MaxWrites
    /\ LET c == writers[w]
       IN  rows' = [id \in DOMAIN rows \cup {c.id} |->
                      IF id = c.id THEN c.row \cup {writes + 1} ELSE rows[id]]
    /\ writes' = writes + 1
    /\ WriterGoes(w, [writers[w] EXCEPT !.row = NewRow, !.alone = FALSE], "saveItem")
    /\ UNCHANGED <<store, local, registry, cacheType, readers, excused, faults>>

RemoveRow(w) ==
    /\ AtWriter(w, "remove")
    /\ rows' = [id \in DOMAIN rows \ {writers[w].id} |-> rows[id]]
    /\ WriterGoes(w, [writers[w] EXCEPT !.alone = FALSE], "del")
    /\ UNCHANGED <<store, local, registry, cacheType, readers, excused, writes, faults>>

SaveItem(w) ==
    /\ AtWriter(w, "saveItem")
    /\ WriterGoes(w, writers[w], "del")
    /\ UNCHANGED <<rows, store, local, registry, cacheType, readers, excused,
                   writes, faults>>

(* The list keys come first, then the key of the details, which a new      *)
(* quest has not.                                                          *)
KeyOf(w) == IF "list" \in writers[w].todo THEN "list" ELSE writers[w].id

(* Mutant: only the list keys are invalidated.                             *)
NextKeyListOnly(w) == WriterEnds(w)

NextKey(w) ==
    LET left == writers[w].todo \ {KeyOf(w)}
    IN  IF left = {} THEN WriterEnds(w)
                     ELSE WriterGoes(w, [writers[w] EXCEPT !.todo = left], "del")

(* deletePattern visits the registered list keys only.                     *)
ToDelete(key) == key # "list" \/ key \in registry

DelStore(w) ==
    /\ AtWriter(w, "del")
    /\ LET key == KeyOf(w)
       IN  IF ToDelete(key)
             THEN /\ store' = [store EXCEPT ![key] = Absent]
                  /\ WriterGoes(w, writers[w], "delLocal")
             ELSE NextKey(w) /\ UNCHANGED store
    /\ UNCHANGED <<rows, local, registry, cacheType, readers, excused, writes, faults>>

(* Mutant: the fallback copy survives the deletion.                        *)
DelLocalKeepsFallback(w) ==
    /\ AtWriter(w, "delLocal")
    /\ registry' = registry \ {KeyOf(w)}
    /\ NextKey(w)
    /\ UNCHANGED <<rows, store, local, cacheType, readers, excused, writes, faults>>

DelLocal(w) ==
    /\ AtWriter(w, "delLocal")
    /\ LET key == KeyOf(w)
       IN  /\ local' = [local EXCEPT ![key] = Absent]
           /\ registry' = registry \ {key}
           /\ NextKey(w)
           /\ UNCHANGED <<rows, store, cacheType, readers, writes, faults>>
           /\ excused' = Lifted(key)

(* The store does not answer: fallback and registry forget the key, the    *)
(* store keeps it.                                                         *)
DelFails(w) ==
    /\ cacheType = "redis" /\ faults < MaxFaults
    /\ AtWriter(w, "del")
    /\ LET key == KeyOf(w)
       IN  /\ ToDelete(key)
           /\ local' = [local EXCEPT ![key] = Absent]
           /\ registry' = registry \ {key}
           /\ excused' = excused \cup {key}
           /\ NextKey(w)
    /\ faults' = faults + 1
    /\ UNCHANGED <<rows, store, cacheType, readers, writes>>

-----------------------------------------------------------------------------
(* A database call of a write fails.  The quest may be saved already, and  *)
(* then nothing is invalidated.                                            *)
WriterFails(w) ==
    /\ faults < MaxFaults
    /\ writers[w] # Idle /\ writers[w].step \in {"save", "remove", "saveItem"}
    /\ excused' = IF AtWriter(w, "saveItem")
                    THEN excused \cup writers[w].todo ELSE excused
    /\ WriterEnds(w)
    /\ faults' = faults + 1
    /\ UNCHANGED <<rows, store, local, registry, cacheType, readers, writes>>

ReaderFails(r) ==
    /\ faults < MaxFaults
    /\ AtReader(r, "query")
    /\ ReaderEnds(r)
    /\ faults' = faults + 1
    /\ UNCHANGED <<rows, store, local, registry, cacheType, writers, excused, writes>>

(* The process starts again with the same configuration.  Redis keeps its  *)
(* entries; the registry of their keys is gone.                            *)
Restart ==
    /\ faults < MaxFaults
    /\ readers' = [r \in Readers |-> Idle]
    /\ writers' = [w \in Writers |-> Idle]
    /\ store' = IF cacheType = "redis" THEN store ELSE [k \in Keys |-> Absent]
    /\ local' = [k \in Keys |-> Absent]
    /\ registry' = {}
    /\ excused' = {k \in Keys : store'[k] # Absent /\ (k \in excused \/ Stale(store, k))}
    /\ faults' = faults + 1
    /\ UNCHANGED <<rows, cacheType, writes>>

-----------------------------------------------------------------------------
Init ==
    /\ rows = NoRows
    /\ store = [k \in Keys |-> Absent]
    /\ local = [k \in Keys |-> Absent]
    /\ registry = {}
    /\ cacheType \in CacheTypes
    /\ readers = [r \in Readers |-> Idle]
    /\ writers = [w \in Writers |-> Idle]
    /\ excused = {}
    /\ writes = 0
    /\ faults = 0

ReaderStep(r) == GetLocal(r) \/ Query(r) \/ SetStore(r) \/ SetLocal(r)

WriterStep(w) ==
    \/ Save(w) \/ SaveItem(w) \/ RemoveRow(w)
    \/ DelStore(w) \/ DelLocal(w)

Expire(key) == StoreExpires(key) \/ LocalExpires(key)

Next ==
    \/ \E r \in Readers :
         \/ \E key \in Keys : Get(r, key) \/ GetFails(r, key)
         \/ ReaderStep(r)
         \/ SetFails(r) \/ ReaderFails(r)
    \/ \E w \in Writers :
         \/ \E id \in Ids :
              Create(w, id) \/ Update(w, id) \/ Remove(w, id)
         \/ WriterStep(w)
         \/ ScanBlocks(w) \/ DelFails(w) \/ WriterFails(w)
    \/ \E key \in Keys : Expire(key)
    \/ Restart

Spec == Init /\ [][Next]_vars

-----------------------------------------------------------------------------
(* Rows, cached answers and calls in flight have their types; a list in    *)
(* the fallback is always registered, so an update can find it.            *)
QuestCacheTypeOK ==
    /\ DOMAIN rows \subseteq Ids /\ rows \in [DOMAIN rows -> Row]
    /\ store \in [Keys -> Cached]
    /\ local \in [Keys -> Cached]
    /\ registry \subseteq Keys
    /\ \A k \in Keys : local[k] # Absent => k \in registry
    /\ readers \in [Readers -> {Idle} \cup Reader]
    /\ writers \in [Writers -> {Idle} \cup Writer]
    /\ excused \subseteq Keys

(* The write w has changed its row and not yet invalidated the key.        *)
WillDelete(w, key) ==
    /\ writers[w] # Idle /\ writers[w].step \in {"saveItem", "del", "delLocal"}
    /\ key \in writers[w].todo

(* A cached answer differs from the database only while a write is about   *)
(* to invalidate it or a read is about to replace it, after a race or a    *)
(* fault that is over only when the entry is gone, or, for a list in the   *)
(* store, because its key is not registered: then no update finds it       *)
(* (quests.service.ts:265-266, cache.service.ts:95-106).                   *)
StaleHasCause ==
    \A k \in Keys : Stale(store, k) \/ Stale(local, k) =>
        \/ k \in excused
        \/ \E w \in Writers : WillDelete(w, k)
        \/ \E r \in Readers : AtReader(r, "setLocal") /\ readers[r].key = k
        \/ k = "list" /\ "list" \notin registry

(* An update loses a change of its quest, or brings a removed quest back,  *)
(* only if it was in flight together with the write it undoes, however     *)
(* stale the cached copies are (quests.service.ts:214-248).                *)
ChangesSurvive ==
    [][\A w \in Writers :
         AtWriter(w, "save") /\ writers[w].alone /\ writers[w].id \in writers[w].todo
         /\ AtWriter(w, "saveItem")' =>
            /\ writers[w].id \in DOMAIN rows
            /\ rows[writers[w].id] \subseteq rows'[writers[w].id]]_vars

=============================================================================
