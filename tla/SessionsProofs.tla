---------------------------- MODULE SessionsProofs ----------------------------
(***************************************************************************)
(* Proofs about Sessions for any number of users, tabs, requests, expiring *)
(* tokens and faults: types and the refresh queue, the exchanges of one    *)
(* token, and the pair the browser stores.                                 *)
(***************************************************************************)
EXTENDS Sessions, TLAPS

(* What a request in flight knows when the table has n rows.               *)
CallSound(call, n) ==
    /\ call.header \in 0..n /\ call.checkedAt \in 0..n
    /\ call.step \in RefreshSteps => call.from \in 1..n
    /\ call.step \in {"renewed", "granted"} => call.pair \in 1..n
    /\ call.step = "ok" => call.header \in 1..n
    /\ call.step = "granted" => call.kind = "login"
    /\ call.step = "again" => call.kind = "list" /\ call.attempt < MaxRetries

Typed ==
    /\ rows \in Seq(Row)
    /\ expired \subseteq Pairs
    /\ storage \in 0..Len(rows)
    /\ refreshing \in [Tabs -> BOOLEAN]
    /\ calls \in [Slots -> {Idle} \cup Call]
    /\ shown \in [Tabs -> Users \cup {Nobody}]
    /\ notices \subseteq Tabs

CallsSound == \A c \in Slots : calls[c] # Idle => CallSound(calls[c], Len(rows))

QueueOK ==
    \A t \in Tabs :
      /\ refreshing[t] <=> \E c \in Calls : Tab(c) = t /\ Refreshing(c)
      /\ \A c, d \in Calls : Tab(c) = t /\ Tab(d) = t /\ Refreshing(c) /\ Refreshing(d) => c = d
      /\ \A c \in Calls : Tab(c) = t /\ At(c, "queued") => refreshing[t]

TypeInv == Typed /\ CallsSound /\ QueueOK

-----------------------------------------------------------------------------
(* Slots and records.                                                      *)

(* The slots of the tabs, and those of the requests whose client has left. *)
LEMMA SlotFacts ==
  /\ Calls \subseteq Slots
  /\ \A c \in Calls : /\ Tab(c) \in Tabs /\ Tab(c) # Gone
                       /\ Left(c) \in Slots \ Calls /\ Tab(Left(c)) = Gone
  /\ \A d \in Slots \ Calls : Tab(d) = Gone
  /\ \A d \in Slots : Tab(d) \in Tabs <=> d \in Calls
  BY SessionsAssumption DEF Slots, Left, Tab

(* Idle is not a call.                                                     *)
LEMMA CallNotIdle ==
  ASSUME NEW call \in Call
  PROVE  call # Idle
  BY DEF Call, Idle, Steps, RefreshSteps

(* "k" is "call" at another step.                                          *)
Moved(call, k, step) ==
    /\ k \in Call /\ k # Idle /\ k.step = step
    /\ k.kind = call.kind /\ k.user = call.user /\ k.header = call.header
    /\ k.retry = call.retry /\ k.attempt = call.attempt /\ k.from = call.from
    /\ k.pair = call.pair /\ k.checkedAt = call.checkedAt

LEMMA Moves ==
  ASSUME NEW call \in Call, NEW step \in Steps
  PROVE  Moved(call, [call EXCEPT !.step = step], step)
  <1>1. [call EXCEPT !.step = step] \in Call
    BY DEF Call
  <1> QED
    BY <1>1, CallNotIdle DEF Moved, Call

(* A new request.                                                          *)
LEMMA RequestFacts ==
  ASSUME NEW kind \in Kinds, NEW header \in Nat, NEW attempt \in 0..MaxRetries
  PROVE  LET k == Request(kind, header, attempt)
         IN  /\ k \in Call /\ k # Idle /\ k.step = "sent" /\ k.kind = kind
             /\ k.header = header /\ k.attempt = attempt /\ k.from = 0
             /\ k.pair = 0 /\ k.checkedAt = 0
  <1>1. Request(kind, header, attempt) \in Call
    BY DEF Request, Call, Steps
  <1> QED
    BY <1>1, CallNotIdle DEF Request

(* A failed request ends or waits for its next attempt.                    *)
LEMMA FailedFacts ==
  ASSUME NEW call \in Call, NEW n \in Nat, CallSound(call, n), NEW retryable
  PROVE  LET k == Failed(call, retryable)
         IN  \/ k = Idle
             \/ /\ k \in Call /\ k # Idle /\ k.step = "again" /\ CallSound(k, n)
                /\ k.kind = "list" /\ call.kind = "list" /\ k.header = call.header
  <1> DEFINE k == [call EXCEPT !.step = "again"]
  <1>1. Moved(call, k, "again")
    BY Moves DEF Steps
  <1>2. ~(call.kind = "list" /\ call.attempt < MaxRetries) => Failed(call, retryable) = Idle
    BY DEF Failed
  <1>3. Failed(call, retryable) \in {Idle, k}
    BY DEF Failed
  <1> HIDE DEF k
  <1>4. CASE call.kind = "list" /\ call.attempt < MaxRetries
    <2>1. CallSound(k, n)
      BY <1>1, <1>4 DEF Moved, CallSound, RefreshSteps
    <2> QED
      BY <1>1, <1>3, <1>4, <2>1 DEF Moved
  <1>5. CASE ~(call.kind = "list" /\ call.attempt < MaxRetries)
    BY <1>2, <1>3, <1>5
  <1> QED
    BY <1>4, <1>5

(* What a call knows stays true when rows are added.                       *)
LEMMA SoundGrows ==
  ASSUME NEW call, NEW n \in Nat, NEW m \in Nat, n <= m, CallSound(call, n)
  PROVE  CallSound(call, m)
  BY DEF CallSound

-----------------------------------------------------------------------------
(* The refresh queue.                                                      *)

(* A step that starts or ends no refresh.                                  *)
LEMMA QueueKept ==
  ASSUME QueueOK, refreshing' = refreshing,
         \A d \in Calls : /\ Refreshing(d)' <=> Refreshing(d)
                          /\ At(d, "queued")' => At(d, "queued") \/ refreshing[Tab(d)]
  PROVE  QueueOK'
  BY DEF QueueOK

(* A refresh of a tab ends, and none of its requests waits any more.       *)
LEMMA QueueEnds ==
  ASSUME Typed, QueueOK, NEW t \in Tabs,
         refreshing' = [refreshing EXCEPT ![t] = FALSE],
         \A d \in Calls : Tab(d) = t => ~Refreshing(d)' /\ ~At(d, "queued")',
         \A d \in Calls : Tab(d) # t => calls'[d] = calls[d]
  PROVE  QueueOK'
  <1>1. \A u \in Tabs : refreshing'[u] = IF u = t THEN FALSE ELSE refreshing[u]
    BY DEF Typed
  <1>2. \A d \in Calls : Tab(d) # t =>
          /\ Refreshing(d)' <=> Refreshing(d)
          /\ At(d, "queued")' <=> At(d, "queued")
    BY DEF Refreshing, At
  <1> QED
    BY <1>1, <1>2 DEF QueueOK

(* A request starts a refresh of its tab.                                  *)
LEMMA QueueBegins ==
  ASSUME Typed, QueueOK, NEW c \in Calls, ~refreshing[Tab(c)],
         refreshing' = [refreshing EXCEPT ![Tab(c)] = TRUE],
         Refreshing(c)', ~At(c, "queued")',
         \A d \in Calls : d # c => calls'[d] = calls[d]
  PROVE  QueueOK'
  <1>1. \A u \in Tabs : refreshing'[u] = IF u = Tab(c) THEN TRUE ELSE refreshing[u]
    BY DEF Typed
  <1>2. \A d \in Calls : d # c =>
          /\ Refreshing(d)' <=> Refreshing(d)
          /\ At(d, "queued")' <=> At(d, "queued")
    BY DEF Refreshing, At
  <1>3. Tab(c) \in Tabs
    BY SessionsAssumption DEF Tab
  <1> QED
    BY <1>1, <1>2, <1>3 DEF QueueOK

(* One call changes, on the same side of the refresh.                      *)
LEMMA OneCallStep ==
  ASSUME TypeInv, NEW c \in Slots, NEW k \in {Idle} \cup Call,
         calls' = [calls EXCEPT ![c] = k],
         rows' \in Seq(Row), Len(rows) <= Len(rows'),
         expired' \subseteq 1..Len(rows'), storage' \in 0..Len(rows'),
         refreshing' = refreshing, shown' \in [Tabs -> Users \cup {Nobody}],
         notices' \subseteq Tabs,
         k # Idle => CallSound(k, Len(rows')),
         c \in Calls => (k # Idle /\ k.step \in RefreshSteps <=> Refreshing(c)),
         c \in Calls /\ k # Idle /\ k.step = "queued" => refreshing[Tab(c)]
  PROVE  TypeInv'
  <1>1. /\ calls' \in [Slots -> {Idle} \cup Call]
        /\ calls'[c] = k
        /\ \A d \in Slots : d # c => calls'[d] = calls[d]
    BY DEF TypeInv, Typed
  <1>2. Typed'
    BY <1>1 DEF TypeInv, Typed, Pairs
  <1>3. CallsSound'
    <2>1. Len(rows) \in Nat /\ Len(rows') \in Nat
      BY DEF TypeInv, Typed
    <2>2. \A d \in Slots : calls'[d] # Idle => CallSound(calls'[d], Len(rows'))
      BY <1>1, <2>1, SoundGrows DEF TypeInv, CallsSound
    <2> QED
      BY <2>2 DEF CallsSound
  <1>4. QueueOK'
    <2>1. \A d \in Calls : /\ Refreshing(d)' <=> Refreshing(d)
                           /\ At(d, "queued")' => At(d, "queued") \/ refreshing[Tab(d)]
      BY <1>1, SlotFacts DEF Refreshing, At
    <2> QED
      BY <2>1, QueueKept DEF TypeInv
  <1> QED
    BY <1>2, <1>3, <1>4 DEF TypeInv

-----------------------------------------------------------------------------
(* Steps of the server.                                                    *)

LEMMA InFlight ==
  ASSUME TypeInv, NEW c \in Slots, calls[c] # Idle
  PROVE  /\ calls[c] \in Call /\ CallSound(calls[c], Len(rows))
         /\ rows \in Seq(Row) /\ Len(rows) \in Nat /\ (c \in Calls => Tab(c) \in Tabs)
         /\ expired \subseteq 1..Len(rows) /\ storage \in 0..Len(rows)
         /\ shown \in [Tabs -> Users \cup {Nobody}] /\ notices \subseteq Tabs
  BY SlotFacts DEF TypeInv, Typed, CallsSound, Pairs

(* A request goes to its next step, or is forgotten after the last one the *)
(* server takes for a client that has left.                                *)
LEMMA GoesFacts ==
  ASSUME TypeInv, NEW c \in Slots, NEW j \in Call, NEW step \in Steps,
         Goes(c, j, step)
  PROVE  /\ \/ calls'[c] = Idle /\ c \notin Calls /\ step \notin {"revoke", "issue"}
            \/ Moved(j, calls'[c], step)
         /\ calls' = [calls EXCEPT ![c] = calls'[c]]
         /\ \A d \in Slots : d # c => calls'[d] = calls[d]
  <1> DEFINE k == [j EXCEPT !.step = step]
             over == Tab(c) = Gone /\ step \notin {"revoke", "issue"}
             l == IF over THEN Idle ELSE k
  <1>1. Moved(j, k, step)
    BY Moves
  <1>2. calls' = [calls EXCEPT ![c] = l]
    BY DEF Goes
  <1>3. over => c \notin Calls /\ step \notin {"revoke", "issue"}
    BY SlotFacts
  <1>5. (over => l = Idle) /\ (~over => l = k)
    OBVIOUS
  <1> HIDE DEF k, over, l
  <1>4. calls'[c] = l /\ \A d \in Slots : d # c => calls'[d] = calls[d]
    BY <1>2 DEF TypeInv, Typed
  <1> QED
    BY <1>1, <1>2, <1>3, <1>4, <1>5

(* A request goes to its next step, and rows may be rewritten or added.    *)
LEMMA GoStep ==
  ASSUME TypeInv, NEW c \in Slots, calls[c] # Idle, NEW j \in Call,
         NEW step \in Steps, Goes(c, j, step),
         rows' \in Seq(Row), Len(rows) <= Len(rows'),
         UNCHANGED <<expired, storage, refreshing>>,
         shown' = shown, notices' = notices,
         step \in RefreshSteps <=> calls[c].step \in RefreshSteps,
         step = "queued" => refreshing[Tab(c)],
         \A k : Moved(j, k, step) => CallSound(k, Len(rows'))
  PROVE  TypeInv'
  <1> DEFINE k == calls'[c]
  <1>1. /\ (k = Idle /\ c \notin Calls) \/ Moved(j, k, step)
        /\ calls' = [calls EXCEPT ![c] = k]
    BY GoesFacts
  <1> HIDE DEF k
  <1>2. Moved(j, k, step) => k \in Call /\ k # Idle /\ k.step = step
    BY DEF Moved
  <1>3. /\ k \in {Idle} \cup Call
        /\ c \in Calls => (k # Idle /\ k.step \in RefreshSteps <=> Refreshing(c))
        /\ c \in Calls /\ k # Idle /\ k.step = "queued" => refreshing[Tab(c)]
        /\ k # Idle => CallSound(k, Len(rows'))
    BY <1>1, <1>2 DEF Refreshing
  <1>4. /\ expired' \subseteq 1..Len(rows') /\ storage' \in 0..Len(rows')
        /\ shown' \in [Tabs -> Users \cup {Nobody}] /\ notices' \subseteq Tabs
        /\ refreshing' = refreshing
    <2>1. /\ Len(rows) \in Nat /\ Len(rows') \in Nat
          /\ expired \subseteq 1..Len(rows) /\ storage \in 0..Len(rows)
          /\ shown \in [Tabs -> Users \cup {Nobody}] /\ notices \subseteq Tabs
      BY InFlight
    <2> QED
      BY <2>1
  <1> QED
    BY <1>1, <1>3, <1>4, OneCallStep

(* A row of the table, and a table with a new row or with rows rewritten.  *)
LEMMA NewRowType ==
  ASSUME NEW user \in Users, NEW parent \in Nat, NEW checkedAt \in Nat
  PROVE  NewRow(user, parent, checkedAt) \in Row
  BY DEF NewRow, Row

LEMMA AppendFacts ==
  ASSUME NEW rs \in Seq(Row), NEW row \in Row
  PROVE  /\ Append(rs, row) \in Seq(Row)
         /\ Len(Append(rs, row)) = Len(rs) + 1
         /\ Len(rs) \in Nat
         /\ \A n \in 1..Len(rs) : Append(rs, row)[n] = rs[n]
         /\ Append(rs, row)[Len(rs) + 1] = row
  OBVIOUS

LEMMA RewriteFacts ==
  ASSUME NEW rs \in Seq(Row), NEW f \in [1..Len(rs) -> Row]
  PROVE  f \in Seq(Row) /\ Len(f) = Len(rs)
  OBVIOUS

(* Revoking one row or all rows of a user keeps the table's type.          *)
LEMMA RevokeFacts ==
  ASSUME rows \in Seq(Row), NEW pair \in 1..Len(rows)
  PROVE  /\ RevokeOne(pair) \in Seq(Row) /\ Len(RevokeOne(pair)) = Len(rows)
         /\ RevokeToken(pair) \in Seq(Row) /\ Len(RevokeToken(pair)) = Len(rows)
         /\ \A n \in 1..Len(rows) :
              RevokeOne(pair)[n] = IF n = pair
                THEN [rows[n] EXCEPT !.isRevoked = TRUE] ELSE rows[n]
         /\ \A n \in 1..Len(rows) :
              RevokeToken(pair)[n] = IF rows[n].user = rows[pair].user
                THEN [rows[n] EXCEPT !.isRevoked = TRUE] ELSE rows[n]
  <1>1. \A n \in 1..Len(rows) : rows[n] \in Row
    OBVIOUS
  <1>2. \A row \in Row : [row EXCEPT !.isRevoked = TRUE] \in Row
    BY DEF Row
  <1>3. RevokeToken(pair) \in [1..Len(rows) -> Row]
    BY <1>1, <1>2 DEF RevokeToken, Pairs
  <1>4. RevokeOne(pair) = [n \in 1..Len(rows) |-> IF n = pair
          THEN [rows[n] EXCEPT !.isRevoked = TRUE] ELSE rows[n]]
    <2>1. rows \in [1..Len(rows) -> Row]
      OBVIOUS
    <2> QED
      BY <2>1 DEF RevokeOne
  <1>5. RevokeOne(pair) \in [1..Len(rows) -> Row]
    BY <1>1, <1>2, <1>4
  <1>6. /\ RevokeOne(pair) \in Seq(Row) /\ Len(RevokeOne(pair)) = Len(rows)
        /\ RevokeToken(pair) \in Seq(Row) /\ Len(RevokeToken(pair)) = Len(rows)
    BY <1>3, <1>5, RewriteFacts
  <1> QED
    BY <1>4, <1>6 DEF RevokeToken, Pairs

(* A call with another pair, or with another time of check.                *)
LEMMA PairFacts ==
  ASSUME NEW call \in Call, NEW pair \in Nat
  PROVE  LET j == [call EXCEPT !.pair = pair]
         IN  /\ j \in Call /\ j.pair = pair /\ j.kind = call.kind /\ j.from = call.from
             /\ j.header = call.header /\ j.checkedAt = call.checkedAt
  BY DEF Call

LEMMA CheckedFacts ==
  ASSUME NEW call \in Call, NEW n \in Nat
  PROVE  LET j == [call EXCEPT !.checkedAt = n]
         IN  /\ j \in Call /\ j.kind = call.kind /\ j.from = call.from
             /\ j.header = call.header /\ j.checkedAt = n
  BY DEF Call

(* A login adds a row that no other row is the parent of, or is refused.   *)
LEMMA GrantLoginTyped ==
  ASSUME TypeInv, NEW c \in Slots, GrantLogin(c)
  PROVE  TypeInv'
  <1>1. /\ calls[c] # Idle /\ calls[c].step = "sent" /\ calls[c].kind = "login"
        /\ UNCHANGED <<expired, storage, refreshing>>
        /\ shown' = shown /\ notices' = notices
    BY DEF GrantLogin, At, browser
  <1>2. /\ calls[c] \in Call /\ CallSound(calls[c], Len(rows)) /\ Len(rows) \in Nat
        /\ rows \in Seq(Row)
    BY <1>1, InFlight
  <1>3. CASE calls[c].user = Nobody
    <2>1. Goes(c, calls[c], "unauthorized") /\ rows' = rows
      BY <1>3 DEF GrantLogin
    <2>2. \A k : Moved(calls[c], k, "unauthorized") => CallSound(k, Len(rows'))
      BY <1>2, <2>1 DEF Moved, CallSound, RefreshSteps
    <2>3. rows' \in Seq(Row) /\ Len(rows) <= Len(rows')
      BY <1>2, <2>1
    <2> QED
      BY <1>1, <1>2, <2>1, <2>2, <2>3, GoStep DEF Steps, RefreshSteps
  <1>4. CASE calls[c].user # Nobody
    <2> DEFINE pair == Len(rows) + 1
               j == [calls[c] EXCEPT !.pair = pair]
               row == NewRow(calls[c].user, 0, 0)
    <2>1. row \in Row
      BY <1>2, <1>4, NewRowType DEF Call
    <2>2. rows' = Append(rows, row) /\ Goes(c, j, "granted")
      BY <1>4 DEF GrantLogin
    <2> HIDE DEF row
    <2>3. rows' \in Seq(Row) /\ Len(rows') = pair
      BY <1>2, <2>1, <2>2, AppendFacts
    <2>4. /\ j \in Call /\ j.pair = pair /\ j.kind = calls[c].kind
          /\ j.header = calls[c].header /\ j.checkedAt = calls[c].checkedAt
      <3>1. pair \in Nat
        BY <1>2
      <3> HIDE DEF pair
      <3> QED
        BY <1>2, <3>1, PairFacts
    <2> HIDE DEF j
    <2>5. \A k : Moved(j, k, "granted") => CallSound(k, Len(rows'))
      BY <1>1, <1>2, <2>3, <2>4 DEF Moved, CallSound, RefreshSteps
    <2>6. Len(rows) <= Len(rows')
      BY <1>2, <2>3
    <2> QED
      BY <1>1, <2>2, <2>3, <2>4, <2>5, <2>6, GoStep DEF Steps, RefreshSteps
  <1> QED
    BY <1>3, <1>4

LEMMA ServeTyped ==
  ASSUME TypeInv, NEW c \in Slots, Serve(c)
  PROVE  TypeInv'
  <1>1. /\ calls[c] # Idle /\ calls[c].step = "sent"
        /\ UNCHANGED <<expired, storage, refreshing>>
        /\ shown' = shown /\ notices' = notices
    BY DEF Serve, At, browser
  <1>2. /\ calls[c] \in Call /\ CallSound(calls[c], Len(rows)) /\ Len(rows) \in Nat
        /\ rows \in Seq(Row)
    BY <1>1, InFlight
  <1>3. CASE Accepted(calls[c].header)
    <2>1. calls[c].header \in 1..Len(rows)
      BY <1>3 DEF Accepted, Pairs
    <2>2. rows' \in Seq(Row) /\ Len(rows') = Len(rows)
      BY <1>2, <1>3, <2>1, RevokeFacts DEF Serve
    <2>3. Goes(c, calls[c], "ok")
      BY <1>3 DEF Serve
    <2>4. \A k : Moved(calls[c], k, "ok") => CallSound(k, Len(rows'))
      BY <1>2, <2>1, <2>2 DEF Moved, CallSound, RefreshSteps
    <2> QED
      BY <1>1, <1>2, <2>2, <2>3, <2>4, GoStep DEF Steps, RefreshSteps
  <1>4. CASE ~Accepted(calls[c].header)
    <2>1. Goes(c, calls[c], "unauthorized") /\ rows' = rows
      BY <1>4 DEF Serve
    <2>2. \A k : Moved(calls[c], k, "unauthorized") => CallSound(k, Len(rows'))
      BY <1>2, <2>1 DEF Moved, CallSound, RefreshSteps
    <2> QED
      BY <1>1, <1>2, <2>1, <2>2, GoStep DEF Steps, RefreshSteps
  <1> QED
    BY <1>3, <1>4

LEMMA FindTokenTyped ==
  ASSUME TypeInv, NEW c \in Slots, FindToken(c)
  PROVE  TypeInv'
  <1> DEFINE n == Len(rows)
             row == rows[calls[c].from]
             j == [calls[c] EXCEPT !.checkedAt = n]
  <1>1. /\ calls[c] # Idle /\ calls[c].step = "find"
        /\ UNCHANGED <<rows, expired, storage, refreshing>>
        /\ shown' = shown /\ notices' = notices
    BY DEF FindToken, At, browser, server
  <1>2. /\ calls[c] \in Call /\ CallSound(calls[c], n) /\ n \in Nat
        /\ rows' \in Seq(Row) /\ Len(rows') = n /\ n <= n
    BY <1>1, InFlight
  <1>3. CASE row.isRevoked \/ row.lapsed
    <2>1. Goes(c, calls[c], "refused")
      BY <1>3 DEF FindToken
    <2>2. \A k : Moved(calls[c], k, "refused") => CallSound(k, Len(rows'))
      BY <1>1, <1>2 DEF Moved, CallSound, RefreshSteps
    <2> QED
      BY <1>1, <1>2, <2>1, <2>2, GoStep DEF Steps, RefreshSteps
  <1>4. CASE ~(row.isRevoked \/ row.lapsed)
    <2>1. Goes(c, j, "revoke")
      BY <1>4 DEF FindToken
    <2>2. /\ j \in Call /\ j.checkedAt = n /\ j.from = calls[c].from
          /\ j.header = calls[c].header /\ j.kind = calls[c].kind
      BY <1>2, CheckedFacts
    <2> HIDE DEF j
    <2>3. \A k : Moved(j, k, "revoke") => CallSound(k, Len(rows'))
      BY <1>1, <1>2, <2>2 DEF Moved, CallSound, RefreshSteps
    <2> QED
      BY <1>1, <1>2, <2>1, <2>2, <2>3, GoStep DEF Steps, RefreshSteps
  <1> QED
    BY <1>3, <1>4

LEMMA SaveRevokedTyped ==
  ASSUME TypeInv, NEW c \in Slots, SaveRevoked(c)
  PROVE  TypeInv'
  <1>1. /\ calls[c] # Idle /\ calls[c].step = "revoke"
        /\ UNCHANGED <<expired, storage, refreshing>>
        /\ shown' = shown /\ notices' = notices
        /\ rows' = RevokeOne(calls[c].from)
        /\ Goes(c, calls[c], "issue")
    BY DEF SaveRevoked, At, browser
  <1>2. /\ calls[c].from \in 1..Len(rows) /\ rows \in Seq(Row) /\ Len(rows) \in Nat
        /\ calls[c] \in Call /\ CallSound(calls[c], Len(rows))
    BY <1>1, InFlight DEF CallSound, RefreshSteps
  <1>3. rows' \in Seq(Row) /\ Len(rows') = Len(rows)
    BY <1>1, <1>2, RevokeFacts
  <1>4. \A k : Moved(calls[c], k, "issue") => CallSound(k, Len(rows'))
    BY <1>1, <1>2, <1>3 DEF Moved, CallSound, RefreshSteps
  <1> QED
    BY <1>1, <1>2, <1>3, <1>4, GoStep DEF Steps, RefreshSteps

LEMMA GenerateTokensTyped ==
  ASSUME TypeInv, NEW c \in Slots, GenerateTokens(c)
  PROVE  TypeInv'
  <1> DEFINE pair == Len(rows) + 1
             j == [calls[c] EXCEPT !.pair = pair]
             row == NewRow(rows[calls[c].from].user, calls[c].from, calls[c].checkedAt)
  <1>1. /\ calls[c] # Idle /\ calls[c].step = "issue"
        /\ UNCHANGED <<expired, storage, refreshing>>
        /\ shown' = shown /\ notices' = notices
    BY DEF GenerateTokens, At, browser
  <1>2. /\ calls[c] \in Call /\ CallSound(calls[c], Len(rows))
        /\ Len(rows) \in Nat /\ rows \in Seq(Row)
    BY <1>1, InFlight
  <1>3. row \in Row
    <2>1. calls[c].from \in 1..Len(rows) /\ calls[c].checkedAt \in Nat
      BY <1>1, <1>2 DEF CallSound, RefreshSteps
    <2>2. rows[calls[c].from] \in Row
      BY <1>2, <2>1
    <2>3. rows[calls[c].from].user \in Users
      BY <2>2 DEF Row
    <2> QED
      BY <2>1, <2>3, NewRowType
  <1>4. rows' = Append(rows, row) /\ Goes(c, j, "renewed")
    BY DEF GenerateTokens
  <1> HIDE DEF row
  <1>5. rows' \in Seq(Row) /\ Len(rows') = pair
    BY <1>2, <1>3, <1>4, AppendFacts
  <1>6. /\ j \in Call /\ j.pair = pair /\ j.kind = calls[c].kind /\ j.from = calls[c].from
        /\ j.header = calls[c].header /\ j.checkedAt = calls[c].checkedAt
    <2>1. pair \in Nat
      BY <1>2
    <2> HIDE DEF pair
    <2> QED
      BY <1>2, <2>1, PairFacts
  <1> HIDE DEF j
  <1>7. \A k : Moved(j, k, "renewed") => CallSound(k, Len(rows'))
    BY <1>1, <1>2, <1>5, <1>6 DEF Moved, CallSound, RefreshSteps
  <1>8. Len(rows) <= Len(rows')
    BY <1>2, <1>5
  <1> QED
    BY <1>1, <1>4, <1>5, <1>6, <1>7, <1>8, GoStep DEF Steps, RefreshSteps

(* A row lapses: no call changes.                                          *)
LEMMA ExpireTyped ==
  ASSUME TypeInv, NEW n \in Pairs, Expire(n)
  PROVE  TypeInv'
  <1>1. /\ UNCHANGED <<storage, refreshing, calls, shown, notices>>
        /\ expired' = expired \cup {n}
    BY DEF Expire, browser
  <1>2. rows \in Seq(Row) /\ n \in 1..Len(rows)
    BY DEF TypeInv, Typed, Pairs
  <1>3. rows' \in Seq(Row) /\ Len(rows') = Len(rows)
    <2> DEFINE r == [rows[n] EXCEPT !.lapsed = TRUE]
    <2>1. r \in Row
      <3>1. rows[n] \in Row
        BY <1>2
      <3> QED
        BY <3>1 DEF Row
    <2> HIDE DEF r
    <2>2. rows' = rows \/ rows' = [rows EXCEPT ![n] = r]
      BY DEF Expire, r
    <2> QED
      BY <1>2, <2>1, <2>2
  <1>4. Typed'
    BY <1>1, <1>2, <1>3 DEF TypeInv, Typed, Pairs
  <1>5. CallsSound' /\ QueueOK'
    BY <1>1, <1>3 DEF TypeInv, CallsSound, QueueOK, Refreshing, At
  <1> QED
    BY <1>4, <1>5 DEF TypeInv

-----------------------------------------------------------------------------
(* Steps of the client that concern one request.                           *)

(* One request of a slot that refreshes nothing is replaced by another, or *)
(* by none, and storage, display and notices may change.                   *)
LEMMA ClientStep ==
  ASSUME TypeInv, NEW c \in Calls, ~Refreshing(c), NEW k \in {Idle} \cup Call,
         calls' = [calls EXCEPT ![c] = k],
         UNCHANGED <<rows, expired, refreshing>>,
         storage' \in 0..Len(rows), shown' \in [Tabs -> Users \cup {Nobody}],
         notices' \subseteq Tabs,
         k # Idle => CallSound(k, Len(rows)) /\ k.step \notin RefreshSteps
                     /\ k.step # "queued"
  PROVE  TypeInv'
  <1>1. /\ rows' \in Seq(Row) /\ Len(rows') = Len(rows) /\ Len(rows) \in Nat
        /\ expired' \subseteq 1..Len(rows')
    BY DEF TypeInv, Typed, Pairs
  <1>2. /\ k # Idle => CallSound(k, Len(rows'))
        /\ k # Idle /\ k.step \in RefreshSteps <=> Refreshing(c)
        /\ k # Idle /\ k.step = "queued" => refreshing[Tab(c)]
        /\ Len(rows) <= Len(rows') /\ storage' \in 0..Len(rows')
        /\ refreshing' = refreshing
    BY <1>1
  <1> QED
    BY <1>1, <1>2, SlotFacts, OneCallStep

(* What the types say of storage, display and notices.                     *)
LEMMA BrowserTyped ==
  ASSUME TypeInv, NEW c \in Calls
  PROVE  /\ storage \in 0..Len(rows) /\ Len(rows) \in Nat /\ Tab(c) \in Tabs
         /\ shown \in [Tabs -> Users \cup {Nobody}] /\ notices \subseteq Tabs
         /\ [shown EXCEPT ![Tab(c)] = Nobody] \in [Tabs -> Users \cup {Nobody}]
  BY SessionsAssumption DEF TypeInv, Typed, Tab

(* A request that is sent is sound.                                        *)
LEMMA SentSound ==
  ASSUME NEW kind \in Kinds, NEW n \in Nat, NEW header \in 0..n,
         NEW attempt \in 0..MaxRetries
  PROVE  LET k == Request(kind, header, attempt)
         IN  /\ k \in {Idle} \cup Call /\ k # Idle
             /\ CallSound(k, n) /\ k.step \notin RefreshSteps /\ k.step # "queued"
  <1> DEFINE k == Request(kind, header, attempt)
  <1>1. /\ k \in Call /\ k # Idle /\ k.step = "sent" /\ k.header = header
        /\ k.checkedAt = 0
    BY RequestFacts
  <1> HIDE DEF k
  <1>2. CallSound(k, n)
    BY <1>1 DEF CallSound, RefreshSteps
  <1>3. k.step \notin RefreshSteps /\ k.step # "queued"
    BY <1>1 DEF RefreshSteps
  <1> QED
    BY <1>1, <1>2, <1>3 DEF k

LEMMA SendTyped ==
  ASSUME TypeInv, NEW c \in Calls, calls[c] = Idle, NEW kind \in Kinds,
         Send(c, kind), UNCHANGED <<rows, expired, storage, refreshing, shown>>,
         notices' \subseteq Tabs
  PROVE  TypeInv'
  <1> DEFINE k == Request(kind, storage, 0)
  <1>1. ~Refreshing(c)
    BY DEF Refreshing
  <1>2. /\ k \in {Idle} \cup Call
        /\ CallSound(k, Len(rows)) /\ k.step \notin RefreshSteps /\ k.step # "queued"
    BY BrowserTyped, SentSound, SessionsAssumption
  <1>3. calls' = [calls EXCEPT ![c] = k]
    BY DEF Send
  <1> HIDE DEF k
  <1>4. storage' \in 0..Len(rows) /\ shown' \in [Tabs -> Users \cup {Nobody}]
    BY BrowserTyped
  <1> QED
    BY <1>1, <1>2, <1>3, <1>4, ClientStep

LEMMA StartsTyped ==
  ASSUME TypeInv, NEW c \in Calls, Starts(c)
  PROVE  TypeInv'
  <1>1. CASE List(c)
    BY <1>1, SendTyped, BrowserTyped DEF List, server, browser, Kinds
  <1>2. CASE Logout(c)
    BY <1>2, SendTyped, BrowserTyped DEF Logout, server, browser, Kinds
  <1>3. CASE RefreshProfile(c) /\ storage # 0
    BY <1>3, SendTyped, BrowserTyped DEF RefreshProfile, server, Kinds
  <1>4. CASE RefreshProfile(c) /\ storage = 0
    <2>1. /\ UNCHANGED <<rows, expired, storage, refreshing, calls, notices>>
          /\ shown' = [shown EXCEPT ![Tab(c)] = Nobody]
      BY <1>4 DEF RefreshProfile, server
    <2>2. Typed'
      BY <2>1, BrowserTyped DEF TypeInv, Typed, Pairs
    <2>3. CallsSound' /\ QueueOK'
      BY <2>1 DEF TypeInv, CallsSound, QueueOK, Refreshing, At
    <2> QED
      BY <2>2, <2>3 DEF TypeInv
  <1>5. ASSUME NEW user \in Users \cup {Nobody}, Login(c, user)
        PROVE  TypeInv'
    <2> DEFINE j == Request("login", storage, 0)
               k == [j EXCEPT !.user = user]
    <2>1. /\ UNCHANGED <<rows, expired, storage, refreshing, shown, notices>>
          /\ calls[c] = Idle /\ calls' = [calls EXCEPT ![c] = k]
      BY <1>5 DEF Login, server, browser
    <2>2. /\ j \in Call /\ j.step = "sent" /\ j.kind = "login" /\ j.header = storage
          /\ j.checkedAt = 0
      BY RequestFacts, BrowserTyped, SessionsAssumption DEF Kinds
    <2> HIDE DEF j
    <2>3. /\ k \in Call /\ k.step = "sent" /\ k.kind = "login" /\ k.header = storage
          /\ k.checkedAt = 0
      BY <2>2 DEF Call
    <2> HIDE DEF k
    <2>4. ~Refreshing(c)
      BY <2>1 DEF Refreshing
    <2>5. CallSound(k, Len(rows)) /\ k.step \notin RefreshSteps /\ k.step # "queued"
      BY <2>3, BrowserTyped DEF CallSound, RefreshSteps
    <2>6. /\ storage' \in 0..Len(rows) /\ notices' \subseteq Tabs
          /\ shown' \in [Tabs -> Users \cup {Nobody}]
      BY <2>1, BrowserTyped
    <2>7. k \in {Idle} \cup Call /\ UNCHANGED <<rows, expired, refreshing>>
      BY <2>1, <2>3
    <2> QED
      BY <2>1, <2>4, <2>5, <2>6, <2>7, ClientStep
  <1> QED
    BY <1>1, <1>2, <1>3, <1>4, <1>5 DEF Starts

LEMMA StorageEventTyped ==
  ASSUME TypeInv, NEW c \in Calls, StorageEvent(c)
  PROVE  TypeInv'
  <1>1. /\ UNCHANGED <<rows, expired, storage, refreshing, shown>>
        /\ notices' = notices \ {Tab(c)}
    BY DEF StorageEvent, server
  <1>2. notices' \subseteq Tabs
    BY <1>1, BrowserTyped
  <1>3. CASE shown[Tab(c)] # Nobody /\ storage = 0
    BY <1>1, <1>2, <1>3, SendTyped DEF StorageEvent, Kinds
  <1>4. CASE ~(shown[Tab(c)] # Nobody /\ storage = 0)
    <2>1. UNCHANGED calls
      BY <1>4 DEF StorageEvent
    <2>2. Typed'
      BY <1>1, <1>2, <2>1 DEF TypeInv, Typed, Pairs
    <2>3. CallsSound' /\ QueueOK'
      BY <1>1, <2>1 DEF TypeInv, CallsSound, QueueOK, Refreshing, At
    <2> QED
      BY <2>2, <2>3 DEF TypeInv
  <1> QED
    BY <1>3, <1>4

(* The slot becomes free.                                                  *)
LEMMA EndsTyped ==
  ASSUME TypeInv, NEW c \in Calls, ~Refreshing(c),
         calls' = [calls EXCEPT ![c] = Idle],
         UNCHANGED <<rows, expired, refreshing>>,
         storage' \in 0..Len(rows), shown' \in [Tabs -> Users \cup {Nobody}],
         notices' \subseteq Tabs
  PROVE  TypeInv'
  BY ClientStep

(* Clearing the tokens notifies tabs only.                                 *)
LEMMA ClearFacts ==
  ASSUME TypeInv, NEW c \in Calls, ClearTokens(Tab(c))
  PROVE  /\ storage' = 0 /\ storage' \in 0..Len(rows) /\ notices' \subseteq Tabs
  BY BrowserTyped DEF ClearTokens

LEMMA SucceedsTyped ==
  ASSUME TypeInv, NEW c \in Calls, Succeeds(c)
  PROVE  TypeInv'
  <1>1. /\ calls[c] # Idle /\ calls[c].step = "ok"
        /\ UNCHANGED <<rows, expired, refreshing>>
        /\ calls' = [calls EXCEPT ![c] = Idle]
    BY DEF Succeeds, At, server
  <1>2. ~Refreshing(c)
    BY <1>1 DEF Refreshing, RefreshSteps
  <1>3. storage' \in 0..Len(rows) /\ notices' \subseteq Tabs
    BY BrowserTyped, ClearFacts DEF Succeeds
  <1>4. shown' \in [Tabs -> Users \cup {Nobody}]
    <2> DEFINE user == rows[calls[c].header].user
    <2>1. user \in Users
      <3>1. calls[c].header \in 1..Len(rows) /\ rows \in Seq(Row)
        BY <1>1, SlotFacts, InFlight DEF CallSound
      <3>2. rows[calls[c].header] \in Row
        BY <3>1
      <3> QED
        BY <3>2 DEF Row
    <2>2. shown' \in {shown, [shown EXCEPT ![Tab(c)] = Nobody],
                      [shown EXCEPT ![Tab(c)] = user]}
      BY DEF Succeeds
    <2> HIDE DEF user
    <2> QED
      BY <2>1, <2>2, BrowserTyped
  <1> QED
    BY <1>1, <1>2, <1>3, <1>4, EndsTyped

LEMMA LoginSucceedsTyped ==
  ASSUME TypeInv, NEW c \in Calls, LoginSucceeds(c)
  PROVE  TypeInv'
  <1> DEFINE pair == calls[c].pair
             k == Request("profile", pair, 0)
  <1>1. /\ calls[c] # Idle /\ calls[c].step = "granted"
        /\ UNCHANGED <<rows, expired, refreshing, shown, notices>>
        /\ storage' = pair
        /\ calls' = [calls EXCEPT ![c] = k]
    BY DEF LoginSucceeds, At, server
  <1>2. ~Refreshing(c)
    BY <1>1 DEF Refreshing, RefreshSteps
  <1>3. pair \in 0..Len(rows) /\ Len(rows) \in Nat
    BY <1>1, SlotFacts, InFlight DEF CallSound
  <1> HIDE DEF pair
  <1>4. /\ k \in {Idle} \cup Call
        /\ CallSound(k, Len(rows)) /\ k.step \notin RefreshSteps /\ k.step # "queued"
    BY <1>3, SentSound, SessionsAssumption DEF Kinds
  <1> HIDE DEF k
  <1>5. /\ storage' \in 0..Len(rows) /\ notices' \subseteq Tabs
        /\ shown' \in [Tabs -> Users \cup {Nobody}]
        /\ UNCHANGED <<rows, expired, refreshing>>
    BY <1>1, <1>3, BrowserTyped
  <1> QED
    BY <1>1, <1>2, <1>4, <1>5, ClientStep

LEMMA TryAgainTyped ==
  ASSUME TypeInv, NEW c \in Calls, TryAgain(c)
  PROVE  TypeInv'
  <1> DEFINE attempt == calls[c].attempt + 1
             k == Request("list", storage, attempt)
  <1>1. /\ calls[c] # Idle /\ calls[c].step = "again"
        /\ UNCHANGED <<rows, expired, storage, refreshing, shown, notices>>
        /\ calls' = [calls EXCEPT ![c] = k]
    BY DEF TryAgain, At, server, browser
  <1>2. ~Refreshing(c)
    BY <1>1 DEF Refreshing, RefreshSteps
  <1>3. attempt \in 0..MaxRetries
    BY <1>1, SlotFacts, InFlight, SessionsAssumption DEF CallSound, Call
  <1> HIDE DEF attempt
  <1>4. /\ k \in {Idle} \cup Call
        /\ CallSound(k, Len(rows)) /\ k.step \notin RefreshSteps /\ k.step # "queued"
    BY <1>3, SentSound, BrowserTyped DEF Kinds
  <1> HIDE DEF k
  <1>5. /\ storage' \in 0..Len(rows) /\ notices' \subseteq Tabs
        /\ shown' \in [Tabs -> Users \cup {Nobody}]
        /\ UNCHANGED <<rows, expired, refreshing>>
    BY <1>1, BrowserTyped
  <1> QED
    BY <1>1, <1>2, <1>4, <1>5, ClientStep

(* Requests the server goes on with: the slots they move to were free.     *)
LEMMA InheritedFacts ==
  ASSUME TypeInv, NEW left \in SUBSET Calls, \A d \in left : Leavable(d)
  PROVE  /\ Inherited(left) \in [Slots -> {Idle} \cup Call]
         /\ \A d \in Slots :
              \/ Inherited(left)[d] = calls[d]
              \/ /\ d \notin Calls /\ calls[d] = Idle
                 /\ \E c \in left : /\ Inherited(left)[d] = calls[c] /\ calls[c] # Idle
                                    /\ d = Left(c) /\ Writes(c)
  <1>1. ASSUME NEW d \in Slots
        PROVE  /\ Inherited(left)[d] \in {Idle} \cup Call
               /\ \/ Inherited(left)[d] = calls[d]
                  \/ /\ d \notin Calls /\ calls[d] = Idle
                     /\ \E c \in left : /\ Inherited(left)[d] = calls[c] /\ calls[c] # Idle
                                        /\ d = Left(c) /\ Writes(c)
    <2>1. CASE \E c \in left : d = Left(c)
      <3>1. PICK c \in left : d = Left(c)
        BY <2>1
      <3>2. d[2] = c
        BY <3>1 DEF Left
      <3>3. Inherited(left)[d] = calls[c]
        BY <2>1, <3>2 DEF Inherited
      <3>4. d \notin Calls /\ calls[d] = Idle /\ calls[c] # Idle /\ Writes(c)
        BY <3>1, SlotFacts DEF Leavable, Writes
      <3>5. calls[c] \in {Idle} \cup Call
        BY SlotFacts DEF TypeInv, Typed
      <3> QED
        BY <3>1, <3>3, <3>4, <3>5
    <2>2. CASE ~ \E c \in left : d = Left(c)
      <3>1. Inherited(left)[d] = calls[d]
        BY <2>2 DEF Inherited
      <3> QED
        BY <3>1 DEF TypeInv, Typed
    <2> QED
      BY <2>1, <2>2
  <1>2. Inherited(left) = [d \in Slots |-> Inherited(left)[d]]
    BY DEF Inherited
  <1> QED
    BY <1>1, <1>2

(* The request fails, and may go on without its client.                    *)
LEMMA LostFacts ==
  ASSUME TypeInv, NEW c \in Calls, MessageLost(c)
  PROVE  /\ calls[c] # Idle
         /\ \E step \in {"failed", "dropped"} :
              /\ Moved(calls[c], calls'[c], step)
              /\ step = "dropped" <=> Refreshing(c)
         /\ calls' \in [Slots -> {Idle} \cup Call]
         /\ \A d \in Slots :
              \/ d = c
              \/ calls'[d] = calls[d]
              \/ /\ d \notin Calls /\ calls[d] = Idle
                 /\ calls'[d] = calls[c] /\ Writes(c)
  <1>1. PICK left \in SUBSET {c}, step \in {"failed", "dropped"} :
          /\ \A d \in left : Leavable(d)
          /\ calls[c].step \in IF step = "failed"
                                THEN {"sent", "ok", "unauthorized", "granted"}
                                ELSE {"find", "revoke", "issue", "renewed"}
          /\ calls' = [Inherited(left) EXCEPT ![c] = [calls[c] EXCEPT !.step = step]]
    BY DEF MessageLost
  <1> DEFINE k == [calls[c] EXCEPT !.step = step]
  <1>2. calls[c] # Idle /\ c \in Slots
    BY SlotFacts DEF MessageLost
  <1>3. calls[c] \in Call
    BY <1>2 DEF TypeInv, Typed
  <1>4. Moved(calls[c], k, step)
    BY <1>3, Moves DEF Steps, RefreshSteps
  <1>5. step = "dropped" <=> Refreshing(c)
    BY <1>1, <1>2 DEF Refreshing, RefreshSteps
  <1> HIDE DEF k
  <1>6. left \in SUBSET Calls
    OBVIOUS
  <1>7. /\ Inherited(left) \in [Slots -> {Idle} \cup Call]
        /\ \A d \in Slots :
             \/ Inherited(left)[d] = calls[d]
             \/ /\ d \notin Calls /\ calls[d] = Idle
                /\ Inherited(left)[d] = calls[c] /\ Writes(c)
    BY <1>1, <1>6, InheritedFacts
  <1>8. k \in Call
    BY <1>4 DEF Moved
  <1>9. /\ calls' \in [Slots -> {Idle} \cup Call] /\ calls'[c] = k
        /\ \A d \in Slots : d # c => calls'[d] = Inherited(left)[d]
    BY <1>1, <1>2, <1>7, <1>8 DEF k
  <1> QED
    BY <1>2, <1>4, <1>5, <1>7, <1>9

LEMMA MessageLostTyped ==
  ASSUME TypeInv, NEW c \in Calls, MessageLost(c)
  PROVE  TypeInv'
  <1>1. /\ calls[c] # Idle
        /\ UNCHANGED <<rows, expired, storage, refreshing, shown, notices>>
    BY DEF MessageLost, server, browser
  <1>2. PICK step \in {"failed", "dropped"} :
          /\ Moved(calls[c], calls'[c], step)
          /\ step = "dropped" <=> Refreshing(c)
    BY LostFacts
  <1>3. /\ calls' \in [Slots -> {Idle} \cup Call]
        /\ \A d \in Slots :
             \/ d = c
             \/ calls'[d] = calls[d]
             \/ /\ d \notin Calls /\ calls[d] = Idle
                /\ calls'[d] = calls[c] /\ Writes(c)
    BY LostFacts
  <1>4. Typed'
    BY <1>1, <1>3 DEF TypeInv, Typed, Pairs
  <1>5. CallSound(calls[c], Len(rows)) /\ calls[c] \in Call /\ Len(rows) \in Nat
    BY <1>1, SlotFacts, InFlight
  <1>6. calls'[c] # Idle /\ calls'[c].step = step /\ CallSound(calls'[c], Len(rows))
    BY <1>2, <1>5 DEF Moved, CallSound, Refreshing, RefreshSteps
  <1>7. CallsSound'
    BY <1>1, <1>3, <1>5, <1>6 DEF TypeInv, CallsSound
  <1>8. QueueOK'
    <2>1. \A d \in Calls : d # c => calls'[d] = calls[d]
      BY <1>3, SlotFacts
    <2>2. /\ Refreshing(c)' <=> Refreshing(c)
          /\ ~At(c, "queued")'
      BY <1>2, <1>6 DEF Refreshing, At, RefreshSteps
    <2>3. \A d \in Calls : /\ Refreshing(d)' <=> Refreshing(d)
                           /\ At(d, "queued")' => At(d, "queued") \/ refreshing[Tab(d)]
      BY <2>1, <2>2 DEF Refreshing, At
    <2> QED
      BY <1>1, <2>3, QueueKept DEF TypeInv
  <1> QED
    BY <1>4, <1>7, <1>8 DEF TypeInv

-----------------------------------------------------------------------------
(* Steps of the client that concern all requests of a tab.                 *)

LEMMA RejectFacts ==
  ASSUME TypeInv, NEW c \in Calls, calls[c] # Idle, NEW retryable,
         NEW queue \in BOOLEAN, Reject(c, retryable, queue)
  PROVE  /\ calls' \in [Slots -> {Idle} \cup Call]
         /\ shown' \in [Tabs -> Users \cup {Nobody}]
         /\ \A d \in Slots :
              IF d = c \/ (queue /\ Tab(d) = Tab(c) /\ At(d, "queued"))
                THEN calls'[d] # Idle =>
                       /\ calls'[d].step = "again" /\ CallSound(calls'[d], Len(rows))
                       /\ calls'[d].kind = "list" /\ calls[d].kind = "list"
                       /\ calls'[d].header = calls[d].header
                ELSE calls'[d] = calls[d]
  <1> DEFINE ends(d) == d = c \/ (queue /\ Tab(d) = Tab(c) /\ At(d, "queued"))
  <1>1. /\ calls' = [d \in Slots |-> IF ends(d) THEN Failed(calls[d], retryable)
                                                ELSE calls[d]]
        /\ shown' \in {shown, [shown EXCEPT ![Tab(c)] = Nobody]}
    BY DEF Reject
  <1>2. ASSUME NEW d \in Slots, ends(d)
        PROVE  \/ Failed(calls[d], retryable) = Idle
               \/ /\ Failed(calls[d], retryable) \in Call
                  /\ Failed(calls[d], retryable).step = "again"
                  /\ CallSound(Failed(calls[d], retryable), Len(rows))
                  /\ Failed(calls[d], retryable).kind = "list"
                  /\ calls[d].kind = "list"
                  /\ Failed(calls[d], retryable).header = calls[d].header
    <2>1. calls[d] # Idle
      BY <1>2 DEF At
    <2>2. calls[d] \in Call /\ CallSound(calls[d], Len(rows)) /\ Len(rows) \in Nat
      BY <2>1, InFlight
    <2> QED
      BY <2>2, FailedFacts
  <1>3. \A d \in Slots : calls[d] \in {Idle} \cup Call
    BY DEF TypeInv, Typed
  <1>4. calls' \in [Slots -> {Idle} \cup Call]
    BY <1>1, <1>2, <1>3
  <1>5. shown' \in [Tabs -> Users \cup {Nobody}]
    BY <1>1, BrowserTyped
  <1>6. ASSUME NEW d \in Slots
        PROVE  IF ends(d)
                THEN calls'[d] # Idle =>
                       /\ calls'[d].step = "again" /\ CallSound(calls'[d], Len(rows))
                       /\ calls'[d].kind = "list" /\ calls[d].kind = "list"
                       /\ calls'[d].header = calls[d].header
                ELSE calls'[d] = calls[d]
    <2>1. calls'[d] = IF ends(d) THEN Failed(calls[d], retryable) ELSE calls[d]
      BY <1>1
    <2> HIDE DEF ends
    <2> QED
      BY <1>2, <2>1
  <1> QED
    BY <1>4, <1>5, <1>6

(* A rejection keeps every request sound; those it rejects neither refresh *)
(* nor wait.                                                               *)
LEMMA RejectSound ==
  ASSUME TypeInv, NEW c \in Calls, calls[c] # Idle, NEW retryable,
         NEW queue \in BOOLEAN, Reject(c, retryable, queue), rows' = rows
  PROVE  /\ CallsSound'
         /\ \A d \in Slots :
              IF d = c \/ (queue /\ Tab(d) = Tab(c) /\ At(d, "queued"))
                THEN ~Refreshing(d)' /\ ~At(d, "queued")'
                ELSE calls'[d] = calls[d]
  <1>1. \A d \in Slots :
          IF d = c \/ (queue /\ Tab(d) = Tab(c) /\ At(d, "queued"))
            THEN calls'[d] # Idle =>
                   calls'[d].step = "again" /\ CallSound(calls'[d], Len(rows))
            ELSE calls'[d] = calls[d]
    BY RejectFacts
  <1>2. CallsSound'
    BY <1>1 DEF TypeInv, CallsSound
  <1>3. \A d \in Slots : calls'[d] # Idle /\ calls'[d].step = "again" =>
          calls'[d].step \notin RefreshSteps /\ calls'[d].step # "queued"
    BY DEF RefreshSteps
  <1> QED
    BY <1>1, <1>2, <1>3 DEF Refreshing, At

LEMMA FailsTyped ==
  ASSUME TypeInv, NEW c \in Calls, Fails(c)
  PROVE  TypeInv'
  <1>1. /\ calls[c] # Idle /\ calls[c].step \in {"failed", "unauthorized"}
        /\ UNCHANGED <<rows, expired, refreshing>>
        /\ Reject(c, IsRetryableError(TRUE, At(c, "unauthorized")), FALSE)
    BY DEF Fails, At, server
  <1>2. storage' \in 0..Len(rows) /\ notices' \subseteq Tabs
    BY BrowserTyped, ClearFacts DEF Fails
  <1>3. /\ calls' \in [Slots -> {Idle} \cup Call]
        /\ shown' \in [Tabs -> Users \cup {Nobody}]
    BY <1>1, RejectFacts
  <1>4. /\ CallsSound'
        /\ \A d \in Slots : IF d = c THEN ~Refreshing(d)' /\ ~At(d, "queued")'
                                     ELSE calls'[d] = calls[d]
    BY <1>1, RejectSound
  <1>5. ~Refreshing(c)
    BY <1>1 DEF Refreshing, RefreshSteps
  <1>6. QueueOK'
    <2>1. \A d \in Slots : /\ Refreshing(d)' <=> Refreshing(d)
                           /\ At(d, "queued")' => At(d, "queued")
      BY <1>4, <1>5 DEF Refreshing, At
    <2> QED
      BY <1>1, <2>1, SlotFacts, QueueKept DEF TypeInv
  <1>7. Typed'
    BY <1>1, <1>2, <1>3 DEF TypeInv, Typed, Pairs
  <1> QED
    BY <1>4, <1>6, <1>7 DEF TypeInv

LEMMA UnauthorizedTyped ==
  ASSUME TypeInv, NEW c \in Calls, Unauthorized(c)
  PROVE  TypeInv'
  <1> DEFINE call == calls[c]
  <1>1. /\ calls[c] # Idle /\ calls[c].step = "unauthorized"
        /\ UNCHANGED <<rows, expired>>
    BY DEF Unauthorized, At, server
  <1>2. ~Refreshing(c)
    BY <1>1 DEF Refreshing, RefreshSteps
  <1>3. rows' \in Seq(Row) /\ Len(rows') = Len(rows)
    BY <1>1 DEF TypeInv, Typed
  <1>4. CASE /\ refreshing[Tab(c)]
             /\ Goes(c, call, "queued")
             /\ UNCHANGED <<browser, stranded>>
    <2>1. calls[c] \in Call /\ CallSound(calls[c], Len(rows)) /\ Len(rows) \in Nat
      BY <1>1, SlotFacts, InFlight
    <2>2. \A k : Moved(calls[c], k, "queued") => CallSound(k, Len(rows'))
      BY <1>1, <2>1 DEF Moved, CallSound, RefreshSteps
    <2> QED
      BY <1>1, <1>3, <1>4, <2>1, <2>2, SlotFacts, GoStep DEF browser, Steps, RefreshSteps
  <1>5. CASE /\ ~refreshing[Tab(c)] /\ storage # 0
             /\ refreshing' = [refreshing EXCEPT ![Tab(c)] = TRUE]
             /\ Goes(c, [call EXCEPT !.retry = TRUE, !.from = storage], "find")
             /\ UNCHANGED <<storage, shown, notices, stranded>>
    <2> DEFINE j == [call EXCEPT !.retry = TRUE, !.from = storage]
               k == [j EXCEPT !.step = "find"]
    <2>1. /\ call \in Call /\ CallSound(call, Len(rows)) /\ Len(rows) \in Nat
          /\ storage \in 0..Len(rows)
      BY <1>1, SlotFacts, InFlight
    <2>2. calls' = [calls EXCEPT ![c] = k]
      <3>1. Tab(c) # Gone
        BY SlotFacts
      <3> QED
        BY <1>5, <3>1 DEF Goes
    <2>3. /\ j \in Call /\ j.from = storage /\ j.kind = call.kind
          /\ j.header = call.header /\ j.checkedAt = call.checkedAt
      <3> DEFINE i == [call EXCEPT !.retry = TRUE]
      <3> HIDE DEF call
      <3>1. /\ i \in Call /\ i.kind = call.kind /\ i.header = call.header
            /\ i.checkedAt = call.checkedAt
        BY <2>1 DEF Call
      <3>2. j = [i EXCEPT !.from = storage]
        OBVIOUS
      <3> HIDE DEF i, j
      <3> QED
        BY <2>1, <3>1, <3>2 DEF Call
    <2> HIDE DEF j
    <2>4. Moved(j, k, "find")
      BY <2>3, Moves DEF Steps, RefreshSteps
    <2> HIDE DEF k
    <2>5. CallSound(k, Len(rows))
      BY <1>5, <2>1, <2>3, <2>4 DEF Moved, CallSound
    <2>6. /\ calls' \in [Slots -> {Idle} \cup Call] /\ calls'[c] = k
          /\ \A d \in Slots : d # c => calls'[d] = calls[d]
      BY <2>2, <2>4, SlotFacts DEF TypeInv, Typed, Moved
    <2>7. Refreshing(c)' /\ ~At(c, "queued")'
      BY <2>4, <2>6 DEF Moved, Refreshing, At, RefreshSteps
    <2>8. QueueOK'
      BY <1>5, <2>6, <2>7, SlotFacts, QueueBegins DEF TypeInv
    <2>9. CallsSound'
      BY <1>1, <2>5, <2>6 DEF TypeInv, CallsSound
    <2>10. Typed'
      BY <1>1, <1>5, <2>6 DEF TypeInv, Typed, Pairs
    <2> QED
      BY <2>8, <2>9, <2>10 DEF TypeInv
  <1>6. CASE /\ ~refreshing[Tab(c)] /\ storage = 0
             /\ ClearTokens(Tab(c))
             /\ Reject(c, IsRetryableError(TRUE, TRUE), TRUE)
             /\ UNCHANGED <<refreshing, stranded>>
    <2>1. /\ calls' \in [Slots -> {Idle} \cup Call]
          /\ shown' \in [Tabs -> Users \cup {Nobody}]
      BY <1>1, <1>6, RejectFacts
    <2>2. /\ CallsSound'
          /\ \A d \in Slots :
               IF d = c \/ (TRUE /\ Tab(d) = Tab(c) /\ At(d, "queued"))
                 THEN ~Refreshing(d)' /\ ~At(d, "queued")'
                 ELSE calls'[d] = calls[d]
      BY <1>1, <1>6, RejectSound
    <2>3. \A d \in Slots : At(d, "queued") => ~Refreshing(d)
      BY DEF At, Refreshing, RefreshSteps
    <2>4. \A d \in Slots : /\ Refreshing(d)' <=> Refreshing(d)
                           /\ At(d, "queued")' => At(d, "queued")
      BY <1>2, <2>2, <2>3 DEF Refreshing, At
    <2>5. QueueOK'
      BY <1>6, <2>4, SlotFacts, QueueKept DEF TypeInv
    <2>6. Typed'
      BY <1>1, <1>6, <2>1, ClearFacts DEF TypeInv, Typed, Pairs
    <2> QED
      BY <2>2, <2>5, <2>6 DEF TypeInv
  <1> QED
    BY <1>4, <1>5, <1>6 DEF Unauthorized

LEMMA RefreshFailsTyped ==
  ASSUME TypeInv, NEW c \in Calls, RefreshFails(c)
  PROVE  TypeInv'
  <1>1. /\ calls[c] # Idle /\ Refreshing(c)
        /\ UNCHANGED <<rows, expired>>
        /\ ClearTokens(Tab(c))
        /\ Reject(c, IsRetryableError(FALSE, At(c, "refused")), TRUE)
        /\ refreshing' = [refreshing EXCEPT ![Tab(c)] = FALSE]
    BY DEF RefreshFails, At, server, Refreshing, RefreshSteps
  <1>2. /\ calls' \in [Slots -> {Idle} \cup Call]
        /\ shown' \in [Tabs -> Users \cup {Nobody}]
    BY <1>1, RejectFacts
  <1>3. /\ CallsSound'
        /\ \A d \in Slots :
             IF d = c \/ (TRUE /\ Tab(d) = Tab(c) /\ At(d, "queued"))
               THEN ~Refreshing(d)' /\ ~At(d, "queued")'
               ELSE calls'[d] = calls[d]
    BY <1>1, RejectSound
  <1>4. Tab(c) \in Tabs
    BY BrowserTyped
  <1>5. \A d \in Calls : Tab(d) = Tab(c) => ~Refreshing(d)' /\ ~At(d, "queued")'
    <2> SUFFICES ASSUME NEW d \in Calls, Tab(d) = Tab(c)
                 PROVE  ~Refreshing(d)' /\ ~At(d, "queued")'
      OBVIOUS
    <2>1. CASE d = c \/ At(d, "queued")
      BY <1>3, <2>1, SlotFacts
    <2>2. CASE d # c /\ ~At(d, "queued")
      <3>1. calls'[d] = calls[d]
        BY <1>3, <2>2, SlotFacts
      <3>2. ~Refreshing(d)
        BY <1>1, <1>4, <2>2 DEF TypeInv, QueueOK
      <3> QED
        BY <2>2, <3>1, <3>2 DEF Refreshing, At
    <2> QED
      BY <2>1, <2>2
  <1>6. QueueOK'
    <2>1. \A d \in Calls : Tab(d) # Tab(c) => calls'[d] = calls[d]
      BY <1>3, SlotFacts
    <2> QED
      BY <1>1, <1>4, <1>5, <2>1, QueueEnds DEF TypeInv
  <1>7. Typed'
    BY <1>1, <1>2, <1>4, ClearFacts DEF TypeInv, Typed, Pairs
  <1> QED
    BY <1>3, <1>6, <1>7 DEF TypeInv

(* The requests of the page are gone; some go on without it.               *)
LEMMA ReloadFacts ==
  ASSUME TypeInv, NEW t \in Tabs, Reload(t)
  PROVE  /\ calls' \in [Slots -> {Idle} \cup Call]
         /\ \A d \in Calls : calls'[d] = IF Tab(d) = t THEN Idle ELSE calls[d]
         /\ \A d \in Slots \ Calls :
              \/ calls'[d] = calls[d]
              \/ /\ calls[d] = Idle
                 /\ \E c \in Calls : Tab(c) = t /\ calls'[d] = calls[c]
                                     /\ calls[c] # Idle /\ Writes(c)
  <1>1. PICK left \in SUBSET {c \in Calls : Tab(c) = t /\ Leavable(c)} :
          calls' = [d \in Slots |-> IF Tab(d) = t THEN Idle ELSE Inherited(left)[d]]
    BY DEF Reload
  <1>2. /\ Inherited(left) \in [Slots -> {Idle} \cup Call]
        /\ \A d \in Slots :
             \/ Inherited(left)[d] = calls[d]
             \/ /\ d \notin Calls /\ calls[d] = Idle
                /\ \E c \in left : /\ Inherited(left)[d] = calls[c] /\ calls[c] # Idle
                                   /\ d = Left(c) /\ Writes(c)
    <2>1. left \in SUBSET Calls /\ \A d \in left : Leavable(d)
      BY <1>1
    <2> QED
      BY <2>1, InheritedFacts
  <1>3. \A d \in Slots \ Calls : Tab(d) # t
    BY SlotFacts
  <1> QED
    BY <1>1, <1>2, <1>3, SlotFacts

LEMMA ReloadTyped ==
  ASSUME TypeInv, NEW t \in Tabs, Reload(t)
  PROVE  TypeInv'
  <1>1. /\ UNCHANGED <<rows, expired, storage>>
        /\ refreshing' = [refreshing EXCEPT ![t] = FALSE]
        /\ shown' = [shown EXCEPT ![t] = Nobody]
        /\ notices' = notices \ {t}
    BY DEF Reload, server
  <1>2. /\ calls' \in [Slots -> {Idle} \cup Call]
        /\ \A d \in Calls : calls'[d] = IF Tab(d) = t THEN Idle ELSE calls[d]
        /\ \A d \in Slots \ Calls :
             \/ calls'[d] = calls[d]
             \/ \E c \in Calls : calls'[d] = calls[c] /\ calls[c] # Idle
    BY ReloadFacts
  <1>3. Typed'
    BY <1>1, <1>2 DEF TypeInv, Typed, Pairs
  <1>4. CallsSound'
    <2>1. \A d \in Slots : \/ calls'[d] = Idle
                           \/ \E c \in Slots : calls'[d] = calls[c] /\ calls[c] # Idle
      BY <1>2, SlotFacts
    <2> QED
      BY <1>1, <2>1 DEF TypeInv, CallsSound
  <1>5. QueueOK'
    <2>1. /\ \A d \in Calls : Tab(d) = t => ~Refreshing(d)' /\ ~At(d, "queued")'
          /\ \A d \in Calls : Tab(d) # t => calls'[d] = calls[d]
      BY <1>2 DEF Refreshing, At
    <2> QED
      BY <1>1, <2>1, QueueEnds DEF TypeInv
  <1> QED
    BY <1>3, <1>4, <1>5 DEF TypeInv

(* A request that is sent again with the new pair.                         *)
Resent(call, pair) == [call EXCEPT !.step = "sent", !.header = pair,
                                   !.from = 0, !.pair = 0, !.checkedAt = 0]

LEMMA ResentFacts ==
  ASSUME NEW call \in Call, NEW n \in Nat, NEW pair \in 1..n
  PROVE  /\ Resent(call, pair) \in Call /\ Resent(call, pair) # Idle
         /\ Resent(call, pair).step = "sent" /\ Resent(call, pair).kind = call.kind
         /\ Resent(call, pair).header = pair
         /\ CallSound(Resent(call, pair), n)
  <1> DEFINE i == [call EXCEPT !.step = "sent"]
             j == [i EXCEPT !.header = pair]
             l == [j EXCEPT !.from = 0]
             m == [l EXCEPT !.pair = 0]
             k == [m EXCEPT !.checkedAt = 0]
  <1>1. i \in Call /\ i.step = "sent" /\ i.kind = call.kind
    BY DEF Call, Steps
  <1>2. j \in Call /\ j.step = "sent" /\ j.kind = call.kind /\ j.header = pair
    <2> HIDE DEF i
    <2> QED
      BY <1>1 DEF Call
  <1>3. l \in Call /\ l.step = "sent" /\ l.kind = call.kind /\ l.header = pair
    <2> HIDE DEF j
    <2> QED
      BY <1>2 DEF Call
  <1>4. m \in Call /\ m.step = "sent" /\ m.kind = call.kind /\ m.header = pair
    <2> HIDE DEF l
    <2> QED
      BY <1>3 DEF Call
  <1>5. /\ k \in Call /\ k.step = "sent" /\ k.kind = call.kind /\ k.header = pair
        /\ k.checkedAt = 0
    <2> HIDE DEF m
    <2> QED
      BY <1>4 DEF Call
  <1>6. k = Resent(call, pair)
    BY DEF Resent
  <1> HIDE DEF k
  <1>7. CallSound(k, n) /\ k # Idle
    BY <1>5, CallNotIdle DEF CallSound, RefreshSteps
  <1> QED
    BY <1>5, <1>6, <1>7

(* Which requests a successful refresh sends again.                        *)
LEMMA RefreshSucceedsFacts ==
  ASSUME TypeInv, NEW c \in Calls, RefreshSucceeds(c)
  PROVE  /\ calls[c] # Idle /\ calls[c].step = "renewed" /\ calls[c].pair \in 1..Len(rows)
         /\ calls' \in [Slots -> {Idle} \cup Call]
         /\ \A d \in Slots :
              IF d = c \/ (Tab(d) = Tab(c) /\ At(d, "queued"))
                THEN /\ calls'[d] # Idle /\ calls'[d].step = "sent"
                     /\ calls'[d].kind = calls[d].kind
                     /\ calls'[d].header = calls[c].pair
                     /\ CallSound(calls'[d], Len(rows))
                ELSE calls'[d] = calls[d]
  <1> DEFINE pair == calls[c].pair
             resent(d) == d = c \/ (Tab(d) = Tab(c) /\ At(d, "queued"))
             k(d) == Resent(calls[d], pair)
  <1>1. calls[c] # Idle /\ calls[c].step = "renewed"
    BY DEF RefreshSucceeds, At
  <1>2. pair \in 1..Len(rows) /\ Len(rows) \in Nat
    BY <1>1, SlotFacts, InFlight DEF CallSound
  <1>3. calls' = [d \in Slots |-> IF resent(d) THEN k(d) ELSE calls[d]]
    BY DEF RefreshSucceeds, Resent
  <1> HIDE DEF pair
  <1>4. ASSUME NEW d \in Slots, resent(d)
        PROVE  /\ k(d) \in Call /\ k(d) # Idle /\ k(d).step = "sent"
               /\ k(d).kind = calls[d].kind /\ k(d).header = pair
               /\ CallSound(k(d), Len(rows))
    <2>1. calls[d] # Idle
      BY <1>1, <1>4 DEF At
    <2>2. calls[d] \in Call
      BY <2>1, InFlight
    <2> QED
      BY <1>2, <2>2, ResentFacts
  <1> HIDE DEF k, resent
  <1>5. \A d \in Slots : calls[d] \in {Idle} \cup Call
    BY DEF TypeInv, Typed
  <1>6. calls' \in [Slots -> {Idle} \cup Call]
    BY <1>3, <1>4, <1>5
  <1>7. \A d \in Slots :
          IF resent(d)
            THEN /\ calls'[d] # Idle /\ calls'[d].step = "sent"
                 /\ calls'[d].kind = calls[d].kind /\ calls'[d].header = pair
                 /\ CallSound(calls'[d], Len(rows))
            ELSE calls'[d] = calls[d]
    BY <1>3, <1>4
  <1> QED
    BY <1>1, <1>2, <1>6, <1>7 DEF pair, resent

LEMMA RefreshSucceedsTyped ==
  ASSUME TypeInv, NEW c \in Calls, RefreshSucceeds(c)
  PROVE  TypeInv'
  <1>1. /\ UNCHANGED <<rows, expired, shown, notices>>
        /\ storage' = calls[c].pair
        /\ refreshing' = [refreshing EXCEPT ![Tab(c)] = FALSE]
    BY DEF RefreshSucceeds, server
  <1>2. /\ calls[c] # Idle /\ calls[c].step = "renewed" /\ calls[c].pair \in 1..Len(rows)
        /\ calls' \in [Slots -> {Idle} \cup Call]
        /\ \A d \in Slots :
             IF d = c \/ (Tab(d) = Tab(c) /\ At(d, "queued"))
               THEN /\ calls'[d] # Idle /\ calls'[d].step = "sent"
                    /\ CallSound(calls'[d], Len(rows))
               ELSE calls'[d] = calls[d]
    BY RefreshSucceedsFacts
  <1>3. Tab(c) \in Tabs /\ Len(rows) \in Nat
    BY <1>2, SlotFacts, InFlight
  <1>4. Refreshing(c)
    BY <1>2 DEF Refreshing, RefreshSteps
  <1>5. \A d \in Calls : Tab(d) = Tab(c) => ~Refreshing(d)' /\ ~At(d, "queued")'
    <2> SUFFICES ASSUME NEW d \in Calls, Tab(d) = Tab(c)
                 PROVE  ~Refreshing(d)' /\ ~At(d, "queued")'
      OBVIOUS
    <2>1. CASE d = c \/ At(d, "queued")
      <3>1. calls'[d].step = "sent"
        BY <1>2, <2>1, SlotFacts
      <3> QED
        BY <3>1 DEF Refreshing, At, RefreshSteps
    <2>2. CASE d # c /\ ~At(d, "queued")
      <3>1. calls'[d] = calls[d]
        BY <1>2, <2>2, SlotFacts
      <3>2. ~Refreshing(d)
        BY <1>3, <1>4, <2>2 DEF TypeInv, QueueOK
      <3> QED
        BY <2>2, <3>1, <3>2 DEF Refreshing, At
    <2> QED
      BY <2>1, <2>2
  <1>6. QueueOK'
    <2>1. \A d \in Calls : Tab(d) # Tab(c) => calls'[d] = calls[d]
      BY <1>2, SlotFacts
    <2> QED
      BY <1>1, <1>3, <1>5, <2>1, QueueEnds DEF TypeInv
  <1>7. CallsSound'
    BY <1>1, <1>2 DEF TypeInv, CallsSound
  <1>8. Typed'
    BY <1>1, <1>2, <1>3 DEF TypeInv, Typed, Pairs
  <1> QED
    BY <1>6, <1>7, <1>8 DEF TypeInv

-----------------------------------------------------------------------------
(* The invariant holds in every state.                                     *)

LEMMA InitTyped ==
  ASSUME Init
  PROVE  TypeInv
  <1>1. Typed
    BY DEF Init, Typed, Pairs
  <1>2. CallsSound /\ QueueOK
    <2>1. /\ \A c \in Slots : calls[c] = Idle
          /\ \A t \in Tabs : refreshing[t] = FALSE
      BY DEF Init
    <2> QED
      BY <2>1, SlotFacts DEF CallsSound, QueueOK, Refreshing, At
  <1> QED
    BY <1>1, <1>2 DEF TypeInv

LEMMA NextTyped ==
  ASSUME TypeInv, [Next]_vars
  PROVE  TypeInv'
  <1>1. ASSUME NEW c \in Calls, Starts(c) \/ StorageEvent(c)
        PROVE  TypeInv'
    BY <1>1, StartsTyped, StorageEventTyped
  <1>2. ASSUME NEW c \in Calls, Continues(c), ~Handles(c)
        PROVE  TypeInv'
    BY <1>2, SucceedsTyped, FailsTyped, UnauthorizedTyped,
       RefreshSucceedsTyped, RefreshFailsTyped, LoginSucceedsTyped, TryAgainTyped
       DEF Continues
  <1>3. ASSUME NEW c \in Slots, Handles(c)
        PROVE  TypeInv'
    BY <1>3, GrantLoginTyped, ServeTyped, FindTokenTyped, SaveRevokedTyped,
       GenerateTokensTyped DEF Handles
  <1>4. ASSUME NEW c \in Calls, MessageLost(c)
        PROVE  TypeInv'
    BY <1>4, MessageLostTyped
  <1>5. ASSUME NEW t \in Tabs, Reload(t)
        PROVE  TypeInv'
    BY <1>5, ReloadTyped
  <1>6. ASSUME NEW n \in Pairs, Expire(n)
        PROVE  TypeInv'
    BY <1>6, ExpireTyped
  <1>7. CASE UNCHANGED vars
    BY <1>7 DEF vars, server, browser, TypeInv, Typed, CallsSound, QueueOK, Pairs,
                Refreshing, At
  <1> QED
    BY <1>1, <1>2, <1>3, <1>4, <1>5, <1>6, <1>7, SlotFacts DEF Next

LEMMA AlwaysTyped == Spec => []TypeInv
  <1>1. Init => TypeInv
    BY InitTyped
  <1>2. TypeInv /\ [Next]_vars => TypeInv'
    BY NextTyped
  <1> QED
    BY <1>1, <1>2, PTL DEF Spec

(* The state is well-typed, isRefreshing of a tab is set exactly while one *)
(* of its requests refreshes, and only then does a request wait: every     *)
(* waiting request has a refresh that will answer it (client.ts:93-105,    *)
(* 194-235).                                                               *)
THEOREM QueueAnswered == Spec => []SessionsTypeOK
  <1>1. TypeInv => SessionsTypeOK
    BY DEF TypeInv, Typed, QueueOK, SessionsTypeOK
  <1> QED
    BY <1>1, AlwaysTyped, PTL

-----------------------------------------------------------------------------
(* Exchanges of a token.  Rows are only added, keep their parent, and stay *)
(* revoked; a row whose token was exchanged is revoked, so that an exchange *)
(* that finds the token usable comes before all that have issued a pair.   *)

ParentsRevoked ==
    \A m \in Pairs : rows[m].parent # 0 =>
        rows[m].parent \in Pairs /\ rows[rows[m].parent].isRevoked

Exchanging(d) == calls[d] # Idle /\ calls[d].step \in {"revoke", "issue"}

CheckedBefore ==
    \A d \in Slots : Exchanging(d) =>
        /\ \A m \in Pairs : rows[m].parent = calls[d].from => calls[d].checkedAt < m
        /\ calls[d].step = "issue" => rows[calls[d].from].isRevoked

ExchangeInv == ParentsRevoked /\ CheckedBefore /\ ExchangesOverlap

(* What a step does with the rows there are.                               *)
OldRowsKept ==
    /\ Len(rows) <= Len(rows')
    /\ \A n \in 1..Len(rows) :
         /\ rows'[n].parent = rows[n].parent /\ rows'[n].checkedAt = rows[n].checkedAt
         /\ rows[n].isRevoked => rows'[n].isRevoked

NewRowsFresh == \A n \in 1..Len(rows') : n > Len(rows) => rows'[n].parent = 0

(* A step in which no request enters the exchange: those in it are the     *)
(* ones there were, or go on without their client.                         *)
Quiet == \A d \in Slots : Exchanging(d)' => \E e \in Slots : calls'[d] = calls[e]

LEMMA QuietExchange ==
  ASSUME TypeInv, ExchangeInv, Quiet, OldRowsKept, NewRowsFresh,
         rows' \in Seq(Row)
  PROVE  ExchangeInv'
  <1>1. Len(rows) \in Nat /\ Len(rows') \in Nat
    BY DEF TypeInv, Typed
  <1>2. \A m \in Pairs' : rows'[m].parent # 0 =>
          m \in Pairs /\ rows'[m].parent = rows[m].parent
                      /\ rows'[m].checkedAt = rows[m].checkedAt
    BY <1>1 DEF OldRowsKept, NewRowsFresh, Pairs
  <1>3. Pairs \subseteq Pairs'
    BY <1>1 DEF OldRowsKept, Pairs
  <1>4. ParentsRevoked'
    BY <1>2, <1>3 DEF ExchangeInv, ParentsRevoked, OldRowsKept, Pairs
  <1>5. CheckedBefore'
    <2> SUFFICES ASSUME NEW d \in Slots, Exchanging(d)'
                 PROVE  /\ \A m \in Pairs' : rows'[m].parent = calls'[d].from =>
                              calls'[d].checkedAt < m
                        /\ calls'[d].step = "issue" => rows'[calls'[d].from].isRevoked
      BY DEF CheckedBefore
    <2>1. PICK e \in Slots : calls'[d] = calls[e] /\ Exchanging(e)
      BY DEF Quiet, Exchanging
    <2>2. calls[e].from \in 1..Len(rows)
      BY <2>1, InFlight DEF Exchanging, CallSound, RefreshSteps
    <2> QED
      BY <1>1, <1>2, <2>1, <2>2 DEF ExchangeInv, CheckedBefore, OldRowsKept, Pairs
  <1>6. ExchangesOverlap'
    BY <1>1, <1>2 DEF ExchangeInv, ExchangesOverlap
  <1> QED
    BY <1>4, <1>5, <1>6 DEF ExchangeInv

-----------------------------------------------------------------------------
(* What the steps do with the rows.                                        *)

LEMMA SameRows ==
  ASSUME TypeInv, rows' = rows
  PROVE  OldRowsKept /\ NewRowsFresh /\ rows' \in Seq(Row)
  <1>1. rows \in Seq(Row) /\ Len(rows) \in Nat
    BY DEF TypeInv, Typed
  <1> QED
    BY <1>1 DEF OldRowsKept, NewRowsFresh

LEMMA RevokeOneAt ==
  ASSUME rows \in Seq(Row), NEW pair \in 1..Len(rows), NEW n \in 1..Len(rows)
  PROVE  RevokeOne(pair)[n] = IF n = pair THEN [rows[n] EXCEPT !.isRevoked = TRUE]
                                          ELSE rows[n]
  BY RevokeFacts

LEMMA RevokedRow ==
  ASSUME NEW row \in Row
  PROVE  LET r == [row EXCEPT !.isRevoked = TRUE]
         IN  /\ r \in Row /\ r.user = row.user /\ r.parent = row.parent
             /\ r.checkedAt = row.checkedAt /\ r.isRevoked
  BY DEF Row

LEMMA RevokedRows ==
  ASSUME TypeInv, NEW pair \in 1..Len(rows),
         rows' \in {RevokeOne(pair), RevokeToken(pair)}
  PROVE  /\ OldRowsKept /\ NewRowsFresh /\ rows' \in Seq(Row)
         /\ Len(rows') = Len(rows) /\ rows'[pair].isRevoked
  <1>1. rows \in Seq(Row) /\ Len(rows) \in Nat
    BY DEF TypeInv, Typed
  <1> DEFINE revoked(n) == [rows[n] EXCEPT !.isRevoked = TRUE]
  <1>2. /\ rows' \in Seq(Row) /\ Len(rows') = Len(rows)
        /\ \A n \in 1..Len(rows) : rows'[n] \in {rows[n], revoked(n)}
        /\ rows'[pair] = revoked(pair)
    <2>1. /\ RevokeOne(pair) \in Seq(Row) /\ Len(RevokeOne(pair)) = Len(rows)
          /\ RevokeToken(pair) \in Seq(Row) /\ Len(RevokeToken(pair)) = Len(rows)
          /\ \A n \in 1..Len(rows) :
               RevokeOne(pair)[n] = IF n = pair THEN revoked(n) ELSE rows[n]
          /\ \A n \in 1..Len(rows) :
               RevokeToken(pair)[n] = IF rows[n].user = rows[pair].user
                                        THEN revoked(n) ELSE rows[n]
      BY <1>1, RevokeFacts
    <2> HIDE DEF revoked
    <2>2. CASE rows' = RevokeOne(pair)
      BY <2>1, <2>2
    <2>3. CASE rows' = RevokeToken(pair)
      BY <2>1, <2>3
    <2> QED
      BY <2>2, <2>3
  <1>3. \A n \in 1..Len(rows) : rows[n] \in Row
    BY <1>1
  <1>4. \A n \in 1..Len(rows) :
          /\ rows'[n].parent = rows[n].parent /\ rows'[n].checkedAt = rows[n].checkedAt
          /\ rows[n].isRevoked => rows'[n].isRevoked
    <2> SUFFICES ASSUME NEW n \in 1..Len(rows)
                 PROVE  /\ rows'[n].parent = rows[n].parent
                        /\ rows'[n].checkedAt = rows[n].checkedAt
                        /\ rows[n].isRevoked => rows'[n].isRevoked
      OBVIOUS
    <2>1. rows'[n] = rows[n] \/ rows'[n] = revoked(n)
      BY <1>2
    <2>2. /\ revoked(n).parent = rows[n].parent
          /\ revoked(n).checkedAt = rows[n].checkedAt /\ revoked(n).isRevoked
      BY <1>3, RevokedRow
    <2> HIDE DEF revoked
    <2> QED
      BY <2>1, <2>2
  <1>5. rows'[pair].isRevoked
    BY <1>2, <1>3, RevokedRow
  <1> QED
    BY <1>1, <1>2, <1>4, <1>5 DEF OldRowsKept, NewRowsFresh

LEMMA AddedRow ==
  ASSUME TypeInv, NEW row \in Row, rows' = Append(rows, row)
  PROVE  /\ OldRowsKept /\ rows' \in Seq(Row) /\ Len(rows') = Len(rows) + 1
         /\ rows'[Len(rows) + 1] = row
         /\ \A n \in 1..Len(rows) : rows'[n] = rows[n]
         /\ row.parent = 0 => NewRowsFresh
  <1>1. rows \in Seq(Row) /\ Len(rows) \in Nat
    BY DEF TypeInv, Typed
  <1>2. /\ rows' \in Seq(Row) /\ Len(rows') = Len(rows) + 1
        /\ \A n \in 1..Len(rows) : rows'[n] = rows[n]
        /\ rows'[Len(rows) + 1] = row
    BY <1>1, AppendFacts
  <1> QED
    BY <1>1, <1>2 DEF OldRowsKept, NewRowsFresh

-----------------------------------------------------------------------------
(* What the steps do with the requests.                                    *)

(* The request c goes on: to "step", with its kind, its header and the     *)
(* pair it exchanges; or it is over, when its client has left.             *)
Advances(c, step) ==
    /\ \A d \in Slots : d # c => calls'[d] = calls[d]
    /\ \/ calls'[c] = Idle /\ c \notin Calls /\ step \notin {"revoke", "issue"}
       \/ /\ calls'[c] # Idle /\ calls'[c].step = step
          /\ calls'[c].header = calls[c].header
          /\ calls'[c].kind = calls[c].kind /\ calls'[c].from = calls[c].from

LEMMA GoesAdvances ==
  ASSUME TypeInv, NEW c \in Slots, calls[c] # Idle, NEW step \in Steps,
         NEW j \in Call, Goes(c, j, step), j.header = calls[c].header,
         j.kind = calls[c].kind, j.from = calls[c].from
  PROVE  Advances(c, step) /\ (calls'[c] # Idle => calls'[c].checkedAt = j.checkedAt)
  BY GoesFacts DEF Moved, Advances

LEMMA GrantLoginAdvances ==
  ASSUME TypeInv, NEW c \in Slots, GrantLogin(c)
  PROVE  /\ calls[c] # Idle /\ calls[c].step = "sent"
         /\ \/ calls[c].user \in Users /\ Advances(c, "granted")
            \/ calls[c].user = Nobody /\ Advances(c, "unauthorized")
  <1>1. calls[c] # Idle /\ calls[c].step = "sent"
    BY DEF GrantLogin, At
  <1>2. calls[c] \in Call /\ Len(rows) + 1 \in Nat
    BY <1>1, InFlight
  <1>3. CASE calls[c].user = Nobody
    <2>1. Goes(c, calls[c], "unauthorized")
      BY <1>3 DEF GrantLogin
    <2> QED
      BY <1>1, <1>2, <1>3, <2>1, GoesAdvances DEF Steps
  <1>4. CASE calls[c].user # Nobody
    <2> DEFINE pair == Len(rows) + 1
               j == [calls[c] EXCEPT !.pair = pair]
    <2>1. Goes(c, j, "granted")
      BY <1>4 DEF GrantLogin
    <2>2. pair \in Nat
      BY <1>2
    <2> HIDE DEF pair
    <2>3. /\ j \in Call /\ j.kind = calls[c].kind /\ j.from = calls[c].from
          /\ j.header = calls[c].header
      BY <1>2, <2>2, PairFacts
    <2> HIDE DEF j
    <2>4. calls[c].user \in Users
      BY <1>2, <1>4 DEF Call
    <2> QED
      BY <1>1, <2>1, <2>3, <2>4, GoesAdvances DEF Steps
  <1> QED
    BY <1>3, <1>4

LEMMA GenerateTokensAdvances ==
  ASSUME TypeInv, NEW c \in Slots, GenerateTokens(c)
  PROVE  calls[c] # Idle /\ calls[c].step = "issue" /\ Advances(c, "renewed")
  <1> DEFINE pair == Len(rows) + 1
             j == [calls[c] EXCEPT !.pair = pair]
  <1>1. calls[c] # Idle /\ calls[c].step = "issue" /\ Goes(c, j, "renewed")
    BY DEF GenerateTokens, At
  <1>2. calls[c] \in Call /\ pair \in Nat
    BY <1>1, InFlight
  <1> HIDE DEF pair
  <1>3. /\ j \in Call /\ j.kind = calls[c].kind /\ j.from = calls[c].from
        /\ j.header = calls[c].header
    BY <1>2, PairFacts
  <1> HIDE DEF j
  <1> QED
    BY <1>1, <1>3, GoesAdvances DEF Steps, RefreshSteps

LEMMA FindTokenAdvances ==
  ASSUME TypeInv, NEW c \in Slots, FindToken(c)
  PROVE  /\ calls[c] # Idle /\ calls[c].step = "find"
         /\ \/ Advances(c, "refused")
            \/ /\ Advances(c, "revoke")
               /\ ~rows[calls[c].from].isRevoked /\ calls'[c].checkedAt = Len(rows)
  <1> DEFINE j == [calls[c] EXCEPT !.checkedAt = Len(rows)]
             row == rows[calls[c].from]
  <1>1. calls[c] # Idle /\ calls[c].step = "find"
    BY DEF FindToken, At
  <1>2. calls[c] \in Call /\ Len(rows) \in Nat
    BY <1>1, InFlight
  <1>3. CASE row.isRevoked \/ row.lapsed
    <2>1. Goes(c, calls[c], "refused")
      BY <1>3 DEF FindToken
    <2> QED
      BY <1>1, <1>2, <2>1, GoesAdvances DEF Steps, RefreshSteps
  <1>4. CASE ~(row.isRevoked \/ row.lapsed)
    <2>1. Goes(c, j, "revoke")
      BY <1>4 DEF FindToken
    <2>2. /\ j \in Call /\ j.kind = calls[c].kind /\ j.from = calls[c].from
          /\ j.header = calls[c].header /\ j.checkedAt = Len(rows)
      BY <1>2, CheckedFacts
    <2> HIDE DEF j
    <2>3. Advances(c, "revoke") /\ (calls'[c] # Idle => calls'[c].checkedAt = Len(rows))
      BY <1>1, <2>1, <2>2, GoesAdvances DEF Steps, RefreshSteps
    <2> QED
      BY <1>1, <1>4, <2>3 DEF Advances
  <1> QED
    BY <1>3, <1>4

(* One request is replaced by one that is not in an exchange.              *)
LEMMA OneQuiet ==
  ASSUME TypeInv, NEW c \in Calls, NEW k, calls' = [calls EXCEPT ![c] = k],
         k # Idle => k.step \notin {"revoke", "issue"}
  PROVE  Quiet /\ calls'[c] = k /\ \A d \in Slots : d # c => calls'[d] = calls[d]
  <1>1. calls'[c] = k /\ \A d \in Slots : d # c => calls'[d] = calls[d]
    BY SlotFacts DEF TypeInv, Typed
  <1> QED
    BY <1>1 DEF Quiet, Exchanging

LEMMA AdvanceQuiet ==
  ASSUME NEW c \in Slots, NEW step, Advances(c, step), step \notin {"revoke", "issue"}
  PROVE  Quiet
  BY DEF Advances, Quiet, Exchanging

(* A new request leaves those in flight alone.                             *)
LEMMA SendEffects ==
  ASSUME TypeInv, NEW c \in Calls, calls[c] = Idle, NEW kind \in Kinds, Send(c, kind)
  PROVE  /\ Quiet /\ \A d \in Slots : d # c => calls'[d] = calls[d]
         /\ calls'[c].step = "sent"
  <1> DEFINE k == Request(kind, storage, 0)
  <1>1. calls' = [calls EXCEPT ![c] = k]
    BY DEF Send
  <1>2. storage \in Nat /\ 0 \in 0..MaxRetries
    BY SessionsAssumption DEF TypeInv, Typed
  <1>3. k # Idle /\ k.step = "sent"
    BY <1>2, RequestFacts
  <1> HIDE DEF k
  <1> QED
    BY <1>1, <1>3, OneQuiet

(* A request that goes on as it is, or a slot that is used again.          *)
SameOrNew(d) ==
    \/ calls'[d] = calls[d]
    \/ calls[d] = Idle /\ calls'[d].step = "sent"

LEMMA StartsEffects ==
  ASSUME TypeInv, NEW c \in Calls, Starts(c) \/ StorageEvent(c)
  PROVE  /\ Quiet /\ UNCHANGED <<rows, storage, stranded>>
         /\ \A d \in Slots : SameOrNew(d)
  <1>1. UNCHANGED <<rows, storage, stranded>>
    BY DEF Starts, List, RefreshProfile, Login, Logout, StorageEvent, server, browser
  <1>2. CASE calls' = calls
    BY <1>1, <1>2 DEF Quiet, SameOrNew
  <1>3. ASSUME calls[c] = Idle, NEW kind \in {"list", "profile", "logout"}, Send(c, kind)
        PROVE  Quiet /\ \A d \in Slots : SameOrNew(d)
    BY <1>3, SendEffects DEF Kinds, SameOrNew
  <1>4. ASSUME NEW user, Login(c, user)
        PROVE  Quiet /\ \A d \in Slots : SameOrNew(d)
    <2> DEFINE k == [Request("login", storage, 0) EXCEPT !.user = user]
    <2>1. calls[c] = Idle /\ calls' = [calls EXCEPT ![c] = k]
      BY <1>4 DEF Login
    <2>2. k.step = "sent"
      BY DEF Request
    <2> HIDE DEF k
    <2>3. Quiet /\ calls'[c] = k /\ \A d \in Slots : d # c => calls'[d] = calls[d]
      BY <2>1, <2>2, OneQuiet
    <2> QED
      BY <2>1, <2>2, <2>3 DEF SameOrNew
  <1>5. CASE StorageEvent(c)
    BY <1>1, <1>2, <1>3, <1>5 DEF StorageEvent
  <1>6. CASE List(c)
    BY <1>1, <1>3, <1>6 DEF List
  <1>7. CASE RefreshProfile(c)
    BY <1>1, <1>2, <1>3, <1>7 DEF RefreshProfile
  <1>8. CASE Logout(c)
    BY <1>1, <1>3, <1>8 DEF Logout
  <1> QED
    BY <1>1, <1>4, <1>5, <1>6, <1>7, <1>8 DEF Starts

LEMMA UnauthorizedEffects ==
  ASSUME TypeInv, NEW c \in Calls, Unauthorized(c)
  PROVE  /\ Quiet /\ rows' = rows /\ stranded' = stranded
         /\ calls[c] # Idle /\ calls[c].step = "unauthorized"
         /\ \/ storage' = 0
            \/ /\ storage' = storage /\ calls'[c] # Idle
               /\ calls'[c].kind = calls[c].kind
               /\ \A d \in Slots : d # c => calls'[d] = calls[d]
  <1> DEFINE call == calls[c]
  <1>1. /\ calls[c] # Idle /\ calls[c].step = "unauthorized"
        /\ UNCHANGED <<rows, stranded>>
    BY DEF Unauthorized, At, server
  <1>2. CASE /\ refreshing[Tab(c)]
             /\ Goes(c, call, "queued")
             /\ UNCHANGED <<browser, stranded>>
    <2>1. Advances(c, "queued")
      BY <1>1, <1>2, SlotFacts, InFlight, GoesAdvances DEF Steps
    <2> QED
      BY <1>1, <1>2, <2>1, SlotFacts, AdvanceQuiet DEF browser, Advances
  <1>3. CASE /\ ~refreshing[Tab(c)] /\ storage # 0
             /\ refreshing' = [refreshing EXCEPT ![Tab(c)] = TRUE]
             /\ Goes(c, [call EXCEPT !.retry = TRUE, !.from = storage], "find")
             /\ UNCHANGED <<storage, shown, notices, stranded>>
    <2> DEFINE i == [call EXCEPT !.retry = TRUE]
               j == [i EXCEPT !.from = storage]
    <2>1. call \in Call /\ storage \in Nat
      BY <1>1, SlotFacts, InFlight
    <2>2. i \in Call /\ i.kind = call.kind
      <3> HIDE DEF call
      <3> QED
        BY <2>1 DEF Call
    <2>3. j \in Call /\ j.kind = call.kind
      <3> HIDE DEF i
      <3> QED
        BY <2>1, <2>2 DEF Call
    <2>4. Goes(c, j, "find")
      BY <1>3
    <2> HIDE DEF j
    <2>5. /\ Moved(j, calls'[c], "find")
          /\ \A d \in Slots : d # c => calls'[d] = calls[d]
      BY <2>3, <2>4, SlotFacts, GoesFacts DEF Steps, RefreshSteps
    <2>6. Quiet
      BY <2>5 DEF Moved, Quiet, Exchanging
    <2> QED
      BY <1>1, <1>3, <2>3, <2>5, <2>6 DEF Moved
  <1>4. CASE /\ ~refreshing[Tab(c)] /\ storage = 0
             /\ ClearTokens(Tab(c))
             /\ Reject(c, IsRetryableError(TRUE, TRUE), TRUE)
             /\ UNCHANGED <<refreshing, stranded>>
    <2>1. \A d \in Slots : calls'[d] = calls[d] \/ calls'[d] = Idle \/ calls'[d].step = "again"
      BY <1>1, <1>4, RejectFacts
    <2>2. Quiet
      BY <2>1 DEF Quiet, Exchanging
    <2> QED
      BY <1>1, <1>4, <2>2 DEF ClearTokens
  <1> QED
    BY <1>2, <1>3, <1>4 DEF Unauthorized

LEMMA FailsEffects ==
  ASSUME TypeInv, NEW c \in Calls, Fails(c)
  PROVE  /\ Quiet /\ rows' = rows /\ stranded' = stranded
         /\ calls[c] # Idle /\ calls[c].step \in {"failed", "unauthorized"}
         /\ calls'[c] = Idle \/ calls'[c].step = "again"
         /\ \A d \in Slots : d # c => calls'[d] = calls[d]
         /\ \/ storage' = 0
            \/ storage' = storage /\ calls[c].kind # "logout"
  <1>1. /\ calls[c] # Idle /\ calls[c].step \in {"failed", "unauthorized"}
        /\ UNCHANGED <<rows, stranded>>
        /\ Reject(c, IsRetryableError(TRUE, At(c, "unauthorized")), FALSE)
    BY DEF Fails, At, server
  <1>2. \A d \in Slots : IF d = c THEN calls'[d] = Idle \/ calls'[d].step = "again"
                                  ELSE calls'[d] = calls[d]
    BY <1>1, RejectFacts
  <1>3. Quiet
    BY <1>2 DEF Quiet, Exchanging
  <1>4. storage' = 0 \/ (storage' = storage /\ calls[c].kind # "logout")
    BY DEF Fails, ClearTokens
  <1> QED
    BY <1>1, <1>2, <1>3, <1>4, SlotFacts

LEMMA SucceedsEffects ==
  ASSUME TypeInv, NEW c \in Calls, Succeeds(c)
  PROVE  /\ Quiet /\ rows' = rows /\ stranded' = stranded
         /\ calls[c] # Idle /\ calls[c].step = "ok" /\ calls'[c] = Idle
         /\ \A d \in Slots : d # c => calls'[d] = calls[d]
         /\ \/ storage' = 0
            \/ storage' = storage /\ calls[c].kind # "logout"
  <1>1. /\ calls[c] # Idle /\ calls[c].step = "ok"
        /\ UNCHANGED <<rows, stranded>>
        /\ calls' = [calls EXCEPT ![c] = Idle]
    BY DEF Succeeds, At, server
  <1>2. storage' = 0 \/ (storage' = storage /\ calls[c].kind # "logout")
    BY DEF Succeeds, ClearTokens
  <1> QED
    BY <1>1, <1>2, OneQuiet

LEMMA TryAgainEffects ==
  ASSUME TypeInv, NEW c \in Calls, TryAgain(c)
  PROVE  /\ Quiet /\ UNCHANGED <<rows, stranded, storage>>
         /\ calls[c] # Idle /\ calls[c].step = "again" /\ calls[c].kind = "list"
         /\ calls'[c].step = "sent"
         /\ \A d \in Slots : d # c => calls'[d] = calls[d]
  <1> DEFINE k == Request("list", storage, calls[c].attempt + 1)
  <1>1. /\ calls[c] # Idle /\ calls[c].step = "again"
        /\ UNCHANGED <<rows, stranded, storage>>
        /\ calls' = [calls EXCEPT ![c] = k]
    BY DEF TryAgain, At, server, browser
  <1>2. k.step = "sent"
    BY DEF Request
  <1> HIDE DEF k
  <1>3. calls[c].kind = "list"
    BY <1>1, SlotFacts, InFlight DEF CallSound
  <1> QED
    BY <1>1, <1>2, <1>3, OneQuiet

LEMMA LoginSucceedsEffects ==
  ASSUME TypeInv, NEW c \in Calls, LoginSucceeds(c)
  PROVE  /\ Quiet /\ rows' = rows
         /\ rows[storage'].isRevoked => storage' \in stranded'
         /\ calls[c] # Idle /\ calls[c].step = "granted" /\ calls'[c].step = "sent"
         /\ \A d \in Slots : d # c => calls'[d] = calls[d]
  <1> DEFINE k == Request("profile", calls[c].pair, 0)
  <1>1. /\ rows' = rows /\ calls[c] # Idle /\ calls[c].step = "granted"
        /\ rows[storage'].isRevoked => storage' \in stranded'
        /\ calls' = [calls EXCEPT ![c] = k]
    BY DEF LoginSucceeds, At, server
  <1>2. k.step = "sent"
    BY DEF Request
  <1> HIDE DEF k
  <1> QED
    BY <1>1, <1>2, OneQuiet

LEMMA RefreshSucceedsEffects ==
  ASSUME TypeInv, NEW c \in Calls, RefreshSucceeds(c)
  PROVE  /\ Quiet /\ rows' = rows
         /\ rows[storage'].isRevoked => storage' \in stranded'
  <1>1. /\ rows' = rows
        /\ rows[storage'].isRevoked => storage' \in stranded'
    BY DEF RefreshSucceeds, server
  <1>2. \A d \in Slots : calls'[d] = calls[d] \/ calls'[d].step = "sent"
    BY RefreshSucceedsFacts
  <1> QED
    BY <1>1, <1>2 DEF Quiet, Exchanging

LEMMA RefreshFailsEffects ==
  ASSUME TypeInv, NEW c \in Calls, RefreshFails(c)
  PROVE  Quiet /\ rows' = rows /\ storage' = 0
  <1>1. /\ calls[c] # Idle /\ rows' = rows /\ storage' = 0
        /\ Reject(c, IsRetryableError(FALSE, At(c, "refused")), TRUE)
    BY DEF RefreshFails, At, server, ClearTokens
  <1>2. \A d \in Slots : calls'[d] = calls[d] \/ calls'[d] = Idle \/ calls'[d].step = "again"
    BY <1>1, RejectFacts
  <1> QED
    BY <1>1, <1>2 DEF Quiet, Exchanging

LEMMA MessageLostEffects ==
  ASSUME TypeInv, NEW c \in Calls, MessageLost(c)
  PROVE  /\ Quiet /\ UNCHANGED <<rows, storage, stranded>>
         /\ calls[c] # Idle /\ calls'[c] # Idle
         /\ calls'[c].kind = calls[c].kind /\ calls'[c].header = calls[c].header
         /\ calls'[c].from = calls[c].from
         /\ \/ calls'[c].step = "failed" /\ ~Refreshing(c)
            \/ calls'[c].step = "dropped" /\ Refreshing(c)
         /\ ~At(c, "queued")
         /\ \A d \in Calls : d # c => calls'[d] = calls[d]
  <1>1. calls[c] # Idle /\ UNCHANGED <<rows, storage, stranded>>
    BY DEF MessageLost, server, browser
  <1>2. PICK step \in {"failed", "dropped"} :
          /\ Moved(calls[c], calls'[c], step)
          /\ step = "dropped" <=> Refreshing(c)
    BY LostFacts
  <1>3. \A d \in Slots : d = c \/ calls'[d] = calls[d] \/ (d \notin Calls /\ calls'[d] = calls[c])
    BY LostFacts
  <1>4. ~At(c, "queued")
    BY DEF MessageLost, At
  <1>5. Quiet
    BY <1>2, <1>3, SlotFacts DEF Moved, Quiet, Exchanging
  <1>6. \A d \in Calls : d # c => calls'[d] = calls[d]
    BY <1>3, SlotFacts
  <1> QED
    BY <1>1, <1>2, <1>4, <1>5, <1>6 DEF Moved

LEMMA ReloadEffects ==
  ASSUME TypeInv, NEW t \in Tabs, Reload(t)
  PROVE  /\ Quiet /\ rows' = rows /\ storage' = storage
         /\ storage # 0 /\ rows[storage].isRevoked => storage \in stranded'
  <1>1. /\ rows' = rows /\ storage' = storage
        /\ storage # 0 /\ rows[storage].isRevoked => storage \in stranded'
    BY DEF Reload, server
  <1>2. \A d \in Slots : calls'[d] = Idle \/ \E e \in Slots : calls'[d] = calls[e]
    BY ReloadFacts, SlotFacts
  <1> QED
    BY <1>1, <1>2 DEF Quiet, Exchanging

(* The pair in the storage is stranded when a request without a client     *)
(* revokes it.                                                             *)
LEMMA StrandsFacts ==
  ASSUME NEW c \in Slots, Strands(c)
  PROVE  /\ stranded \subseteq stranded'
         /\ c \notin Calls /\ storage # 0 /\ rows'[storage].isRevoked =>
              rows[storage].isRevoked \/ storage \in stranded'
  <1>1. c \notin Calls => Tab(c) = Gone
    BY SlotFacts
  <1> QED
    BY <1>1 DEF Strands

LEMMA ServeEffects ==
  ASSUME TypeInv, NEW c \in Slots, Serve(c)
  PROVE  /\ calls[c] # Idle /\ calls[c].step = "sent"
         /\ storage' = storage /\ Strands(c)
         /\ Advances(c, "ok") \/ Advances(c, "unauthorized")
         /\ OldRowsKept /\ NewRowsFresh /\ rows' \in Seq(Row)
         /\ rows' = rows \/ calls[c].kind = "logout"
  <1>1. /\ calls[c] # Idle /\ calls[c].step = "sent"
        /\ storage' = storage /\ Strands(c)
    BY DEF Serve, At, browser
  <1>2. CASE Accepted(calls[c].header)
    <2>1. calls[c].header \in 1..Len(rows) /\ Goes(c, calls[c], "ok")
      BY <1>2 DEF Serve, Accepted, Pairs
    <2>2. Advances(c, "ok")
      BY <1>1, <2>1, InFlight, GoesAdvances DEF Steps
    <2>3. CASE calls[c].kind = "logout"
      <3>1. rows' = RevokeToken(calls[c].header)
        BY <1>2, <2>3 DEF Serve
      <3>2. OldRowsKept /\ NewRowsFresh /\ rows' \in Seq(Row)
        BY <2>1, <3>1, RevokedRows
      <3> QED
        BY <1>1, <2>2, <2>3, <3>2
    <2>4. CASE calls[c].kind # "logout"
      <3>1. rows' = rows
        BY <1>2, <2>4 DEF Serve
      <3> QED
        BY <1>1, <2>2, <3>1, SameRows
    <2> QED
      BY <2>3, <2>4
  <1>3. CASE ~Accepted(calls[c].header)
    <2>1. Goes(c, calls[c], "unauthorized") /\ rows' = rows
      BY <1>3 DEF Serve
    <2>2. Advances(c, "unauthorized")
      BY <1>1, <2>1, InFlight, GoesAdvances DEF Steps
    <2> QED
      BY <1>1, <2>1, <2>2, SameRows
  <1> QED
    BY <1>2, <1>3

LEMMA ExpireEffects ==
  ASSUME TypeInv, NEW n \in Pairs, Expire(n)
  PROVE  /\ UNCHANGED <<calls, storage, stranded>>
         /\ OldRowsKept /\ NewRowsFresh /\ rows' \in Seq(Row)
         /\ \A m \in 1..Len(rows) : rows'[m].isRevoked <=> rows[m].isRevoked
  <1> DEFINE row == [rows[n] EXCEPT !.lapsed = TRUE]
  <1>1. UNCHANGED <<calls, storage, stranded>>
    BY DEF Expire, browser
  <1>2. rows \in Seq(Row) /\ Len(rows) \in Nat
    BY DEF TypeInv, Typed
  <1>3. CASE rows' = rows
    BY <1>1, <1>3, SameRows
  <1>4. CASE rows' = [rows EXCEPT ![n] = row]
    <2>1. /\ row \in Row /\ row.parent = rows[n].parent
          /\ row.checkedAt = rows[n].checkedAt /\ row.isRevoked = rows[n].isRevoked
      <3> DEFINE r == rows[n]
      <3>1. r \in Row
        BY <1>2 DEF Pairs
      <3> HIDE DEF r
      <3>2. LET s == [r EXCEPT !.lapsed = TRUE]
            IN  s \in Row /\ s.parent = r.parent /\ s.checkedAt = r.checkedAt
                /\ s.isRevoked = r.isRevoked
        BY <3>1 DEF Row
      <3> QED
        BY <3>2 DEF r
    <2> HIDE DEF row
    <2>2. /\ rows' \in Seq(Row) /\ Len(rows') = Len(rows)
          /\ \A m \in 1..Len(rows) : rows'[m] = IF m = n THEN row ELSE rows[m]
      BY <1>2, <1>4, <2>1 DEF Pairs
    <2> QED
      BY <1>1, <1>2, <2>1, <2>2 DEF OldRowsKept, NewRowsFresh
  <1> QED
    BY <1>3, <1>4 DEF Expire

-----------------------------------------------------------------------------
(* The steps of an exchange.                                               *)

(* A token found usable has no child yet.                                  *)
LEMMA FindExchange ==
  ASSUME TypeInv, ExchangeInv, NEW c \in Slots, FindToken(c)
  PROVE  ExchangeInv'
  <1>1. rows' = rows /\ Len(rows) \in Nat
    BY DEF FindToken, server, TypeInv, Typed
  <1>2. CASE Advances(c, "refused")
    BY <1>1, <1>2, SameRows, AdvanceQuiet, QuietExchange
  <1>3. CASE /\ Advances(c, "revoke")
             /\ ~rows[calls[c].from].isRevoked /\ calls'[c].checkedAt = Len(rows)
    <2>1. ParentsRevoked' /\ ExchangesOverlap'
      BY <1>1 DEF ExchangeInv, ParentsRevoked, ExchangesOverlap, Pairs
    <2>2. calls[c].from \in 1..Len(rows)
      BY FindTokenAdvances, InFlight DEF CallSound, RefreshSteps
    <2>3. \A m \in Pairs : rows[m].parent # calls[c].from
      BY <1>3, <2>2 DEF ExchangeInv, ParentsRevoked
    <2>4. \A d \in Slots : d # c => calls'[d] = calls[d]
      BY <1>3 DEF Advances
    <2>5. calls'[c].step = "revoke" /\ calls'[c].from = calls[c].from
      BY <1>3 DEF Advances
    <2>6. CheckedBefore'
      BY <1>1, <2>3, <2>4, <2>5 DEF ExchangeInv, CheckedBefore, Exchanging, Pairs
    <2> QED
      BY <2>1, <2>6 DEF ExchangeInv
  <1> QED
    BY <1>2, <1>3, FindTokenAdvances

LEMMA SaveRevokedFacts ==
  ASSUME TypeInv, NEW c \in Slots, SaveRevoked(c)
  PROVE  /\ calls[c] # Idle /\ calls[c].step = "revoke" /\ calls[c].from \in 1..Len(rows)
         /\ Advances(c, "issue") /\ calls'[c].checkedAt = calls[c].checkedAt
         /\ rows' = RevokeOne(calls[c].from) /\ storage' = storage /\ Strands(c)
  <1>1. /\ calls[c] # Idle /\ calls[c].step = "revoke" /\ Goes(c, calls[c], "issue")
        /\ rows' = RevokeOne(calls[c].from) /\ storage' = storage /\ Strands(c)
    BY DEF SaveRevoked, At, browser
  <1>2. calls[c] \in Call /\ calls[c].from \in 1..Len(rows)
    BY <1>1, InFlight DEF CallSound, RefreshSteps
  <1>3. /\ Advances(c, "issue")
        /\ calls'[c] # Idle => calls'[c].checkedAt = calls[c].checkedAt
    BY <1>1, <1>2, GoesAdvances DEF Steps, RefreshSteps
  <1> QED
    BY <1>1, <1>2, <1>3 DEF Advances

(* The parent of the pair to come is revoked first.                        *)
LEMMA SaveRevokedExchange ==
  ASSUME TypeInv, ExchangeInv, NEW c \in Slots, SaveRevoked(c)
  PROVE  ExchangeInv'
  <1> DEFINE from == calls[c].from
  <1>1. /\ calls[c] # Idle /\ calls[c].step = "revoke" /\ from \in 1..Len(rows)
        /\ Advances(c, "issue") /\ calls'[c].checkedAt = calls[c].checkedAt
        /\ rows' = RevokeOne(from)
    BY SaveRevokedFacts
  <1>2. /\ OldRowsKept /\ rows' \in Seq(Row)
        /\ Len(rows') = Len(rows) /\ rows'[from].isRevoked
    BY <1>1, RevokedRows
  <1>3. /\ Pairs' = Pairs
        /\ \A n \in Pairs :
             /\ rows'[n].parent = rows[n].parent /\ rows'[n].checkedAt = rows[n].checkedAt
             /\ rows[n].isRevoked => rows'[n].isRevoked
    BY <1>2 DEF OldRowsKept, Pairs
  <1>4. ParentsRevoked'
    BY <1>3 DEF ExchangeInv, ParentsRevoked
  <1>5. ExchangesOverlap'
    BY <1>3 DEF ExchangeInv, ExchangesOverlap
  <1>6. CheckedBefore'
    <2> SUFFICES ASSUME NEW d \in Slots, Exchanging(d)'
                 PROVE  /\ \A m \in Pairs' : rows'[m].parent = calls'[d].from =>
                              calls'[d].checkedAt < m
                        /\ calls'[d].step = "issue" => rows'[calls'[d].from].isRevoked
      BY DEF CheckedBefore
    <2>1. CASE d = c
      <3>1. /\ \A m \in Pairs : rows[m].parent = from => calls[c].checkedAt < m
            /\ calls'[c].from = from
        BY <1>1 DEF ExchangeInv, CheckedBefore, Exchanging, Advances
      <3> QED
        BY <1>1, <1>2, <1>3, <2>1, <3>1
    <2>2. CASE d # c
      <3>1. calls'[d] = calls[d] /\ Exchanging(d)
        BY <1>1, <2>2 DEF Advances, Exchanging
      <3>2. calls[d].from \in Pairs
        BY <3>1, InFlight DEF Exchanging, CallSound, RefreshSteps, Pairs
      <3> QED
        BY <1>3, <3>1, <3>2 DEF ExchangeInv, CheckedBefore
    <2> QED
      BY <2>1, <2>2
  <1> QED
    BY <1>4, <1>5, <1>6 DEF ExchangeInv

(* The new pair is younger than every check made so far.                   *)
LEMMA GenerateExchange ==
  ASSUME TypeInv, ExchangeInv, NEW c \in Slots, GenerateTokens(c)
  PROVE  ExchangeInv'
  <1> DEFINE from == calls[c].from
             n == Len(rows)
             user == rows[from].user
             checkedAt == calls[c].checkedAt
             row == NewRow(user, from, checkedAt)
  <1>1. calls[c] # Idle /\ calls[c].step = "issue" /\ Advances(c, "renewed")
    BY GenerateTokensAdvances
  <1>2. from \in 1..n /\ n \in Nat /\ checkedAt \in 0..n /\ rows \in Seq(Row)
    BY <1>1, InFlight DEF CallSound, RefreshSteps
  <1>3. user \in Users
    <2>1. rows[from] \in Row
      BY <1>2
    <2> QED
      BY <2>1 DEF Row
  <1>4. row \in Row /\ row.parent = from /\ row.checkedAt = checkedAt
    <2> HIDE DEF from, user, checkedAt
    <2> QED
      BY <1>2, <1>3, NewRowType DEF NewRow
  <1>5. rows' = Append(rows, row)
    BY DEF GenerateTokens
  <1> HIDE DEF row, user
  <1>6. /\ Len(rows') = n + 1 /\ rows'[n + 1] = row
        /\ \A m \in 1..n : rows'[m] = rows[m]
    BY <1>4, <1>5, AddedRow
  <1>7. /\ rows[from].isRevoked
        /\ \A m \in 1..n : rows[m].parent = from => checkedAt < m
    BY <1>1 DEF ExchangeInv, CheckedBefore, Exchanging, Pairs
  <1>8. Quiet
    BY <1>1, AdvanceQuiet
  <1>9. ParentsRevoked'
    BY <1>2, <1>4, <1>6, <1>7 DEF ExchangeInv, ParentsRevoked, Pairs
  <1>10. CheckedBefore'
    <2> SUFFICES ASSUME NEW d \in Slots, Exchanging(d)'
                 PROVE  /\ \A m \in Pairs' : rows'[m].parent = calls'[d].from =>
                              calls'[d].checkedAt < m
                        /\ calls'[d].step = "issue" => rows'[calls'[d].from].isRevoked
      BY DEF CheckedBefore
    <2>1. PICK e \in Slots : calls'[d] = calls[e] /\ Exchanging(e)
      BY <1>8 DEF Quiet, Exchanging
    <2>2. calls[e].from \in 1..n /\ calls[e].checkedAt \in 0..n
      BY <2>1, InFlight DEF Exchanging, CallSound, RefreshSteps
    <2>3. /\ \A m \in 1..n : rows[m].parent = calls[e].from => calls[e].checkedAt < m
          /\ calls[e].step = "issue" => rows[calls[e].from].isRevoked
      BY <2>1 DEF ExchangeInv, CheckedBefore, Pairs
    <2> QED
      BY <1>2, <1>6, <2>1, <2>2, <2>3 DEF Pairs
  <1>11. ExchangesOverlap'
    <2> SUFFICES ASSUME NEW k \in 1..(n + 1), NEW m \in 1..(n + 1), k < m,
                        rows'[k].parent # 0, rows'[k].parent = rows'[m].parent
                 PROVE  rows'[m].checkedAt < k
      BY <1>6 DEF ExchangesOverlap, Pairs
    <2>1. k \in 1..n
      BY <1>2
    <2>2. CASE m = n + 1
      BY <1>4, <1>6, <1>7, <2>1, <2>2
    <2>3. CASE m \in 1..n
      BY <1>6, <2>1, <2>3 DEF ExchangeInv, ExchangesOverlap, Pairs
    <2> QED
      BY <1>2, <2>2, <2>3
  <1> QED
    BY <1>9, <1>10, <1>11 DEF ExchangeInv

LEMMA GrantLoginRows ==
  ASSUME TypeInv, NEW c \in Slots, GrantLogin(c)
  PROVE  /\ OldRowsKept /\ NewRowsFresh /\ rows' \in Seq(Row)
         /\ \A n \in 1..Len(rows) : rows'[n] = rows[n]
         /\ UNCHANGED <<storage, stranded>>
  <1> DEFINE row == NewRow(calls[c].user, 0, 0)
  <1>1. calls[c] # Idle /\ UNCHANGED <<storage, stranded>>
    BY DEF GrantLogin, At, browser
  <1>2. CASE calls[c].user = Nobody
    <2>1. rows' = rows
      BY <1>2 DEF GrantLogin
    <2> QED
      BY <1>1, <2>1, SameRows
  <1>3. CASE calls[c].user # Nobody
    <2>1. calls[c].user \in Users /\ rows' = Append(rows, row)
      BY <1>1, <1>3, InFlight DEF Call, GrantLogin
    <2>2. row \in Row /\ row.parent = 0
      BY <2>1, NewRowType DEF NewRow
    <2> HIDE DEF row
    <2> QED
      BY <1>1, <2>1, <2>2, AddedRow
  <1> QED
    BY <1>2, <1>3

LEMMA NextExchange ==
  ASSUME TypeInv, ExchangeInv, [Next]_vars
  PROVE  ExchangeInv'
  <1>1. ASSUME Quiet, rows' = rows
        PROVE  ExchangeInv'
    BY <1>1, SameRows, QuietExchange
  <1>2. ASSUME NEW c \in Calls, Starts(c) \/ StorageEvent(c)
        PROVE  ExchangeInv'
    BY <1>1, <1>2, StartsEffects
  <1>3. ASSUME NEW c \in Slots, Handles(c)
        PROVE  ExchangeInv'
    <2>1. CASE GrantLogin(c)
      <3>1. Quiet
        BY <2>1, GrantLoginAdvances, AdvanceQuiet
      <3>2. OldRowsKept /\ NewRowsFresh /\ rows' \in Seq(Row)
        BY <2>1, GrantLoginRows
      <3> QED
        BY <3>1, <3>2, QuietExchange
    <2>2. CASE Serve(c)
      <3>1. Quiet
        BY <2>2, ServeEffects, AdvanceQuiet
      <3>2. OldRowsKept /\ NewRowsFresh /\ rows' \in Seq(Row)
        BY <2>2, ServeEffects
      <3> QED
        BY <3>1, <3>2, QuietExchange
    <2>3. CASE FindToken(c)
      BY <2>3, FindExchange
    <2>4. CASE SaveRevoked(c)
      BY <2>4, SaveRevokedExchange
    <2>5. CASE GenerateTokens(c)
      BY <2>5, GenerateExchange
    <2> QED
      BY <1>3, <2>1, <2>2, <2>3, <2>4, <2>5 DEF Handles
  <1>4. ASSUME NEW c \in Calls, Continues(c), ~Handles(c)
        PROVE  ExchangeInv'
    <2>1. CASE Succeeds(c)
      BY <1>1, <2>1, SucceedsEffects
    <2>2. CASE Fails(c)
      BY <1>1, <2>2, FailsEffects
    <2>3. CASE Unauthorized(c)
      BY <1>1, <2>3, UnauthorizedEffects
    <2>4. CASE RefreshSucceeds(c)
      BY <1>1, <2>4, RefreshSucceedsEffects
    <2>5. CASE RefreshFails(c)
      BY <1>1, <2>5, RefreshFailsEffects
    <2>6. CASE LoginSucceeds(c)
      BY <1>1, <2>6, LoginSucceedsEffects
    <2>7. CASE TryAgain(c)
      BY <1>1, <2>7, TryAgainEffects
    <2> QED
      BY <1>4, <2>1, <2>2, <2>3, <2>4, <2>5, <2>6, <2>7 DEF Continues
  <1>5. ASSUME NEW c \in Calls, MessageLost(c)
        PROVE  ExchangeInv'
    BY <1>1, <1>5, MessageLostEffects
  <1>6. ASSUME NEW t \in Tabs, Reload(t)
        PROVE  ExchangeInv'
    BY <1>1, <1>6, ReloadEffects
  <1>7. ASSUME NEW n \in Pairs, Expire(n)
        PROVE  ExchangeInv'
    <2>1. Quiet
      BY <1>7, ExpireEffects DEF Quiet
    <2>2. OldRowsKept /\ NewRowsFresh /\ rows' \in Seq(Row)
      BY <1>7, ExpireEffects
    <2> QED
      BY <2>1, <2>2, QuietExchange
  <1>8. CASE UNCHANGED vars
    <2>1. rows' = rows /\ calls' = calls
      BY <1>8 DEF vars, server
    <2> QED
      BY <1>1, <2>1 DEF Quiet
  <1> QED
    BY <1>2, <1>3, <1>4, <1>5, <1>6, <1>7, <1>8, SlotFacts DEF Next

(* A refresh token is exchanged twice only by exchanges that overlap: each *)
(* later one was checked before the first had issued its pair              *)
(* (auth.service.ts:146-166).                                              *)
THEOREM OneExchangeAtATime == Spec => []ExchangesOverlap
  <1>1. Init => ExchangeInv
    <2>1. Init => Pairs = {} /\ \A c \in Slots : calls[c] = Idle
      BY DEF Init, Pairs
    <2> QED
      BY <2>1 DEF ExchangeInv, ParentsRevoked, CheckedBefore, Exchanging, ExchangesOverlap
  <1>2. TypeInv /\ ExchangeInv /\ [Next]_vars => ExchangeInv'
    BY NextExchange
  <1>3. ExchangeInv => ExchangesOverlap
    BY DEF ExchangeInv
  <1> QED
    BY <1>1, <1>2, <1>3, AlwaysTyped, PTL DEF Spec

-----------------------------------------------------------------------------
(* The pair in the storage.                                                *)

(* The stored pair stays as it is or is stranded, and the requests that    *)
(* will replace it stay.                                                   *)
LEMMA StoredKept ==
  ASSUME StoredIsUsable, storage' = storage, stranded \subseteq stranded',
         storage # 0 /\ rows'[storage].isRevoked =>
           rows[storage].isRevoked \/ storage \in stranded',
         \A d \in Calls : WillReplace(d) => WillReplace(d)'
  PROVE  StoredIsUsable'
  BY DEF StoredIsUsable

LEMMA OthersReplace ==
  ASSUME NEW c \in Calls, \A d \in Calls : d # c => calls'[d] = calls[d],
         storage' = storage, WillReplace(c) => WillReplace(c)'
  PROVE  \A d \in Calls : WillReplace(d) => WillReplace(d)'
  BY DEF WillReplace, Refreshing

(* A request that goes on still replaces the pair.                         *)
LEMMA AdvanceReplaces ==
  ASSUME NEW c \in Slots, NEW step, Advances(c, step), storage' = storage,
         calls[c] # Idle, Refreshing(c) => step \in RefreshSteps
  PROVE  \A d \in Calls : WillReplace(d) => WillReplace(d)'
  <1>1. CASE c \in Calls
    <2>1. WillReplace(c) => WillReplace(c)'
      BY <1>1 DEF Advances, WillReplace, Refreshing
    <2>2. \A d \in Calls : d # c => calls'[d] = calls[d]
      BY SlotFacts DEF Advances
    <2> QED
      BY <1>1, <2>1, <2>2, OthersReplace
  <1>2. CASE c \notin Calls
    <2>1. \A d \in Calls : calls'[d] = calls[d]
      BY <1>2, SlotFacts DEF Advances
    <2> QED
      BY <2>1 DEF WillReplace, Refreshing
  <1> QED
    BY <1>1, <1>2

(* A request ends that would not have replaced the pair.                   *)
LEMMA EndReplaces ==
  ASSUME NEW c \in Calls, \A d \in Calls : d # c => calls'[d] = calls[d],
         storage' = storage, calls[c].step \notin RefreshSteps,
         calls[c].kind # "logout"
  PROVE  \A d \in Calls : WillReplace(d) => WillReplace(d)'
  <1>1. ~WillReplace(c)
    BY DEF WillReplace, Refreshing
  <1> QED
    BY <1>1, OthersReplace

(* What the server does, for a request of a tab or one without a client.   *)
LEMMA HandlesStored ==
  ASSUME TypeInv, StoredIsUsable, NEW c \in Slots, Handles(c)
  PROVE  StoredIsUsable'
  <1>1. storage \in 0..Len(rows) /\ Len(rows) \in Nat /\ rows \in Seq(Row)
    BY DEF TypeInv, Typed
  <1>2. CASE GrantLogin(c)
    <2>1. /\ UNCHANGED <<storage, stranded>>
          /\ storage # 0 /\ rows'[storage].isRevoked => rows[storage].isRevoked
      BY <1>1, <1>2, GrantLoginRows
    <2>2. \A d \in Calls : WillReplace(d) => WillReplace(d)'
      BY <1>2, <2>1, GrantLoginAdvances, AdvanceReplaces DEF Refreshing, RefreshSteps
    <2> QED
      BY <2>1, <2>2, StoredKept
  <1>3. CASE Serve(c)
    <2>1. /\ calls[c] # Idle /\ calls[c].step = "sent"
          /\ storage' = storage /\ Strands(c)
          /\ Advances(c, "ok") \/ Advances(c, "unauthorized")
          /\ rows' = rows \/ calls[c].kind = "logout"
      BY <1>3, ServeEffects
    <2>2. ~Refreshing(c)
      BY <2>1 DEF Refreshing, RefreshSteps
    <2>3. \A d \in Calls : WillReplace(d) => WillReplace(d)'
      BY <2>1, <2>2, AdvanceReplaces
    <2>4. CASE rows' = rows \/ c \notin Calls
      BY <2>1, <2>3, <2>4, StrandsFacts, StoredKept
    <2>5. CASE calls[c].kind = "logout" /\ c \in Calls
      <3>1. WillReplace(c)'
        BY <2>1, <2>5 DEF Advances, WillReplace
      <3> QED
        BY <2>5, <3>1 DEF StoredIsUsable
    <2> QED
      BY <2>1, <2>4, <2>5
  <1>4. CASE FindToken(c)
    <2>1. rows' = rows /\ UNCHANGED <<storage, stranded>>
      BY <1>4 DEF FindToken, server, browser
    <2>2. \A d \in Calls : WillReplace(d) => WillReplace(d)'
      BY <1>4, <2>1, FindTokenAdvances, AdvanceReplaces DEF RefreshSteps
    <2> QED
      BY <2>1, <2>2, StoredKept
  <1>5. CASE SaveRevoked(c)
    <2> DEFINE from == calls[c].from
               revoked == [rows[storage] EXCEPT !.isRevoked = TRUE]
    <2>1. /\ calls[c] # Idle /\ calls[c].step = "revoke" /\ from \in 1..Len(rows)
          /\ Advances(c, "issue") /\ rows' = RevokeOne(from)
          /\ storage' = storage /\ Strands(c)
      BY <1>5, SaveRevokedFacts
    <2>2. \A d \in Calls : WillReplace(d) => WillReplace(d)'
      BY <2>1, AdvanceReplaces DEF RefreshSteps
    <2>3. CASE c \notin Calls
      BY <2>1, <2>2, <2>3, StrandsFacts, StoredKept
    <2>4. CASE storage = from /\ c \in Calls
      <3>1. WillReplace(c)'
        BY <2>1, <2>4 DEF Advances, WillReplace, Refreshing, RefreshSteps
      <3> QED
        BY <2>4, <3>1 DEF StoredIsUsable
    <2>5. CASE storage # from
      <3>1. storage # 0 => rows'[storage] = rows[storage]
        <4> HIDE DEF from
        <4>1. storage # 0 =>
                RevokeOne(from)[storage] = IF storage = from THEN revoked ELSE rows[storage]
          BY <1>1, <2>1, RevokeOneAt
        <4> HIDE DEF revoked
        <4> QED
          BY <2>1, <2>5, <4>1
      <3> QED
        BY <2>1, <2>2, <3>1, StrandsFacts, StoredKept
    <2> QED
      BY <2>3, <2>4, <2>5
  <1>6. CASE GenerateTokens(c)
    <2>1. calls[c] # Idle /\ Advances(c, "renewed")
      BY <1>6, GenerateTokensAdvances
    <2>2. UNCHANGED <<storage, stranded>>
      BY <1>6 DEF GenerateTokens, browser
    <2>3. \A d \in Calls : WillReplace(d) => WillReplace(d)'
      BY <2>1, <2>2, AdvanceReplaces DEF RefreshSteps
    <2>4. storage # 0 => rows'[storage] = rows[storage]
      BY <1>1, <1>6 DEF GenerateTokens
    <2> QED
      BY <2>2, <2>3, <2>4, StoredKept
  <1> QED
    BY <1>2, <1>3, <1>4, <1>5, <1>6 DEF Handles

LEMMA NextStored ==
  ASSUME TypeInv, StoredIsUsable, [Next]_vars
  PROVE  StoredIsUsable'
  <1>1. storage \in 0..Len(rows) /\ Len(rows) \in Nat
    BY DEF TypeInv, Typed
  <1>2. ASSUME rows' = rows, UNCHANGED <<storage, stranded>>,
               \A d \in Calls : WillReplace(d) => WillReplace(d)'
        PROVE  StoredIsUsable'
    BY <1>2, StoredKept
  <1>3. ASSUME storage' = 0
        PROVE  StoredIsUsable'
    BY <1>3 DEF StoredIsUsable
  <1>4. ASSUME rows' = rows, rows[storage'].isRevoked => storage' \in stranded'
        PROVE  StoredIsUsable'
    BY <1>4 DEF StoredIsUsable
  <1>5. ASSUME NEW c \in Calls, Starts(c) \/ StorageEvent(c)
        PROVE  StoredIsUsable'
    <2>1. /\ UNCHANGED <<rows, storage, stranded>>
          /\ \A d \in Calls : calls[d] # Idle => calls'[d] = calls[d]
      BY <1>5, SlotFacts, StartsEffects DEF SameOrNew
    <2>2. \A d \in Calls : WillReplace(d) => WillReplace(d)'
      BY <2>1 DEF WillReplace, Refreshing
    <2> QED
      BY <1>2, <2>1, <2>2
  <1>6. ASSUME NEW c \in Slots, Handles(c)
        PROVE  StoredIsUsable'
    BY <1>6, HandlesStored
  <1>7. ASSUME NEW c \in Calls, Continues(c), ~Handles(c)
        PROVE  StoredIsUsable'
    <2>1. CASE Succeeds(c)
      <3>1. calls[c].step \notin RefreshSteps
        BY <2>1, SucceedsEffects DEF RefreshSteps
      <3> QED
        BY <1>2, <1>3, <2>1, <3>1, SucceedsEffects, SlotFacts, EndReplaces
    <2>2. CASE Fails(c)
      <3>1. calls[c].step \notin RefreshSteps
        BY <2>2, FailsEffects DEF RefreshSteps
      <3> QED
        BY <1>2, <1>3, <2>2, <3>1, FailsEffects, SlotFacts, EndReplaces
    <2>3. CASE Unauthorized(c)
      <3>1. /\ rows' = rows /\ stranded' = stranded
            /\ calls[c] # Idle /\ calls[c].step = "unauthorized"
            /\ \/ storage' = 0
               \/ /\ storage' = storage /\ calls'[c] # Idle
                  /\ calls'[c].kind = calls[c].kind
                  /\ \A d \in Calls : d # c => calls'[d] = calls[d]
        BY <2>3, SlotFacts, UnauthorizedEffects
      <3>2. CASE storage' = 0
        BY <1>3, <3>2
      <3>3. CASE /\ storage' = storage /\ calls'[c] # Idle
                 /\ calls'[c].kind = calls[c].kind
                 /\ \A d \in Calls : d # c => calls'[d] = calls[d]
        <4>1. WillReplace(c) => WillReplace(c)'
          BY <3>1, <3>3 DEF WillReplace, Refreshing, RefreshSteps
        <4> QED
          BY <1>2, <3>1, <3>3, <4>1, OthersReplace
      <3> QED
        BY <3>1, <3>2, <3>3
    <2>4. CASE RefreshSucceeds(c)
      BY <1>4, <2>4, RefreshSucceedsEffects
    <2>5. CASE RefreshFails(c)
      BY <1>3, <2>5, RefreshFailsEffects
    <2>6. CASE LoginSucceeds(c)
      BY <1>4, <2>6, LoginSucceedsEffects
    <2>7. CASE TryAgain(c)
      <3>1. calls[c].step \notin RefreshSteps
        BY <2>7, TryAgainEffects DEF RefreshSteps
      <3> QED
        BY <1>2, <2>7, <3>1, TryAgainEffects, SlotFacts, EndReplaces
    <2> QED
      BY <1>7, <2>1, <2>2, <2>3, <2>4, <2>5, <2>6, <2>7 DEF Continues
  <1>8. ASSUME NEW c \in Calls, MessageLost(c)
        PROVE  StoredIsUsable'
    <2>1. /\ UNCHANGED <<rows, storage, stranded>> /\ calls'[c] # Idle
          /\ calls'[c].kind = calls[c].kind /\ calls'[c].from = calls[c].from
          /\ Refreshing(c) => calls'[c].step = "dropped"
          /\ \A d \in Calls : d # c => calls'[d] = calls[d]
      BY <1>8, MessageLostEffects
    <2>2. WillReplace(c) => WillReplace(c)'
      BY <2>1 DEF WillReplace, Refreshing, RefreshSteps
    <2> QED
      BY <1>2, <2>1, <2>2, OthersReplace
  <1>9. ASSUME NEW t \in Tabs, Reload(t)
        PROVE  StoredIsUsable'
    <2>1. /\ rows' = rows /\ storage' = storage
          /\ storage # 0 /\ rows[storage].isRevoked => storage \in stranded'
      BY <1>9, ReloadEffects
    <2> QED
      BY <2>1 DEF StoredIsUsable
  <1>10. ASSUME NEW n \in Pairs, Expire(n)
        PROVE  StoredIsUsable'
    <2>1. /\ UNCHANGED <<calls, storage, stranded>>
          /\ \A m \in 1..Len(rows) : rows'[m].isRevoked <=> rows[m].isRevoked
      BY <1>10, ExpireEffects
    <2>2. \A d \in Calls : WillReplace(d) => WillReplace(d)'
      BY <2>1 DEF WillReplace, Refreshing
    <2> QED
      BY <1>1, <2>1, <2>2, StoredKept
  <1>11. CASE UNCHANGED vars
    <2>1. UNCHANGED <<rows, calls, storage, stranded>>
      BY <1>11 DEF vars, server, browser
    <2>2. \A d \in Calls : WillReplace(d) => WillReplace(d)'
      BY <2>1 DEF WillReplace, Refreshing
    <2> QED
      BY <1>2, <2>1, <2>2
  <1> QED
    BY <1>5, <1>6, <1>7, <1>8, <1>9, <1>10, <1>11, SlotFacts DEF Next

(* The browser keeps a revoked refresh token only while a request that     *)
(* will replace or clear it is in flight, after an answer that came later  *)
(* than a logout, or when the server has revoked it for a page that was    *)
(* left or a request its client has given up (client.ts:218-234,           *)
(* auth.service.ts:162-166, 190).                                          *)
THEOREM StoredStaysUsable == Spec => []StoredIsUsable
  <1>1. Init => StoredIsUsable
    BY DEF Init, StoredIsUsable
  <1>2. TypeInv /\ StoredIsUsable /\ [Next]_vars => StoredIsUsable'
    BY NextStored
  <1> QED
    BY <1>1, <1>2, AlwaysTyped, PTL DEF Spec
-----------------------------------------------------------------------------
(* The requests of a tab implement SingleFlight.                           *)

(* A request is on the same side of the refresh of its tab as before.      *)
SameRole(d) ==
    /\ Refreshing(d)' <=> Refreshing(d)
    /\ At(d, "queued")' <=> At(d, "queued")
    /\ Refreshing(d) \/ At(d, "queued") => calls'[d].header = calls[d].header

LEMMA CarriesFacts ==
  ASSUME TypeInv'
  PROVE  /\ Carries' \in [Calls -> Nat]
         /\ \A d \in Calls :
              Carries'[d] = IF calls'[d] = Idle THEN 0 ELSE calls'[d].header
  <1>1. \A d \in Calls : calls'[d] # Idle => calls'[d].header \in Nat
    BY SlotFacts DEF TypeInv, Typed, Call
  <1> QED
    BY <1>1 DEF Carries

(* What happens to requests without a client is not seen by the tabs.      *)
LEMMA UnseenStep ==
  ASSUME \A d \in Calls : calls'[d] = calls[d]
  PROVE  UNCHANGED <<Flying, Waiting, Carries>>
  BY DEF Flying, Waiting, Carries, Refreshing, At

LEMMA ExchangeStep ==
  ASSUME TypeInv', \A d \in Calls : SameRole(d)
  PROVE  Flight!Exchange
  <1>1. Flying' = Flying /\ Waiting' = Waiting
    BY DEF SameRole, Flying, Waiting
  <1>2. ASSUME NEW d \in Calls \ Flight!Free
        PROVE  Carries'[d] = Carries[d]
    <2>1. Refreshing(d) \/ At(d, "queued")
      BY DEF Flight!Free, Flying, Waiting
    <2>2. calls[d] # Idle /\ calls'[d] # Idle /\ calls'[d].header = calls[d].header
      BY <2>1 DEF SameRole, Refreshing, At
    <2> QED
      BY <2>2, CarriesFacts DEF Carries
  <1> QED
    BY <1>1, <1>2, CarriesFacts DEF Flight!Exchange

(* A request that goes on without entering or leaving the refresh.         *)
LEMMA AdvanceRole ==
  ASSUME NEW c \in Calls, NEW step, Advances(c, step), calls[c] # Idle,
         step \in RefreshSteps <=> calls[c].step \in RefreshSteps,
         step # "queued", calls[c].step # "queued"
  PROVE  \A d \in Calls : SameRole(d)
  BY SlotFacts DEF Advances, SameRole, Refreshing, At

(* A request outside of the refresh ends or is sent.                       *)
LEMMA FreeRole ==
  ASSUME NEW c \in Calls, \A d \in Calls : d # c => calls'[d] = calls[d],
         calls[c] = Idle \/ calls[c].step \notin RefreshSteps \cup {"queued"},
         calls'[c] = Idle \/ calls'[c].step \notin RefreshSteps \cup {"queued"}
  PROVE  \A d \in Calls : SameRole(d)
  BY DEF SameRole, Refreshing, At

(* A tab is busy exactly while it refreshes.                               *)
LEMMA BusyTab ==
  ASSUME TypeInv, NEW c \in Calls
  PROVE  Flight!Busy(c) <=> refreshing[Tab(c)]
  <1>1. Tab(c) \in Tabs
    BY SessionsAssumption DEF Tab
  <1> QED
    BY <1>1 DEF TypeInv, QueueOK, Flight!Busy, Flight!SameTab, Flying, Tab

LEMMA UnauthorizedFlight ==
  ASSUME TypeInv, TypeInv', NEW c \in Calls, Unauthorized(c)
  PROVE  Flight!Exchange \/ Flight!Wait(c) \/ Flight!Begin(c)
  <1> DEFINE call == calls[c]
  <1>1. calls[c] # Idle /\ calls[c].step = "unauthorized"
    BY DEF Unauthorized, At
  <1>2. call \in Call /\ storage \in Nat /\ Tab(c) \in Tabs
    BY <1>1, SlotFacts, InFlight
  <1>3. c \in Flight!Free
    BY <1>1 DEF Flight!Free, Flying, Waiting, Refreshing, At, RefreshSteps
  <1>4. CASE refreshing[Tab(c)] /\ Goes(c, call, "queued")
    <2>1. Advances(c, "queued")
      BY <1>1, <1>4, SlotFacts, InFlight, GoesAdvances DEF Steps
    <2>2. Flying' = Flying /\ Waiting' = Waiting \cup {c} /\ Carries' = Carries
      BY <1>1, <2>1, SlotFacts DEF Advances, Flying, Waiting, Carries, Refreshing, At, RefreshSteps
    <2> QED
      BY <1>3, <1>4, <2>2, BusyTab DEF Flight!Wait
  <1>5. CASE /\ ~refreshing[Tab(c)]
             /\ Goes(c, [call EXCEPT !.retry = TRUE, !.from = storage], "find")
    <2> DEFINE i == [call EXCEPT !.retry = TRUE]
               j == [i EXCEPT !.from = storage]
    <2>1. i \in Call /\ i.header = call.header
      <3> HIDE DEF call
      <3> QED
        BY <1>2 DEF Call
    <2>2. j \in Call /\ j.header = call.header
      <3> HIDE DEF i
      <3> QED
        BY <1>2, <2>1 DEF Call
    <2>3. Goes(c, j, "find")
      BY <1>5
    <2> HIDE DEF j
    <2>4. /\ Moved(j, calls'[c], "find")
          /\ \A d \in Slots : d # c => calls'[d] = calls[d]
      BY <2>2, <2>3, SlotFacts, GoesFacts DEF Steps, RefreshSteps
    <2>5. /\ calls'[c] # Idle /\ calls'[c].step = "find"
          /\ calls'[c].header = calls[c].header
      BY <2>2, <2>4 DEF Moved
    <2>6. Flying' = Flying \cup {c} /\ Waiting' = Waiting /\ Carries' = Carries
      BY <1>1, <2>4, <2>5, SlotFacts DEF Flying, Waiting, Carries, Refreshing, At, RefreshSteps
    <2> QED
      BY <1>3, <1>5, <2>6, BusyTab DEF Flight!Begin
  <1>6. CASE ~refreshing[Tab(c)] /\ Reject(c, IsRetryableError(TRUE, TRUE), TRUE)
    <2>1. \A d \in Calls :
            IF d = c \/ (TRUE /\ Tab(d) = Tab(c) /\ At(d, "queued"))
              THEN calls'[d] # Idle => calls'[d].step = "again"
              ELSE calls'[d] = calls[d]
      BY <1>1, <1>6, SlotFacts, RejectFacts
    <2>2. \A d \in Calls : Tab(d) = Tab(c) => ~At(d, "queued")
      BY <1>2, <1>6 DEF TypeInv, QueueOK
    <2>3. \A d \in Calls : SameRole(d)
      BY <1>1, <2>1, <2>2, FreeRole DEF RefreshSteps
    <2> QED
      BY <2>3, ExchangeStep
  <1> QED
    BY <1>4, <1>5, <1>6 DEF Unauthorized

(* When a refresh ends, its request and those that wait for it are         *)
(* released, and no others.                                                *)
LEMMA LandSets ==
  ASSUME TypeInv, NEW c \in Calls, Refreshing(c),
         \A d \in Calls :
           IF d = c \/ (Tab(d) = Tab(c) /\ At(d, "queued"))
             THEN ~Refreshing(d)' /\ ~At(d, "queued")'
             ELSE calls'[d] = calls[d]
  PROVE  /\ c \in Flying /\ Flying' = Flying \ {c}
         /\ Waiting' = Waiting \ Flight!SameTab(c)
         /\ \A d \in Calls : d \in Flight!Released(c) <=>
              d = c \/ (Tab(d) = Tab(c) /\ At(d, "queued"))
  <1>1. \A d \in Calls : At(d, "queued") => ~Refreshing(d)
    BY DEF At, Refreshing, RefreshSteps
  <1>2. \A d \in Calls : /\ Refreshing(d)' <=> Refreshing(d) /\ d # c
                         /\ At(d, "queued")' <=> At(d, "queued") /\ Tab(d) # Tab(c)
    BY <1>1 DEF Refreshing, At
  <1> QED
    BY <1>2 DEF Flying, Waiting, Flight!SameTab, Flight!Released, Tab

LEMMA RefreshSucceedsFlight ==
  ASSUME TypeInv, TypeInv', NEW c \in Calls, RefreshSucceeds(c)
  PROVE  Flight!Land(c, Carries'[c])
  <1> DEFINE released(d) == d = c \/ (Tab(d) = Tab(c) /\ At(d, "queued"))
             pair == calls[c].pair
  <1>1. /\ calls[c] # Idle /\ calls[c].step = "renewed" /\ pair \in 1..Len(rows)
        /\ \A d \in Calls :
             IF released(d)
               THEN calls'[d] # Idle /\ calls'[d].step = "sent" /\ calls'[d].header = pair
               ELSE calls'[d] = calls[d]
    BY RefreshSucceedsFacts, SlotFacts
  <1>2. pair > 0
    BY <1>1, SlotFacts, InFlight
  <1> HIDE DEF pair
  <1>3. Refreshing(c)
    BY <1>1 DEF Refreshing, RefreshSteps
  <1>4. \A d \in Calls : IF released(d) THEN ~Refreshing(d)' /\ ~At(d, "queued")'
                                        ELSE calls'[d] = calls[d]
    BY <1>1 DEF Refreshing, At, RefreshSteps
  <1>5. /\ c \in Flying /\ Flying' = Flying \ {c}
        /\ Waiting' = Waiting \ Flight!SameTab(c)
        /\ \A d \in Calls : d \in Flight!Released(c) <=> released(d)
    BY <1>3, <1>4, LandSets
  <1>6. \A d \in Calls : Carries'[d] = IF released(d) THEN pair ELSE Carries[d]
    <2> HIDE DEF released
    <2> QED
      BY <1>1, CarriesFacts DEF Carries
  <1>7. Flight!Released(c) \subseteq Calls /\ c \in Flight!Released(c)
    BY DEF Flight!Released, Waiting
  <1> HIDE DEF released
  <1>8. /\ \A d \in Calls \ Flight!Released(c) : Carries'[d] = Carries[d]
        /\ \A d \in Flight!Released(c) : Carries'[d] = pair
    BY <1>5, <1>6, <1>7
  <1>9. Carries'[c] = pair
    BY <1>7, <1>8
  <1> QED
    BY <1>2, <1>5, <1>8, <1>9, CarriesFacts DEF Flight!Land

LEMMA RefreshFailsFlight ==
  ASSUME TypeInv, TypeInv', NEW c \in Calls, RefreshFails(c)
  PROVE  Flight!Land(c, Carries'[c])
  <1> DEFINE released(d) == d = c \/ (Tab(d) = Tab(c) /\ At(d, "queued"))
  <1>1. /\ calls[c] # Idle /\ Refreshing(c) /\ rows' = rows
        /\ Reject(c, IsRetryableError(FALSE, At(c, "refused")), TRUE)
    BY DEF RefreshFails, At, server, Refreshing, RefreshSteps
  <1>2. \A d \in Calls :
          IF d = c \/ (TRUE /\ Tab(d) = Tab(c) /\ At(d, "queued"))
            THEN calls'[d] # Idle => calls'[d].step = "again"
                                     /\ calls'[d].header = calls[d].header
            ELSE calls'[d] = calls[d]
    BY <1>1, SlotFacts, RejectFacts
  <1>3. \A d \in Calls : IF released(d) THEN ~Refreshing(d)' /\ ~At(d, "queued")'
                                        ELSE calls'[d] = calls[d]
    BY <1>2 DEF Refreshing, At, RefreshSteps
  <1>4. /\ c \in Flying /\ Flying' = Flying \ {c}
        /\ Waiting' = Waiting \ Flight!SameTab(c)
        /\ \A d \in Calls : d \in Flight!Released(c) <=> released(d)
    BY <1>1, <1>3, LandSets
  <1>5. \A d \in Calls : released(d) => calls[d] # Idle
    BY <1>1 DEF At
  <1>6. \A d \in Calls : IF released(d) THEN Carries'[d] \in {0, Carries[d]}
                                        ELSE Carries'[d] = Carries[d]
    <2>1. \A d \in Calls :
            IF released(d)
              THEN calls'[d] # Idle => calls'[d].header = calls[d].header
              ELSE calls'[d] = calls[d]
      BY <1>2
    <2> HIDE DEF released
    <2> QED
      BY <1>5, <2>1, CarriesFacts DEF Carries
  <1>7. Flight!Released(c) \subseteq Calls
    BY DEF Flight!Released, Waiting
  <1> HIDE DEF released
  <1>8. /\ \A d \in Calls \ Flight!Released(c) : Carries'[d] = Carries[d]
        /\ \A d \in Flight!Released(c) : Carries'[d] \in {0, Carries[d]}
    BY <1>4, <1>6, <1>7
  <1> QED
    BY <1>4, <1>8, CarriesFacts DEF Flight!Land

LEMMA ReloadFlight ==
  ASSUME TypeInv, NEW t \in Tabs, Reload(t)
  PROVE  \E c \in Calls : Flight!Leave(c)
  <1>1. PICK c \in Calls : Tab(c) = t
    BY DEF Reload
  <1>2. \A d \in Calls : calls'[d] = IF Tab(d) = t THEN Idle ELSE calls[d]
    BY ReloadFacts
  <1>3. \A d \in Calls : d \in Flight!SameTab(c) <=> Tab(d) = t
    BY <1>1 DEF Flight!SameTab, Tab
  <1>4. /\ Flying' = Flying \ Flight!SameTab(c)
        /\ Waiting' = Waiting \ Flight!SameTab(c)
    BY <1>2, <1>3 DEF Flying, Waiting, Refreshing, At
  <1>5. Carries' = [d \in Calls |-> IF d \in Flight!SameTab(c) THEN 0 ELSE Carries[d]]
    BY <1>2, <1>3 DEF Carries
  <1> QED
    BY <1>4, <1>5 DEF Flight!Leave

LEMMA ContinuesFlight ==
  ASSUME TypeInv, TypeInv', NEW c \in Calls, Continues(c)
  PROVE  Flight!FlightNext
  <1>1. ASSUME \A d \in Calls : SameRole(d)
        PROVE  Flight!FlightNext
    BY <1>1, ExchangeStep DEF Flight!FlightNext
  <1>2. CASE Handles(c)
    <2> c \in Slots
      BY SlotFacts
    <2>1. CASE GrantLogin(c)
      BY <1>1, <2>1, GrantLoginAdvances, AdvanceRole DEF RefreshSteps
    <2>2. CASE Serve(c)
      BY <1>1, <2>2, ServeEffects, AdvanceRole DEF RefreshSteps
    <2>3. CASE FindToken(c)
      BY <1>1, <2>3, FindTokenAdvances, AdvanceRole DEF RefreshSteps
    <2>4. CASE SaveRevoked(c)
      BY <1>1, <2>4, SaveRevokedFacts, AdvanceRole DEF RefreshSteps
    <2>5. CASE GenerateTokens(c)
      BY <1>1, <2>5, GenerateTokensAdvances, AdvanceRole DEF RefreshSteps
    <2> QED
      BY <1>2, <2>1, <2>2, <2>3, <2>4, <2>5 DEF Handles
  <1>3. CASE Succeeds(c)
    BY <1>1, <1>3, SucceedsEffects, SlotFacts, FreeRole DEF RefreshSteps
  <1>4. CASE Fails(c)
    BY <1>1, <1>4, FailsEffects, SlotFacts, FreeRole DEF RefreshSteps
  <1>5. CASE Unauthorized(c)
    BY <1>5, UnauthorizedFlight DEF Flight!FlightNext
  <1>6. CASE RefreshSucceeds(c)
    BY <1>6, RefreshSucceedsFlight DEF Flight!FlightNext
  <1>7. CASE RefreshFails(c)
    BY <1>7, RefreshFailsFlight DEF Flight!FlightNext
  <1>8. CASE LoginSucceeds(c)
    BY <1>1, <1>8, LoginSucceedsEffects, SlotFacts, FreeRole DEF RefreshSteps
  <1>9. CASE TryAgain(c)
    BY <1>1, <1>9, TryAgainEffects, SlotFacts, FreeRole DEF RefreshSteps
  <1> QED
    BY <1>2, <1>3, <1>4, <1>5, <1>6, <1>7, <1>8, <1>9 DEF Continues

LEMMA NextFlight ==
  ASSUME TypeInv, TypeInv', [Next]_vars
  PROVE  Flight!FlightNext \/ UNCHANGED <<Flying, Waiting, Carries>>
  <1>1. ASSUME \A d \in Calls : SameRole(d)
        PROVE  Flight!FlightNext
    BY <1>1, ExchangeStep DEF Flight!FlightNext
  <1>2. ASSUME NEW c \in Calls, Starts(c) \/ StorageEvent(c)
        PROVE  Flight!FlightNext
    <2>1. \A d \in Calls : SameOrNew(d)
      BY <1>2, SlotFacts, StartsEffects
    <2>2. \A d \in Calls : SameRole(d)
      BY <2>1 DEF SameOrNew, SameRole, Refreshing, At, RefreshSteps
    <2> QED
      BY <1>1, <2>2
  <1>3. ASSUME NEW c \in Calls, MessageLost(c)
        PROVE  Flight!FlightNext
    <2>1. /\ calls[c] # Idle /\ calls'[c] # Idle /\ ~At(c, "queued")
          /\ calls'[c].header = calls[c].header
          /\ \/ calls'[c].step = "failed" /\ ~Refreshing(c)
             \/ calls'[c].step = "dropped" /\ Refreshing(c)
          /\ \A d \in Calls : d # c => calls'[d] = calls[d]
      BY <1>3, MessageLostEffects
    <2>2. \A d \in Calls : SameRole(d)
      BY <2>1 DEF SameRole, Refreshing, At, RefreshSteps
    <2> QED
      BY <1>1, <2>2
  <1>4. ASSUME NEW c \in Calls, Handles(Left(c))
        PROVE  UNCHANGED <<Flying, Waiting, Carries>>
    <2>1. Left(c) \in Slots \ Calls
      BY SlotFacts
    <2>2. \A d \in Slots : d # Left(c) => calls'[d] = calls[d]
      BY <1>4, <2>1, GrantLoginAdvances, ServeEffects, FindTokenAdvances,
         SaveRevokedFacts, GenerateTokensAdvances DEF Handles, Advances
    <2> QED
      BY <2>1, <2>2, SlotFacts, UnseenStep
  <1>5. ASSUME NEW t \in Tabs, Reload(t)
        PROVE  Flight!FlightNext
    BY <1>5, ReloadFlight DEF Flight!FlightNext
  <1>6. ASSUME NEW n \in Pairs, Expire(n)
        PROVE  UNCHANGED <<Flying, Waiting, Carries>>
    BY <1>6, UnseenStep DEF Expire
  <1>7. CASE UNCHANGED vars
    BY <1>7, UnseenStep DEF vars
  <1> QED
    BY <1>2, <1>3, <1>4, <1>5, <1>6, <1>7, ContinuesFlight DEF Next

(* Of the requests of a tab that are answered with 401 one refreshes, the  *)
(* others wait, and all of them are released by the end of that refresh,   *)
(* with the pair it obtained or with none (client.ts:93-105, 194-251).     *)
THEOREM FlightImplemented == Spec => ImplementsFlight
  <1>1. Init => Flight!FlightInit
    BY SlotFacts DEF Init, Flight!FlightInit, Flying, Waiting, Carries, Refreshing, At
  <1>2. TypeInv /\ TypeInv' /\ [Next]_vars => [Flight!FlightNext]_(Flight!flightVars)
    BY NextFlight DEF Flight!flightVars
  <1> QED
    BY <1>1, <1>2, AlwaysTyped, PTL DEF Spec, ImplementsFlight, Flight!FlightSpec

=============================================================================
