------------------------------- MODULE Sessions -------------------------------
(***************************************************************************)
(* Sessions: the refresh tokens of the backend                             *)
(* (BackEnd/src/modules/auth/auth.service.ts) and the browser that uses    *)
(* them (FrontEnd/my-app/lib/api/client.ts, auth.ts,                       *)
(* context/AuthContext.tsx, components/auth/SessionManager.tsx).           *)
(*                                                                         *)
(* Every tab of the browser runs its own copy of the client, with its own  *)
(* isRefreshing flag and queue; all of them share localStorage.  A pair of *)
(* access and refresh token is the number of its row in refresh_tokens.    *)
(* An action is one step of a request: the server's code between two       *)
(* awaits, or what the client does with an answer.  The server does not    *)
(* notice that a client has given up: it goes on with the request.         *)
(***************************************************************************)
EXTENDS Naturals, Sequences

CONSTANTS
    Users,        \* Stellar addresses that log in
    Tabs,         \* tabs of the browser
    Calls,        \* slots for requests in flight: pairs of a tab and a label
    MaxRetries,   \* MAX_RETRIES of withRetry
    MaxRequests,  \* bound on requests that users and timers start
    MaxExpiries,  \* bound on tokens that expire
    MaxFaults     \* bound on lost messages, reloaded pages and refused logins

Gone == "gone"

ASSUME SessionsAssumption ==
    /\ \A c \in Calls : c[1] \in Tabs
    /\ Gone \notin Tabs
    /\ {MaxRetries, MaxRequests, MaxExpiries, MaxFaults} \subseteq Nat

VARIABLES
    rows,        \* the refresh_tokens table
    expired,     \* pairs whose access token has expired
    storage,     \* the pair in localStorage, or 0
    refreshing,  \* isRefreshing of every tab
    calls,       \* the requests in flight, and those only the server goes on with
    shown,       \* the user every tab shows as logged in, or Nobody
    notices,     \* tabs with a storage event to handle
    stranded,    \* history: pairs stored when already revoked, and stored pairs
                 \* revoked for a page that has left or a client that has given up
    requests, expiries, faults

server == <<rows, expired>>
browser == <<storage, refreshing, shown, notices>>
bounds == <<requests, expiries, faults>>

vars == <<server, browser, calls, stranded, bounds>>

Nobody == "nobody"

Row == [user : Users, isRevoked : BOOLEAN, lapsed : BOOLEAN,
        parent : Nat, checkedAt : Nat]

Pairs == 1..Len(rows)

NewRow(user, parent, checkedAt) ==
    [user |-> user, isRevoked |-> FALSE, lapsed |-> FALSE,
     parent |-> parent, checkedAt |-> checkedAt]

Tab(c) == c[1]

(* Where the server goes on with the request c when its client has left.   *)
Left(c) == <<Gone, c>>

Slots == Calls \cup {Left(c) : c \in Calls}

Idle == [step |-> "idle"]

Kinds == {"list", "profile", "logout", "login"}

RefreshSteps == {"find", "revoke", "issue", "renewed", "refused", "dropped"}

Steps == RefreshSteps \cup
         {"sent", "ok", "unauthorized", "failed", "queued", "again", "granted"}

(* "header" is the pair in the Authorization header, "from" the pair whose *)
(* refresh token is exchanged, "pair" the one received for it; "user" is   *)
(* who logs in, Nobody when the server will refuse the login.              *)
Call == [step : Steps, kind : Kinds, user : Users \cup {Nobody}, header : Nat,
         retry : BOOLEAN, attempt : 0..MaxRetries, from : Nat, pair : Nat,
         checkedAt : Nat]

Request(kind, header, attempt) ==
    [step |-> "sent", kind |-> kind, user |-> Nobody, header |-> header,
     retry |-> FALSE, attempt |-> attempt, from |-> 0, pair |-> 0, checkedAt |-> 0]

At(c, step) == calls[c] # Idle /\ calls[c].step = step

(* The next step of a request; the answer to one whose client has left     *)
(* reaches nobody.                                                         *)
Goes(c, call, step) ==
    calls' = [calls EXCEPT ![c] =
                IF Tab(c) = Gone /\ step \notin {"revoke", "issue"}
                  THEN Idle ELSE [call EXCEPT !.step = step]]

Refreshing(c) == calls[c] # Idle /\ calls[c].step \in RefreshSteps

(* The server has something to write for the request c.                    *)
Writes(c) ==
    /\ calls[c] # Idle
    /\ \/ calls[c].step \in {"find", "revoke", "issue"}
       \/ calls[c].step = "sent" /\ calls[c].kind \in {"login", "logout"}

-----------------------------------------------------------------------------
(* The server.                                                             *)

Accepted(pair) == pair \in Pairs \ expired

(* verifySignatureAndLogin: a new row, or a 401 when the challenge has     *)
(* expired or the signature does not verify.                               *)
GrantLogin(c) ==
    /\ At(c, "sent") /\ calls[c].kind = "login"
    /\ LET call == calls[c]
       IN  IF call.user = Nobody
             THEN Goes(c, call, "unauthorized") /\ UNCHANGED rows
             ELSE /\ rows' = Append(rows, NewRow(call.user, 0, 0))
                  /\ Goes(c, [call EXCEPT !.pair = Len(rows) + 1], "granted")
    /\ UNCHANGED <<expired, browser, stranded, bounds>>

RevokeOne(pair) ==
    [rows EXCEPT ![pair] = [rows[pair] EXCEPT !.isRevoked = TRUE]]

(* revokeToken without a token id revokes all tokens of the user.          *)
RevokeToken(pair) ==
    [n \in Pairs |-> IF rows[n].user = rows[pair].user
                       THEN [rows[n] EXCEPT !.isRevoked = TRUE] ELSE rows[n]]

(* The stored pair is stranded when it is revoked for a client that has    *)
(* left.                                                                   *)
Strands(c) ==
    stranded' = IF Tab(c) = Gone /\ storage # 0
                   /\ ~rows[storage].isRevoked /\ rows'[storage].isRevoked
                  THEN stranded \cup {storage} ELSE stranded

(* JwtAuthGuard looks at the access token only, not at the table.          *)
Serve(c) ==
    /\ At(c, "sent") /\ calls[c].kind # "login"
    /\ LET call == calls[c]
       IN  IF Accepted(call.header)
             THEN /\ rows' = IF call.kind = "logout" THEN RevokeToken(call.header)
                                                     ELSE rows
                  /\ Goes(c, call, "ok")
             ELSE Goes(c, call, "unauthorized") /\ UNCHANGED rows
    /\ Strands(c)
    /\ UNCHANGED <<expired, browser, bounds>>

(* refreshTokens: find, save the revocation, save the new row.             *)
FindToken(c) ==
    /\ At(c, "find")
    /\ LET row == rows[calls[c].from]
       IN  IF row.isRevoked \/ row.lapsed
             THEN Goes(c, calls[c], "refused")
             ELSE Goes(c, [calls[c] EXCEPT !.checkedAt = Len(rows)], "revoke")
    /\ UNCHANGED <<server, browser, stranded, bounds>>

(* Mutant: the exchanged token stays usable.                               *)
SaveNothing(c) ==
    /\ At(c, "revoke")
    /\ Goes(c, calls[c], "issue")
    /\ UNCHANGED <<server, browser, stranded, bounds>>

SaveRevoked(c) ==
    /\ At(c, "revoke")
    /\ rows' = RevokeOne(calls[c].from)
    /\ Goes(c, calls[c], "issue")
    /\ Strands(c)
    /\ UNCHANGED <<expired, browser, bounds>>

GenerateTokens(c) ==
    /\ At(c, "issue")
    /\ LET call == calls[c]
       IN  /\ rows' = Append(rows, NewRow(rows[call.from].user, call.from, call.checkedAt))
           /\ Goes(c, [call EXCEPT !.pair = Len(rows) + 1], "renewed")
    /\ UNCHANGED <<expired, browser, stranded, bounds>>

(* Time passes: the access token of a pair expires, and with it, when the  *)
(* user was away for long, the refresh token.                              *)
Expire(n) ==
    /\ expiries < MaxExpiries
    /\ n \notin expired
    /\ expired' = expired \cup {n}
    /\ \/ UNCHANGED rows
       \/ rows' = [rows EXCEPT ![n] = [rows[n] EXCEPT !.lapsed = TRUE]]
    /\ expiries' = expiries + 1
    /\ UNCHANGED <<browser, calls, stranded, requests, faults>>

-----------------------------------------------------------------------------
(* The client starts requests.                                             *)

Send(c, kind) == calls' = [calls EXCEPT ![c] = Request(kind, storage, 0)]

CountRequest ==
    /\ requests < MaxRequests
    /\ requests' = requests + 1
    /\ UNCHANGED <<expiries, faults>>

(* A query that is wrapped in withRetry.                                   *)
List(c) ==
    /\ calls[c] = Idle
    /\ Send(c, "list")
    /\ CountRequest
    /\ UNCHANGED <<server, browser, stranded>>

(* refreshProfile, called by the interval of SessionManager while a user   *)
(* is shown, and when a page is loaded.                                    *)
RefreshProfile(c) ==
    /\ calls[c] = Idle
    /\ IF storage = 0
         THEN /\ shown[Tab(c)] # Nobody
              /\ shown' = [shown EXCEPT ![Tab(c)] = Nobody]
              /\ UNCHANGED <<calls, bounds>>
         ELSE Send(c, "profile") /\ CountRequest /\ UNCHANGED shown
    /\ UNCHANGED <<server, storage, refreshing, notices, stranded>>

(* A login of "user", or of Nobody: one that the server will refuse.       *)
Login(c, user) ==
    /\ calls[c] = Idle
    /\ calls' = [calls EXCEPT ![c] =
                   [Request("login", storage, 0) EXCEPT !.user = user]]
    /\ requests < MaxRequests
    /\ requests' = requests + 1
    /\ \/ user # Nobody /\ UNCHANGED faults
       \/ user = Nobody /\ faults < MaxFaults /\ faults' = faults + 1
    /\ UNCHANGED <<server, browser, stranded, expiries>>

Logout(c) ==
    /\ calls[c] = Idle
    /\ shown[Tab(c)] # Nobody
    /\ Send(c, "logout")
    /\ CountRequest
    /\ UNCHANGED <<server, browser, stranded>>

(* The storage event of another tab: handleUnauthorized logs out when the  *)
(* tokens are gone.                                                        *)
StorageEvent(c) ==
    /\ Tab(c) \in notices
    /\ IF shown[Tab(c)] # Nobody /\ storage = 0
         THEN calls[c] = Idle /\ Send(c, "logout")
         ELSE UNCHANGED calls
    /\ notices' = notices \ {Tab(c)}
    /\ UNCHANGED <<server, storage, refreshing, shown, stranded, bounds>>

-----------------------------------------------------------------------------
(* The client handles answers.                                             *)

(* clearTokens; the other tabs hear of it if there was something to clear. *)
ClearTokens(tab) ==
    /\ storage' = 0
    /\ notices' = IF storage = 0 THEN notices ELSE notices \cup (Tabs \ {tab})

(* isRetryableError looks for an AxiosError's response, which the errors   *)
(* the interceptor has transformed do not have, whatever their status.     *)
IsRetryableError(transformed, answered) == transformed \/ ~answered

(* A request has failed: withRetry tries a query again, other calls end.   *)
Failed(call, retryable) ==
    IF call.kind = "list" /\ retryable /\ call.attempt < MaxRetries
      THEN [call EXCEPT !.step = "again"] ELSE Idle

(* Failed calls change what the tab shows: a failed profile query when the *)
(* tokens are gone, a failed logout always.                                *)
HidesUser(call) == call.kind = "logout" \/ (call.kind = "profile" /\ storage' = 0)

(* One request of a tab fails, with all it has queued if "queue".          *)
Reject(c, retryable, queue) ==
    LET ends(d) == d = c \/ (queue /\ Tab(d) = Tab(c) /\ At(d, "queued"))
    IN  /\ calls' = [d \in Slots |-> IF ends(d) THEN Failed(calls[d], retryable)
                                                ELSE calls[d]]
        /\ shown' = IF \E d \in Calls : ends(d) /\ HidesUser(calls[d])
                      THEN [shown EXCEPT ![Tab(c)] = Nobody] ELSE shown

Succeeds(c) ==
    /\ At(c, "ok")
    /\ LET call == calls[c]
           tab  == Tab(c)
       IN  /\ calls' = [calls EXCEPT ![c] = Idle]
           /\ IF call.kind = "logout" THEN ClearTokens(tab)
                                      ELSE UNCHANGED <<storage, notices>>
           /\ shown' = CASE call.kind = "logout" -> [shown EXCEPT ![tab] = Nobody]
                         [] call.kind = "profile" ->
                              [shown EXCEPT ![tab] = rows[call.header].user]
                         [] OTHER -> shown
    /\ UNCHANGED <<server, refreshing, stranded, bounds>>

(* A lost request, or a 401 that may not (again) be answered by a refresh. *)
Fails(c) ==
    /\ \/ At(c, "failed")
       \/ At(c, "unauthorized") /\ calls[c].retry
    /\ IF calls[c].kind = "logout" THEN ClearTokens(Tab(c))
                                   ELSE UNCHANGED <<storage, notices>>
    /\ Reject(c, IsRetryableError(TRUE, At(c, "unauthorized")), FALSE)
    /\ UNCHANGED <<server, refreshing, stranded, bounds>>

(* A 401 while the tab refreshes waits, the first one refreshes, and       *)
(* without a refresh token the request fails.                              *)
Unauthorized(c) ==
    /\ At(c, "unauthorized") /\ ~calls[c].retry
    /\ LET call == calls[c]
       IN  \/ /\ refreshing[Tab(c)]
              /\ Goes(c, call, "queued")
              /\ UNCHANGED <<browser, stranded>>
           \/ /\ ~refreshing[Tab(c)] /\ storage # 0
              /\ refreshing' = [refreshing EXCEPT ![Tab(c)] = TRUE]
              /\ Goes(c, [call EXCEPT !.retry = TRUE, !.from = storage], "find")
              /\ UNCHANGED <<storage, shown, notices, stranded>>
           \/ /\ ~refreshing[Tab(c)] /\ storage = 0
              /\ ClearTokens(Tab(c))
              /\ Reject(c, IsRetryableError(TRUE, TRUE), TRUE)
              /\ UNCHANGED <<refreshing, stranded>>
    /\ UNCHANGED <<server, bounds>>

(* The new pair is stored and the waiting requests are sent with it.       *)
RefreshSucceeds(c) ==
    /\ At(c, "renewed")
    /\ LET call == calls[c]
           waits(d) == Tab(d) = Tab(c) /\ At(d, "queued")
       IN  /\ storage' = call.pair
           /\ stranded' = IF rows[call.pair].isRevoked
                            THEN stranded \cup {call.pair} ELSE stranded
           /\ calls' = [d \in Slots |->
                          IF d = c \/ waits(d)
                            THEN [calls[d] EXCEPT !.step = "sent", !.header = call.pair,
                                                  !.from = 0, !.pair = 0, !.checkedAt = 0]
                            ELSE calls[d]]
           /\ refreshing' = [refreshing EXCEPT ![Tab(c)] = FALSE]
    /\ UNCHANGED <<server, shown, notices, bounds>>

(* Mutant: a failed refresh does not reject the requests that wait for it. *)
RefreshFailsAlone(c) ==
    /\ At(c, "refused") \/ At(c, "dropped")
    /\ ClearTokens(Tab(c))
    /\ Reject(c, IsRetryableError(FALSE, At(c, "refused")), FALSE)
    /\ refreshing' = [refreshing EXCEPT ![Tab(c)] = FALSE]
    /\ UNCHANGED <<server, stranded, bounds>>

(* Mutant: a failed refresh leaves the tokens in the storage.              *)
RefreshFailsKeeping(c) ==
    /\ At(c, "refused") \/ At(c, "dropped")
    /\ UNCHANGED <<storage, notices>>
    /\ Reject(c, IsRetryableError(FALSE, At(c, "refused")), TRUE)
    /\ refreshing' = [refreshing EXCEPT ![Tab(c)] = FALSE]
    /\ UNCHANGED <<server, stranded, bounds>>

RefreshFails(c) ==
    /\ At(c, "refused") \/ At(c, "dropped")
    /\ ClearTokens(Tab(c))
    /\ Reject(c, IsRetryableError(FALSE, At(c, "refused")), TRUE)
    /\ refreshing' = [refreshing EXCEPT ![Tab(c)] = FALSE]
    /\ UNCHANGED <<server, stranded, bounds>>

(* The pair of a login is stored and the profile is queried with it.       *)
LoginSucceeds(c) ==
    /\ At(c, "granted")
    /\ LET pair == calls[c].pair
       IN  /\ storage' = pair
           /\ stranded' = IF rows[pair].isRevoked THEN stranded \cup {pair} ELSE stranded
           /\ calls' = [calls EXCEPT ![c] = Request("profile", pair, 0)]
    /\ UNCHANGED <<server, refreshing, shown, notices, bounds>>

(* withRetry's back-off is over: a new request with the pair stored now.   *)
TryAgain(c) ==
    /\ At(c, "again")
    /\ calls' = [calls EXCEPT ![c] = Request("list", storage, calls[c].attempt + 1)]
    /\ UNCHANGED <<server, browser, stranded, bounds>>

-----------------------------------------------------------------------------
(* The client gives up on requests of the set "left" and the server goes   *)
(* on with them: refreshTokens, revokeToken and verifySignatureAndLogin do *)
(* not look at the connection.                                             *)
Leavable(c) == Writes(c) /\ calls[Left(c)] = Idle

Inherited(left) ==
    [d \in Slots |-> IF \E c \in left : d = Left(c) THEN calls[d[2]] ELSE calls[d]]

(* A message is lost, on its way to the server or back, the server fails   *)
(* in between, or the client's time-out is over first.                     *)
MessageLost(c) ==
    /\ faults < MaxFaults
    /\ calls[c] # Idle
    /\ \E left \in SUBSET {c}, step \in {"failed", "dropped"} :
         /\ \A d \in left : Leavable(d)
         /\ calls[c].step \in IF step = "failed"
                               THEN {"sent", "ok", "unauthorized", "granted"}
                               ELSE {"find", "revoke", "issue", "renewed"}
         /\ calls' = [Inherited(left) EXCEPT ![c] = [calls[c] EXCEPT !.step = step]]
    /\ faults' = faults + 1
    /\ UNCHANGED <<server, browser, stranded, requests, expiries>>

(* A page is loaded again.                                                 *)
Reload(tab) ==
    /\ faults < MaxFaults
    /\ \E c \in Calls : Tab(c) = tab /\ calls[c] # Idle
    /\ \E left \in SUBSET {c \in Calls : Tab(c) = tab /\ Leavable(c)} :
         calls' = [d \in Slots |-> IF Tab(d) = tab THEN Idle ELSE Inherited(left)[d]]
    /\ refreshing' = [refreshing EXCEPT ![tab] = FALSE]
    /\ shown' = [shown EXCEPT ![tab] = Nobody]
    /\ notices' = notices \ {tab}
    /\ stranded' = IF storage # 0 /\ rows[storage].isRevoked
                     THEN stranded \cup {storage} ELSE stranded
    /\ faults' = faults + 1
    /\ UNCHANGED <<server, storage, requests, expiries>>

-----------------------------------------------------------------------------
Init ==
    /\ rows = <<>>
    /\ expired = {}
    /\ storage = 0
    /\ refreshing = [t \in Tabs |-> FALSE]
    /\ calls = [c \in Slots |-> Idle]
    /\ shown = [t \in Tabs |-> Nobody]
    /\ notices = {}
    /\ stranded = {}
    /\ requests = 0 /\ expiries = 0 /\ faults = 0

Starts(c) ==
    \/ List(c) \/ RefreshProfile(c) \/ Logout(c)
    \/ \E user \in Users \cup {Nobody} : Login(c, user)

Handles(c) ==
    GrantLogin(c) \/ Serve(c) \/ FindToken(c) \/ SaveRevoked(c) \/ GenerateTokens(c)

Continues(c) ==
    \/ Handles(c)
    \/ Succeeds(c) \/ Fails(c) \/ Unauthorized(c)
    \/ RefreshSucceeds(c) \/ RefreshFails(c) \/ LoginSucceeds(c) \/ TryAgain(c)

Next ==
    \/ \E c \in Calls : Starts(c) \/ StorageEvent(c) \/ Continues(c) \/ MessageLost(c)
    \/ \E c \in Calls : Handles(Left(c))
    \/ \E tab \in Tabs : Reload(tab)
    \/ \E n \in Pairs : Expire(n)

Spec == Init /\ [][Next]_vars

(* Servers answer, and the event loop of a tab continues what an answer    *)
(* has settled.                                                            *)
FairSpec == Spec /\ \A c \in Calls : WF_vars(Continues(c))

-----------------------------------------------------------------------------
(* Types; and isRefreshing of a tab is set exactly while one of its        *)
(* requests refreshes, and no request waits otherwise (client.ts:93-105,   *)
(* 194-235): a request that waited without it would wait for ever.         *)
SessionsTypeOK ==
    /\ rows \in Seq(Row)
    /\ expired \subseteq Pairs
    /\ storage \in 0..Len(rows)
    /\ refreshing \in [Tabs -> BOOLEAN]
    /\ calls \in [Slots -> {Idle} \cup Call]
    /\ shown \in [Tabs -> Users \cup {Nobody}]
    /\ notices \subseteq Tabs
    /\ \A t \in Tabs :
         /\ refreshing[t] <=> \E c \in Calls : Tab(c) = t /\ Refreshing(c)
         /\ \A c, d \in Calls : Tab(c) = t /\ Tab(d) = t /\ Refreshing(c) /\ Refreshing(d) => c = d
         /\ \A c \in Calls : Tab(c) = t /\ At(c, "queued") => refreshing[t]

(* The request c is about to replace the pair in the storage or to clear   *)
(* it.                                                                     *)
WillReplace(c) ==
    \/ Refreshing(c) /\ calls[c].from = storage
    \/ calls[c] # Idle /\ calls[c].kind = "logout"

(* The browser keeps a revoked refresh token only while a request that     *)
(* will replace or clear it is in flight; the exceptions are an answer     *)
(* that arrives after a logout, and a pair that the server revokes for a   *)
(* page that was left or for a request given up by its client              *)
(* (client.ts:218-234, auth.service.ts:162-166, 190).                      *)
StoredIsUsable ==
    storage # 0 /\ rows[storage].isRevoked =>
        storage \in stranded \/ \E c \in Calls : WillReplace(c)

(* A refresh token is exchanged twice only by exchanges that overlap: the  *)
(* second one was checked before the first one had issued its pair         *)
(* (auth.service.ts:146-166).                                              *)
ExchangesOverlap ==
    \A m, n \in Pairs :
        m < n /\ rows[m].parent # 0 /\ rows[m].parent = rows[n].parent =>
            rows[n].checkedAt < m

(* Every request ends, whatever happens to the refresh it waits for.       *)
CallsEnd == \A c \in Calls : calls[c] # Idle ~> calls[c] = Idle

(* The requests of a tab implement SingleFlight: every step of a request   *)
(* is a step of it or does not touch it (client.ts:93-105, 194-251).       *)
Flying == {c \in Calls : Refreshing(c)}

Waiting == {c \in Calls : At(c, "queued")}

Carries == [c \in Calls |-> IF calls[c] = Idle THEN 0 ELSE calls[c].header]

Flight == INSTANCE SingleFlight WITH
            flying <- Flying, waiting <- Waiting, carries <- Carries

ImplementsFlight == Flight!FlightSpec

=============================================================================
