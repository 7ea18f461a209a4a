# StellarEarn in TLA+

Specifications, model-checking configurations and machine-checked proofs for
the core of StellarEarn: the `earn-quest` Soroban contract that holds the money
(`src/contracts/earn-quest`), its first version (`src/Contract/earn-quest`),
and the stateful services around it: payouts,
multi-signature wallets, quests with their cache, sessions (the backend's token
table together with the browser's client) and email with its queue
(`src/BackEnd/src/modules`, `src/FrontEnd/my-app`).

Everything here is translated from the code. Where a document, a comment or a
test says something else, the difference is listed in *What the documents say
and the code does not do*; one of them, an approval that no verifier can make,
has a property and a run that ends in a counterexample.

## 1. The system

A *creator* registers a *quest* on the contract, funds an escrow record for it
and names a *verifier*. *Submitters* send proofs; the verifier approves them;
an approved submitter claims the reward, which is paid from the escrow and
earns experience points. Administrators can pause the contract, and several of
them together lift the pause. The backend keeps its own copy of quests and
submissions in PostgreSQL, caches queries in Redis, authenticates users with
rotating refresh tokens, sends email through a BullMQ queue, keeps
multi-signature wallets for large payouts, and has a payout service that
processes payouts with retries.

| Component | State | Operations | Interacts with | Hard part | What makes it correct |
|---|---|---|---|---|---|
| Emergency switch (`security.rs`, `admin.rs`) | pause flag, admins, approvals stored per round, counter, threshold, timelock, schedule | initialize, add/remove admin, pause, approve unpause, unpause, set threshold/timelock | every contract call through `require_not_paused` | approvals, admins and parameters change while approvals are pending | the counter is exact; approvals are used for one pause only; a paused contract has an admin |
| Quests (`quest.rs`, `validation.rs`) | quest record per id | register (single, batch), pause, resume | escrow closes quests, claims count on them | status changes race submissions and claims | ended quests stay ended |
| Submissions (`submission.rs`) | status per (quest, submitter) | submit, approve (single, batch), claim check | escrow sufficiency, quest status | resubmission in any status, self-approval | no self-approval; every claim was approved |
| Escrow and payout (`escrow.rs`, `payout.rs`) | record per quest; token balance of the contract | deposit, cancel, expire, withdraw unclaimed, pay reward, emergency withdraw | one token balance shared by all quests | records and balance are separate writes; quests without records share the pool | records never overdrawn, refunds once, records and balance agree, no unjustified outflow |
| Reputation (`reputation.rs`) | points, level, completed quests, badges | award points, grant badge | claims, admins | two writers of one record | level and points follow the completed quests |
| First contract (`Contract/earn-quest/src`) | quests with a limit of participants, submissions, escrow entry per quest, statistics, pause state with signers, timelock and grace period, versions of configuration and data | register, change status, expire, cancel, submit, approve (pays at once), reject, deposit, withdraw, badges, request, cancel and lift a pause, configure it, migrate and roll back the versions | token contracts, ledger time | pending proofs outlive their quest and race its refund; pause times survive or not across cancellations and configurations | claims, points and rewards are exact; escrow entries are backed; a pause has the times of its signatures; nothing leaves that is not due |
| Payout service (`payouts.service.ts`) | payout rows, detached handlers | create, claim, process, fail, retry, cron retry | database, Stellar client (simulated outside production) | handlers load, await and save; crash between awaits | a completed payout was paid, a paid one can be recognised, nothing stays in PROCESSING |
| Quests and cache (`quests.service.ts`, `cache.service.ts`) | rows, Redis or memory store, local fallback, key registry | cached list and detail reads, create, update, remove, invalidation | database, store, moderation service | cache-aside race, stale fallback, registry lost on restart | a stale entry has a known cause; the fallback is registered; only overlapping writes lose a change |
| Authentication (`auth.service.ts`) and session client (`lib/api/client.ts`, `auth.ts`, `AuthContext`, `SessionManager`) | refresh-token rows; per tab: refresh flag and queue, shown user; shared storage | login, refresh, logout, profile, guarded requests, storage events | each other, over an unreliable network | concurrent refreshes in one tab and in two, an answer lost after rotation, a server that goes on when its client has left, a refused login that refreshes tokens | queued requests are answered; the stored pair is usable or about to be replaced; exchanges of one token overlap |
| Multi-signature (`multisig/services/multisig-wallet.service.ts`) | wallets, signers, transactions, signatures | create, approve, reject, change signers and threshold | event emitter, webhook handler | counters saved over each other | a decision has its signatures; a wallet never asks for more signatures than it has signers |
| Email (`email.service.ts`, `jobs.service.ts`, `jobs.controller.ts`) | delivery log, unsubscribe list, BullMQ queue, dead letters | queue through the service or straight into the queue, process, unsubscribe, resubscribe, webhook events, dead-letter | Redis, SendGrid, the process's own start-up | at-least-once delivery, a process that starts with jobs waiting, records lost on restart, an exit over a dead letter | outcomes are reported, links are honoured while the process lives, repeated mails have a cause, jobs settle |
| Backend submissions | submission rows | approve, reject | quest and role lookups that are stubs | a conditional update | no double decision |
| Users, notifications, moderation, analytics, websockets, health, events, Stellar client, pages | - | queries, messages, wrappers | - | - | no state of the parts above depends on them |

## 2. Modules

| Module | Contents |
|---|---|
| `EmergencyControl` | The emergency switch: variables, one action per contract call, its properties and its mutants. |
| `EarnQuest` | EXTENDS it with quests, submissions, escrow, payouts and reputation: the whole contract. |
| `EscrowLedger` | Abstract: what the escrow of either contract promises, as one account per quest (register, deposit, pay, close) and the contract's other tokens (fund, drain). |
| `EarnQuestProperties` | What the contract has to guarantee, and the mapping under which it implements `EscrowLedger`. |
| `MCEarnQuest` | Symmetry sets for TLC. |
| `SumTheorems` | Lemmas about sums over finite sets, for every proof about money or counters in total. |
| `EarnQuestProofs` | The theorems about the contract: the emergency switch, invariants, steps, the implementation of `EscrowLedger`, and the sums. |
| `EarnQuestV1` | The first contract with its properties, and the mapping under which it too implements `EscrowLedger`. `MCEarnQuestV1`: symmetry. |
| `EarnQuestV1Proofs` | The theorems about it. |
| `Payouts` | The backend's payout service with its properties. |
| `PayoutsProofs` | The theorems about the payout service. |
| `QuorumVote` | Abstract: what the wallet promises about its transactions, as polls with a threshold, a roll of signers and a decision. |
| `MultiSig` | The multi-signature wallet service, await by await, and the mapping under which it implements `QuorumVote`. `MCMultiSig`: symmetry. |
| `MultiSigProofs` | The theorems about it. |
| `QuestCache` | The quests service and the cache manager. `MCQuestCache`: symmetry. |
| `QuestCacheProofs` | The theorems about it. |
| `SingleFlight` | Abstract: what the client of the browser promises when a pair expires: one request of a tab refreshes, the others wait and are released together. |
| `Sessions` | Tokens on the server, sessions in the browser's tabs and the requests between them, and the mapping under which a tab's requests implement `SingleFlight`. `MCSessions`: bounds on the token table. |
| `SessionsProofs` | The theorems about it. |
| `MailDelivery` | Abstract: what the queue of emails promises, as one stage per message and the times it went out. |
| `Email` | The email service, its queue and worker, and the mapping under which they implement `MailDelivery`. |
| `EmailProofs` | The theorems about it. |

### How the models correspond to the code

*Contract calls.* The ledger executes one call at a time, and a call that
returns an error is rolled back. One action is therefore one successful call
with everything it does; a rejected call is a stuttering step. Storage maps are
functions over the stored keys (`has_quest(q)` is `q \in DOMAIN quests`).
`require_auth` makes the caller unforgeable, so `caller` ranges over all
addresses and the guards in the code decide. The addresses that appear as
creators, verifiers, submitters and candidates are constants.

*Amounts and time.* Token amounts are integers with the code's range check
(`ValidAmount`); the sums in reach are bounded by the supply, far below the
widths `i128` and `u64`. The ledger time advances by `Tick` up to `MaxTime`.

*Tokens.* The token contract is external: `Transfer` fails without enough
balance. `FundPool` is a transfer straight to the contract, the only way a quest
without an escrow record can be funded. `poolFlow` is a history variable: the
net amount per token that no escrow record accounts for.

*Calls that can never succeed.* `approve_submission` requires its caller to be
the quest's verifier and to differ from it; `withdraw_unclaimed` finds every
closed record empty. Both are modelled with all their guards and an explicit
stutter when they refuse.

*The first contract.* As above, one action is one successful call. A failing
call leaves nothing behind, which is why `submit_proof`'s automatic expiry of a quest
never shows: the call fails right after it. `RequireNotPaused` and
`EmergencyWithdraw` fail when a sum of timestamps exceeds `MaxU64`
(`overflow-checks = true`). `signedAt` is a history variable: when each signer
last signed. `configVersion` and `dataVersion` are the two stored versions:
`trigger_rollback(0)` sets both to 0 and `trigger_migration` sets them back to 1
(`upgrade.rs:12-21`, `62-90`; `tests/test_upgrade.rs:72-91`, `122-138`); a rollback
changes nothing else. `upgrade_contract` installs another program, about which
nothing can be said; what it does here is the migration it ends with.

*Payout handlers.* The service is one Node process: the code between two awaits
runs alone, so one action is the code from one await to the next. A handler in
flight is a task with the entity it loaded. Saving an entity writes every
column that differs from the stored row, so the model replaces the row by the
copy; the select and the update inside `save` are one step. `tx` numbers the
payments and stands for `transactionHash`. `DatabaseError` fails the call a task waits for,
`Restart` drops all tasks and may change `NODE_ENV`. A due retry is a row in
`RETRY_SCHEDULED`; no row ever gets there (theorem `RetriesNeverDue`), and
`processScheduledRetries` always returns at its first test.

*Multi-signature wallets.* As for payouts, an action is the code from one await
to the next. *Voters* are calls of approve or reject, *editors* calls that
change a wallet or its signers; each keeps the copies it loaded, and saving a
copy replaces its row. `consents`, `refusals` and `disturbed` are
history variables: who approved, who rejected, and which transactions had
overlapping or failing calls. The count `totalTransactions` of a wallet is left out:
it is a `bigint` column, which the driver returns as a string, so
`wallet.totalTransactions += 1` (`multisig-wallet.service.ts:264`) appends a digit and
the stored values are 1, 11, 111, ...; only the statistics of a wallet show it.
At the twentieth transaction the value no longer fits and the save fails, which the
model covers as a failing save (`EditFails`). `multisig-payout.service.ts` and
`multisig.module.ts` import a payout entity from a directory that does not exist, and
the former uses `PayoutStatus.AWAITING_APPROVAL`, which does not exist either:
the payout service is left out, and the wallet service modelled as it is written.

*Quests and cache.* One quest has a detail key; the key `"list"` stands for the
queries that list quests. The store is Redis or the memory of the process
(`CACHE_TYPE`), chosen once; entries expire at any time, in the store and in the
fallback independently (the fallback multiplies a time to live by 1000).
Readers and writers are requests with the steps between their awaits: a `get` awaits
the store before it looks at the fallback, the moderation scan may block a write,
and the save of its item is a step of it. The content of a row is the set of saved
changes that are in it, which shows which of them an overwriting save has lost.
Its status is not modelled: the API accepts lower-case statuses only
(`create-quest.dto.ts:54-61`, enforced by the global `ValidationPipe`,
`main.ts:82-102`), while the column's default is `ACTIVE` (`quest.entity.ts:33`) and the
table of transitions is in upper case (`quests.service.ts:302-320`), so an update that asks
for a change of the status is refused before anything is saved. The DTO also lacks four columns that
`quest.entity.ts:21-37` requires; whether an insert succeeds depends on the deployed
schema, and the model lets it succeed or fail. Ids of removed quests are taken
again in the model, which uuids never are: more behaviour, not less. `excused` is a
history variable: the keys that a race or a fault has left stale, until their
entries are gone.

*Sessions.* A tab has its own `isRefreshing` flag and queue (module state of
`client.ts`); the tabs share the browser's storage, whose two keys are written
without an await between them and are one value here. A pair of tokens is
numbered by the row of its refresh token. A lost message covers a timeout: the
server has done the work, does it later or never does. When a client gives up or its page is
loaded again, the server goes on with what it has begun (`auth.service.ts:146-166`, `190`):
the slot `Left(c)` holds such a request, and its answer reaches nobody. A login
stands for challenge and signature together and succeeds or is refused; the 401 of
a refused one goes through the response interceptor like any other
(`client.ts:194-235`) and may rotate the stored pair, wait in the queue or clear
the tokens. Storage events that a tab has not yet seen are one notice.
`stranded` is a history variable: pairs that came back into the storage because
an answer was overtaken by a logout, and stored pairs that the server revoked for
a page that was left or for a client that had given up.

*Email.* SendGrid is configured and its package installed; without them every
message is dropped. The worker has one hand (no concurrency is configured).
`onModuleInit` hooks run in phases, the jobs service's workers before the email
service's processor, so a job left in Redis may be taken too early. The queue
and the dead letters survive a restart, the log and the unsubscribe list do
not. Password-reset mails carry no unsubscribe link (`email.service.ts:214-221`):
they are among the messages `Unlinked`. Jobs also enter the email queue through the jobs
controller (`jobs.controller.ts:51-58`, `78`, `124`, the manual retry at 213 and a
rescheduling at 285): `AddDirectly`
adds one for any recipients and with any number of attempts, without a look
at the unsubscribe list and without a delivery record; a job that repeats the
`messageId` of another one is left out. Zero attempts mean one
to BullMQ and the default to the `failed` listener (`jobs.service.ts:65`), which never buries such a job.
The listener is async: when its `add` to the dead letters fails, the rejection has no
handler and the process exits (`main.ts:30-37`), which forgets the log and the
unsubscribe list like a restart (`DeadLetterFails`).
`copies`, `mailed` and `refused` record what recipients and SendGrid have seen.
The job log, the job scheduler and the controller's calls that only write these
are left out. `job-scheduler.service.ts`, six of the seven processors,
`job-log.entity.ts` and `job.dto.ts` import names or paths that do not exist
(`./job-log.service` from `processors/`, `./job.types` from `services/` and `entities/`,
`Type` from `class-validator`), and `jobs.module.ts:6-13` imports most of them. As
committed the backend does not build until these imports are mended; the models describe
its services as they are written.

*Mutants.* A definition introduced by a comment that begins with "Mutant" is
a plausible wrong version of the definition that follows it. It plays no part
in the specification: it documents which property would catch the mistake.

## 3. What is checked

Runs that pass:

| Run | Instance | Shows |
|---|---|---|
| `emergency_switch` | 3 addresses, all of them candidates for adding and removal, thresholds {0,1,3} and the default 2, timelocks {1,2}, time 0..3, 2 rounds | `ApprovalCountExact`, `PausedHasAdmin`, `UnpauseIsFresh` |
| `quest_lifecycle` | 1 quest, a creator, a verifier, a submitter, the verifier as submitter too, an admin who may pause once; rewards and deposits {0,1,2}, deadlines and time 0..2 | `EscrowFollowsQuest`, `EscrowAccounting`, `OutflowJustified`, `PausedFreezes`, `TerminalIsFinal` |
| `shared_pool` | 2 quests, 2 tokens, 2 submitters, up to 2 claims per quest, with symmetry of quests and of submitters | `BalanceBacksEscrows`, `ClaimsCredited`, `PaidAreCounted`, `ImplementsLedger` |
| `reputation` | 3 claims (two levels) against badge grants at the badge limit | `StatsConsistent` |
| `first_contract` | 2 quests, limits {0,1} (0 is refused), 2 submitters (one of them the verifier), 2 pause signers and quorum 2, time 0..1 of at most 2, 2 tokens in circulation, versions {0,1}; symmetry | `ClaimsAreExact`, `EscrowIsBacked`, `PauseIsTimely`, `OutflowIsDue` |
| `multisig` | 2 signers, 1 transaction, thresholds {1,2}, 2 voters, 1 editor, 1 fault; symmetry | `DecisionIsBacked`, `UndisturbedIsExact` |
| `quest_cache` | 1 quest (a list and a detail key), 1 reader, 2 writers, 3 saved changes, 1 fault, both cache types; symmetry | `StaleHasCause`, `ChangesSurvive`, the registered fallback in `QuestCacheTypeOK` |
| `sessions` | 1 user; 2 tabs, two requests at a time in one and one in the other, 3 requests in all; no retries, 1 expiry, 1 fault (a lost message, a page load or a refused login); symmetry | `StoredIsUsable`, `ExchangesOverlap`, the answered queue in `SessionsTypeOK` |
| `session_calls_end` | the same tabs with 2 requests, 1 retry, 1 expiry, 2 faults, and fairness | `CallsEnd` |
| `email` | 2 messages (one template throws and carries no link), through the service or directly with 0 or 1 attempts, 1 address, 2 attempts of the default, 2 faults | `OutcomeIsReported`, `LinkIsHonoured`, `ResendHasCause`, `JobsSettle` |
| `payouts` | 1 payout, 3 handlers in flight, 2 faults, both environments | `CompletedIsPaid`, `FailedIsTraceable`, `ProcessingIsAttended`, `ProcessingEnds` |

Nine more properties of these modules are proved in section 4 and need no run:
`ScheduleBacked`, `NoSelfApproval`, `PayoutsWithinClaims`, `UnclaimedIsUnpaid`,
`OrphansStay`, the first contract's `ImplementsLedger`, `ImplementsQuorum` of `MultiSig`,
`ImplementsFlight` of `Sessions` and `ImplementsDelivery` of `Email`.

*Why the bounds are enough.* Two rounds show whether anything survives a round;
three admins let one be removed while two others hold approvals; the thresholds
lie below, at and above the number of approvals that are possible. One quest with
amounts 0..2 meets both ends of `ValidAmount`, partial payment and partial
refund; a deadline of 0 is refused and 1 and 2 are passed. What quests do to
each other goes through the shared balance, so two quests are needed, and
two tokens separate the balances; with `InitialBalance = 1` a token must
return to the contract before it can be paid again, which happens when a paid
submitter sends it back. In the first contract
two quests share the balance, two submitters compete for the one participant a
quest accepts, and a timelock of 1 lets calls come before and at the moment the pause
takes effect; a pause of quorum 2 is pending, reached, cancelled, lifted and signed again
within two ledger times, and with signatures at time 1 the grace period ends
beyond `MaxU64`, so the sums do overflow. Payout rows do not share state, so one row suffices;
three handlers allow two claims to race while a third handler retries, and two
faults cover a failed save whose failure handling fails too. Multi-signature
transactions share only their wallet's signers; two voters race on one
transaction while an editor removes the signer or changes the threshold under
them, and threshold 1 and 2 are below and at the number of signers. Cache keys are
independent except for the list, which every write invalidates; two writers overlap on the quest while
a reader fills both entries, three changes are one more than can be in flight, so that an
overlap has a change to lose, and the fault is a restart, a failed `del` or a failed save.
Two tabs are the least that share a storage; three requests let one
wait for another's refresh in one tab while the other tab refreshes too. `withRetry`
repeats only the request for the quest list and begins anew each time, so retries are left to
`session_calls_end`. One fault lets the server go on after its client has left while two other
requests are under way, or a refused login rotate the pair under them. Two
messages show one job overtaking the other through retries, the second attempt
is the last one, zero and one attempts lie below it, and two faults cover a restart in the
middle of a repeat, or a failed attempt followed by the exit over its dead letter. Both messages go to the same
address, so that one may unsubscribe it while the other waits. What these instances leave
out (larger limits, retries beside a third request, a second address) the theorems
of section 4 cover: they hold for every value of the constants.

`RoundsLeft` (contract) bounds the number of rounds without ever stopping an
unpause; `MaxFaults` bounds failed calls, lost messages and restarts (page loads and refused logins
in `Sessions`). Deadlock checking
is off: every model ends when its bounded time, supply or tasks run out, and a
contract that nobody calls stops.

*Symmetry* is used in `shared_pool` (quests, submitters), `first_contract`
(quests), `multisig` (signers,
voters), `quest_cache` (readers, writers) and `sessions` (the two requests of one tab), whose elements play identical roles in the
model and in every property. Their properties are invariants and formulas without
fairness, which TLC checks state by state and step by step. No run with
a liveness property uses symmetry.

*Fairness.* Contract models have none: nobody is obliged to call. `Payouts` has
`FairSpec`, weak fairness of each task's own steps, because the event loop
continues every promise that settles. There is no fairness on creating,
claiming, retrying or the cron job. `ProcessingEnds` is claimed only for
behaviours in which no database call fails and the process is not restarted;
the theorem `OrphansStayStuck` says what happens otherwise: such a payout is stuck.
`Sessions` has weak fairness of each request's own continuation (`Continues`):
an answer arrives or is lost, and the tab's event loop goes on; nobody has to
log in, log out or send a request, and tokens need not expire. `Email` has weak
fairness of the start-up hooks, of the worker's steps for each message and of
BullMQ (a back-off ends, a stalled job is found, some waiting job is taken): after
the last restart or exit the process keeps running. Requests, webhooks and the
`failed` listener have none.

### What the documents say and the code does not do

This run stops with a counterexample.

| Run | Property | Behaviour |
|---|---|---|
| `single_approval` | `VerifierCanApprove` | `approve_submission` can never succeed |

Noted without a run, the contract:

- submit, approve, claim, and again: `submit_proof` overwrites a paid submission
  (`submission.rs:34`), so one submitter is paid repeatedly for one quest, where
  `README.md:153` promises "Duplicate claim prevention via status tracking";
  `PaidAreCounted` is what holds (the first contract refuses a second submission, and
  `ClaimsAreExact` shows that it pays once);
- lowering the threshold after the last approval meets it without scheduling
  anything (`security.rs:126` against the comment at line 31);
- approvals reserve nothing: more submissions can be approved than the escrow
  pays (`submission.rs:77-79`, `186`);
- a quest without escrow is paid from the tokens of another one's escrow
  (`payout.rs:80` against `escrow.rs:5`, `360`);
- the comment above `expire_quest` (`escrow.rs:269`) lets an admin expire a
  quest and line 282 does not; `stats.rs:12` describes statistics that no call
  updates.

The first contract:

- `EMERGENCY_PROCEDURES.md:38` says "withdrawals no longer allowed" after the grace
  period; that is true of `emergency_withdraw` (`lib.rs:358`), while
  `withdraw_unclaimed` (`lib.rs:234`) makes the same refund at any time;
- "any authorized signer can request" a pause (`lib.rs:285`), and `request_pause`
  accepts every address (`pausable.rs:129-141`);
- the timelock runs from the first signature, not from the one that completes the
  quorum (`pausable.rs:149-151`), and the grace period from the latest signature,
  so that it may be over when the pause takes effect (`pausable.rs:156`);
- a cancelled quest can still be expired (`quest.rs:161-168`), and proofs that
  are pending when a quest ends can be approved and paid as long as its escrow
  has not been withdrawn.

The services:

- payouts: two concurrent claims both go ahead (`payouts.service.ts:69` against
  `payouts.e2e-spec.ts:277`); the first failure is final, because `canRetry` is
  evaluated before the status is FAILED (`payouts.service.ts:197-199`);
- multi-signature: a count saved over another one loses an approval
  (`multisig-wallet.service.ts:324` against the "Check if threshold met" at
  355), so a transaction may stay PENDING with all its signatures; a removed signer
  cannot be added again (unique index); with fewer active approvers than the
  threshold a transaction is undecidable;
- sessions: the answer of a refresh that a logout overtook stores the tokens
  again (`auth.ts:98`, `client.ts:224`); `withRetry` retries every
  transformed error, not only those the comment at `client.ts:7` names
  (`client.ts:247`); requests resumed from the queue carry no `_retry` flag
  (`client.ts:195-203`); an unseen storage event can log out a fresh login
  (`SessionManager.tsx:72`); an access token stays valid after logout; a
  login that is refused although another pair is stored rotates that pair, or
  clears it when the refresh fails (`client.ts:194-235`); a refresh that a timed-out
  or reloaded page has begun revokes the stored token after the page has
  gone (`auth.service.ts:162-166`), so that the user has to log in again;
- quests: list entries that an earlier process wrote are not found by
  `deletePattern` and survive an update, which `CACHING_STRATEGY.md:195-196`
  excludes; every update that asks for a change of the status is refused, because the table of
  transitions is in upper case (`quests.service.ts:306-311`) and the statuses that
  the API accepts are in lower case (`quest-status.enum.ts`);
- email: a job taken before its processor is registered is skipped and completed
  as `sent: true` (`jobs.service.ts:115-120`); a message handled before the SDK
  is loaded is dropped as "SendGrid not configured" (`email.service.ts:150`); a template
  that throws leaves its record SENDING (`email.service.ts:134-145`); a
  restart forgets who unsubscribed, and so does the exit on a dead letter that
  Redis does not take (`jobs.service.ts:68`, `main.ts:30-37`); a job that asks for zero attempts fails
  after one and never reaches the "dead-letter queue for inspection"
  (`jobs.service.ts:65-68`); an address that unsubscribes while its
  message waits is still mailed, because `processEmailJob` does not look again
  (`email.service.ts:133`); webhook statuses are looked up by SendGrid's
  identifier and match no record (`email.service.ts:311`).

## 4. What is proved

TLAPS checks these for every value of the constants, under the assumption each
module declares. For the contract these are `EmergencyAssumption` and
`EarnQuestAssumption`: finite address set, subsets where the name says so,
natural bounds, and the contract's address not among the users. The last one
matters for `Transfer`: a transfer from an account to itself would otherwise be
described wrongly.

*Emergency switch.* The inductive invariant `ControlInv` is the conjunction of
the type invariant, `ApprovalCountExact`, `ScheduleBacked`, `PausedHasAdmin`
and the strengthening `UninitializedIsIdle`: before `initialize` there are no
admins and the contract is not paused. It is needed because `initialize` is the
only call that does not ask for an admin. `ApproveCounts` adds one
element to the current approvals (a cardinality lemma), `UnpauseClears` shows
that the approvals of the next round are empty because no approval is stored
under a later round, which is why that conjunct is part of
`ApprovalCountExact`. `ScheduleBacked` needs the counter and `UnpauseIsFresh`
needs all three. `ControlTyped` is the type invariant, which belongs to
`ControlInv` because the counter is a cardinality and the set of current
approvals has to be finite.

*Whole contract.* `IndInv` is `TypeOK`, `EscrowFollowsQuest`,
`EscrowAccounting` and `NoSelfApproval`. Types are not separable from the
accounting: that `totalRefunded` stays a natural number needs `Available >= 0`,
and that a refund is the only one needs the record to follow its quest. The
proof has one lemma per action, grouped as `Next` is. From it follow the action
properties `TerminalIsFinal`, `PausedFreezes` and `OutflowJustified`; the last
one splits into claims, closings and emergency withdrawals and shows for
every other action that no balance of the contract falls.

*Rewards.* Each of the three invariants is proved on top of
`IndInv` by sorting the calls by what they write. Only claims and grants write
reputation (`StatsWriters`): a claim adds one quest and its points and recomputes
the level, a grant leaves points alone; that the badges are a finite set is the
strengthening. Every call but a claim keeps the claim counters and adds nobody to the
submitters who stand as paid (`CountWriters`); a claim adds one to the counter and
at most one submitter. Only claims, deposits and closings touch a
record (`PayoutWriters`): a claim pays one more reward and counts one more
claim, hence `(n + 1) * reward`.

*Composition.* `EmergencyComposition` shows that the whole contract implements
the specification of the emergency switch, so its theorems hold in the whole
contract too.

*Escrow ledger.* `LedgerImplemented`: `Spec => ImplementsLedger`. A quest's terms
are its creator and asset, its account is closed when its status is terminal and holds
`Available` of the record, the wallets are the balances and the pool is
`poolFlow`. One lemma per kind of call shows which ledger operation it is:
registration, deposit, claim (a `Pay` with a record, a `Drain` without one),
cancel and expire (both `Close`), emergency withdrawal (`Drain`) and a
transfer to the contract (`Fund`); `LedgerFrame` covers the rest.
`IndInv` is needed in both states of a step: `EscrowAccounting` gives that a
payment stays within the account and that a closed one holds nothing,
`EscrowFollowsQuest` that the refund goes to the owner in the quest's asset.

*Sums* (`SumTheorems`). `SumFunctionOnSet` is a fold, and the library's induction
theorems take an operator that no installed prover can instantiate. The lemmas use the
well-foundedness of the subset relation instead: if the claim failed for some subset of a
finite set, it would fail for a smallest one, and taking one element out of that gives a smaller
(`MinimalSubset`). `SumsExist` and `SumsUnique` give the fold its value on every
finite set, `SumTakeOut` that any element may be taken first; from these follow
`SumSame`, `SumChangeOne` (one summand changes), `SumAddOne` (the set
grows), `SumSupport` (summands that are 0 may be left out) and `SumMonotone`.

*Balances and credits.* `BalancesBackEscrows` proves `LedgerBacked`, the same
equation summed over all quests rather than over the records: with a fixed set a call
changes at most one summand. Every step is a ledger operation already
(`StepLedger`), so it is enough to look at those: each moves an account and a
balance by the same amount, or the pool and a balance. `ClaimsAreCredited` compares two sums
over fixed sets likewise (`ClaimsBalance`); a claim adds one to one summand of each.

*First contract.* Under `EarnQuestV1Assumption` (finite submitters, accounts apart
from the contract's). `StepKinds` sorts the calls by what they write. The type invariant
is inductive as it stands: a claim is counted only below the limit, an approved
submission is paid in the same call, and migrations and rollbacks write both versions and
nothing else (`ConfigNext`). `PauseIsTimely` needs that no signature lies
in the future (`SignedInPast`): a new signature is then never earlier than the
first one. `OutflowIsDue` follows from the types, one lemma for each of the two
calls that pay. The first part of `ClaimsAreExact`, `ClaimsCounted`, needs that points are
100 for each completed quest and that the quests are finitely many (`CountInv`); an
approval adds one element to two sets and one to each of three counters. The money is
`MoneyInv`: `EscrowIsBacked`, and `RewardsExact`, that a submitter who creates no
quest holds the sum of the rewards of the quests that paid it. A payout takes from entry and
balance the same amount and adds one quest to one of these sets; a refund empties one entry and goes to a
creator; `EscrowIsBacked` is stated as an inequality: tokens sent to the contract by other means,
which the model leaves out, only add to its balance.
`FirstLedgerImplemented`: it implements `EscrowLedger` as the second contract does, with a pool
that stays empty. Its accounts close differently. A quest may end with tokens in its
entry from which pending proofs are still paid, so its account is closed when
the quest has ended *and* the entry is empty: by a withdrawal, by an end that finds the entry empty,
or by the payment that empties it, which is why the ledger lets a last payment close an account.
That it never opens again needs that no call leaves the ended statuses (`QuestCall`)
and that deposits are refused in them.

*Payout service.* Under `PayoutsAssumption` (environments from the two that the code
tells apart, a natural bound on faults) and for any number of payouts and tasks.
The properties say what rows look like; rows are overwritten by entities that
were loaded long before, so the inductive invariant `PayoutsInv` has to say
what an entity in flight may be at each step (`TasksSound`). `Sound` ties a row or entity
to the payments made: its hash is that of an earlier payment (`SoundGrows`:
payments only grow), and its retry counter is 1 exactly when it is FAILED. That
a paid row that is marked failed carries its hash needs two more conjuncts, because
a restart may change the environment. In production nobody pays and whoever works
on a paid payout loaded it with its hash (`ProductionTraces`); elsewhere
every outcome follows a payment, and nobody is about to pay a row that failed
without a hash (`DevelopmentTraces`). `RowSaved`, `PaymentMade` and `TaskGoesOn`
are the three cases of the step proof. A by-product is `RetriesNeverDue`: no row is
ever in `RETRY_SCHEDULED`, for every instance.

*Multi-signature wallets.* Under `MultiSigAssumption` (finite signers, sets where
the names say so). Saved copies may be arbitrarily old, so the invariant ties
every copy to what only grows: the rows that exist and the history of
consents and refusals. `VoteSound` says what a voter may hold at each step:
before it saves its signature the approvals it loaded are at most the consents
of the other signers, after it one more is at most all consents; `SignedOnce`
makes its own consent a new one. `Decides` compares the copy's count with
the copy's threshold, so a transaction that becomes approved has its consents,
whatever was saved in between. That no wallet asks for more signatures than it
has signers holds of stored and of loaded wallets alike (`CreatorsFresh`: what is
being created has no row yet), with a cardinality lemma for added and removed
signers. `UndisturbedIsExact` speaks of states without calls in flight; `ExactInv` extends it
to the middle of a call: a transaction that nothing has disturbed has at most one vote under
way, and `VoteExact` says how far row, copy and signatures are apart at each step of that
vote. It also needs that thresholds are positive (`ThresholdsPositive`), or a new transaction would be
approved at once, and that a signer who refused has a signature row (`RefusalRows`), or the
same signer could refuse twice.
`QuorumImplemented`: `Spec => ImplementsQuorum`. A poll is the status and threshold of a
transaction row, the roll is the set of signature rows. Inserting the rows is `Open` and
`Enrol`, saving a signature is `Consent` or `Refuse`, both saves of the transaction are `Show`, and
an overlapping load, a failure or a restart is `Disturb`; nothing else is seen. `Show` is backed
because `RowsSound` holds after the save too. What is new against the invariants is that
they only speak of the states between calls: that a calm transaction is decided once, and that
no signature is saved after the decision, is about steps. It needs that a copy in
flight keeps the row's threshold, which no call changes (`ThresholdHeld`), that new
transactions ask for a signature (`AllAsk`), and a conjunct of `VoteExact`: until the only
vote on a calm transaction saves it, its row is still pending.

*Sessions.* Under `SessionsAssumption`, for any number of users, tabs, requests,
tokens and faults. `TypeInv` joins the types and `CallsSound`, what a request
knows at each of its steps (which pair it read, checked, revoked, got), with
`QueueOK`: a tab's flag is set exactly while one of its requests refreshes, one at
a time, and nobody waits without it. Every action falls under one of three queue
lemmas: it leaves the refresh alone, begins one, or ends one and wakes everyone
that waits. Requests whose client has left belong to no tab: they may
find, revoke and issue like any other, and the lemmas about queues and flags
do not see them. `ExchangeInv` adds that a row whose token was exchanged is revoked
(`ParentsRevoked`) and that an exchange in flight was checked before the rows its
token has got meanwhile (`CheckedBefore`); with them a third exchange can only be one
that overlaps. `StoredIsUsable` is inductive given `TypeInv`: the lemmas about
each action's effects show that a row is revoked either by a request that is
on its way back to the storage or by one whose client has left, which marks the
pair (`Strands`), and that whoever leaves without replacing the pair leaves a mark in `stranded`.
`FlightImplemented`: `Spec => ImplementsFlight`. A request flies while it refreshes and
waits while it is queued; what it carries is the pair it was last sent with. Sending,
answers, retries, logins and the server's own steps are `Exchange`: they leave whoever flies or
waits alone. A 401 is `Begin` or `Wait` according to the flag, which `QueueOK` ties to the requests
that fly. Both ends of a refresh are a `Land` that releases exactly the tab's queue
(`LandSets`): with a pair everyone released carries it, without one nobody is sent
again. A page that is loaded again is `Leave`. What would refute it is a second refresh of one
tab, a request released by another tab's refresh or resumed with the expired pair, or a
waiting request that is forgotten.

*Quests and cache.* Under `QuestCacheAssumption`, for any number of quests,
readers, writers, changes and faults, and for both cache types.
`TypeInv` is `QuestCacheTypeOK` and `WritersOK`: which keys a writer has still to
delete, that a write which calls itself alone shares its quest with no other one, that an update alone
holds its row as it is stored (`LoadedRow`), and that what is created is new.
`ChangesSurvive` is a step property of the save and follows from it
(`ChangesAlwaysSurvive`). `StaleAlwaysCaused` needs `CacheInv`:
details are never cached without an answer (`NoEmpty`), and the causes hold for the
store and for the fallback separately (`CausesOK`), because a writer that has deleted a
key from the store and not yet from the fallback excuses one and no longer the other.

*Email.* Under `EmailAssumption`, for any number of messages, addresses, attempts and
faults, and for jobs put into the queue directly with any number of attempts, zero included.
`TypeInv` is `EmailTypeOK` and `JobsSound`: the job in the worker's hand is active, an
unfinished job has attempts left, and nothing exists before its request is handled.
Until the first restart or exit (`FirstProcess`) every job of the service has its record and the recipients
of every mail with a link are in the log, which is where `DecodeUnsubscribeToken` looks: hence
`LinksAreHonoured`. `Outcomes` says what is true between SendGrid's answer and the end of
the job when neither Redis nor the process fails. For `ResendHasCause` the
property itself is not inductive: a message that is not yet done may be accepted once more
without a further fault. `ExcessPaid` therefore counts all copies of a message that is still open and
one less for the others, and its sum over all messages stays below the sum of
the faults: a fault may open one message again and is counted once, because the worker has one
hand.
`DeliveryImplemented`: `Spec => ImplementsDelivery`. A message is shut from SendGrid's
acceptance (or from being passed over) to the end of its job, settled when the job is completed or
failed, and open otherwise. Three lemmas about stages carry the proof: a step that does not touch a
message's job and leaves it on the same side of the acceptance keeps its stage
(`StageStays`), one that changes one job changes one stage (`StageMoves`, `JobMovesStage`),
and every fault opens or settles at most the message in the worker's hand
(`TroubleStep`). It needs that no job is queued without recipients (`HasRecipients`) and,
from `JobsSound`, that the job in hand is active. So a message goes out to the recipients it entered
with, and a second time only after a new fault; an unsubscription after that is not
looked up, as section 3 says.

Every invariant and action property of the passing runs is the subject of a theorem. Only
model-checked are `ProcessingEnds`, `CallsEnd` and `JobsSettle`, since liveness and
the fairness it rests on are outside the prover's reach.

## 5. Not modelled

- Contract: quest metadata, paged queries, statistics records, events, the time
  to live of storage entries. The queries read and change nothing; statistics
  have no writer.
- Backend submissions: `validateVerifierAuthorization` refuses every caller
  while its lookups are stubs, so there is no behaviour.
- The Stellar client is I/O; outside production `executeStellarPayment` returns
  a made-up hash, in production it always throws.
- Multi-signature payouts import an entity that does not exist and use a status
  that does not exist. The webhook handler forwards events. The count of a wallet's
  transactions is read by nothing but its statistics.
- The job scheduler and six job processors import files that are not where they look for them;
  the job log is a table of its own that the queue does not read, so the
  controller's calls are modelled by the jobs they add.
- Quests: the status, which no update can change (section 2), and events.
- Cache service: tags, locks and statistics have no caller in the quests service.
- Jobs: the handlers of the queues other than email only log.
- Users, notifications, moderation records, analytics, websockets, health,
  in-process events: they read, store or push what the modelled parts
  produce, and nothing flows back.
- First contract: the program that `upgrade_contract` installs, events and queries.
- Pages and hooks of the front end, configuration, the second copy of the
  event services (`src/src/events`) and the template contract.

## 6. Plan

In this order, most important first.

1. Done: `EmergencyControl`, `EarnQuest`, `EscrowLedger`, `Payouts`, `MultiSig`,
   `QuorumVote`, `QuestCache`, `Sessions`, `SingleFlight`, `EarnQuestV1`, `Email`,
   `MailDelivery` and their theorems.
2. Abstract specifications of the payouts and of the cached reads, with the steps
   mapped to them.
3. `QuestQueries`: metadata and the paged queries over the quest index as
   operators, checked against a filter over all quests.
4. Notifications and moderation, with the tags and locks of the cache service
   once something uses them.
