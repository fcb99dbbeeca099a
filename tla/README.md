# Formal models of swx-core

TLA+ models of the parts of `swx_core` whose correctness depends on the order
in which things happen. TLC checks them on small instances; TLAPS proves the
safety properties for every instance.

    tlc -workers 2 -config MCJobRunnerLock.cfg MCJobRunner     # a run
    tlapm JobRunner_proofs.tla                                 # a proof

`PROJECT.json` lists the runs, the theorems, the lines of code each definition
models, the mutations of the code each property was seen to detect, and the
hazards of the code, each at its line, with the properties that cover it.

1. [Inventory](#1-inventory): the system and its parts
2. [The job runner](#2-the-job-runner)
3. [Wallets and the ledger](#3-wallets-and-the-ledger)
4. [Access](#4-access): who gets in, who belongs
5. [Business](#5-business): subscriptions, payments, usage, compliance, secrets
6. [Runtime](#6-runtime): what a process is built from
7. [Delivery](#7-delivery): audit trail, outbound webhooks
8. [What was found](#8-what-was-found)
9. [What is proved](#9-what-is-proved)
10. [What is not modelled](#10-what-is-not-modelled)
11. [Plan](#11-plan)

# 1. Inventory

The application is a FastAPI framework with a PostgreSQL database, an optional
Redis, and asyncio tasks in every process. Several processes (uvicorn workers,
containers) run the same code; they share the database and Redis and nothing
else. Within a process everything interleaves at every `await`.

The session factory (`database/db.py`) keeps PostgreSQL's default isolation,
READ COMMITTED, and sets `expire_on_commit=False`: an object keeps the values it
was loaded with, and a flush sends the columns that changed with respect to
those values, with a `WHERE` on the primary key alone. Most of what is hard in
this code comes from these two facts: what a session has read may no longer be
so when it writes.

| component | state | operations | what makes it correct | module |
|---|---|---|---|---|
| Job runner | table `swx_job`; per process `_active_jobs`, two loops, one task per execution | poll, acquire, execute, retry, dead-letter, time out, release stale locks, stop | one execution at a time; every job ends; outcomes are not overwritten | `JobRunner` |
| Ledger | append-only entries, a balance row per account and currency, idempotency records | credit, debit | balance = sum of entries; one entry per key; no overdraft | `Wallet`, `Journal` |
| Wallets | one row per account and currency | get or create, credit, debit, transfer | wallet = ledger; a transfer is whole | `Wallet`, `Journal` |
| Wallet adjustments | a table of proposals | propose, approve, reject | moved once, and only if approved by someone else | `Adjustments` |
| Payments, inbound webhooks | dedup keys in Redis, accounts, subscriptions, ledger keys; a table of Stripe events that the shipped handler does not use | confirm, receive, deduplicate, apply | each payment is applied once, and is applied | `Payments`, `StripeEvents` |
| Subscriptions | subscription rows of an account | create, replace, synchronise, edit, renew, expire | one live subscription; a change of plan that fails takes nothing | `Subscriptions` |
| Quotas, credit lots | counters in Redis; lots in the database | charge, reset; consume FIFO, expire | limits hold; no token twice; oldest first | `Usage`, `CreditLots` |
| Rate limiting, abuse | a sorted set and a counter in Redis | check, count refusals | at most the limit in a window; quiet clients pass | `RateWindow` |
| Tokens, sessions | refresh token rows, counter of wrong passwords, mfa_tokens | log in by password, second factor or provider, refresh, log out, reset the password | a stolen or old token is refused; a lock bounds guessing | `Sessions` |
| Second factor | secret, flag, recovery codes | enrol, confirm, enter, remove, renew | the factor asked for is the one confirmed; a code works once | `Mfa` |
| API keys | rows of keys, scopes | create, rotate, revoke, use, edit, sweep | a key turned off opens nothing | `ApiKeys` |
| Social accounts, addresses | users, links to identities, verification | link, unlink, sign in, sign up, verify | an identity leads to one user; nobody locks himself out | `Accounts` |
| Teams | memberships, invitations | invite, accept, decline, withdraw, remove | an answered invitation stays answered; members were invited | `Teams` |
| Organizations | memberships, invitations, a limit | invite, accept, reject | one user per invitation; the limit holds | `Organizations` |
| Policies | policies of one action | evaluate | a denial wins; order does not matter | `Policies` |
| Consent | appended rows, a cache per process | grant, withdraw, expire, check | an answer is at most a cache life old | `Consent` |
| Erasure, compliance | requests, tables of the user, certificate | request, cancel, execute, retry | certified means erased; never early | `Erasure` |
| Runtime settings | rows, history, two caches | read, create, update | bounded staleness; complete history | `SettingsStore` |
| Encryption of secrets | stored values, keys and salts of each process | encrypt, decrypt, rotate, convert old rows | what was stored can be read after a rotation | `KeyRotation` |
| Lifecycle, background tasks | started services, the scheduler's tasks | start all, stop all, register, cancel | order of dependencies; nothing left running | `Lifecycle` |
| Dependency container | instances, build stack, locks, scopes | make, open and close a scope | a singleton is one; a scope is one request's | `Container` |
| Events | listeners, subscriptions over Redis | listen, dispatch, publish, receive | each listener once, by priority; no echo | `EventBus` |
| Caches | a dictionary per process over Redis | look up, change | bounded staleness; own changes seen | `Caches` |
| Base repository, service, controller | rows | create, edit, soft and hard delete, bulk delete, list | edits stand; events tell the truth; pages miss nothing | `Records`, `Listing` |
| Unit of work | a session, two flags | enter, commit, roll back, exit | the flags tell what became of it; nothing forgotten; only a repository splits it | `Units` |
| LLM resilience | circuit breakers in memory | call, stream, fall back | an open breaker closes again; no silent change of provider | `Fallback` |
| Audit trail | audit rows with a hash chain, a bounded queue | log, queue, drain, verify, retain | the chain matches; no event lost silently | `AuditTrail`, `AuditQueue` |
| Outbound webhooks | delivery rows, a breaker per endpoint | dispatch, deliver, retry, ask again | a bounded number of calls; each delivery ends or is due again | `Webhooks` |

Not modelled: job dispatcher and administration, job handlers, other billing
services, the HTTP surface, users, notifications and other single-row services,
CLI and templates. `PROJECT.json` gives the reason for each, and says of the
components with status "partly" what is left out.

How they interact: routes call services; services share the database session
of the request, so a service called by another runs in its caller's
transaction unless it commits (as the creation of a wallet does). The job
runner calls services through handlers. Payment confirmation and adjustments
call wallets and subscriptions. Everything writes to the audit trail and
dispatches events after its commit. Redis is shared by the rate limiter, quotas,
caches, settings and deduplication.

## How the project is laid out

| module | contents |
|---|---|
| one module per component | state as VARIABLES, its Init, one action per operation or step, its properties; extends library modules only |
| `AuditQueue` | EXTENDS `AuditTrail`: its drain worker is one of the writers of the trail |
| `Journal` | abstract specification of the ledger, implemented by `Wallet` |
| `MCJobRunner`, `MCWallet` | instances of one component |
| `MCAccess`, `MCBusiness`, `MCRuntime`, `MCDelivery` | instances of several components each |
| `JobRunner_proofs`, `Wallet_proofs`, `Delivery_proofs`, `SignIn_proofs`, `Access_proofs`, `Business_proofs`, `Process_proofs`, `Data_proofs` | the proofs |

The last four MC modules put independent components beside each other. They
share no state, so nothing is gained by interleaving them: a variable `part`
names the one component a behaviour runs; the others stay in one initial state.
Each component's Init and Next is used as it is, and a property of one holds
trivially while another runs. The proofs are of each component on its own and
then of the composition (`Spec => []ProcessSafe` and the like).

Conventions. A step is what runs between two awaits, or one statement or
transaction of the database. Calls are named (model values or small numbers); a
call has its state in a record with a program counter. Calls that differ in
nothing but their name begin in the order of the names, where that is a
symmetry. Time is a small counter or an age that saturates. A history variable
(marked in its declaration) records what has happened for the properties; no step of
the code depends on it. Operators
whose name has a suffix after an underscore (`FindForDebit_NoLock`) are
mutations: no specification uses them; `PROJECT.json` says which property
notices each.

# 2. The job runner

## The model

A `Worker` is a process with a JobRunner. `row[j]` is the committed row of job
`j`. Acquiring a job increments `attempts`, so `task[j][a]`, the execution of
attempt `a`, is unique even when several executions of one job are alive.

| code | model |
|---|---|
| application inserts a row | `InsertJob` |
| `_poll_loop` checks `max_concurrent`, enters `_acquire_job` | `PollBegin` |
| `_acquire_job`: SELECT ... FOR UPDATE SKIP LOCKED, write the lock, commit; the task is created | `Acquire` (`Eligible`, `NextInLine`), `AcquireNothing` |
| `_execute_job` loads the row in a session of its own | `Load` |
| the handler returns; status and lock are written and committed | `Complete`, `Unhandled` (no handler) |
| the handler raises; the row is refreshed | `HandlerFails` |
| retry with backoff / dead letter | `Retry`, `DeadLetter` |
| the audit entry after the commit, the end of the task, its done callback | `AuditDone` |
| `wait_for` cancels the task; `_mark_job_timeout` | `Timeout`, `LoadTimedOut`, then `Retry` or `DeadLetter` |
| the database fails where the code only logs | `GiveUp` |
| `_cleanup_loop`, `_release_stale_locks` | `ReleaseStaleLocks` |
| `stop`, its 30 s of grace, cancellation | `Stop`, `ShutdownCancel`, `Stopped` |
| the process dies, the container restarts it | `Crash`, `Restart` |

`Flush` is the heart of the model: the UPDATE the ORM sends writes the columns
that differ from what the session LOADED, by id. An execution that lost its lock
therefore overwrites the row of the newer one, wholly or in part.

`NextInLine` lets a row be skipped when another poll holds its lock at that
moment (SKIP LOCKED). Time is relative: ages grow with `Tick` and saturate just
above the timeout they are compared with, so the state space is finite without
a bound on time.

## The runs

| run | instance | shows |
|---|---|---|
| `job_lock` | 2 jobs (one without a handler), 2 workers of capacity 1, 2 attempts, `LockTimeout = ExecTimeout = 1`, one outage | `TypeOK`, `LockProtects`, `CapacityRespected`, `DeadLetterIsDeserved`, `SettledStays` |
| `job_rest` | 1 job, 2 workers, 2 attempts, an outage, fairness, handlers that may hang | `ComesToRest` |
| `job_double` | `LockTimeout < ExecTimeout`, as in the defaults (300 s, 3600 s) | finding: `NoDoubleExecution` fails |

* `LockProtects`: until a stale release takes the lock of a live execution, only
  the newest attempt of a job executes, and the row is its own.
* `CapacityRespected`: as long as no job was overrun, `_active_jobs` knows every
  execution of its worker, and holds no more than `max_concurrent`.
* `DeadLetterIsDeserved`: a dead letter used up its attempts or has no handler.
* `SettledStays`: the status of a settled row without executions never changes.
* `ComesToRest`: every job ends settled, or is `Stranded` (below), for good.

Why the bounds are enough. Two workers give every race on a row; a third adds
only another competitor of the same kind. Two jobs give the interplay through
`_active_jobs` and the order of polling. Two attempts give an overtaken
execution and the one that overtook it. The timeouts are chosen so that each can
strike before and after the other. `MaxOutages` is the only counter with a bound
of its own: one stop or crash, at any step, of any worker. The theorems cover
every other number.

Fairness (`job_rest`): time passes; the event loop runs every ready task; every
database call of an execution returns or raises; a process that is down is
restarted (`restart: always` in `docker-compose.production.yml`); a poll with a
candidate does not fail for ever (strong fairness of `Acquire`, because another
worker's poll or a failure can disable it in between). The handler promises
nothing: neither `Complete` nor `HandlerFails` is fair, so `ComesToRest` also
covers handlers that hang until the timeout.

# 3. Wallets and the ledger

## The model

A request is a call of `get_or_create_wallet`, `credit_wallet`, `debit_wallet`
or `transfer`. It is a plan of one or two legs in one transaction. A wallet's
balance exists three times: `balance` (the wallet row), `ledger` (the balance
row of the ledger), `total` (the sum of the entries, what `reconcile` computes).

| code | model |
|---|---|
| `_wallet_entity` | `FindWallet`, or `CreateWallet` when there is none: the insertion COMMITS the session |
| `get_by_account_currency_for_update`, check of the balance | `FindForDebit` |
| `_existing_entry` finds the key | `Replay` |
| `_current_balance`, check of the funds, next balance | `Lookup` |
| `create_entry`, update of the ledger balance | `Post` (`Booked`) |
| `create_idempotency_record` | `Record` |
| `_set_balance`, `update_balance_no_commit` | `SetWallet` (`Result`, `Shown`) |
| `session.commit()` | `Commit` |
| an exception of the code, of a constraint | `Refuse` (`Refused`) |
| a failure at any await | `Abort` |
| PostgreSQL's deadlock detector | `BreakDeadlock` |

The database is modelled from how the code uses it: `dirty[q]` is what the
transaction of `q` has written and locked. `Balance(q, w)` and `Ledger(q, w)` are
what it reads: committed rows and its own writes. `Blockers(q)` are the
transactions whose row locks or uncommitted unique keys the next step of `q`
waits for. `Publish` is a commit.

`slipped` is a history variable: the wallets to which a credit computed from a
stale balance, or a replay of an overtaken entry, has been committed. These are
the findings below; `BalancesAgree` says that nothing else parts the balances.

`Journal` is the abstract specification: a journal that takes each leg at most
once, in a wallet of its currency, the debit of a transfer before its credit or
together with it. `ExactlyOnce` says `Wallet` implements it, under the mapping
`posted <- {e.key : e \in entries}`; the cached balances are not part of it.

## The runs

| run | instance | shows |
|---|---|---|
| `wallet_spends` | one wallet with 3 units; debits of 2 and 3, a credit; one debit and the credit repeated | `TypeOK` (nothing negative), `OncePerKey`, `BalancesAgree` |
| `wallet_transfers` | two currencies; opposite transfers, one repeated; an opening; the second wallet does not exist yet and two ids may become it; fairness | `TransferWhole`, `ExactlyOnce`, `Finishes` |
| `wallet_sum` | two credits | finding: `LedgerIsSum` fails |

* `TransferWhole`: both legs of a transfer or none, unless a request of that
  transfer had to create the target wallet, which commits the first leg alone.
* `ExactlyOnce`: `Journal!Spec`, the refinement.
* `Finishes`: every request that begins ends.

Why the bounds are enough. The amounts are chosen so that the debits exceed the
funds together but not alone, and a lost update shows. Repetitions are requests
of their own that may run before, during or after the one they repeat. Opposite
transfers wait for each other's rows; with the opening, all kinds of waiting
cycles occur. Two ids for one currency are enough for the duplicate wallet. A
request may fail at every step. The systems stop when all requests have ended,
hence `CHECK_DEADLOCK FALSE`.

Fairness (`wallet_transfers`): a request that has begun goes on, because the
event loop runs its coroutine, the database grants a lock that is free, and
breaks deadlocks. Nothing makes a request begin.

# 4. Access

One run, `access` (`MCAccess`): who gets in and who belongs. Each call may fail
or die at every step that reads or writes; a call's steps are single statements
or transactions.

| component | code → model |
|---|---|
| `RateWindow` | `check_limit` takes the time (`Send`) and runs its pipeline (`Pipeline`: drop, count, add - the refused request is added too); without Redis it refuses (`RateFails`); `check_burst_abuse` counts (`Increment`) and, in another call, sets the expiry (`Expire`) |
| `Sessions` | `login_user_service`: `LoadUser`, `WrongPassword`, `LockUserAccount`, `AskForFactor` (an mfa_token goes out) or `RightPassword`; `verify_mfa_challenge_service`: `VerifyChallenge`, while the mfa_token has not expired (`ChallengeExpires`); `login_social_user_service`: `SocialLogin`; then the new token: `CountSessions`, `RevokeOldest`, `FindToken`, `UpdateExistingToken`/`CreateToken`; `VerifyRefresh`; `VerifyLogout`, `RevokeToken`; `UpdatePasswordHash`, `RevokeAllTokens` |
| `Mfa` | `enroll`: `SetSecret`, `CreateCodes`; `verify_enrollment`: `ConfirmLoad`, `Enable`, `SetVerifiedAt`; `Enter`; `CheckLoad`, `UseCode`; `Disable` (the stamp of the last proof is cleared only if the call had loaded one), `DeleteCodes` |
| `ApiKeys` | creation, rotation in five commits (`StartRotation`, `DeactivateAndExtend`, `ReadScopes`, `InsertKey`, `AddScopes`, `SetRotatedFrom`), `Revoke`, `Validate` and `UpdateLastUsed`, edits of scopes, the expiry job (`FindExpired`, `FindInactive`, `DeactivateBatch`) |
| `Accounts` | linking (`FindIdentity`, `FindOwn`, `Attach`), unlinking (`CountLinks`, `FindRow`, `Unlink`), signing in by an identity (`FindEmail`, `CreateUser`, `MarkVerified`), registration by password (`FindUser`) and by a provider's callback (`FindByAddress`: an address that has an account is logged in, another gets one without a password and without a link), `VerifyEmail` |
| `Teams` | `CheckPending`, `InsertInvitation`; `LoadInvitation`, `LookForMember`, `AcceptMember`, `Answer`; members added and removed by hand; `Lapse` |
| `Organizations` | `CountMembers`, `CreateInvitation`; `GetInvitation`, `GetMember`, `AddMember`, `UpdateInvitationStatus`; `RemoveMember` |
| `Policies` | the conditions (`Passes`, `Matched`), the loop by priority (`Foremost`, `Evaluate`), the decision (`Decide`) |

| property | says |
|---|---|
| `AccessTypes` | the types of the component that runs |
| `AccessSafe` | of `RateWindow`: `LimitHolds` (no window holds more admitted requests than the limit while requests reach Redis in the order of their times), `QuietClientsPass` (a request is refused only if `Limit` others were sent within its window), `CounterExpires`. Of `Sessions`: `OneRow`, `ResetEndsSessions`, `GuessesBounded`. Of `Mfa`: `CodeOnce`, `CanBeMet` (who is asked for a code can give one), `OffIsOff` |
| `KeysSafe` | a key turned off is off for good and lets nobody in in a later period; a rotated key opens what the key before it opened, which is off |
| `AccountsSafe` | `OneOwner`, `WayIn` (a user without a password keeps an identity to come in with once he has linked one; until then, if a callback made him, his address brings him in), `AddressProven`, `SignUpVerified` |
| `MembershipSafe` | teams: membership and acceptance go together, one pending invitation; organizations: an invitation lets one user in, the limit holds unless one invites with an invitation open |
| `AnswerStays` | an answered invitation keeps its answer |
| `DecisionRight` | allowed is what some applicable policy allows and none denies |

Most of these hold "unless": unless two calls overlapped in the way a history
variable records (`muddled`, `entwined`, `outlived`, `twin`, `crossed`, `reread`,
`rivals`, `overtaken`, `torn`, `ahead`). That is what the code provides: nothing
in it locks. The histories are as narrow as the model allows; a wider one would
make the property say less, and for each property a mutation of the code
breaks it with the history as it is.

The bounds. Three checks against a limit of two; two logins, an exchange of an
mfa_token, a social login, a refresh, a logout and a reset of one user, any four of
them in a behaviour (`MaxAuthCalls`), so that a token can be renewed, revoked and
outlive a reset, and an mfa_token too; two enrolments with one confirmation, entry,
removal and renewal; two keys, one made by the other's rotation; two users, two
identities, seven calls, of which any two can meet on a user or an identity; two
invitations with five (team) and three (organization) answers; two policies of two
conditions and priorities. Three calls that overlap add no pair of steps that two do
not have.

# 5. Business

One run, `business` (`MCBusiness`): what the application keeps for its customers
and operators.

| component | code → model |
|---|---|
| `Subscriptions` | `create_subscription`: `Lock` the live rows (waits for who holds them), `Select`, `Insert`; trials; `sync_stripe_subscription`; edits: `LoadForEdit`, `Save` (the ORM writes the status only if it changed) |
| `Payments` | `CheckDedup`, `FindAccount`/`CreateAccount`, `ApplyPayment`, `SetDedup`; `DedupExpires` |
| `StripeEvents` | `CheckEvent`, `RecordEvent` (committed before the handler), `SetKey`, `ProcessEvent`, `CleanupExpired`, `KeyExpires`; `keeping` is where the handler keeps events: in Redis or nowhere, as `get_webhook_handler` builds it, or in the table too when it is given a session factory |
| `Adjustments` | `Propose`; `Load`, then `Approve`, `Execute`, `MarkExecuted`, or `Reject` |
| `Usage` | `record_usage`: `CountMonth`, `CountWindow`, `ReadWindow`, or `ReadOtherWindow` when another window has begun since, `ReadMonth`, `Debit`; `reset_window`: `CheckWindowResets`, `CheckDayResets`, `CountReset`, `CountDay`, `SetZero`; `NextWindow` |
| `CreditLots` | `CreateLot`; `Read`, then `Consume` (`TakeFrom`: oldest first) or `ExpireStale`; `LotExpires` |
| `Consent` | `Grant`, `Withdraw`, `Change`, `Expire`; `Check`, `ReadConsent`, `Store`; `ClearCache` of the own process |
| `Erasure` | each call works on the row as it loaded it (`LoadUser`) and writes the columns it changed: `Ask`, `MarkUserForDeletion`, `SelectDue`, `Executing`, `OpenCertificate`, `GetUserEmail`, `AnonymizeUser`, `DeleteRelatedData` (or `StatementFails`), `RevokeAuthSession`, `UpdateCertificate`; `CancelDeletion`; requests of the user, let in by an active account (`FindActive`, `CacheProfile`) or a cached profile (`FindProfile`), write later (`UseAccount`) |
| `SettingsStore` | `GetLocal`, `GetShared`, `GetFromDb`, `SetShared`; `DbFails`: the error is swallowed, the environment's value answered and cached; `Look`, `Create`, `Update` with the history; the call that would clear the caches never runs |
| `KeyRotation` | `Configure` moves one process to the next configuration (`Versions`, `KeysOf`, `Single`); `SetSecret`; `Scan` and `WriteBack` of the command that encrypts old rows |

| property | says |
|---|---|
| `BusinessTypes` | the types of the component that runs |
| `SubscriptionsSafe` | never two live rows unless two replacements met or an ended row was written live again; a change of plan that fails halfway takes nothing |
| `MoneySafe` | payments: what is answered "already processed" had its effect, and has it once; one account per user; a Stripe event is processed once by a handler that keeps its events, unless two deliveries looked for it at once; adjustments: four eyes, nothing rejected is paid, nothing approved is left lying |
| `ChargesSafe` | charges stay within the quota of a window nobody reset; resets are counted and limited; the month has counted what its windows show; every token once (`TokensOnce`), the oldest first (`FifoOrder`) |
| `ConsentSafe` | a cached answer was right within the life of its entry; withdrawals and grants stand |
| `ErasureSafe`, `GraceRespected` | certified means nothing of the user is left but what requests wrote that were let in before the account was closed, or on a cached profile; an anonymized account stays marked; nothing is erased before the grace period ends |
| `ConfigurationSafe` | settings: staleness is bounded by two cache lives, counted for the environment's value from the last read of the database that failed; the history tells every change; rotation: whoever has the newest configuration reads every secret, and a row holds the secret set last |
| `CertificateHonest` (run `erasure_cert`) | finding: a certificate names tables that were rolled back |

The bounds. Two creations beside a synchronisation and two edits: a replacement can
meet a creation, an edit a replacement. Each payment comes in twice, once with a
plan and once with a pack; an event three times, because the first may fail and the
next two meet. Three reviews by two admins. Two charges that exceed the quota
together but not alone, two resets, two windows. Three lots, two consumers, one
sweep. One erasure request, two executions and a cancellation, any three of them in
a behaviour (`MaxErasureCalls`), beside one other request of the user; three tables
one of which refuses. Cache lives of two ticks. Five configurations: no key, a key,
a key with a salt of its own, the rotated key, the old key dropped; two servers and
the command line.

# 6. Runtime

One run, `runtime` (`MCRuntime`): what a process is built from.

| component | code → model |
|---|---|
| `Lifecycle` | `StartAll`, `StartService`, `StartFails`, `StopAll`, `StopService`; the scheduler: `Register`, `Unregister`, `SchedulerStarts`, `Loop`, `SchedulerStops` (which returns at once when it is not running), `Cancelled`, `Gathered`; the application may start and stop the scheduler as well (`ApplicationCalls`) |
| `Container` | `OpenScope`; `Make` pushes the key, `LookUp`, `Acquire` a reentrant lock, `Recheck`, `Begin` the build of a need, `Store`, `Return`, `Raise`; `CloseScope` |
| `EventBus` | `Dispatch` copies the listeners, `CallListener` by priority, `ListenerRaises` (the handler asks for the `__name__` of the listener, and one without a name ends the dispatch), `ForgetOnce`, `ListenersDone`, `Forget`; the bridge: `Publish`, `HandleMessage`, `Start`, `Stop`, `LoseConnection`, `Resubscribe` (the loop keeps listening to the pubsub that was closed: the process is deaf from then on) |
| `Caches` | `ReadLocal`, `ReadShared`, `ReadDatabase`, `SetShared`, `SetLocal`; `CommitChange`, `DropLocal`, `DropShared`; `Clock`, `EvictLocal` |
| `Records` | `BeginWork`, `Exists`/`FindById`, `LoadRow`, `Update` of the changed columns, `Refresh`, `DeleteLoaded`, `InsertRow`, `RejectWrite` (an IntegrityError), `Emit`, `Answer` |
| `Listing` | `FindAll` and `Count` in two sessions, `HasNext`; rows are stamped (`AddRow`), committed later (`CommitRow`), removed and restored |
| `Units` | `Enter`, `Add`, `RepositoryCreate` (commits), `Commit`, `Rollback`, `Exit`; each may fail, and the block may catch it (`Catch`), roll the session back and go on |
| `Fallback` | `BeginChain`, `AllowRequest`, `Ask`, `Respond`, `Succeed`, `FailOver`, `LogUsage`, `LogFailure`; streams: `StreamText`, `StreamBreaks`, `StreamEnds`, `GoNext`; `RecordSuccess`, `RecordFailure`; `Cancel` |

| property | says |
|---|---|
| `RuntimeTypes` | the types of the component that runs |
| `ProcessSafe` | `DependentsFirst` (a service runs while what it was started after does, unless a stop() raised), `ServedWhileRunning` (the same for the scheduler's tasks, where only the manager starts and stops the scheduler), `NothingLeftBehind`, `OneLoopPerJob` (unless a start() ran during a stop()); `BuiltOnce`, `LeftClean`, `OwnScope` |
| `EventsSafe`, `ByPriority` | every listener there at the beginning is called by the end of the dispatch unless the event is stopped; once-listeners once, if no dispatches overlap and none breaks off; no echo; by priority |
| `CachesSafe` | a replaced value is served for two lives at most; Redis and the own process are fresh under the conditions named |
| `DataSafe` | an edit of columns nobody else writes stands; a request for one row whose values break no constraint is refused only for a row that went; events tell the truth; who follows `has_next` misses nothing that stayed, and in ascending order gets nothing twice as long as rows are committed in the order of their times |
| `UnitsSafe` | a unit left is committed or rolled back, as its flags say, unless its last commit failed; it forgets nothing but what was written after its end or after a failure it caught; only what a repository committed by itself survives a unit that did not commit |
| `FallbackSafe` | a breaker tried again reopens at the first failure; a stream changes provider only after an error event; no error is passed off as an answer |
| `NoDeadlock` (run `container_deadlock`) | finding: two threads wait for each other's lock |

The bounds. Three services: one that depends on another, and the scheduler.
Three threads, because a deadlock or a spoilt stack of two may hide what a third
sees. Two events, two listeners (one for once), two processes. One change between
two look-ups. Five requests on two rows, some with values that break a
constraint. Three rows on pages of two: a full page, a last page, an empty one after
deletions, and a row committed after a younger one. A session with three writes: one
lost, one caught, one committed by a repository. Two providers with a caller that
waits and one that streams, a threshold of two.

# 7. Delivery

One run, `delivery` (`MCDelivery`), under the fairness of both components.

| component | code → model |
|---|---|
| `AuditTrail` | `log_event`: `Begin`, `Insert` (committed without a hash), `ReadPrevious` (FOR UPDATE SKIP LOCKED), `WriteHash`, or `HashFails`, `RemoveUnhashed`; retention: `Purge`, `Anonymize`; the check at `Start` |
| `AuditQueue` | `Put` (or dropped when full), `Take` a batch, `LogNext` event by event, `BatchFails` puts the batch back, `StopQueue`, `StopTimesOut`; the drain worker is the writer `Drain` of the trail |
| `Webhooks` | `DispatchEvent`, `SelectDue`, `RetryDelivery` make carriers; a carrier counts and commits the attempt (`CountAttempt`), is let in by the breaker (`AllowRequest`), posts (`Answer`; after an exception `retry_with_backoff` asks and posts once more within the same attempt), saves the success, plans the next attempt (`ScheduleRetry`) or fails; `CarrierDies` |

| property | says |
|---|---|
| `DeliveryTypes` | the types of both components |
| `SerialChainMatches` | as long as no two writers work at once and none is cut off, the walk of `get_integrity_report` finds at most the entry being written |
| `DeliverySafe` | events are committed in order and none twice until a batch is put back; a worker that ends by itself has flushed; a delivery is attempted at most as often as its retries, and users, ask for, and the endpoint called at most twice for each attempt (`CallsBounded`), unless two carriers had it or one died with it |
| `DeliveredStays` | what was delivered stays so, unless two carriers had the delivery |
| `Settles` | an event in the queue of a running worker leaves it or the worker ends; every delivery ends delivered or failed, or waits as a retry that is due, unless its carrier died; and it ends in every behaviour in which due retries are taken up |

Fairness: the drain worker goes on (its steps, weakly fair: the event loop runs
it, and each await returns, raises or times out); a delivery that is under way is
made; a retry becomes due. Nothing is assumed of who takes up what is due, because
nothing in the repository calls `process_pending_retries`: with the code as it
stands a delivery that failed once is due for ever, and `Settles` says so. That due
retries are taken up (`RetriesProcessed`) is the hypothesis of its second half, for
an application that makes those calls. A stop, a crash and a retry asked for by a
user are not fair.

The bounds. A queue of two and batches of two, filled by two puts and one retry:
a batch can be put back behind a newer event and the queue can be full. Two
writers are enough to fork the chain. One delivery, two carriers that may have it
at once, two retries, one more by hand; a breaker that opens after two failures.

# 8. What was found

Runs that show a property of the documentation violated by the code
(`PROJECT.json` quotes both):

* `job_double`: a job that outlives `lock_timeout` is executed twice at the same
  time, although the docs promise that locking prevents it.
* `wallet_sum`: concurrent credits lose updates, and a credit can write over a
  debit: only debits lock.
* `erasure_cert`: when one table refuses, the transaction is aborted and the
  exception logged; the certificate is completed and names tables whose deletion
  was rolled back.
* `container_deadlock`: the build of a singleton takes the singleton lock and then
  the scoped one, the build of a scoped service the other way round.

Seen while modelling, without a run of its own. Where the model contains it, the
properties are stated so that they hold with it.

* Jobs: a job whose last attempt ends without an outcome waits in the queue for
  ever (`job_runner.py:237`); a timeout while the audit entry is written turns a
  completed job back (`BACKGROUND_JOBS.md:184-192`); a shutdown marks executing jobs
  `cancelled`, from which nothing retries them; the late write of an execution
  that lost its lock can leave a row `running` with `locked_by` NULL, which no
  query finds again. `ComesToRest` therefore says "settled or `Stranded`". The
  dispatcher and `job_service` name status members that the enum lacks.
* Wallets: a repeated credit sets the wallet to the balance it had after the first
  execution (`wallet_service.py:73`); a transfer that creates its target wallet
  commits the debit before the credit (`wallet_repository.py:24`); the ORM leaves
  `balance` out of the UPDATE when it is set to the value the session had loaded;
  two requests that create the wallet of a currency leave two rows, after which
  every call for that currency fails.
* Payments: `get_webhook_handler` builds the Stripe handler without a session
  factory (`stripe_webhook.py:357-360`): it keeps events in Redis or, without Redis,
  nowhere, and has no session for what an event should change; with a session
  factory, an event is recorded before its handler runs, so a failed handler loses it
  (`webhook_idempotency_service.py:38`); either way two deliveries that look for the
  event at once both process it.
* Consent: an expiry pass can stamp an older, lapsed row above a newer grant; no
  code sets `expires_at` and nothing calls `check_expired_consents`; the caches of
  other processes are never cleared.
* Erasure: an erased user stays due, so each pass erases again; cancelling the
  deletion of an erased account "restores" it; requests let in before the account was
  closed, or on a cached profile (`dependencies.py:148-161`), write after the tables
  were emptied; `compliance_route.py:140` calls a
  controller that does not exist.
* Settings: a database error is answered with the environment's value, which is
  cached for a life (`settings_service.py:236-238`); create and update call the
  coroutine that clears the caches without awaiting it; a setting that was turned
  off can be neither updated nor recreated.
* Keys: `KEY_MANAGEMENT.md:85` promises that a versioned ciphertext can be read with
  a single key, `encryption.py` refuses it; `encrypt-secrets` skips what is
  encrypted and covers four tables.
* API keys: the grace period of a rotation has no effect (`CHANGELOG.md:551`); a
  rotation does not ask whether the key is active; a key never used is never idle.
* Second factor: enrolling replaces the secret before it is confirmed and leaves
  earlier recovery codes; `disable` leaves the stamp of a proof that came in since it
  loaded the user (`mfa_repository.py:26-28`).
* Sessions: one row per user makes the limit of concurrent sessions ineffective
  (`CHANGELOG.md:254`); an mfa_token obtained with the old password is exchanged for
  a refresh token after a reset (`auth_service.py:230-312`).
* Accounts: there is no unique constraint on the links;
  `find_or_create_user_from_social` is called by nothing; the callback logs in by the
  address alone, and gives a new user neither a password nor a link
  (`oauth_route.py:307,410,519`).
* Organizations: the limit is checked only when inviting
  (`ORGANIZATIONS.md:118,244`); `update_member_role` commits before it checks.
* Container: threads that take each other's keys from the shared build stack can
  be refused with `CircularDependencyError` without a circle (`container.py:121`).
* Events: an event that comes from another process reaches no listener:
  `redis_bridge.py:431` dispatches it with a keyword the constructor of `Event`
  does not have, and the TypeError is logged (`EVENT_BROADCASTING_EXAMPLES.md:73-75`);
  a reconnected bridge goes on listening to the closed pubsub (`redis_bridge.py:359`);
  a listener without `__name__` that raises ends the dispatch (`dispatcher.py:285`).
* LLM: `FallbackChain` never looks at `response.success`, and the shipped providers
  return failures that way (`FALLBACK_CHAIN.md:14`); a failed usage row discards an
  answer that was paid for; a half-open breaker lets everybody in
  (`RESILIENCE.md:42`).
* Audit trail: SKIP LOCKED lets two writers chain to the same predecessor
  (`audit_integrity_repository.py:26-30`; `CHANGELOG.md:331-333`).
* Webhooks: an open breaker counts refused deliveries as attempts; a delivery whose
  process dies between count and answer stays `pending` and is never retried; an
  attempt that raises is posted twice (`webhook_retry.py:34`); nothing calls
  `process_pending_retries`, so no retry is made; an exception of the event that
  reports a success would be taken for a failed attempt, and the delivery sent again
  (`webhook_dispatcher.py:77,81`; not in the model).
* Base classes: repositories commit (`repositories/base.py:362`) although their
  session was injected (`repositories/base.py:66-68`), so "All operations within a
  unit are committed together" (`unit_of_work.py:38`) fails for a unit that uses
  one; created_at is set before the commit, so an older row can appear after a
  younger one; `UnitOfWork()` without a session cannot be entered; the bulk calls of
  the controller raise after their commit.
* Lifecycle: a job registered while the scheduler runs is never started; a
  cancellation during `start_all` stops nothing; `stop` returns at once while another
  stop is still gathering (`background.py:140-141`), so where the application
  stops the scheduler itself the services under it may go down before its tasks.

# 9. What is proved

TLC checks the instances above; the theorems hold for all values of the
constants that satisfy the named assumptions of the modules. Each is proved from
an inductive invariant that was checked by TLC first. A theorem about a component
(`BusSpec => []EventsSafe`) is proved from that component's specification; a
theorem about a property that combines components (`Spec => []ProcessSafe`), from
the composition, whose every step is a step of one component or leaves it alone.

## Assumptions

Named ASSUMEs of the modules, evaluated by TLC for every instance. Most say that
sets of calls are disjoint, that functions of the configuration have the right
types, or that a limit is a number, positive where the code divides by it or
compares with it. Those that say more, because the code has it so:

* `Wallet!ConstantsAssumption`: plans are single legs, or a debit and a credit under
  two different keys. `TransfersWhole` needs in addition that the keys of a transfer
  are used by that transfer only (`TransferKeysOwn`, a hypothesis of the theorem):
  the service derives them from the key of the request.
* `WorkAssumption` (`Records`): only bulk requests have several ids, only edits set
  columns, and a created row has an id nobody else created.
* `StagesAssumption` (`KeyRotation`): a configuration without a key has no previous
  key either.
* `EventBusAssumption`: listeners of one event have different priorities; equal ones
  are ordered by their registration, which is what the numbers stand for.
* `ContainerAssumption`: what is needed is bound. Circles are allowed.
* Some sets are finite (`Checks`, `Items`, `Jobs`, the calls that take recovery
  codes), because what they bound is counted.

## The job runner (`JobRunner_proofs`)

* `TypeCorrect`.
* `LockSafety` (`LockProtects`): inductive together with the types, job by job.
  `LockOf(k)` is its body for one job. The proof classifies each step by what it
  does to job `k`: it leaves the job alone (`Untouched`), it is a step of the job's
  one execution (`OwnStep`, `ExecutionEffect`), it acquires the job (then no
  execution exists, because the row waits and executions of a job that is not
  overrun are `running` or settled), or it releases its lock (then it is overrun or
  had no execution).
* `DoubleNeedsOverrun`: two executions of a job are alive only after a stale
  release took the lock of a live one, so the finding above is the only way.
* `SettledForGood` (`SettledStays`).
* `DeadLetterDeserved`: what a session has loaded is an attempt it executes or a
  later one, so whoever writes `dead_letter` has seen the last attempt.
* `CapacityKept`: a poll holds a place of the semaphore; until a job is overrun,
  entries of `_active_jobs` and live executions are the same, which is as far as the
  bound on the executions goes.

## Wallets (`Wallet_proofs`)

* `TypeCorrect`: no balance, committed or in flight, is negative.
* `KeysOnce` (`OncePerKey`): about what is not committed yet. The entries of a
  transaction are its own; every entry but the one of the current leg (between
  `Post` and `Record`) has its key recorded; two transactions never hold the same
  key; a recorded key has no committed entry. So a commit adds only new keys.
* `JournalKept` (`ExactlyOnce`), the refinement, step by step: what a transaction has
  written is nothing, one leg or both legs in order (`LegInv`), so a commit is
  `PostLeg`, `PostBoth` or a stutter of `Journal`, and every other step a stutter.
* `TransfersWhole`: the second leg is never committed before the first, and the
  first alone only by the creation of the target wallet.
* `BalancesStayEqual` (`BalancesAgree`): two locks protect a wallet: the ledger row,
  from `Post` on (`posted`), and the wallet row, locked by a debit from the beginning
  and by every leg from `SetWallet` on (`held`). `MoneyInv` says that both are
  disjoint between requests (`AllApart`); that what is posted is also held once its
  leg is over (`OwnLocks`), so no commit changes a balance that a debit has read
  under its lock; that the uncommitted ledger balance is the committed one and the
  change of the entries (`OwnSums`); that a held wallet row equals its ledger
  balance (`OwnSettled`); and that what a debit has read is still so (`Debiting`);
  all but for the wallets that have slipped or are about to. The locks are
  necessary: without the debit's, TLC finds the balances parting
  (`FindForDebit_NoLock`).

## Access (`Access_proofs`)

* `PoliciesDecide` (`DecisionRight`): what has been evaluated is the set `Seen`,
  closed upwards in priority; allowed so far says that `Seen` holds an allow and no
  denial.
* `KeysAreSafe`: a key off has the period it went off recorded; a rotation that is
  under way carries the scopes it read, makes its key alone, and its old key is off.
* `TeamsAreSafe`, `AnswersStay`: an invitation that is not overtaken has one call in
  hand, and is pending until that call writes. With two calls in hand it is
  overtaken for good.
* `OrganizationsAreSafe`: an invitation that is not torn has one call at work;
  `Unused` counts the places that pending invitations may still take (`PlaceKept`).
* `MembershipKept`: both in the composition.
* `SignInsAreSafe`, `AccountsAreSafe`: the results of `SignIn_proofs`, below, in the
  composition.
* `AccessTyped` (`AccessTypes`): every component keeps its types.

## Signing in (`SignIn_proofs`)

* `WindowKept` (`RateInv`): every member of the sorted set is the time of a request
  that has been through the pipeline, and every admitted request is a member or a
  window older than one (`TimesAreSent`, `PassedAreKept`). So the admitted requests of
  a window are in the set when the last of them counts it, and their number is
  compared by injections between the two sets.
* `FactorSafe` (`MfaInv`): a code comes from one call, is not there before, and is not
  unused again (`CodesAreOnce`); while one call has compared it and has not used it
  nobody has had it; as long as no call wrote over another, what a call has loaded
  is what the row holds (`InOrder`).
* `SessionsKept` (`AuthInv`): as long as calls that write tokens do not overlap there
  is one row at most, and the call that creates one saw none (`Alone`); no session,
  none on its way and no mfa_token that is out goes back to a password older than the
  last reset unless it outlived it (`UpToDate`).
* `WaysInKept` (`AccountInv`): nobody has the identity that a call is about to bind,
  or the call knows its rival (`FreeToBind`); an unlink in hand is about a user with
  another way in (`FreeToUnlink`), which is never the address alone: a user whom a
  callback made, and who linked one identity, keeps it; where an address must be
  verified, a sign-in binds only an account that is (`VerifiedFirst`). The proof
  found two arms of a CASE in `FindEmail` that overlapped: TLC takes the first one
  that applies, the prover may not, and the model now says which applies.

## Business (`Business_proofs`)

* `SubscriptionsAreSafe`: until two replacements overlap one call replaces, and as
  long as no ended row is revived it holds every live row.
* `MoneyKept`. Payments: a reference whose attempts have not crossed has one attempt
  at work, and what is applied is marked, or about to be marked by it. Stripe
  events: while the event is young and the handler keeps its events one delivery is
  at work, and the row or the key is there from its recording on. Adjustments: until
  contended, one call decides.
* `ConsentsAreSafe`: what a check holds was right since it was asked for; the rows
  that were stamped after a grant no withdrawal met are granted or lapsed.
* `ErasuresAreSafe`, `GraceKept`: the first execution to anonymize had read the e-mail
  address; a table that was emptied is refilled only by requests that were let in
  before the account was closed, or on a cached profile; and as the writes of a call
  leave out the columns it did not change, what it had loaded says which those are
  (`ErasingCall`).
* `ConfigurationKept`. Settings: of every cached value it is known when it stopped
  being the setting, or was last answered for an error; a value in Redis was the
  setting when its entry was made, one in a process may be a life older. The history
  pairs each value with the next while one write is at work. Rotation: processes are
  one stage apart at most, every stored value was made at a stage some process has
  reached, and during a first rotation every stage reads what the stages before it
  wrote. The proof showed that `FirstRotation` had to say what the operator keeps:
  the key of the first version stays while a previous key is added, and the salt
  changes once.

* `ChargesKept` (`ChargesSafe`). Usage: each counter is ahead of the next by what the
  calls between the two hold, so the month covers the windows, and a window what was
  charged in it (`CountedFirst`); until resets crowd
  one reset is between its check and its count (`ResetAlone`). Credit lots: no lot is
  read as fuller than it is or emptier than its row lets be (`ReadingsSound`); the
  tokens of a lot are at one place each, until two sessions write it from one reading
  (`TokensOnce` excepts that lot). Sums are written as cardinalities of sets
  of pairs (`Total`, `TokensIn`), because about sums by recursion or folding nothing
  can be proved without induction over data.
* `BusinessTyped` (`BusinessTypes`): every component keeps its types.

## Runtime (`Process_proofs`, `Data_proofs`)

* `ProcessKept`. Lifecycle: the started services are the first k; what else runs
  failed to stop; a task that lives is the current one of a listed job, or cancelled
  and awaited, or lost to `unregister`, unless a start() ran during a stop().
  Container: the build stack is as long as the frames with a key on it are many, and
  a lock as deep as the frames that hold it (cardinalities of pairs of thread and
  frame); the frames below the top are at "store", their keys chained by `Needs`; a
  service whose needs have no end is never stored, which makes the argument hold for
  circles; a singleton about to be stored is built by one frame only; until scopes
  overlap the container is in the one open scope.
* `EventsAreSafe`, `PriorityKept`: what a dispatch has called is off its list and of
  no lower priority than the rest; until dispatches mingle one is at work; one that
  is over has forgotten its once-listeners.
* `FallbackIsSafe`: an open breaker has its threshold full unless a late success
  reset it; a caller that leaves a provider was given an error by it.
* `CachesAreSafe`: the model lets no time pass within a call, so a call holds what was
  replaced this moment at most; an entry of Redis ends a life after the version it
  was made from. The other two conjuncts hold under the conditions they name: no
  lookup in flight that had read the database before, no change that failed.
* `DataKept`. Records: the rows a request is to create are nobody else's and not
  there yet, all its others are or were; a column nobody else edits is as loaded
  until written and as wanted afterwards. Listing: by ranks: a row that was there
  all the time and not yet given has at least as many rows before it as were given
  pages of; a page is the rows whose rank lies between two bounds; a row committed
  late counts as a change, as does a deletion.
* `UnitsAreSafe`: what was added is saved, dropped or still in the session, and the
  flags follow; what was saved without the unit's commit was saved by a repository,
  whatever is called and caught in whatever order.
* `RuntimeTyped` (`RuntimeTypes`): every component keeps its types. Where these are
  ranges they are invariants of their own: a caller never asks one provider more than
  `MaxRetries + 1` times and is only given what a provider of the chain said
  (`FallRest`), and the scheduler's tasks keep to their numbers (`LifeRest`).

## Delivery (`Delivery_proofs`)

* `SerialChain` (`SerialChainMatches`): while entries are written one at a time, all
  but the one being written carry the hash of those before them (`TrailInv`).
* `QueueWritesTrail`, a refinement step by step: `AuditQueue` implements `AuditTrail`.
  Its worker writes an event only while it has one in hand (`DrainInPlace`), so each
  of its steps is a step of one of the trail's writers or leaves the trail alone;
  `SerialChainMatches` holds of the queue by it.
* `DeliveryKept` (`QueueInv`, `HookInv`): what is committed, in hand and waiting is
  one sequence in the order of `Put` (`InLine`) until a batch is put back or cut
  off; a carrier knows how often its delivery was tried, and may try it once more
  when it is about to (`Counted`), which bounds the attempts; and within one attempt
  it posts at most twice, which bounds what the endpoint sees.
* `DeliveredKept` (`DeliveredStays`): one carrier has a delivery and none has one that
  was delivered (`OneCarrier`), unless two sessions had taken it up.
* `DeliveryTyped` (`DeliveryTypes`), `TrailTypes`.

## What is only model-checked

* Liveness under fairness: `ComesToRest`, `Finishes`, `Settles`. The installed provers
  reason neither about ENABLED nor about fairness.
* The four properties that the code violates; their runs show counterexamples.

Every other property that a run checks is stated by a theorem.

# 10. What is not modelled

* Widths of integers. Amounts are nano-units, declared `int`; whether they fit
  is decided by the database driver.
* Handlers of jobs: each is a call of another component; the runner lets it
  succeed, fail or hang. Neither is the `JobDispatcher`, which only inserts rows,
  nor the administration of jobs, single statements of an operator.
* Clock skew between processes: `locked_at`, `scheduled_at` and the cleanup's
  "now" come from different machines; the model has one clock.
* Settings that switch protections off: `LEDGER_ALLOW_NEGATIVE_BALANCE` is False,
  its default.
* Requests without an idempotency key: the wallet service always passes one.
* Cryptography, hashing, tokens and signatures: a secret is the version it was
  encrypted with, a hash the entries it covers, a code its name.
* SQL, JSON, HTTP: a query is the set of rows it selects, a response what it tells
  its caller.
* The components listed at the end of the inventory: the HTTP surface (routes that
  check the input and call a service), users, onboarding, notifications,
  conversations, SSO, feature flags and status pages (single-row services without
  an order to get wrong), other billing services, the command line, the code
  templates it writes, benchmarks, migrations and exports for AI. They are most of
  the repository's lines.
* Of components with status "partly", what `PROJECT.json` names in their notes.

# 11. Plan

Built so far: the modules of section 1, their runs, and the theorems of section 9.
In the order of what they would add:

1. Liveness stays with TLC; a second instance of `job_rest` with two jobs would
   show that no job starves another.
2. A module for codes sent by e-mail (`services/auth/email_otp_service.py`): a code,
   its attempts and its life, next to `Sessions` and `Mfa`.
3. A module for notices (`services/notifications`), whose rows follow events.
4. Readiness: the order of `main.py` between the manager of `Lifecycle`, the bridge of
   `EventBus` and the first request.
5. The HTTP surface where a route does more than call a service; of
   `routes/access/oauth_route.py` the callbacks are in `Accounts` and `Sessions`, its
   state tokens are not.
