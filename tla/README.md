# Vills in TLA+

Vills is the Python backend of a marketing-agency platform: a FastAPI
application over PostgreSQL, Redis and the Claude API, with Celery workers. This
directory holds TLA+ specifications of its stateful parts, TLC configurations
that check them on small instances, and TLAPS proofs. Paths below are relative
to `src/vills/`; `PROJECT.json` maps each definition to the lines it models.

## 1. The system

| Component | State it keeps | Operations | Meets |
|---|---|---|---|
| Model router `core/model_router.py` | one `_BreakerState` (failures, opened_at) per model, shared by all coroutines | `complete()`: walk the chain, retry, back off, open/close breakers | the Claude API |
| Job lock `workers/locks.py` | the key `job_lock:<name>` in Redis, with a TTL | `distributed_lock()`: SET NX EX, body, DEL | Redis; other workers |
| Auth endpoints `api/v1/auth.py` | none of their own | login, refresh, logout | tokens, users, Redis |
| JWTs and revocation list `security/auth.py` | `revoked_token:<jti>` keys in Redis | issue, decode, revoke, is_revoked | Redis |
| RBAC `security/rbac.py` | none | `get_current_user`, `get_tenant_context`, `require_role` | tokens, tables, resolver |
| Tenant resolver `tenancy/resolver.py` | none | `resolve()` | agencies, agency_clients |
| Tables `tenancy/models.py`, `security/models.py`, `core/feedback_loop.py`, `security/audit.py`, `memory/models.py` | rows | inserts, updates, cascading deletes | PostgreSQL |
| Migrations `db/migrations/` | the schema and `alembic_version` | upgrade, downgrade | PostgreSQL; other instances that migrate |
| Engine and sessions `db/session.py`, Redis client `cache/client.py` | module-level singletons, connection pools | init, get, ping, dispose/close | everything above |
| Application and health `core/main.py`, `api/v1/health.py` | none | start, stop, readiness | engine, Redis client |
| Feedback loop and audit log (`record`, `log`) | rows flushed into the caller's session | append | sessions |
| Compressor, prompt engine, settings, hybrid search | none (search reads a table) | pure functions and one query | |
| Celery application `workers/app.py` | broker queue (acks_late) | a ping task | the job lock, by its documentation |

What is hard about it:

* **Concurrency.** The coroutines of one process interleave at every `await`
  and share breakers and singletons; workers and API instances are separate
  processes over one Redis and one database; every query of a request is a
  statement of its own under READ COMMITTED.
* **Failure.** A worker dies with a lock held, a Redis reply is lost, a model
  times out, a request is cancelled, a migration dies half way.
* **Time.** Key expiries, token lifetimes in whole seconds, breaker windows,
  request timeouts and back-off race the events they guard against.
* **Drift.** The schema is written twice, in the models and in the revisions.

`PROJECT.json` lists each hazard at its line with the properties that cover it,
or with the reason why none does.

What would make each component correct: a breaker never loses its state to
concurrent updates, keeps callers away from a model for its window, and neither
fails a chain that has a working model nor stays open for ever; a job never runs
twice at once and its lock is always freed; a revoked token stays refused, a
session ends, an inactive user gets nothing; a request never leaves its user's
agency and is admitted or denied for a reason; nobody sees half a migration and
the tables fit the models; no engine or client is lost, a stop releases all, and
readiness tells the truth in time; a process has one configuration; a compressed
history keeps what is recent; a search stays in its tenant; an audit entry shares
the fate of what it tells of.

## 2. The modules

| Module | Models | Run by | Proved in |
|---|---|---|---|
| `ModelRouter` | `core/model_router.py` | `MCModelRouter` | `ModelRouterProofs` |
| `CircuitBreaker` | what one `_BreakerState` of it promises to its callers | as a property of the former | `ModelRouterProofs` |
| `ExclusiveJob` | what `workers/locks.py` promises (lines 3-4, 24) | as a property of the next | `DistributedLockProofs` |
| `DistributedLock` | `workers/locks.py` over Redis | `MCDistributedLock` | `DistributedLockProofs` |
| `AuthTokens` | `api/v1/auth.py`, `security/auth.py`, the token half of `get_current_user` | `MCAuthTokens` | `AuthTokensProofs` |
| `AccessControl` | `security/rbac.py` over `tenancy/resolver.py` | `MCAccessControl` | `AccessControlProofs` |
| `Schema` | the models, revisions 0001 and 0002, `env.py` | `MCSchema` | `SchemaProofs`, `SchemaOrderProofs` |
| `WholeMigration` | what a migration promises to whoever reads the database | as a property of the former | `SchemaProofs` |
| `Lifecycle` | `db/session.py`, `cache/client.py`, the lifespan of `core/main.py`, `api/v1/health.py` | `MCLifecycle` | `LifecycleProofs` |
| `Settings` | `core/settings.py` | `MCParts` | `PartsProofs` |
| `ContextCompressor` | `core/context_compressor.py` | `MCParts` | `PartsProofs` |
| `HybridSearch` | `memory/hybrid_search.py`, `embeddings.py`, `models.py` | `MCParts` | `PartsProofs` |
| `UnitOfWork` | `record` of `core/feedback_loop.py` and `log` of `security/audit.py` in a session | `MCParts` | `PartsProofs` |

### ModelRouter

`failures` and `opened_at` are the two fields of each `_BreakerState`; a model
without one behaves like a fresh one, so both are total functions. `opened_at`
holds the age of the opening, not its date: only its comparison with
`recovery_seconds` matters, so ages saturate there. `call[c]` is the progress of
coroutine c's `complete()`: the position in its chain, the attempt, and the time
in the call or left of the back-off. A step is what the event loop runs between
two awaits: `Complete` and the second branch of `Fail` run on through the
skipping of open models (`TryFrom`, with the reset that `_is_open` performs) to
the next call or to `CircuitOpenError`; `Answer` is `_record_success`; `Cancel`
is a `CancelledError`, which `except Exception` does not catch. `Tick` may not
pass a deadline that `asyncio.timeout` or `asyncio.sleep` ends. A call past its
timeout is a `Fail`. `Reliable` is an assumption about the environment: models
that answer every call in time.

`CircuitBreaker` is one breaker with nothing around it: it counts, opens, ages and
closes, and lets nobody in before its window is over. `ImplementsBreakers` says
that each breaker of the router is one, under the mapping `failures[m]`,
`opened_at[m]`, the coroutines that stand at m, and those that wait for its answer:
whatever the other models, their breakers and the back-offs do, its callers see a
single step of it or none. That a closed window lets nobody in
(`OpenModelGetsNoVisitor`) and that a breaker forgets only for a reason
(`ForgetsOnlyOnProof`) follow from it and are stated beside it.

`SecondsLeft` is what a `complete()` may still take: the worst of each model behind
the one it is on, the attempts and back-offs left on that one, the rest of the call
or the back-off that runs. `WithinBudget` says that it starts at the worst of the
whole chain at most, that every second is taken from it and that nothing gives one
back. With the defaults of `ModelRouter.__init__` (2 retries, 60 s) and chains of
two models that is 2 x (3 x 60 + 1 + 2) = 366 seconds.

### DistributedLock

A command and its reply are separate steps (`Acquire`, `ExecuteSet`, `Yield`;
`Leave`, `ExecuteDelete`, `Return`), so that `Abort` can come on either side of
the execution, and a command whose sender is gone may still be executed
(`late_set`, `late_del`). The SET is outside the `try`: an abort there leads to
no DEL. `ttl` is the life of the key, `owner` a history variable for the
properties (the key holds "1" whoever set it). `MaxHold` bounds the time between
the SET's execution and the DEL's. The code bounds it nowhere, so it is an
assumption on the caller, stated as `MaxHold < Ttl` in the run `job_lock` and
dropped in `lock_overrun`, which alone shows what an overrun does; the proofs need only that nobody does overstay
(`InTime`). It includes the journey of a DEL whose sender died. Redis
executes a command at most once (the client is built without retries) and does
not restart. One name is modelled: keys of different names never meet.

### AuthTokens

`now` counts half seconds, because `exp` has whole seconds and Redis expires on
the millisecond. `tokens` is the sequence of tokens issued, the index being the
`jti`; `listed` maps a jti to the expiry of its revocation key; `req` holds the
requests in progress, each waiting at an `await`. Endpoints run synchronously up
to the first await (`Login`, `Refresh`, `Check`, `Logout`), then Redis
(`AskRevoked`, `Revoke`, `RedisFails`) or the database (`ReadRow`) answers, then
`Mint` or `Authenticated` ends the request. Between `ReadRow` and `Mint` a user may be
deactivated and still be given the token; `InactiveGetsNothing` binds only who is
inactive during the whole request, and the next use of such a token reads the row
again. Attempts that are refused before the
first await change nothing and are not steps. The API and Redis are assumed to
share a clock; signatures are not modelled, and a wrong password is a login that
does not happen. The cookie of the refresh token is left out because refresh and
logout read the token from the query string. `create_app` includes only the
health router, so the endpoints are modelled as the routers define them.

### AccessControl

One protected request at a time, between any commits of other sessions: requests
share only tables that no request writes, so a second one adds nothing. Each
query (`CheckRevoked`, `LoadUser`, `LoadAgency`, `LoadClient`) reads the tables
as they are at that moment; `CheckMember` compares what was loaded. The other
sessions (`SetUser`, `SetAgency` with its cascade, `Rename`, `SetClient`,
`Revoke`) are bound by the uniqueness that the schema declares: the slug of an
agency, and (agency, slug) of a client. No code under `src/` writes these tables
yet; the actions stand for the administration they are made for. A slug can pass
from one agency to another in the middle of a request. `held` and `broken` record
which needs have held, or failed to, since the request began. `CheckRole` ends
in an error because of the finding of run `role_check`.

### Schema

`db` is the database: the tables with their columns and foreign keys, the two
extensions, the version. An alembic process is one transaction over all its
revisions (`env.py` does not set `transaction_per_migration`); its operations run
one by one in the order of the revisions. A process that begins reads the version
outside the locks, as alembic does, so two upgrades from the same version meet at
the first table: one waits, then fails on an existing object and rolls back
(`Refused`). `Committed` is what others see, `View` what a transaction sees of it
and of its own work.

Locks are PostgreSQL's. An operation takes them one by one (`Lock`), keeps them to
the end of its transaction, those it holds while it waits for the next included,
and is done (`Execute`) when it has all (`NextLocks`): first the object it names
(the row, for the version); then, for a DROP, the foreign keys of the table and
those of the tables that refer to it; then the tables it refers to, which a CREATE
with a foreign key locks and a DROP of one too. `Fails` looks each thing up where
PostgreSQL does: names before anything is locked and again after a wait, what
still depends on a dropped table only when it is locked, so that a DROP that is
going to be an error may have to wait first.

Migrations can therefore wait in a circle (`Circle`), and TLC reaches such states.
A downgrade begins at 0001; an upgrade to 0002 commits; the downgrade drops
`agency_clients` and so holds `agencies`; a second downgrade, from 0002, drops
`agency_users`, whose foreign key it holds, and waits for `agencies`; the first
comes to `DROP TABLE agencies` and waits for that foreign key. PostgreSQL aborts one
of the two (`Victim`), and that may be the one that did nothing wrong.
`DeadlockOnlyOvertaken` says that this is the only way: each circle holds a
migration that has been overtaken, that is, whose script is no longer one for the
version that others see (`OnCourse`). Migrations that are all on course never
deadlock, although a downgrade takes its tables in the opposite order of an
upgrade. `FailsOnlyOvertaken` says that the revisions fit one another in both
directions: no operation of a migration on course is an error. (Being the victim of
a circle is not an error of the operation.) `MigrationsEnd` includes the circles.

`WholeMigration` is what a reader of the database sees: one version and its tables,
jumping together. Types, most indexes and the offline mode are left out;
nullability, foreign keys and the order of operations are kept, and so is the one
index that needs an extension. A DROP INDEX that goes before its table's DROP locks
that table first, so it is part of it. The row of the version stands for the whole
of `alembic_version`.

### Lifecycle

One process on its event loop. The module globals `_engine`, `_client` (`handle`)
and `_sessionmaker` hold numbered objects; `made` counts them and `open` holds
those not yet disposed of. `get_engine`, `get_redis` and `get_sessionmaker`
initialise lazily and without an await, so `Get` and `Initialize` are part of
every action that calls them. The lifespan is `Start`, `Stop` up to the await of
`dispose`, `Released` for each store (the globals are forgotten only after the
await) and `ReleaseFails`, after which nothing more is released. A coroutine
probes (`Probe`, then two pings one after the other) or serves a request that
holds a session (`OpenSession`, `Statement`, `CloseSession`), before, during and
after a stop, since nothing in the code prevents it. `PoolLimit` is the pool's
size with its overflow. A ping ends with an answer, an error, or
`asyncio.timeout` after `PingTimeout` seconds; `Tick` does not pass an answer or
a timeout that is due.

What is abstracted: creating an engine or a client does not fail (no connection
is made then); who got hold of an engine before its disposal can use it
afterwards, as in SQLAlchemy, whose new pool is not told from the old; the
lifespan that failed is final, as the process then exits. `MaxHandles` bounds the
restarts. Of the lifespan's exceptions only those of the two releases are kept.

### Settings, ContextCompressor, HybridSearch, UnitOfWork

Four parts that share no state with each other; `MCParts` runs one of them per
behaviour.

`Settings` has two fields: `environment`, and `cors_allow_origins` for all that
the YAML files set. A value is named after its writer, so that mixing shows.
`Restart` gives the process other variables, spelled as `os.getenv` wants them or
as only pydantic takes them; `EditDotenv` may come at any moment; `Configure` is
any caller of the cached `get_settings`.

`ContextCompressor` applies `compress` again and again. No code under `src/` calls
it yet, so the caller that keeps the result as its history is assumed;
`SliceIndex` is Python's rule for the bounds of a slice, negative and zero ones
included. Contents are left out but for what the code asks: is it a string? A text
counts as quoted when the summary repeats its first 200 characters; what is left of
it once that summary is summarised in turn is not followed.

`HybridSearch` has one search beside any inserts and deletes. The query is
embedded at one await and executed at the next as one statement, that is on one
snapshot. Similarities are small integers; a row without an embedding has a NULL
score, which DESC puts first; rows of equal score come in any order.

`UnitOfWork` is a handler with its session: `Add` and `Flushed` are `record`, `log`
or the handler's own work, all of which add and flush. A flush or a commit may
fail, SQLAlchemy then rolls back and refuses everything until the handler rolls
back too, and the handler may swallow the exception. No code under `src/`
commits: the handler's commit and rollback are assumed.

## 3. The runs

| Run | Bounds | What it shows |
|---|---|---|
| `router_safety` | real `MODEL_CHAINS` (three models), two coroutines, 2 retries, threshold 4, window 3 s, timeout 2 s, haiku reliable; symmetry of coroutines | `ImplementsBreakers`, `OvershootBound`, `ReliableChainNeverFails`, `WithinBudget` |
| `router_liveness` | two models, two chains in opposite order, two coroutines, nobody reliable, 1 retry, threshold 2, window 2 s, timeout 1 s | `Terminates`, `Recovers` |
| `job_lock` | three workers, Ttl 3, MaxHold 2 | `MutualExclusion`, `DeletesOwnKey`, `KeyFreed`, `ImplementsExclusiveJob` |
| `lock_overrun` (violation) | three workers, Ttl 2, MaxHold 3 | a body that outlives the key runs with another's |
| `auth_tokens` | one user, two requests at a time, lifetimes 2 s, 3 tokens, 3 s | `RevokedUntilLastSecond`, `SessionBounded`, `InactiveGetsNothing` |
| `revoked_refresh` (violation) | the same | a listed refresh token still mints |
| `access_control` | two agencies, three slugs, one client each with the same slug, one user | `OwnTenantOnly`, `AdmissionJustified`, `DenialJustified` |
| `role_check` (violation) | the same | every request of a rightful user ends in an error |
| `schema` | three alembic processes, both revisions | `ModelsFitTables`, `DeadlockOnlyOvertaken`, `FailsOnlyOvertaken`, `MigrationsEnd`, `ImplementsWholeMigration` |
| `migrated_insert` (violation) | two alembic processes, both revisions | no model can be inserted on a migrated database |
| `service_lifecycle` | two coroutines, timeout 2 s, a pool of one connection, two engines at most | `GlobalsAreWhatIsOpen`, `StopReleases`, `ReadyIsFresh`, `UnreadyForAReason`, `ProbeAnswers` |
| `parts` | settings: two components, three environments; compressor: seven pairs of limits, boundary values included, six messages; search: two chunks, two tenants, one client, top_k up to 2, the weights of the code; unit: two handlers, three rows each | `OneConfiguration`, `FileOfTheEnvironment`, `RecentIntact`, `CompressionShrinks`, `OlderTextQuoted`, `SearchStaysInTenant`, `GapBreaksScope`, `AllOrNothing` |

Why the bounds are enough:

* `router_safety`: with the threshold of 4 above the three attempts of a single
  visit, breakers open inside a visit, between visits and by the failures of two
  coroutines together; the window of 3 s is longer than a call and shorter than a
  retried visit, so that windows end with a coroutine still inside. Behaviours
  are not bounded in length; only requests in progress at once are (two).
* `router_liveness`: the threshold equals the attempts of one visit, so every
  failing visit opens a breaker and late failures push its window.
* `job_lock`: with three workers one may hold the key while a second tries and a
  third has a command travelling. `Ttl` is the smallest with room for a body of
  two ticks. With `Ttl = MaxHold` exclusion fails, so the margin is tight.
* `auth_tokens`: `Horizon` is 6 half seconds, past the life of a first token; three
  tokens are a login and a refresh, the shortest chain in which a token descends
  from another. Both lifetimes are 2 s, as short as leaves room for the
  truncation of `logout` to show. The half second allowed by
  `RevokedUntilLastSecond` is needed: without it TLC finds the property violated.
* `access_control`: two agencies and three slugs let a slug be freed, change hands
  and come back; one user and one client per agency give both the rightful and
  the foreign case.
* `schema`: two processes cover each pair of transactions, and a third commits the
  upgrade that overtakes one of them. With three, all kinds of transaction that exist
  (an upgrade, a downgrade to base, one to 0001) are under way at once, stale ones
  among them, so that circles close, and one of three could. (The theorems hold for
  any number.) Nothing is cut off: the 17162 states are all there are.
* `service_lifecycle`: with one connection a request exhausts the pool under a
  probe; a timeout of two seconds leaves room for the first check to grow stale
  while the second waits; with two engines and clients the second is made before,
  during or after the release of the first.
* `parts`: six messages let a history be compressed again, so that summaries are
  summarised; two chunks are a good one and a gap; two handlers interleave, and
  three rows are the work, its entry and one more after a failure. Deadlock is not
  checked in this run: a conversation or a handler at its bound has ended.

Every property of a passing run has a mutant: a plausible error in a mapped
definition (a dropped guard, an off-by-one, a clamp forgotten) that makes TLC
find it violated under the same configuration.

### Fairness

* `ModelRouter!FairSpec`: weak fairness of `Tick` (time passes), of
  `Answer \/ Fail` (a call ends, by its timeout if by nothing else) and of `Wake`
  (the event loop runs what is due). No request has to arrive. `BusySpec` adds
  strong fairness of the arrival of each kind of task, since a breaker is closed
  only by a request that looks at it (`_is_open`); weak fairness would promise
  nothing, because arrivals are disabled again and again by busy coroutines.
* `DistributedLock!FairSpec`: time passes, bodies end and commands are executed or
  lost; nobody has to acquire. `KeyFreed` for a worker that died rests on `Tick`
  alone.
* `Schema!FairSpec`: strong fairness per process, of its next lock, operation, commit,
  error or abort. PostgreSQL queues for locks first in, first out, so that who waits
  is not overtaken for ever by later transactions, and `deadlock_timeout` ends a
  circle. That every member of a circle is treated fairly costs nothing: one abort
  opens it. No process has to begin, and none to crash.
* `Lifecycle!FairSpec`: strong fairness of `Tick`, since time goes on whatever the
  coroutines do (other coroutines disable it again and again by having an answer
  ready, so weak fairness would promise nothing), and of each ping's own steps,
  since the loop runs what is due and the pool's queue is first in, first out. No
  request has to come or to end, and no store to recover: `ProbeAnswers` holds with
  both silent for ever.
* `AuthTokens`, `AccessControl` and the four parts of `MCParts` state safety only
  and assume no fairness.

### Findings

1. `lock_overrun`: `locks.py:3` promises that a job does not run in parallel; the
   key expires after `ttl_seconds`, is never renewed and the body is not bounded.
2. `revoked_refresh`: `security/auth.py:1` and `auth.py:99` call refresh tokens
   revocable; `refresh_token_endpoint` never asks `is_revoked`.
3. `role_check`: `AgencyUser.role` is a `String` column, so the role of a loaded
   row is a `str` without `satisfies`; `require_role` raises `AttributeError`.
4. `migrated_insert`: the revisions create `created_at` and `updated_at` NOT NULL
   without the server default the models rely on.

Some properties of passing runs name what the code does at an edge that a reader
may not expect: `CompressionShrinks` (`keep_recent = 0` makes a history longer),
`OlderTextQuoted` (a message made of parts leaves no trace), `GapBreaksScope` (one
chunk without an embedding makes each search of its scope raise),
`FileOfTheEnvironment` (an environment named in `.env` alone runs with the YAML
file of dev), `UnreadyForAReason` (a full pool makes a healthy database
not_ready). No document of the repository says otherwise.

## 4. What is proved

All for any values of the constants that satisfy the named assumptions.

* `ModelRouterProofs!TypeCorrect`: `TypeOK`, for any chains whose models are
  distinct and any parameters. The work is in `TryFromTyped`, the walk along the
  chain.
* `BreakersAgree`: `BreakerConsistent`, the relation of count and opening that the
  proofs below use (no run lists it: `ImplementsBreakers` says more). The
  invariant is inductive with the types; `RecordFailure` shows that counting and
  opening keep it, and `TryFromAgrees` that the reset of `_is_open` does.
* `FallbackWorks`: `ReliableChainNeverFails`. It is not inductive, as it speaks
  only of calls that ended. `FallbackInv` adds that a reliable model's breaker
  has no failures and is closed, and that a call in progress has passed no
  reliable model of its chain: reaching the chain's end then means that it has
  none.
* `BreakersAreAlone`: `ImplementsBreakers`, and `EachBreaker`, the same as
  `Spec => Breaker(m)!Spec` for each model m. A step of a coroutine meets at most
  two breakers in earnest: a `Fail` of the one it leaves and an `Enter` of the one
  it comes to (`TryFromBreaker`). They are two, as the models of a chain are
  distinct. A breaker that is only passed is open and stays as it is; one that the
  walk resets is entered in the same step, since `_is_open` resets and says no at
  once.
* `NeverGoesBack`: `MovesForward`. Each step of a request brings it further along
  its chain, to a later attempt, from a call to its back-off or nearer the end of
  either, and no other coroutine ever sets it back. That is the safety half of
  `Terminates`; that it does go on is fairness, and TLC's.
* `BudgetKept`: `WithinBudget`, the same with a number, and inductive with the types
  alone. Time is taken by `Tick` only (`SecondPasses`). Between the attempts on a model
  nothing is gained, because the back-off and the next attempt were in the sum
  (`BetweenAttempts`, from `WaitsSum`: `Waits` adds up the back-offs), and what a
  failure skips is given up (`LaterModel`). Products of parameters are nonlinear for
  the provers: `Distributes`, `ProductNat` and `ProductGrows` state the few facts
  needed, and the rest is linear. So a `complete()` that time goes on for is over
  within its budget: the bounded form of `Terminates`.
* `DistributedLockProofs!TypeCorrect`: `TypeOK`, whatever `Ttl` and `MaxHold`.
* `ExclusiveUnlessOverrun`, `DeletesOwnUnlessOverrun`, `RefinesUnlessOverrun`:
  `Spec /\ []InTime` implies `MutualExclusion`, `DeletesOwnKey` and `ExclusiveJob`,
  whatever `Ttl` and `MaxHold`. The inductive `KeyIsMine` says that a worker that
  counts on the key is its owner and that the key's age equals the time the worker
  has held it; while nobody overstays the key is then still alive, so the owner is
  unique. A prefix of a behaviour that goes on by stuttering is a behaviour, so
  each promise holds up to the first overrun. Not after it: the DEL of the one who
  overran removes another's key, and that one then shares the lock in good time.
* `LockExcludes`, `DeletesOwn`, `LockRefinesJob`: the same from `MaxHold < Ttl`,
  which makes `InTime` hold. The code does not enforce it, and `lock_overrun` shows
  what happens without it.
* `KeyIsNeverProlonged`: `NeverProlonged`, with no assumption at all. No command
  gives a key that exists a second more, so it is gone `Ttl` ticks after the SET
  that made it: what is true of `KeyFreed` without fairness.
* `NobodyVisitsOpen` and `ForgetsForAReason`: `OpenModelGetsNoVisitor` and
  `ForgetsOnlyOnProof`. `TryFromVisits` says what the walk may do: bring its coroutine past
  `_is_open`, and reset what it passes. A coroutine that has just recorded a
  failure walks on from breakers that are one failure ahead, but it cannot come
  back to the model it leaves, since the models of a chain are distinct.
* `AccessControlProofs!TenantIsolation`: `OwnTenantOnly`, for any tables. The
  inductive `Resolved` follows the ids along the request: what was loaded is
  compared by id, so the slugs drop out of the argument.
* `AccessControlProofs!TypeCorrect`: types, and the uniqueness of slugs, from
  `Tables`: a free slug is asked for, and no row returns from its deletion.
* `Admission`, `Denial`: both rest on `Observed` (each state of a request has
  been entered in its histories). `Justified` carries each need from the query
  that found it to the role check; `Loaded` says that, while nothing has been
  broken, the agency loaded is the user's own, because the slug has belonged to
  it all along and to no other.
* `AuthTokensProofs!TypeCorrect`, from `Typed`, which adds the places at which
  each endpoint may wait.
* `InactiveRefused`: `InactiveGetsNothing`. The invariant `Activity` speaks of
  every await and not only of the last: whoever is active now has been seen.
* `SessionsEnd`: `SessionBounded`. `Sessions` ties the expiry of every refresh
  token to its login; `RefreshStarts` shows that only tokens of that type are
  taken.
* `RevocationLasts`: `RevokedUntilLastSecond`. `Listing` bounds each key's expiry
  from below by the token's, less the half second that truncation can cost; a TTL
  computed before the SETEX was executed can only be too long.
* `RevocationsExpire`: `ListIsTemporary`, the bound from above. Too long is not for
  ever: no token in hand ever had more than its lifetime left (`Brief`), so no key
  stays for longer than the longest lifetime after it was last set, and the list
  holds no more than what was revoked within that time.
* `OvershootBounded`: `OvershootBound`. An inductive count of failures would have
  to sum over coroutines; instead `Remaining(m)` is the set of pairs (coroutine,
  attempt) that can still fail on an open model, a subset of a product whose
  cardinality is known, and `AttemptsPay` says that each failure beyond the
  threshold has taken one pair out.
* `SchemaProofs`, for any number of alembic processes: `SchemaTyped`,
  `NeverHalfMigrated` (`SchemaMatchesVersion`: at every moment), `MigrationsAreWhole`
  (`ImplementsWholeMigration`: and at every step), `NoDrift` (`ModelsFitTables`), and
  `NoInsertIsEverAccepted`, by which the finding of `migrated_insert` is no accident
  of one table: none accepts its model's insert, in any state. The
  inductive invariant has four parts. `Typed`. `Defined`: each object is absent or
  as its revision defines it. `Consistent`: what others see is
  the image of the version they see. `Progress`: each transaction has done the
  first operations of one of the scripts, holds the locks of what it
  has done, and its objects are as those operations leave them; its first stamp
  has checked that the version found is the one the script starts from. The facts
  about a script are stated per script (`OnceEach`: it writes each object once;
  `Leads`: it leads from the image of one version to that of another), and a
  commit uses nothing else. `OnlyCommitsShow` then says that every other step leaves
  what others see alone, and that a commit shows them the end of its script.
  `NoneAssumption` only says that `None` is no process,
  table or script.
* `SchemaOrderProofs!MigrationsFit`: `FailsOnlyOvertaken`, for any number of alembic
  processes. `OrderInv` adds to the above where each transaction is in its script
  (`Stage`): what it has locked, for what it has done or is doing (`LocksInOrder`),
  in which state it found it (`Found`), which version it has stamped (`Stamped`), and
  that the extensions of 0002 are there for good (`Settled`). `CourseStage` finds the
  place of a transaction in a script for the version that others see. What an
  operation looks at is then either untouched, and as that version leaves it
  (`SeesTheImage`), or its own work (`SeesItsWork`), and for each of the operations of
  the four scripts that is enough to run (`Downgrade1RunsOn`, `Downgrade2RunsOn`,
  `Upgrade2RunsOn`, `UpgradesRunOn`).
* `SchemaOrderProofs!OnlyTheOvertakenDeadlock`: `DeadlockOnlyOvertaken`, for any number
  of alembic processes and any circle of them, from the same invariant. `NextLock`
  says what an operation may still have to lock, and that its name comes first. In a
  circle everybody waits and everybody holds something, and whoever holds something
  holds the first table of its script (`HoldsTheFirst`; for an upgrade from 0001, which
  finds the extensions there and locks none, that is `agency_users`: `HoldsUsers`). While all are on course the version leaves one kind of transaction
  at base and at 0002, which is alone then, and two at 0001, one of each
  (`CircleKinds`). Those two may both lock `agencies` and the version and nothing else
  (`TheyMeet`); each comes to the version last, so they do not wait for each other
  (`TheyPass`).
* `LifecycleProofs`: `TypeCorrect`; `GlobalsSound` (`GlobalsAreWhatIsOpen`), whose
  inductive `Sound` adds that what a stop is releasing is what the global still
  holds, because a lazy initialisation during the await finds a global and makes
  nothing; `StopReleasesAll` (`StopReleases`), from `EngineIsGone`, the half of a
  stop that lies behind; `ReadinessFresh` (`ReadyIsFresh`), from `FreshChecks`,
  which ties the age of an outage to that of a ping whose first check said yes;
  `UnreadyExplained` (`UnreadyForAReason`), from `AllNoted`: each ping has noted
  every trouble that it has been through; `ProbesAreBounded`
  (`ProbeWithinTimeouts`): what is left of a probe is two timeouts at first,
  shrinks by each tick, is never negative and grows in no step, whoever else
  pings, stops or fills the pool. With time going on (fairness, TLC) that is
  `ProbeAnswers`.
* `PartsProofs`, each for its component's own specification: `OneConfigurationHolds`
  (whoever is configured holds what is cached), `FileFitsEnvironment`,
  `RecentSurvives` and `TextIsQuoted` (the invariant `Conversation` numbers the tail
  of a history, for any limits), `HistoryUnbroken` (`Unbroken`: before that tail come
  summaries only, so no message is doubled, lost in the middle or out of place),
  `CompressionFits`, `SearchIsolated`, `GapsBreak`
  (a NULL score comes before all others, so it is within any positive limit),
  `CommitsAreWhole` (a session has flushed all it was asked for whenever it is
  settled; after a failed flush it is not, until a rollback empties both).

All theorems of `AuthTokensProofs` hold without the bounds `Horizon` and
`MaxTokens` being large enough for anything: they are constants like the others.

Only model-checked: liveness (`Terminates`, `Recovers`, `KeyFreed`,
`MigrationsEnd`, `ProbeAnswers`, the fair half of `ImplementsExclusiveJob`), which
needs fairness and is out of the prover's reach. Every other property of a passing
run is also a theorem. In the other direction, `BreakerConsistent`, `MovesForward`,
`OpenModelGetsNoVisitor`, `ForgetsOnlyOnProof`, `ListIsTemporary`, `InTime`,
`NeverProlonged`, `SchemaMatchesVersion`, `InsertsRefused`,
`ProbeWithinTimeouts` and `Unbroken` are stated by theorems and listed in no run;
TLC finds none of them violated under the bounds of the passing run of their module.

## 5. What is not modelled

* Passwords, TOTP and the vault wrap cryptographic libraries; what could go wrong
  in them is inside bcrypt, pyotp and Fernet.
* Logging and tracing are output, without state that anything reads.
* The prompt engine renders a template from its arguments, and `TenantContext` is a
  frozen record whose `merged_config` is one dictionary update: a model would only
  repeat Jinja's and Python's rules. Roles are an order of three values that no
  request reaches (finding 3).
* Celery: the application is configuration and its one task returns a constant. No
  task takes the job lock yet, so there is no redelivery to compose with it; the
  same holds of engines used from `asyncio.run` in a task.
* `_parse_cors` and `safe_dump` of the settings reformat values; the liveness
  endpoint answers a constant; CORS and tracing are assembled once.
* Autogenerated revisions: `env.py` leaves models of two packages out of its
  metadata, but what `alembic revision --autogenerate` writes is a draft outside
  the repository.
* The inside of the embedding provider and of the vector and trigram indexes:
  similarities are given.
* Connections one by one: after a disposal SQLAlchemy gives an engine a new pool
  while old connections are still out; `Lifecycle` counts both in one.
* HTTP itself, cookies and the wording of answers.

## 6. Plan

Done, in this order: ModelRouter, DistributedLock, AuthTokens, AccessControl,
Schema, Lifecycle, the four parts of `MCParts`, a theorem for every safety
property, the abstract specifications `CircuitBreaker` and `WholeMigration` with
the proofs of their refinement, the absence of failures and of
deadlocks of migrations but by being overtaken, and the bounds in seconds of a `complete()`, of a
probe, of a lock's key and of a revocation. Nothing that a run checks and that
the provers can reach is without a theorem. What the next changes of the code
will call for:

1. With the first task that takes `distributed_lock`: Celery's late acknowledgement
   composed with `DistributedLock`, and what a redelivered firing does after the
   key is gone.
2. With the first handler that commits: the handler in place of the assumed one of
   `UnitOfWork`, and its engine from `Lifecycle`.
3. With the first caller of `ContextCompressor` and of `HybridSearch`: the caller in
   place of the assumed one.
4. Once the routers of `api/v1/auth.py` are included in `create_app`: `AuthTokens`
   over the Redis client of `Lifecycle`, whose close may come in the middle of a
   logout.
