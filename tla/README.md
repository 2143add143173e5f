# Formal models of testing-templatev2

TLA+ specifications of the parts of this repository whose correctness depends
on the order in which things happen, the TLC configurations that check them on
small instances, and TLAPS proofs of their main properties for every value of
the constants. Every definition is translated from the source; `PROJECT.json`
names the lines each one stands for (`map`), the runs, the hazards each property
is aimed at, and for every property a mutant of the model that violates it.

    tlc -workers 2 -config RefreshContention.cfg MCRefreshSessions.tla   # a run
    tlapm RefreshSessions_proofs.tla                                     # a proof

Contents: [the system](#1-the-system), [what is modelled](#2-the-models),
[runs](#3-the-runs-and-their-bounds), [fairness](#4-fairness),
[proofs](#5-the-proofs), [findings](#6-disagreements-between-code-and-documents),
[limits](#7-what-is-not-modelled), [plan](#8-plan).

## 1. The system

The repository is two programs in one. It is a Go API foundation (a modular
monolith over PostgreSQL: authentication, readiness, persisted server errors),
and it is a *template*: projects are generated from it, and a scheduled GitHub
workflow with two shell scripts keeps merging later releases into them.

| Component | State | Operations | Hard behaviour | What makes it correct |
|---|---|---|---|---|
| Refresh-token sessions `internal/modules/auth/{service,postgres_repository,controller}.go` | tables `refresh_tokens`, `users` | login issues a token family, refresh rotates its token, logout and detected reuse revoke it | any number of handlers and instances; row locks, READ COMMITTED snapshots, deadlock victims, lost commit replies | one current token per session; a spent token never current again; reuse and logout end the session; every request answered |
| Login rate limit, same files | table `login_attempts`, a transaction-scoped advisory lock | check, record a failure (purge, count, insert), clear after a success | checks without the lock, the handler's time older than its turn, purges that race counts | the limit holds in every window; nobody is refused for failures that a login has cleared |
| Template updates `.github/workflows/template-update.yml`, `scripts/template-update*.sh`, `internal/platform/template`, `cmd/template` | git: the template's history, the project's main branch, update branches and pull requests, `.template/manifest.json` | detect, bootstrap, three-way patch, provenance, push, pull request, merge, update by hand | overlapping runs, merges out of order, two acceptable starting commits, files the project owns, repair of provenance | recorded provenance tells the truth; versions do not go back; application-owned files are kept; breaking and incompatible changes are announced or refused |
| Access tokens and authorization `token.go`, `middleware.go` | none: signed JWTs in cookies | issue, verify, RequireRole / RequirePermission | verified on the signature alone: valid after logout, reuse or deactivation until expiry; claims read before the token is signed; clocks of several instances | access ends a lifetime after its session, user or grant; decisions are the database's, at most a lifetime old |
| CSRF tokens, password hashing `token.go`, `password.go` | none | HMAC double submit, Argon2id | cryptography | tests |
| Admin provisioning `service.go`, `cmd/auth` | `users`, `roles`, `permissions` and their joins | CreateAdmin: upserts in one transaction | two operators at once, each between insert and commit; a lost commit reply, a migration beside it | an account keeps its creator; none is there without its role; who is told "created" is the creator |
| HTTP pipeline `internal/platform/httpserver`, `errstore` | per request: correlation id, status, whether the header is out; table `error_events` | middleware chain, recovery, persistence of 5xx | panics after the header, a second status, persistence under a one-second timeout | one event per 5xx, never a lost status |
| API lifecycle `cmd/api` | listener, pool, signal | start, serve, graceful shutdown | timeout of the shutdown against handlers; deferred close of the pool | nothing is dropped before the timeout |
| Migrations `cmd/migrate`, `internal/platform/migrate`, `migrations/` | schema version and dirty flag (golang-migrate) | up, down by steps, version | instances that start at once, a command beside them, a crash inside a migration, waits without a timeout | a clean version is the schema's; a dirty one stops everybody; no lock outlives its holder |
| Configuration `internal/platform/config` | none | parse, Validate, ValidateAuthRuntime | combinations; three places that decide on authentication | who serves can authenticate, or says that it cannot; production keeps its cookies secure and does not migrate by itself |
| Health, errors, example modules | none | bounded ping, bounded select, constant | none | unit tests |
| Setup script `scripts/setup.sh` | the generated tree | rename, write the manifest | failure half way | git restores the tree |
| Validation scripts, CI, logging | none | linters, output | none | - |

How they interact. Handlers call the service, the service calls the repository,
and components share state only through PostgreSQL: sessions and the rate limit
meet in `Service.Login`, which consults the rate limit first and issues a token
family last; they share no table. Access tokens are issued where a session is
opened or refreshed and never looked up again; the browser's cookie jar is where
replies that overtake each other meet. Migrations and new administrators meet the
running instances in the database: in the row of `schema_migrations`, in
golang-migrate's advisory lock, in the tables a migration may drop. The template updater shares
nothing with the running API; its processes meet in git: a checkout is a
snapshot, a push or a merge is the only thing others see.

Several instances serve one database, and nothing synchronises their clocks:
every handler reads `time.Now()` on its own machine, once (`controller.go:55,77,96`),
and passes that time to every statement. The modules of sessions, clients and the
rate limit therefore have a variable `clock` for the slowest instance and a constant
`MaxSkew`; a handler reads any value of `Readings`, `clock .. clock + MaxSkew`, and one
that arrives later may well read less. Properties about time say what they lose by it.

`PROJECT.json` lists each component with its status and, under `hazards`, the
places where each can go wrong in a way a test would hardly reach.

## 2. The models

### Refresh-token sessions

| Module | Role |
|---|---|
| `TokenFamilies` | abstract specification: a session opens with a login, holds one live token, exchanges it for a fresh one, closes for good |
| `RefreshSessions` | the component: requests, transactions, row locks, snapshots, failures |
| `RefreshRefinement` | the refinement mapping from the second to the first |
| `MCRefreshSessions` | symmetry and the action constraint of the runs |
| `RefreshSessions_proofs`, `RefreshRefinement_proofs` | theorems |

The variables are the tables' columns (`stored`, `used`, `revoked`, `owner`,
`family`, `expires`, `active`), the row locks (`rowLock`, `userLock`) and the
locals of each handler (`pc`, `arg`, `user`, `batch`, `now`). Columns hold what
has committed; a transaction's writes enter them in its commit action.

| Action | Code |
|---|---|
| `BeginLogin`, `CreateRefreshToken` | `Service.Login` once the password is accepted, `issueTokens`; one INSERT whose foreign key waits for a lock on the user |
| `BeginRefresh`, `NoSuchToken`, `LockToken`, `LockUser` | `Service.Refresh`, the `SELECT ... FOR UPDATE` of `RotateRefreshToken`, which joins `users` and so locks both rows, the token's first |
| `DetectReuse`, `LockFamilyRow`, `CommitReuseRevocation` | the reuse branch: an UPDATE of the family in the same transaction |
| `RejectToken`, `Rotate`, `CommitRotation` | the checks, then both writes and the commit |
| `BeginLogout`, `LockFamilyRow`, `CommitLogout` | `RevokeRefreshFamilyByToken`, one UPDATE with its own snapshot |
| `Fail`, `AbortDeadlocked` | an error, a cancelled context or a crash; PostgreSQL's deadlock victim |
| `Arrive`, part of each `Begin` | the handler reads the clock of its instance |
| `SetActive`, `Tick` | environment: an operator's SQL (the code only reads `active` here), time |

PostgreSQL's behaviour is part of the model, as the code relies on it: a
statement sees what had committed when it started; `FOR UPDATE` waits for a
locked row and reads it again; an UPDATE locks the rows its snapshot found one
by one, in an order the plan does not fix; commit publishes the writes and frees
the locks together; a cycle of waits (`Cycle`, a walk from a request back to
itself) loses one member. Tokens stand for their
hashes; a family is named by its first token, because the service draws both at
once and both are fresh.

### Clients and access tokens

`SessionClients` puts a browser before the sessions. It uses `TokenFamilies`
for them (the abstract specification which `RefreshSessions` implements, so a
rotation or a revocation is one step), and states in guards what the store's
locks forbid meanwhile. That they do is `LockShieldsUser`, checked and proved
of `RefreshSessions`: from its checks to its commit a rotation or a reuse
branch has its user, and that user's tokens, to itself. Its own state is what travels: how far each request has
come (`stage`), the refresh token it carries (`token`), the time its handler read
(`now`), the roles and permissions it read (`claims`), the browser's refresh
cookie (`jar`) and one of the access tokens that were signed (`access`).

| Action | Code |
|---|---|
| `BeginLogin`, `FindUser`, `RefuseLogin`, `CreateRefreshToken` | `HandleLogin`, `Service.Login`, `issueTokens`: the user is read, later the token is stored, without another look at `active` |
| `BeginRefresh`, `CheckToken`, `CommitRotation`, `DetectReuse`, `RejectToken` | `HandleRefresh`, `RotateRefreshToken` under the locks on the token and its user |
| `Sign` | `issueTokensWithRefresh`, `IssueAccessToken`, with the time of arrival and the claims read before |
| `BeginLogout`, `ReadFamily`, `CommitLogout` | `HandleLogout`, the UPDATE of the family from its snapshot to its commit |
| `Fail` | any error on the way: 503, and after a logout cleared cookies all the same |
| `Deliver`, `Lose` | `setSessionCookies`, `clearCookies`, or nothing, in any order |
| `Authenticates`, `Authorizes` | `ParseAccessToken`, `RequireAuthentication`; `RequirePermission`, `RequireRole` |
| `SetActive`, `ChangeGrant`, `Tick` | an operator's SQL, time |

`access` holds an arbitrary one of the tokens signed so far, which is as good as
holding all of them: a property of each is checked for every choice. Verifying
needs no action, as it changes nothing; the properties quantify over what any
instance's clock may read. `changedAt`, `closedAt`, `serial` are history.

### Login rate limit

`LoginThrottle` models one (IP, email) key, since every statement names the key.
The state is the table (`attempts`, `at`), the advisory `lock`, and each
handler's `pc`, the `now` it read on arrival and the snapshot `seen` of its
DELETE. `IsLoginRateLimited` is a query without a lock; `LockKey`,
`PurgeAndCount` and `CommitFailure` or `CommitFull` are `RecordLoginFailure`;
`Verify` and `ClearLoginAttempts` are the rest of `Service.Login` up to its
verdict. `Told` is what the caller may hear of a commit that took effect: the
answer, or a 503 when the reply was lost. Three history variables, which only
properties read, remember what became of rows: `purged` has those that a purge
deleted, `cleared` those that a successful login found when it cleared, and
`excused[r]` what had been cleared when request `r` arrived.

### Template updates

`TemplateUpdate` models the template's history (a sequence of commits, each with
the files it touches, whether it is breaking, incompatible or deletes a file,
and the version its manifest declares), the project's `main`, one branch per
version with its pull request, and overlapping runs of the workflow. The content
of a file is the set of template commits merged into it, and whether the project
edited it. That is what the properties tell apart; the text of a file is not.

| Action or operator | Code |
|---|---|
| `Detect` | the workflow's first step: read the manifest, fetch the recorded commit or fall back to the tag of the recorded version, compare with the latest release |
| `Bootstrapped`, `CanBootstrap` | `template-update-bootstrap.sh` and the commit of the manifest after it, which needs a git author |
| `Recorded`, `Accepted` | the checks of `template-update.sh` before it writes: the start is a recorded commit, the target descends from it, the compatibility is the target's, nothing is deleted |
| `Patched`, `Applicable`, `Pristine`, `Patch` | the patch: application-owned files that exist and files already equal to the target are left out; `git apply --3way` surely succeeds on pristine files, may or may not on edited ones, and cannot create a file that is there |
| `Provenance` | `RecordProvenance` in `manifest.go` and the metadata copied from the target |
| `ApplyAndPush`, `OpenPullRequest`, `Fail` | the rest of the workflow. A run's checkout is its own, so what lies between two steps others can see is one action |
| `Merge`, `Close`, `DeleteBranch`, `Customise`, `UpdateByHand` | people, as the workflow's pull request body and `docs/template-maintenance.md` describe them |
| `Init`, `Publish` | what `setup.sh` records when a project is generated; the template's own releases |

Choices to know of in `TemplateUpdate`. A merge is refused when main's manifest is not the one the
branch started from (git conflicts in that file, which every update rewrites) or
when both sides created a file. Otherwise a three-way merge adds what the branch
has. The template's history is one line. A person who runs the updater by hand
after a conflict report makes the same changes by hand: what the model checks
is the updater, not people who record provenance for changes they did not make.

### The API server

`ApiServer` models one process from start to exit, the requests it serves and the
error events they leave. `phase` is how far `run()` has come; `signalled`,
`listener`, `pool` and `exit` are what it shares with the runtime; for each
request there are its `stage`, the reply `net/http` has sent (`wire`), what the
`responseWriter` of the error middleware recorded (`status`) and what became of
its `event`.

| Action | Code |
|---|---|
| `Configure`, `StartupFails`, `Prepare`, `OpenPool` | `main`, the early returns of `run`, startup migrations, `db.Open`, whose ping a signal cancels |
| `Listen`, `ListenerFails`, `ServerFailed` | the goroutine of `ListenAndServe`, its error channel and the select |
| `Signal`, `BeginShutdown`, `DropConnection`, `Drained`, `DrainTimeout` | `signal.NotifyContext`, `server.Shutdown` and its timeout |
| `Return`, `CloseAndExit` | the deferred `pool.Close`, which waits for the connections that are out; `os.Exit` |
| `Accept`, `Receive` | a new connection; a request on it, or on one kept alive |
| `Answer`, `HandlerReturns`, `HandlerPanics`, `WriteHeader`, `Conclude` | `WriteJSON` and `WriteError`, the default status, `Recovery`, `responseWriter`, the end of `ErrorPersistence` |
| `Query`, `Acquire`, `AcquireFails`, `Release` | any query or transaction of a handler: the bounded ping, `PostgresStore.List`, the auth repository |
| `BeginInsert`, `Insert`, `PersistFails` | `PostgresStore.Persist` under its second, `NoopStore` |
| `Crash`, `Restart` | environment |

A handler is any sequence of queries and headers that returns or panics, so the
result covers the application's own routes as well. One assumption goes with
that: no handler asks for a second connection while it holds one, which is so
throughout this repository. Another: a handler writes through the
`responseWriter` it was given. That type has an `Unwrap` (httpserver.go:124-126), so
a handler could flush with `http.NewResponseController`, which sends a 200 past the
record of the status; a panic after that would be recorded as a 500 the client never
saw. No handler of this repository does, but of the routes an application adds, those
that flush in this way are not covered. `http.Server` and `pgxpool` are external, and
modelled by what `run()` relies on.

### Configuration and deployment

`Configuration` is the start of every program as predicates of an environment:
`Parses` and `Config` (the parsers of single settings and their defaults),
`Validate`, `ValidateAuthRuntime`, `LoadsTokenManager`, and `Available`, on which
the handlers decide later whether the service can authenticate anybody.

`SchemaLevels` is the abstract specification: what anybody may rely on who looks
at a database that is being migrated, whether with `cmd/migrate` or psql. The
schema has the first so many migrations; a clean version says how many; a dirty one
is off by at most the one under way, and stays until an operator has looked.

`Deployment` runs any number of programs beside each other on one database: API
instances, `cmd/migrate` and `cmd/auth`. Its state is the row of
`schema_migrations` (`version`, `dirty`), the migrations the schema really has
(`applied`), who created each account (`owner`) and which have their role and its
permission (`granted`), golang-migrate's advisory lock (`lock`), the row of the
administrator role (`roleLock`) and, per program, how far it has come. The rows that
`CreateAdmin` inserts are nobody else's to see until its commit, so they are the
program's `stage` until then. `goal` is history: the version at which a migration
shall be complete, set when it gets the lock.

| Action | Code |
|---|---|
| `StartAPI`, `StartMigrate`, `StartAuth`, `Refuse` | the three `main` functions up to their first statement in the database |
| `Join`, `Version` | `withMigrator` (`WithInstance` takes and frees the lock to create its table); `Version` |
| `Lock`, `FindDirty`, `MarkDirty`, `Run`, `MarkClean`, `Finish` | `m.Up` and `m.Steps(-n)` in `Up` and `Down`: the version is read under the lock, ErrDirty, a migration between two writes of the row, ErrNoChange and steps beyond the first migration |
| `Open`, `Stop` | `db.Open`; the instance serves until it is stopped (`ApiServer` is about what happens in between) |
| `EnsureRole`, `NoTables`, `InsertUser`, `UserExists`, `Grant`, `CommitAdmin` | `CreateAdmin`, a transaction: the upserts of the role, on whose row later runs wait, and of its permission; the INSERT of the user, which waits for an uncommitted one of the same address (`NoneInserts`) and then finds a conflict or not; the rows that grant; the commit, whose reply may be lost |
| `Break` | a lost connection, a failing statement, a killed process, at any point |
| `ForceVersion` | an operator who has looked at a dirty schema; no program does |

golang-migrate and PostgreSQL are external. A migration is one transaction or one
multi-statement query, so it happens as a whole or not at all; the flag and the
migration are separate statements. Dropping the tables waits for a `CreateAdmin`
in progress, and if PostgreSQL takes the two for a deadlock one of them breaks.

## 3. The runs and their bounds

Passing runs, every state explored:

| Run | Properties | What it shows |
|---|---|---|
| `refresh_contention` | TypeOK, OneLiveTokenPerFamily, RotationActsOnCurrentState, ReuseReplyMeansFamilyDead, RevokedUnusedMeansFamilyDead, DeadlockNeedsRevocation, LockShieldsUser | three handlers, two users, no failing connections: rotation, reuse and revocation interleave at every lock and commit |
| `refresh_faults` | ImplementsTokenFamilies, RefreshShortensByAtMostSkew | two handlers on instances whose clocks differ, with broken connections, lost commit replies and time: the store implements the abstract specification, and however often a session is refreshed, its end comes forward by no more than the clocks' difference |
| `refresh_liveness` | EveryRequestIsAnswered | two fair handlers that lock in opposite orders are all answered |
| `session_clients` | TypeOK, AccessEndsWithSession, AccessEndsWithUser, DecisionsAreRecent, SerialClientKeepsSession | a browser with two requests in flight, failing handlers, lost and late replies, operators, skewed clocks: access ends a lifetime after its session, its user or its grant; one request at a time never loses the session |
| `login_throttle` | TypeOK, WindowBound, FailureExcessBounded, SuccessResetsLimit, EveryLoginIsAnswered | two fair handlers of logins on instances whose clocks differ, limit 2, window 2, with failures: the limit holds of every window of the table; with the purged rows it is exceeded by less than the number of handlers, in spans shorter than the window by that difference; nobody is refused for failures that a login had cleared before; everybody who queues for the lock is answered |
| `template_update` | TypeOK, ProvenanceHonest, BreakingIsAnnounced, VersionNeverRegresses, OwnedFilesKept | two overlapping workflow runs, releases or not, merges in any order, edits, updates by hand |
| `api_server` | TypeOK, GracefulExitLosesNothing, EventsTellReplies, EveryRequestEnds, SignalEndsProcess | a process that is signalled, crashes or is restarted at any point, with two requests that compete for one connection: a clean exit has lost nothing, error events tell what clients were sent, nobody waits for ever |
| `deployment` | TypeOK, VersionTruthful, ServingIsConfigured, AccountsAreWhole, DirtyIsLeftAlone, MigratedMeansComplete, OneCreatorPerAccount, ImplementsSchemaLevels, EveryProgramEnds | two programs of any kind at a time, in any of the environments, interrupted anywhere: the version is true or dirty, dirty stops everybody, down has reverted what it was asked to or fails, accounts keep their creator and are never without their role, the whole implements `SchemaLevels`, every program ends |

Violation runs (section 6): `logout_race`, `reuse_deadlock`, `stale_purge`,
`compatibility_gate`.

Bounds, all in guards or constants:

- `Tokens` is finite. `TokensLeft` lets a request that may store a token arrive
  only while one is left for it, so no request that has begun is blocked by the
  bound. Three tokens hold a login and two rotations, the shortest history in
  which a family UPDATE, a reuse and a rotation meet.
  Runs without a property about time keep the clock at 0.
- `MaxSkew` is 1 where a property depends on it (`refresh_faults`, `login_throttle`,
  `session_clients`) and 0 elsewhere; the theorems hold of any. With `RefreshTTL` = 1
  and `MaxTime` = 1, `refresh_faults` has handlers that read 0, 1 or 2 in many orders: a
  session can wander to an instance that is behind at each of its rotations, and a
  token can expire, or not yet, by whose clock reads it.
- Requests are handlers, reused when they have answered, so two or three of them
  serve sequences of any length. Two are enough for every pairwise race; the
  third in `refresh_contention` makes longer cycles of waits and three-way races
  between login, rotation and revocation.
- `RefreshLiveness` cannot use symmetry. Its tokens are numbers and
  `StoreInOrder` stores the least fresh one; the runs it leaves out differ from
  those it keeps by a renaming of tokens.
- `MaxTime`, `MaxRows` bound `LoginThrottle`. `RowsLeft` makes the passwords
  right once no id would be left for one more failure, so again nobody is
  blocked. Two handlers, each used again as soon
  as it has answered, reach the limit and race at every statement. Four rows are
  twice the limit of 2, and what a purge must take too early to break the excess bound.
  With `MaxTime` = 1 and `MaxSkew` = 1 handlers read 0, 1 or 2, in every order in which
  readings go up and some in which they go down: the full window of 2 and its boundary,
  where purge (`<=`) and count (`>`) split, on the fast clock while the slow one still
  is inside it. That `FailureExcessBounded` must shorten the window by the skew shows
  with a single handler and the same limit, where no concurrency makes up for it: of the
  full window it is false. The proofs are for any number. `StalePurge` has one
  clock and time 0..3.
- `MaxCommits` = 3 with `GeneratedBy` = 2: a repository may be generated from a
  head that is ahead of the last tag, and up to two further releases may be in
  flight, the least in which pull requests overlap and are merged in either
  order. `Edits` has the one set {core, routes} and there is one owned and one
  managed file. `Kinds` leaves out "incompatible" in this run, which
  `compatibility_gate` covers, and the latter leaves out the others.
  `MaxLocal` = 1 edited file, of either sort.
- `SessionClients`: three refresh tokens are a login and two rotations, or two
  logins and a rotation; two requests are the least whose replies can overtake each
  other. With `AccessTTL` = 1 and `MaxSkew` = 1, `MaxTime` = 2 reaches the end of the
  period in which a token may outlive its cause, by the skew as well. `MaxChanges`
  = 1 and `MCSpec` (`MCInit`) start with a user who is active and has the grant, and let an
  operator take away one of the two at any moment; the proofs have no such
  restriction. A run that has used up its tokens, its time and its changes can
  still log in and fail, so nothing deadlocks.
- `Deployment`: programs are started again and again, so two of them give every
  pair of programs at every pair of points, after any history. Three hold too, in
  five minutes. `Last` = 2 is the number of migrations of the repository, and
  `MaxSteps` = 3 asks for one more. `MCEnvs` has three typical environments
  (without a database, Compose, production) and all that differ from one of them
  in a setting, each taken from values on both sides of its limits.
- `ApiServer` needs no bound: its states are finitely many. Two requests and one
  connection are the least in which a handler, and its failure to persist, wait
  for someone else's connection; three requests with two connections hold too,
  in a few minutes.
- `CHECK_DEADLOCK FALSE` in the template runs only: a project that is up to
  date with a history that has reached `MaxCommits` has nothing left to do. The
  other passing runs check for deadlock, as a request may always arrive.

Symmetry is used for invariants and safety properties over sets whose members no
definition names; never for liveness.

## 4. Fairness

`RefreshSessions!Fairness` and `LoginThrottle!FairSpec`:

- strong fairness of each request's `Progress`. A handler that can run is
  scheduled by the Go runtime; PostgreSQL grants a row or advisory lock to its
  waiters in turn, so a request whose lock is free again and again gets it, which
  weak fairness would not say. Nothing forces a request to arrive, to fail or to
  be a deadlock victim in particular;
- weak fairness of *some* member of a cycle being aborted: `deadlock_timeout`.

`ApiServer!Fairness`: `run()` is scheduled and its timers fire, so startup, the
select and the shutdown go on; a handler that runs again and again returns in
the end, and a waiter gets its turn at the pool (strong fairness, as both are
interrupted: by queries, and by others that take the connection); a query ends,
with its result or a broken connection (`Release`, `Insert`); persistence gives
up after its second. That queries end is an assumption about PostgreSQL and the
network: `HTTP_SHUTDOWN_TIMEOUT` bounds `server.Shutdown`, but nothing bounds
the `pool.Close` after it, so a query that hung would keep the process.

`Deployment!FairSpec`: strong fairness of each program's `Progress`: a program runs
until it waits for a lock, and PostgreSQL grants locks in turn. Nothing forces a
program to start, an instance to stop, an operator to force a version, or anything
to break. So a program that meets a dirty schema ends with an error rather than
wait, and `EveryProgramEnds` rests on locks being released when their connections
close, as neither `WithInstance` nor the upsert of the role has a timeout of its
own. A statement that hangs is outside this assumption.

`SessionClients` has no liveness property: `refresh_liveness` is about its
handlers, and a browser promises nothing.

`TemplateUpdate` has no liveness property: a run may always fail and people may
never merge, so the code promises none.

## 5. The proofs

Every theorem holds for all values of the constants that satisfy the module's
ASSUME (finite `Requests`, positive lifetimes, limits and windows, sentinels
outside the sets, owned files among the files). Each proof module starts with
its inductive invariant and has one lemma per conjunct, one step per action.

**RefreshSessions** (`InductiveInvariant`, `TypeCorrect`, `RotationIsCurrent`,
`SingleLiveToken`, `ReuseReplyIsFinal`, `RevokedUnusedIsFinal`,
`DeadlocksHaveRevocation`, `UserIsShielded`). None of the safety properties is
inductive: a state where two handlers are both between check and commit for one
family has one live token now and two later. `IInv` adds what the locks protect.
`LocksHeld`: a transaction holds the row of its token, and from `locked` on its
user's row. `RowsConsistent`: a family has one owner. Together they make two
rotations of one family exclude each other, and a rotation exclude a reuse
branch. `BatchesExact`: the snapshot of the reuse branch, taken under the user's
lock, still is the whole family when it commits, as inserting into it needs that
lock. A logout's batch has no such protection, and `IInv` claims only that it
holds rows of the family: `LogoutEndsFamily` is false. `UnusedRevokedDead` says
what is true in its place. A logout may miss the replacement of a concurrent
rotation, but the token it was rotated from is used. A token that is revoked and
unused is one of a dead family, so the code may refuse it without a reuse reply.

`HoldersRun` is the converse of `LocksHeld`: whoever holds a row is in a
transaction, and whoever holds a user's row is past both locks and, unless in the
reuse branch, waits for nothing. A deadlocked request waits for a deadlocked one
(`DeadlockedWaits`, which begins the walk of `Cycle` at its second request); if for
a user's row, then for a reuse branch (`UserLockWait`); if for the row of its token,
then for a family UPDATE or for a request that waits for a user's row. So two waits
lead to a family UPDATE, and no induction over the length of a cycle is needed.
`UserIsShielded` is an action property on the same invariant: every step that
stores or spends a token of a user, or changes `active`, needs the lock on
the user's row.

**RefreshRefinement** (`Refinement`, `ShortensByAtMostSkew`). Under `IInv`, a login is
`Open`, a committed rotation is `Exchange` of the live token, a revocation is
`Close` of a live family or a stutter, and everything else stutters.
`ShortensByAtMostSkew` needs bounds on the clock besides (`ExpiryBounds`): nothing
stored expires later than a lifetime and the skew after the slowest clock, and of a
request that presents a live token, every token of its family expires at most the
skew later than the one it would store. The latter holds when the request arrives, by
the former, and stays so while the presented token is live: only its own rotation
can put a token into its family. The losses of successive refreshes do not add up,
as each new expiry is measured against the slowest clock and not against its predecessor.

**LoginThrottle** (`InductiveInvariant`, `TypeCorrect`, `WindowNeverExceeded`,
`ExcessBounded`, `SuccessResets`).
`LockHeld` and `RoomForRow`: from count to commit the lock is held, only its
holder inserts, others only delete, so what was counted still is an upper bound.
The count takes in every row after the window began, later ones included, which
is why an old `now` does not break `WindowBound` (`EveryWindow`). It does break
the comment in the code (`stale_purge`), and `ExcessBounded` says by how much.
Whoever purges a row of a window read a time after the window (`PurgesExpired`), and
that time was at most the skew ahead of the slowest clock (`ArrivedBefore`). So from
the first such purge on nobody, by whatever clock, arrives in the window less the
skew (`InSpan`). It must be shortened: with an instance one tick ahead that purges a
full window at its end, one that is behind goes on to fill the window's last tick,
which makes almost twice the limit although no two requests overlap.
The rows of the shortened window, purged or not, and the requests that may still add one
(`Late`) are together fewer than the limit plus the number of requests
(`ExcessReserved`): at the first purge because the rows are at most the limit and
the purging request is not late, and from then on because a late request that commits becomes a
row. `RowsReserved` is the bound's
own invariant: an id is left for each pending failure. `SuccessResets` rests on
`ClearedGone`: no row that a login has cleared is in the table, nor does one come
back, as a commit inserts an id that is new. So whoever counts, counts none that was
cleared before it arrived (`RefusedForCause`). The converse is left to chance by the code: a
row that a login clears while it is being counted still counts.

**TemplateUpdate** (`InductiveInvariant`, `TypeCorrect`, `ProvenanceAlwaysHonest`,
`VersionMonotone`, `OwnedStayOwned`, `BreakingAlwaysAnnounced`). `SoundTree`: a checkout's version is a release no later than
its recorded commit, and its managed files hold every template change up to that
commit. A patch from either of the commits the script accepts adds what lies
between it and the target to content that already held all before it
(`PatchHonest`). Runs and pull requests only ever hold sound checkouts, the
version of a branch is at least the one it started from, and a merge takes place
only onto that one. The repair of provenance to the recorded version's tag is
the case that needs "no later than the recorded commit". `Fitting` relates what is in
flight to main, which only grows: main has, of every file but the project's own,
all that precedes the commit a run starts from (`Known`). A branch therefore adds
only what comes after it, and that is where the report looks, even if one run
pushed the branch and another, with a different start, opened the request. What
a branch adds to an owned file was created by it, and is refused by the merge once
main has such a file.

**ApiServer** (`InductiveInvariant`, `TypeCorrect`, `GracefulExit`,
`EventsMatchReplies`). `NothingLeft` is `GracefulExitLosesNothing` made
inductive: from `Drained` on the listener is closed and every connection idle or
gone, so nothing can begin that the exit would kill. `RefusedByClose` adds that
a pool refuses events only once it is closed, which a draining server's is not.
`Recorded` keeps `wire` and `status` equal through every order of headers and
panics, and says how far a request without an event may have come.

**SessionClients** (`TypeCorrect`, `SessionEndsAccess`, `DeactivationEndsAccess`,
`RecentDecisions`, `SerialClientSafe`). The three bounds on access are one argument:
whatever a token says was true when its handler read the clock, or has become false
later, and it is read off after that. `Holding` says which requests hold a token and
that it has a family; `TimesPassed` keeps every recorded time within the clock and
its skew; `ClaimsTrue` says of the claims in a handler that each is the database's
or has changed since the handler's time; `SessionsOpen` that a session on whose
behalf a token may still be signed was open at that time. The signed token inherits
both. That the lifetime begins with the time of *arrival* is what makes it work: a
token signed late has less to live. `Serial` and `OneSession` follow the one request
of a serial client through its stages: the live token is in the jar, or in the
request that will bring it there.

**Deployment** (`InductiveInvariant`, `TypeCorrect`, `VersionAlwaysTruthful`,
`InstancesConfigured`, `DirtyLeftAlone`, `MigratedComplete`, `AccountsWhole`, `CreatorsKept`,
`Refinement`). `StepKinds` sorts the steps once for all lemmas: a step either leaves
the schema, its record and whoever is at work on them alone (`Aside`), or is one of
those under golang-migrate's lock, its loss, or the operator's.
`Working` says for whoever holds the lock, at each of its three stages, what the
row and the schema are: equal to what it has read, or marked dirty around the one
migration. Interrupted between the marks, the flag stays; elsewhere the version is
true. `Aimed` keeps the goal of a migration as far from the version as the steps that
are left, which makes "ok" mean that all of them were taken. `AccountKinds` sorts the
steps for the accounts: migrations, the statements of `CreateAdmin`, and the rest.
`Provisioned` says what a transaction of `CreateAdmin` relies on between its insert and
its commit: the tables stay, because dropping them waits for the row it has locked,
and nobody else creates the account. From it follow `AccountsWhole` and
`CreatorsKept`, whose commit would otherwise overwrite an owner. A creator whose
commit reply is lost is told "failed", and "exists" when he retries: no property
claims that who is told so is someone else. `Configured` follows a setup from `StartAPI`, where `SetupsSound` shows that
no environment whatsoever yields one that serves with a database and cannot
authenticate. `Refinement` maps `Deployment` to `SchemaLevels`, with `working` for a
lock that is held: `Lock` is `Begin`, the two writes of the row and the migration
between them are `Announce`, `Execute` and `Complete`, the lock's return or loss is
`End`, `ForceVersion` is `Resolve`, and the rest stutters. It needs `Working` to know that
the migration executed is the one that was announced.

Only model-checked: the five liveness properties of the runs (liveness and
ENABLED are out of the prover's reach), and the violation runs. Every other
property of a passing run is a theorem.

## 6. Disagreements between code and documents

- `logout_race`. `RevokeRefreshFamilyByToken` (postgres_repository.go:207) does
  not lock the user's row. A refresh that commits after the UPDATE took its
  snapshot leaves a token the UPDATE did not see; the logout answers 204
  ("Session ended", auth.yaml) and the session goes on.
- `reuse_deadlock`. The reuse branch (postgres_repository.go:176) holds its
  token's row and its user's while it locks the others, and can be the victim of a
  deadlock. Its partner may be a plain rotation of the family's live token, which has
  locked that token's row and waits for the user's: the reuse branch rolls back, the
  rotation goes on, and the family is live with a new token. Or it may be a logout, or
  a second reuse branch, that locks in another order, and then does end the family if it
  commits. Either way the reuse has been detected, the caller gets 503 and the
  family stays live, until a spent token is presented again. README.md:111 says "invalidated on reuse".
- `stale_purge`. The comment at postgres_repository.go:98 says concurrent
  instances cannot insert more than the configured number of failures. A request
  that arrived later, but gets the lock first, purges rows that one which still
  waits would have counted; more failures than the limit are then inserted with
  arrival times in one window. `WindowBound`, the same of the rows in the table
  at any time, holds and is proved, and so is `FailureExcessBounded`: with the purged
  rows the limit is exceeded by less than the number of requests at once, in any span
  that is shorter than the window by what the instances' clocks differ. The run has
  one clock; with two clocks a window can be filled almost twice without any concurrency.
- `compatibility_gate`. docs/template-maintenance.md:17 and :30 say incompatible
  changes are refused. The workflow's bootstrap copies the target's
  compatibility into the manifest before the script compares the two, so the
  comparison never fails there and the pull request is opened. The run sets
  `RunnerIdentity`: on a runner whose git has no author the commit of the
  bootstrapped manifest (template-update.yml:154) fails before line 172
  configures one, and updates that change metadata fail altogether.

## 7. What is not modelled

- Cryptography and formats: Argon2id, Ed25519, HMAC, the JWT library, JSON. A
  token is a value nobody else can draw. Of an access token's claims those remain
  that decisions depend on; of cookies, the refresh cookie, which is the only one
  whose loss or age matters to the server.
- CSRF tokens: a request that is refused for one never reaches the service.
- In `Configuration`: the grammar of durations, integers and origins (a setting is
  absent, good, out of bounds or junk), the log level, the directory of the
  migrations; read and idle timeouts are one duration with the others.
- `scripts/setup.sh`: one person, one tree, one pass; git restores it.
- Row locks of `login_attempts`: statements there are atomic at their snapshot
  and their commit. A deadlock between a purge and a clearing would make one of
  them fail, which `Fail` covers.
- The text of patches, reports, titles and releases; dry runs, which change
  nothing; the validation of arguments, whose failure ends the run before it has
  an effect.
- Renames in the template: git shows them as a deletion and an addition, and the
  script refuses deletions.
- In `ApiServer`: the instant in `http.Server.Shutdown` between a connection that
  looks idle and its close, in which a request may arrive; the contents of
  replies and events, correlation ids, CORS and headers; read, write and idle
  timeouts, whose effect on a handler is a query that fails or a reply that
  nobody reads.
- Components listed `not_modelled` in `PROJECT.json`, with the reason there.

## 8. Plan

Done, in this order: `TokenFamilies`, `RefreshSessions`, `RefreshRefinement` and
their proofs; `LoginThrottle`; `TemplateUpdate`; `ApiServer`; `SessionClients`;
`Configuration` and `Deployment`, each with its proofs; then the theorems on
deadlocks and on the user lock's shield, the bound on the excess of failures, and
`SchemaLevels` with its refinement. Left:

1. `SessionClients`: what it assumes of a logout, that of the tokens its UPDATE saw only the
   live one matters, as a theorem about `RefreshSessions`.
2. `TemplateUpdate`: the branch that was pushed but never proposed, as a liveness
   question about the people who must end it.
3. Rows of `refresh_tokens` and `login_attempts` that nobody deletes: no document
   promises a bound, so there is no property to state yet.
