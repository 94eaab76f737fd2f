# Verification of to_do_list

TLA+ models of the to_do_list server (Go, Fiber, PostgreSQL): how it gets from
its configuration to its listeners, what its concurrent requests, its background
cleanup and its shutdown may do to each other, and what a client is told. The
modules are translated from the code under `src/`; documentation is quoted only
where a property says what a document promises.

## The system

| Component | State | Operations | Interacts with |
|---|---|---|---|
| Refresh-token sessions (`usecase/auth_usecase.go`, `repository/postgres/refresh_token_repo.go`) | table `refresh_tokens` (hash, owner, family, expiry, revocation and its reason), `users.credentials_version` | Login/`Create`, `Rotate`, `Revoke`, `RevokeAllForUser`, `DeleteExpired` | user accounts (row lock, version, cascade), cleanup |
| Session cleanup (`usecase/session_cleanup.go`) | a ticker | `Run`, `CleanupOnce` | sessions (multi-row DELETE), lifecycle (context) |
| User accounts (`user_usecase.go`, `user_repo.go`) | table `users` with unique indexes on `lower(username)` and `lower(email)` | register, partial update, delete | sessions (a new password revokes), tasks (cascade) |
| Tasks (`task_usecase.go`, `task_repo.go`) | table `tasks` | create, get, list with paging, partial update, delete, toggle with compare-and-set and retry | users (foreign key) |
| Password hashing (`auth/password`) | a channel of slots | `Hash`, `Verify` | deadlines of use cases |
| Access tokens (`auth/token/jwt.go`, `middleware/auth.go`) | none on the server | `Generate`, `Parse` | every protected route |
| Routes, handlers, error mapping (`httpserver`, `transport/http`) | none | parse, validate, call, translate errors | every use case |
| Process lifecycle (`cmd/server/main.go`, `httpserver/lifecycle.go`) | contexts, two listeners, the pool | migrate, connect, build, bind, serve, `awaitStop`, `Drain`, deferred calls | requests, cleanup, pool |
| Configuration (`config/config.go`) and the tools `dsn`, `hashpw`, `envexec` | `config.yaml`, `.env`, the environment | `LoadFrom`, `validate`, `DatabaseURL`, `PasswordHashingCost`, `CommandEnvironment` | lifecycle; the tools must see what the server sees |
| Observability (`observability/metrics.go`, `middleware/metrics.go`, `logging.go`) and health probes | counters, a gauge of requests in flight, the access log | `Metrics`, `RequestLogger`, outcomes of login, register, refresh; `ReadyHandler` | every request, the error handler |
| Data transfer objects, deployment | none | | |

What is hard in it:

- transactions of several statements at READ COMMITTED: what a statement saw may
  be out of date when the next one runs, and a multi-row UPDATE works on its
  snapshot;
- decisions taken on a copy: a password verified against a row read before
  bcrypt, a status read before it is advanced, claims of an access token whose
  user is gone;
- failure in between: rollback on errors and timeouts, a COMMIT whose answer is
  lost, a crash;
- locks in opposite orders (cleanup and revocation, exchanged names);
- time: tokens that expire while a statement waits, retention of spent tokens;
- start and stop: a start that fails half way, signals at any moment, failing
  listeners, a grace period, contexts and the pool;
- three sources for each setting, read by four programs;
- a record of each answer that is written before the answer exists.

`PROJECT.json` lists the hazards by line with the properties that cover them.

## Modules

| Module | Models | In the code |
|---|---|---|
| `Sessions` | the abstract specification: each session operation is one atomic step on `users` and `refresh_tokens` | what `Create`, `Rotate`, ... promise |
| `SessionTx` | the same operations statement by statement, with row locks, snapshots, uncommitted writes, aborts, lost commit answers and the cleanup goroutine; EXTENDS `Sessions` and implements it | `refresh_token_repo.go`, `UpdateAndRevokeSessions`, `Delete`, `CleanupOnce` |
| `Accounts` | registration, partial updates and deletions against two unique indexes | `user_usecase.go`, `user_repo.go`, `register` |
| `TaskBoard` | the abstract specification: a board on which each request takes effect at one moment or not at all | what `TaskUseCase` promises |
| `Tasks` | creation, reading, lists, update, deletion and the toggle loop, statement by statement; implements `TaskBoard` | `task_usecase.go`, `task_repo.go`, `task_handler.go`, `params.go` |
| `Hasher` | the semaphore in front of bcrypt | `password.go` |
| `Config` | reading, precedence, parsing and validation of the settings, and what the tools read (no state) | `config.go`, `cmd/envexec`, `cmd/dsn`, `cmd/hashpw` |
| `Lifecycle` | from the configuration, or a start that fails, to the exit of the process; EXTENDS `Config` | `main.go` (`main`, `run`, `startAPI`, `awaitStop`), `lifecycle.go`, `session_cleanup.go` (`Run`) |
| `Gateway` | route by route: limiter, token check, parsing, validation, the use case's outcome, the way back through metrics and access log, the translation of errors to status, code and message; probes, panics, unknown paths | `server.go`, handlers, middleware, `errors.go`, `jwt.go`, `health.go` |
| `*MC` | inputs, seeds and symmetry sets of the runs | |
| `*_proofs` | theorems about the module they are named after; `SessionTx_proofs` EXTENDS `Sessions_proofs`, and `Lifecycle_proofs` holds those about `Config` | |

**State and actions.** In `Sessions`, `tok[t]` is a row of `refresh_tokens`: `st`
joins `revoked_at` and `revoked_reason` ("live" is NULL; "legacy" is a row
revoked before the reason column existed), `fam` is `family_id`, and `ver` is
history (the version the session was opened under). `row[u]` and `uver[u]` are
the `users` row. In `SessionTx`, `pc[p]` is the next statement of the
transaction of handler `p`; the committed tables are those of `Sessions`, so the
refinement mapping is the identity on them, and `wset[p]` and `new[p]` hold what
is written and not committed. `Lookup`, `LockUser`, `Consume`, `Insert`,
`Commit` are the statements of `Rotate`; `Inspect` is `handleUnusable`; `Scan`
and `WriteRow` are a multi-row statement, which takes its snapshot first and
then visits rows one at a time in any order. A password change may ask for a
name or an email as well: `want[p]` is the account that has or gets it, and
`Index` waits for the transactions that have not decided on it yet (`Undecided`),
while the users row stays locked. What the index then says, and its order, is
the matter of `Accounts`. `Reuse` of `Sessions` asks, as `handleUnusable` does,
for a family that was alive when the token was presented. `Abort` stands for every error,
the deadline and a crash of the process (all of its transactions abort).

In `Accounts`, a row version is first `pend[p]`, then enters the indexes one
after the other (waiting for a transaction in flight with the same key), then
commits. A name or an email is a key and a style (plain, capital, padded), so
that `normalizeUsername` and `lower()` really do something. `want` is history:
the row that the committed edits should have produced.

In `Tasks`, `pc[p]` is the next repository call of a handler, each of which is
one statement; `seen[p]` is the status that a toggle has read, `page[p]` the
total and the number of rows of a list. Two variables are history: `moved[p]`,
the changes by others that a toggle has met, and `page[p].stale`, whether the
rows that a list matches changed after they were counted. `Board` maps the
stored rows to the board of `TaskBoard`; requests and answers are the same
variables, and all steps without effect stutter.

In `Config`, a text is the kind that the parsers tell apart (an integer, a
duration, a boolean, a well-formed text with its length, any other) and its
value. `Lookup` is the precedence of the three sources for one setting,
`Problem` what the typed getters refuse, `validate` the rules between settings.

In `Lifecycle`, `main` is the program counter of `main` and `run`: load,
migrate, connect, build, bindMetrics, bindApi (stopMetrics after a busy port),
select, drain, draining, collect, stopCleanup, waitCleanup, closePool, exited. A
failure goes on at the first deferred call that is registered by then. Each
listener has a state and the one-element channel it reports on; a request is
running, in a query, done or dropped; `pool.Close` first refuses, then waits
for, connections. `missed` is history: the drain came before fiber knew its
listener. `Narrow` is the conversion of the connection counts to `int32`, with
`ConnBits` for its width; a pool that comes out with less than one connection is
refused (`HasRoom`).

In `Gateway`, `rest` is the list of stages a request still has to pass. An error
is the set of sentinels that `errors.Is` finds in it, the status of a
`*fiber.Error` and whether it is a validator's. `Unwind` is the way back:
`rec` gets what `Metrics` and `RequestLogger` record, from the error, and only
then does the error handler make `ans` of it and log a failure of its own
(`rec.levels` are the levels of all lines about the request). `Unread` is a
request that fiber cannot read (400, 408, 413, 431, 502): the error handler gets
it without the middleware. A 429 carries the Retry-After that fiber's limiter has
set, a 503 that of the error handler. `resp` is the status of the
response until then, `gauge` the requests in flight, `outcome` what the use case
has counted.

**External parts**, modelled from how `src/` uses them: PostgreSQL (row locks FOR
UPDATE and FOR SHARE, READ COMMITTED snapshots and re-checks, unique indexes that
wait for undecided transactions, cascades, the deadlock detector), pgx's pool,
fiber's listeners and limiter, bcrypt, the clock. There is one clock: a skew
between the server's clock and the database's is not modelled. Signatures and
random tokens are perfect.

## Runs

| Run | Checks | Bounds |
|---|---|---|
| `sessions` | the safety invariants and action properties of the atomic operations (types: `TxTypeOK`, and theorem `SessionTypes`) | 2 users, 3 tokens (one legacy), clock 0..3 with TTL 1 and retention 1 |
| `session_tx` | two handlers with login, refresh and password change (with or without another's name) in any interleaving implement `Sessions`, hence keep all that `sessions` checks; requests deadlock with each other only over names | 2 users, 3 tokens, no clock; 955,175 states |
| `session_tx_expiry` | verdicts on refused tokens, and the refinement (retention included), while tokens expire, sessions are opened and logged out, the owner is deleted and the cleanup runs | 2 requests, 1 user, 2 tokens (one legacy), clock 0..2; 1,605,156 states |
| `session_tx_live` | a request and the cleanup are answered although they deadlock | 1 request and the cleanup, 2 tokens |
| `tx_logout`, `tx_retry` | violations, see below | |
| `accounts` | unique keys, the admin's name, no lost edit, rights | 2 requests, 2 accounts and one more id, 6 edits, 4 registrations; 851,007 states |
| `accounts_live` | exchanged names and a registration in their way: all are answered | 2 requests |
| `tasks` | the statements implement `TaskBoard` (no toggle or edit lost or doubled, true "not found"); give-up only under contention, owners, pages that add up | 2 requests, 2 users, 2 tasks, 2 attempts, pages of 1 row; 2,197,391 states |
| `hasher` | no slot is lost, every call returns | 3 callers, 2 slots |
| `lifecycle` | the tools agree with the server on every setting, the pool and the contexts outlive requests, every exit is clean and truthful, the process exits | 1251 configurations, `int32` with 4 bits, 2 requests, 2 listeners; 52,143 states |
| `gateway` | status, code, message and retry of every answer, the record of it in the metrics; protected use cases run only for genuine tokens | every route, the probes, unknown paths and methods, requests that cannot be read, 7 tokens from elsewhere, clock 0..2; 1,441,378 states |

**Why the bounds are enough.** Every property of the sessions is about one user or
one family: a rotation needs a spent token and its successor, a race needs a
third one, and one password change or deletion. Two processes suffice for every
pairwise race of statements; the cleanup is a third one in every run of
`SessionTx`. The clock reaches the state after retention. Two users are needed for names
only; two password changes that exchange names are the deadlock that
`RequestsDeadlockOverNames` leaves. "logoutall", which only tests call, is in
`sessions` and in the proofs. In `accounts`, two
accounts and a third id let each ask for what another has, in another case, and
one input stands for each reason to refuse. Two attempts of a toggle show both
the retry and the give-up (the code has 50 of the same), and with pages of one
row two tasks make a second page. The configurations of `lifecycle` start from a
complete one: for one setting of each kind, every combination of good, bad,
empty and missing texts in the three sources; for each pair of settings that
`validate` relates, values on both sides of the limit; numbers on both sides
of what `Narrow` can hold; and each way in which a file cannot be read. The rest of a life depends on the settings only through
`RUN_MIGRATIONS`, the size of the pool, the metrics address and what `NewService` and `NewHasher`
check, and `cfg` is forgotten afterwards. `Gateway`
handles one request at a time because handlers share only what the other
modules model; the foreign tokens each differ in one field from a valid one.
Deadlock checking is off where a bound (tokens, ids, the clock) or the exit of
the process ends the behaviour, and on in `gateway`.

**What the two violations show.** `tx_logout`: `docs/openapi.yaml` says that a
logout "ends the session the refresh token belongs to", and accepts a revoked
token because "the requested state is reached either way". If the token was
rotated, by the same client's concurrent refresh, the logout succeeds and the
successor stays live. `tx_retry`: a 503 is documented as "safe to retry". If the
deadline passes while COMMIT is on its way, the rotation took effect, and the
retry presents a spent token: a reuse, which ends every session of the user.

Smaller differences are visible in the models without a run of their own. Two
are between the code and the repository's README. It says that timeouts are
logged as warnings and not "at the same log level as a crash" (`README.md:297`);
the error handler does so (`ErrorHandlerLog`), but the line of `RequestLogger` has
its level from the status, and a 503 is "error" (`LogLevel`). It says that a
request which matched no route is labelled "unmatched" (`README.md:624`); without
a valid token an unknown path below `/api/v1` stops at the token check, and is
counted as a 401 of the route `/api/v1` (`Route`, `routeLabel`). `MetricsAgree`
therefore claims nothing about log levels, and of the label only that no request
with a route is "unmatched".
`awaitStop` discards the error of a listener that fails after the signal was
taken, although its comment says that a listener failure takes precedence over a
drain error. And a login whose user is deleted after the password check is
answered with 404 (`Translate`, cause "user gone"), although the API description
has 401 for an unknown user. A task created with the access token of a deleted
user meets the foreign key and is a 500 (cause "no owner"). `validate` accepts
any positive bcrypt cost while `NewHasher` wants 4 to 31, so a configuration can
be accepted and fail after the migrations (`Build`). A signal between the bind
and the moment fiber knows its listener (`main.go:235`) makes a drain that finds
nothing to stop: `ShutdownWithContext` returns nil, the API then starts to serve
and `<-stops.serve` waits for it; `missed` names these behaviours, and
`NoEarlyCancel`, `CleanExitIsTrue` and `ProcessExits` exclude them. A
connection count of 2^32 + 1 passes `validate` and gives a pool of one, one of
2^31 passes and fails in `NewPool`, after the migrations. `hashpw` does not read `.env` itself; it sees the
server's cost because the Makefile runs it under `envexec`.

## Fairness

- `SessionTx`, `Accounts`: a handler keeps running (weak fairness of its local
  steps); a lock that is free again and again is handed to each waiter, because
  PostgreSQL's lock queues are first in, first out (strong fairness of the
  statements that lock); the deadlock detector runs (weak fairness of `Victim`).
  No deadline is assumed to pass and no client to call.
- `Hasher`: goroutines run and bcrypt ends; senders waiting on a Go channel are
  queued, so strong fairness of `Acquire`.
- `Lifecycle`: goroutines run, migrations and pings end, the goroutine of
  `serveAPI` reaches fiber's listener, the grace timer fires, a query ends once its
  context is cancelled, and `select` chooses fairly between the ticker and the
  cancelled context. A handler may never return.

Liveness is checked without symmetry.

## Proofs

Every invariant and every action property that a run checks, and both
refinements, are theorems: they hold for all sets of users, tokens, tasks and
handlers, all durations, numbers of attempts and page sizes, all contents of the
configuration, and so on. The runs check the same formulas on small instances;
each inductive invariant below was model-checked with the constants of its run
before it was proved.

| Module | Theorems (property) | Inductive invariant |
|---|---|---|
| `Sessions_proofs` | `SessionTypes`, `AtMostOneLive` (`OneLivePerFamily`), `SessionsAreCurrent` (`LiveSessionIsCurrent`), `ReasonsAreFinal` (`RevocationReasonIsFinal`), `EndedStaysEnded` (`EndedFamilyStaysEnded`), `RowsAreKept` (`RowsKeptForRetention`), `FamiliesHold` | `SessionInv`, `FamilyInv` |
| `SessionTx_proofs` | `TxTypes` (`TxTypeOK`), `TxImplementsSessions` (`ImplementsSessions`), `DeadlocksAreOverNames` (`RequestsDeadlockOverNames`), `UnusableIsDeadCode` (`UnusableIsExplained`), `RefusalIsFinal` (`RefusalEndsFamily`) | `TxInv`, `RefusalInv` |
| `Accounts_proofs` | `AccountTypes`, `NamesAreUnique` (`KeysUnique`), `LoginFindsItsAccount` (`EveryAccountCanLogIn`), `EditsAreNotLost` (`NoLostEdit`), `OnlyAuthorizedChanges` (`OnlySelfOrAdmin`) | `AccountInv` |
| `Tasks_proofs` | `TaskTypes`, `NoOrphans` (`TasksHaveOwners`), `ToggleGivesUpForAReason` (`GiveUpOnlyUnderContention`), `PagesAddUp` (`PageAddsUp`), `TasksImplementBoard` (`ImplementsBoard`) | `TaskInv` |
| `Hasher_proofs` | `HasherTypes`, `SlotsAreBalanced` (`NoSlotLeaks`) | the two together |
| `Lifecycle_proofs` | `LifecycleTypes`, `ReadersOfConfigAgree` (`ToolsAgree`), `PoolIsClosedLast` (`PoolOutlivesRequests`), `GraceIsGiven` (`NoEarlyCancel`), `CleanExitHolds` (`CleanExitIsTrue`) | `LifeInv` |
| `Gateway_proofs` | `GatewayTypes`, `StatusIsFair` (`StatusTellsWhoseFault`), `CodesFit` (`CodeMatchesStatus`), `FailuresAreOpaque` (`FailuresTellNothing`), `MetricsHold` (`MetricsAgree`), `ClaimsHold` (`ClaimsAreGenuine`) | `GateInv` |

**Assumptions.** The proofs use the named assumptions of the modules and nothing
else; TLC evaluates them in the runs. Most only type the constants or tell `None`
and the admin from the users. Those with content: `Seed` (of `Accounts`) is a
table that satisfies the unique indexes and has no account with the admin's name;
the pool of task ids is finite, as `COUNT(*)` is a number (`TasksAssumption`);
the default page size is at most the maximal one, which `config.validate` makes
sure of; the texts in the three sources are of the kinds that the parsers tell
apart (`LifecycleAssumption`); and no foreign token has the algorithm, secret,
issuer, an expiry and a valid identity at once (`UnforgeableAssumption` of
`Gateway`): whoever has all of these has the server's secret.

**Sessions.** `SessionInv == TypeOK /\ RowShape /\ OneLivePerFamily /\
LiveSessionIsCurrent`. The two safety properties are not inductive alone. A
rotation hands out a token of the presented token's family, so "one live token"
needs that a token which was never issued belongs to no family, and a login needs
that the family named by its fresh token is empty. A deletion or a replay looks
up `tok[t].own`, so every row that was ever stored must have an owner among
`Users`. `RowShape` says this: a hash that was never issued has no family; any
other has an owner, and its family is named by a token that was issued too.
`MarkKeepsInv` treats the operations that mark rows (`Logout`, `LogoutAll`,
`Reuse`, `ChangePassword`, `DeleteUser`, `Sweep`), `LoginKeepsInv` and
`RotateKeepsInv` the others, and `NextInv` has one step per action.

The three action properties follow from what one step may do to one row
(`RowStep`): keep its state and family, revoke it if it is live, remove it if
its owner is deleted or its retention is over (`Due`), or issue an unused hash
as the first token of a family or as the successor of a live token. `FamilyInv`
adds that the tokens of a family have one owner and that a family which was
ended by anything but a rotation has no live token.

**Statements of sessions.** `TxInv` says, for each transaction, which statements
belong to its operation (`Shape`) and what it knows of the committed tables while
it holds its locks (`Facts`): the version that a login has compared is the
current one, the token that a rotation has spent is live until it commits, the
write set of a password change together with the rows it has still to visit
covers every live token of the user. For two transactions (`Apart`): users
locks exclude each other unless both are shared, write sets are disjoint, and
fresh hashes differ. `Facts` is what a commit needs to be one step of
`Sessions`: without "the covered rows are still all the live rows" a session
created while the UPDATE runs would survive it, and only the users lock keeps
it out. `Aged` is what a step of one transaction may do to the rows of another
one; the proofs that steps do not disturb other transactions are about it alone.
Then every statement but a commit (and a logout, which commits by itself) leaves
the tables alone, a stutter of `Sessions`, and a commit is one of its operations
(`TxImplementsSessions`).

`RequestsDeadlockOverNames` follows from the order of locks: a request that waits
for a users row, or a logout that waits for its token, holds nothing yet, and the
token rows that a request wants later belong to the user it has locked, so no
other request has them. So whoever is waited for by a request, and waits for one
itself, waits for a name (`WaitedForHolds`, `HolderDoesNotWait`). For `RefusalEndsFamily`, `Over(t)` says that no token of the family is
usable *and no refresh is about to add one*; the second half is what makes it
stable, and it holds when the refusal is given because the verdict is reached
under the users lock.

**Accounts.** Unique keys among committed rows are not inductive: two pending
versions with one key would break them at commit. `KeyIsFree` and `KeyIsMine` say
what an index entry means before the commit: no other account and no other
transaction in flight has that key. They are kept because `Index` waits for an
undecided transaction with the key and refuses one that an account has. `Version`
says that the pending version of an update is the edit applied to the row *as it
still is*, which holds because the row is locked (`Apart`) and gives
`NoLostEdit`; `Shape` carries the checks of the use cases (fields, reserved names,
rights) from the beginning of a request to its commit.

**Tasks.** `Facts` counts for the toggle: a handler has met at least as many
changes by others as it has made attempts, and one more if the status it has
read, or the row it is to classify, was overtaken; with `tries < MaxAttempts`
this gives the reason for giving up. For a list, the total is the number of
matching rows until one of them changes. `TasksImplementBoard` maps the stored
rows to the board. A read, an insert, an update, a deletion and a successful
compare-and-set are steps of `TaskBoard`, and so is an answer that was decided by
a read; everything else stutters. The deletion needs that a task which has been
found to be the caller's is still the caller's if it is there at all (an id is
never used again).

**Hashing.** The cardinality of the set of hashing callers changes by one exactly
where the channel does; this needs a finite set of callers.

**Lifecycle.** `LifeInv` says for each place in `main` and `run` what is left to
read (`Configured`), which resources exist (`Resources`), what is to be
returned (`Results`), who can have been served (`Served`) and what an answer of
the drain means for the requests (`Drains`). It connects facts that the code
establishes far from each other: a pool that is closed means that `awaitStop` has
drained, and the context of requests is live exactly until then. `ToolsAgree`
is about `Config`, for every content of the three sources:
`SameValueUnderEnvexec` shows that the merge of `CommandEnvironment` does not
change what `lookup` finds for any setting.

**Gateway.** The stages of every route are among those that its endpoint allows
(`StagesAllowed`), so until the last stage nothing has happened to a request
(`Tracks`). `Explained` relates the cause to the error that the handlers
return, for all causes of all routes (`CausesKnown`, `TranslatedErrors`,
`CountedOutcomes`), and `KnownAnswers` says what `StatusFor` and `CodeFor` make
of each such error. `Replied` says that answer and record are those of the error,
`Routed` which requests have the router's 404. Every step of a stage either
forwards the request or stops it (`Forward`, `Stop`).

**Only model-checked.** The four liveness properties (`EveryRequestAnswered` of
`SessionTx` and of `Accounts`, `EveryCallReturns`, `ProcessExits`): the prover
does not do fairness. That `tx_logout` and `tx_retry` are violated is shown by
TLC's counterexamples.

## Not modelled

- Reads of users and sessions (`Get`, `List` of users, `GetByHash` outside a
  rotation): they change nothing, and the task list has the same two statements.
  The order of the rows of a page.
- What pgxpool does with a minimum of connections that is negative after its
  conversion to `int32` (it opens none), and with fewer connections than asked.
- A unique index that a password change waits for is one in `SessionTx` and two,
  in their order, in `Accounts`; renames without a password and registrations are
  in `Accounts` alone.
- The check of a task's foreign key and the cascade are atomic in `Tasks`: that
  they exclude each other is PostgreSQL's matter.
- The conflict that a unique index reports, and the comparisons of `validate` one
  by one, are the guards of `Index`, `Related` and `NewHasher`; no property repeats
  them.
- Metrics without a decision behind them: pool statistics, latencies, counters
  of revoked and cleaned sessions; several requests at once on the gauge (it is
  an atomic counter, and `Gateway` handles one request at a time); the wording
  of logs.
- Data transfer objects and deployment files: no state and no decision.
- The limiter's counting (fiber's): `Gateway` lets it refuse at any time.
- `RevokeAllForUser` is modelled ("logoutall") although only tests call it.

## Plan

1. Sessions: `Sessions`, `SessionTx`, first theorems. Done.
2. Accounts, tasks, hashing, shutdown, gateway. Done.
3. Start-up and its failure paths, the signal before serving: `Lifecycle`. Done.
4. Precedence of sources and validation of the configuration: `Config`. Done.
5. `TaskBoard` and its implementation by `Tasks`; lists; metrics, access log and
   probes in `Gateway`. Done.
6. Action properties of `Sessions` as theorems. Done.
7. `SessionTx_proofs`: the lock invariant and with it `TxSpec => Spec`. Done.
8. `Tasks_proofs`: the invariants and the refinement of `TaskBoard`. Done.
9. Theorems about `Hasher`, `Accounts`, `Lifecycle` with `Config`, and `Gateway`.
   Done.
10. Next: theorems about what is only said in comments so far, such as that a
    request's answer does not change once it is given and that a session opened
    by a login whose commit answer was lost ends with the next password change;
    and a shorter `TxInv`, if one is enough.
