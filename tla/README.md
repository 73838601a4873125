# HaoHaoAccounting: TLA+ models, model checking and proofs

This directory models HaoHaoAccounting: a Go HTTP service over PostgreSQL and
Redis, its migration command, and the sessions and lists of its web and mobile
clients. Every definition is
translated from the source; `PROJECT.json` ("map") names the lines. A model
keeps all control (order of statements, guards, early returns, error paths) and
abstracts data to what the properties tell apart: an amount is a small number of
cents, a report is the vector of data versions its queries read, a token is its
user and its second of issue.

Run a check with `tlc -config X.cfg M`, a proof with `tlapm M.tla`.

## 1. The system

| Part | Code (under `src/`) | State | Operations | Talks to |
|---|---|---|---|---|
| Ledger: transactions, accounts, categories | `backend/internal/modules/{transactions,accounts,categories}` | tables `transactions`, `accounts` (`balance_cents`), `categories` | create (one, many), update, delete of each; lists | PostgreSQL; invalidates the report cache |
| Report cache | `modules/reports`, `modules/transactions/cache.go`, `cache/redis.go` | Redis entries with a TTL; summary tables | `Summary` (look up, compute, store), `InvalidateUser` (SCAN and DEL by prefix) | PostgreSQL, Redis |
| Imports | `modules/dataio` | `import_jobs` rows; one goroutine per job | preview, import, start and poll a job | ledger (`CreateManyWithDB`), find-or-create of names |
| Export | `modules/dataio/export.go` | none | CSV, XLSX | reads the ledger |
| Sessions | `modules/auth`, `middleware/auth.go` | `users`; revoked tokens in Redis | login, me, refresh, logout, bootstrap admin | PostgreSQL, Redis, limiter |
| Login limiter | `modules/auth/rate_limiter.go` | a map in memory, under a mutex | Allow, RetryAfter, RecordFailure, RecordSuccess | - |
| Budgets | `modules/budgets` | table `budgets` | create, update, delete, progress | ledger tables, report cache |
| Store | `store/store.go` | connection, seeds | Transaction, EnsureDefaultData, find-or-create | PostgreSQL |
| Migrations | `cmd/dbmigrate`, `migrations/` | schema, versions table | apply, split statements | PostgreSQL |
| Server | `cmd/server/main.go`, `app/router.go` | lifecycle | start, ready, shut down | everything |
| Middleware | `middleware/`, `httputil/` | none | timeout, recovery, content negotiation, errors | - |
| Configuration | `config/` | none | load and validate | environment |
| AI text parser | `modules/ai`, `services/ai_parser.go` | cache of parsed texts | parse | Redis, an HTTP service |
| Helpers | `shared/{money,timeutil,queryutil}` | none | rounding, ranges, paging | - |
| Web and mobile clients | `web/`, `mobile/` | stored token, loaded lists | sign in and out, load, edit | the API |
| API type generator | `scripts/` | none | text generation | - |

How they interact: each request is a goroutine. The handlers share PostgreSQL
(READ COMMITTED, one database transaction per posting), Redis, and in one process
the limiter's map. Import jobs are goroutines that outlive their request. A
client holds a token and copies of what it loaded.

What is hard about each part, and what makes it correct:

- **Ledger.** Two requests interleave between SQL statements. `Update` and
  `Delete` load a row *before* their transaction begins; deletes of accounts and
  categories count uses in one statement and delete in the next; two balance
  updates may deadlock. Correct means: a balance moves by exactly what changed
  in the history, rows refer to what exists, a request that fails leaves nothing.
- **Report cache.** Reads and sweeps of the cache overlap commits; SCAN is
  incremental; the error of an invalidation is dropped. Correct means: a sweep
  that went through leaves nothing old, and staleness is bounded in any case.
- **Imports.** Jobs may crash, be retried, overlap. Correct means: the job row
  tells the truth about the ledger, and a retry records nothing twice.
- **Sessions and limiter.** Checks, revocations and time interleave with slow
  calls. Correct means: a revoked token stays out, a refusal has cause, guesses
  are bounded although the limiter's operations are separate critical sections.

- **Start and stop.** Every start looks for what is missing and creates it in
  other statements, several processes share one database, each may stop anywhere.
  Correct means: a start fails only beside another one, what it leaves half done
  the next one repairs, and every server comes to serve.
- **Configuration.** Each variable is read by one table of rules and checked by
  another. Correct means: what somebody wrote is used as written or refused.
- **Middleware.** A request can be refused on the way down, time out or panic
  anywhere. Correct means: one answer, with its headers, counted as what it was.
- **Budgets and summaries.** No transaction and no foreign key. Correct means: a
  stored row shows what its writer checked or read at one moment.
- **Clients.** Answers come late, in any order, or not at all, to tabs that share one
  token. Correct means: a live session ends for a cause, a page shows the list it
  says, and nothing waits for ever but for the body of an answer that has begun.

`PROJECT.json` ("hazards") lists each hazard at its line with the properties
that cover it or the reason why none does yet.

## 2. Modules

| Module | What it is |
|---|---|
| `Ledger` | transactions, accounts and categories, one action per SQL statement |
| `LedgerAbs` | what the ledger promises; `Ledger` refines it |
| `LedgerBalance` | the properties of `Ledger` that add up balances, and the refinement mapping |
| `LedgerProofs` | theorems about `Ledger`: history, references, types, deadlocks, balances, refinement |
| `Sums` | lemmas about sums over finite sets and over a stretch of ticks, least numbers |
| `ReportCache`, `ReportCacheProofs` | report lookup, computation and invalidation |
| `Import`, `ImportProofs` | uploads and import jobs |
| `LoginLimiter` | the limiter's operations |
| `Auth` | login, bearer check, refresh, logout; composes `LoginLimiter` |
| `AuthProofs` | theorems about `Auth` and the limiter's bounds |
| `Migrate` | the migration command, one action per SQL statement |
| `Startup`, `StartupProofs` | starts, seeding, default accounts, shutdown of servers; composes `Migrate` |
| `Client`, `ClientProofs` | stored token, screens and lists of the web and the mobile client |
| `Config` | environment to accepted configuration: operators without state |
| `Negotiation` | `Accept` and `Content-Type`: operators without state |
| `Planning` | budgets, and the daily and monthly summary rows of reports |
| `Gateway` | boot, the chains of middleware, answers; composes `Config`, `Negotiation`, `Planning` |
| `GatewayProofs` | theorems about `Gateway` and the modules it composes |
| `MC*` | instances for TLC: the values of constants, symmetry, refinement mapping |

Operators whose comment begins "Faulty variant" or "Mistake" are never part of `Next`. They
state plausible mistakes, and each property of a passing run is violated when one
of them takes the place of the correct definition (`PROJECT.json`, "mutants").

### Ledger

`rows`, `accounts`, `balance`, `categories` are the committed tables. An open
database transaction keeps its rows in `wrow[r]` and its balance changes in
`wdelta[r]`; `lock` holds the row locks of `accounts` (PostgreSQL's UPDATE
lock); `PinsAcct` and `PinsCat` are the FOR KEY SHARE locks a row takes on its
parents through the foreign keys of `0001_initial_schema.sql`. `pc[r]` is the next statement of
request `r`, `seen[r]` the row it loaded before its transaction began, `cur[r]`
the row it wants to write.

| Handler | Actions in order |
|---|---|
| `transactions.Create`, `CreateMany` | `BeginCreate`, then per record `CheckCategory`, `CheckAccount`, `Insert`, `Apply`; `Commit` |
| `transactions.Update` | `BeginUpdate`, `CheckCategory`, `CheckAccount`, `Revert`, `Apply`, `Save`, `Commit` |
| `transactions.Delete` | `BeginDelete`, `Revert`, `Remove`, `Commit` |
| `accounts.Create`, `Update`, `Delete` | `CreateAccount`; `BeginAccountUpdate`, `SaveAccount`; `BeginAccountDelete`, `DeleteAccount` |
| `categories.Create`, `Update`, `Delete` | `CreateCategory`; `BeginCategoryUpdate`, `SaveCategory`; `BeginCategoryDelete`, `CountCategoryUse`, `DeleteCategory` |
| any | `Abort` (an error, a cancelled context), `DeadlockAbort` |

The variables under "history" are read by no action: `posted[a][t]` is what the
statements run in the name of transaction `t` have added to account `a`;
`tainted[r]` says that another request overwrote the row `r` had loaded (or that
its balance UPDATE matched no account); `skew` holds the transactions committed by
a tainted request. They let the invariants say *exactly* where the code's promise
ends: `PostedMatchesRow` holds for every transaction outside `skew`, and
`ledger_race` shows that `skew` is not empty in practice.

### ReportCache

`data` is the version of the user's data, `cache[k]` an entry with the versions
its queries read and the time it has left, `fill[r]` a computation under way,
`sweep[w]` an `InvalidateUser` under way (keys SCAN has not visited, keys found
and not yet deleted). `Tick` is time; the request timeout bounds the queries of a
computation to `MaxFill` ticks (`HTTP_REQUEST_TIMEOUT`, 60 s by default in `config.go:24`;
set to 0 there is no such bound, and none on staleness either). The store that follows is
not under that deadline: `SetJSON` gets a context without the request's cancellation and
with a second of its own (`reports/service.go:113`), so `MaxStore` bounds the time from the
last query until Redis has the report or never will (the second, and what a command that
was sent then may still take), and an entry may appear when its request is long over.

### Import

One upload is a request or a job goroutine: `Upload` or `StartImportJob`,
`MarkRunning`; the first loop `ScanBad`, `Skip`, `Accept`, `EndScan`; the
transaction `Resolve` (find-or-create per record), then `Commit`, `FailBatch` (nothing is
stored) or `LoseCommit`: the COMMIT takes effect and its answer is lost, which the code
cannot tell from a failure, so the rows are in the ledger and counted as failed. `unheard`
records these uploads; they are the one exception in `JobTellsTheLedger`. `Report` follows. `Crash` stops the process with everything that runs in it. The
lookups of `hasExistingDuplicate` are one step per row: they are reads with no
write between them that this code could make dependent on them.

### LoginLimiter and Auth

Each limiter operation is one critical section, with `pruneExpired` inside it.
`Auth` calls them as `login` does: `BeginLogin` (Allow), then `WrongPassword`
(RecordFailure), or `RightPassword` (RecordSuccess) and `BuildToken`, or, when
refused, `ReplyRefused` (RetryAfter, which prunes again). A bearer request is
`PresentToken` (ParseToken), `CheckRevoked` (Redis EXISTS, fails closed), then
`Serve`, or for refresh and logout `RevocationTTL` (parses again, computes the
lifetime), `RevokeToken` (SET) or `RevokeFails`, and for refresh `BuildToken`.
Time passes between any two of these. `redis` is whether this process reached Redis
when it started: one ping decides (`cache.New`), and a process without Redis revokes
nothing and refuses nothing, which `cache/README.md:7` documents. A token is
`[user, iat]`: that is all that `BuildTokenWithTTL` signs besides constants.

### Migrate and Startup

`objects` are the tables and indexes every connection sees, `recorded` the rows of
`schema_migrations`, `mig[m]` one run of the command with the objects only its open
transaction sees. `EnsureSchemaMigrations`, `CheckApplied`, `Exec` or `SkipExisting`
per statement, `Record` (INSERT and COMMIT) follow `runMigrations`. The driver
decides: PostgreSQL rolls a stopped file back and refuses a transaction after an
error, even one that `isIgnorableMigrationError` skips (`Resume`); MySQL commits each
CREATE, so a file that is run again meets its own objects.

`srv[s]` walks through `run`: `HasTable` and `CreateTable` (AutoMigrate),
`MigrateFloatAmounts`, `CountSeed` and `CreateSeed`, `FindAdmin` and `CreateAdmin`,
`CountDefault` and `CreateDefault`, `EnsureReturns`; then `Signal` and `Exit`. A login
calls `EnsureDefaultDataForUser` beside them. The history variable `beside` holds
the processes that did not start alone: `FailsOnlyBesideAnother` says that nobody
else's start ever fails, and `EveryServerServes` that the race is over after a restart.

### Client

One module for both platforms: `platform` chooses, and a phone is one tab. `calls` holds
the requests in flight with the token they carry; `Answer(c)` is the server (or the
timeout), `Receive(c)` what the client does with the answer, in any order. A page load
orphans the calls of its tab, whose answers are then `Lost` although the server has
acted on them. `misled` and `abandoned` are history: the reasons for which a list may
be wrong, or a token accepted that nobody stores.

A 401 is `"unauthorized"` for a token that is dead and `"unverified"` for one that the server
could not check (`middleware/auth.go:194`: Redis answers with an error). The head of a 401
clears the stored token (`Unauthorized`). For `/me` the client then waits for the body, and
the catch of the session check clears the token that is stored by that time once more
(`DropAgain`), unless the browser has left the page before (`Leave`); between the two a login
may have stored a new token. The answer is `"refused"` or, where the browser is on its way
to the login page, `"leaving"` in that time. The web's login button waits for the login under way,
the phone's does not (`SubmitLogin`).

### Config, Negotiation, Planning, Gateway

A text stands for its class, and `Texts` says what the parsers make of it. `LoadRules`
is the table of `Load`, `CheckRules` that of `validateEnvValues`; they are kept apart on
purpose, as in the code. `Gateway` walks a request down `Chain` (`Down`: each middleware
sets headers and may answer) and up again (`Up`: what `Return` says that recovery, timeout
and metrics do when the next one returns to them, in reverse order); the loops over the
chain and over a header are recursive functions. Both ways are one step, since the chain touches nothing another request can see. In
between the handler runs the statements of `Planning`, and its context may end. A weight of
an `Accept` header that `ParseFloat` reads as NaN is `NotANumber`: it passes both bounds of
`mediaQuality` and is neither greater nor less than any other (`Exceeds`).

`Planning`: `Build`, `LoadBudget`, `CheckCategory`, `Insert`, `Save`, `Delete` are the budget
handlers; `SnapDays`, `SnapMonth`, `FindRow`, `Upsert` the part of a report that writes, in the order `Due` says; a budget without a
category is one for `WholeMonth`.
A day has one or more `Slots`, and the bounds of a report cut the days into slots: `Ranges`
are sets of slots, since `ResolveRange` takes bounds with a time of day and ends now by
default, and the queries compare timestamps (`Within`). So the row of a day holds what the
report's part of that day adds up to (`Shown`). `seen[p]` collects what each report could have
read of the period while it had yet to read it, `doubtful` the budgets whose
category changed after it was checked, `overtaken` those deleted under an update.

## 3. Runs

| Run | Question | Bounds | Result |
|---|---|---|---|
| `ledger` | Do two handlers, statement by statement, with failures, keep balances, references and postings explained, and implement `LedgerAbs`? | 2 requests at a time, 4 in all, 2 transactions, 3 accounts, 3 categories, batches of 2, amounts 0 and 1 | holds |
| `ledger_live` | Does every request end? | 3 requests, 3 in all, 2 accounts, 1 category, no failures | holds |
| `ledger_race` | Is a balance the net effect of the history? | writes of transactions only | violated: finding |
| `report_cache` | What can a cached report miss, and for how long? | 2 readers, 1 writer, 2 keys, 2 queries a report, TTL 2, 1 tick for the queries (`MaxFill`) and 1 for the store (`MaxStore`), SCAN of 1 key, 2 versions | holds |
| `report_import` | Does every change invalidate? | an import | violated: finding |
| `import` | Does the job row tell the truth, what is created twice, what does a retry record? | 3 uploads of 2 files, crashes, failures and unanswered COMMITs | holds |
| `import_twice` | Is a file uploaded twice recorded once? | 2 uploads, no failures | violated: finding |
| `auth` | Do revoked tokens stay out, does the limiter keep its bounds? | 2 requests, 1 user, 1 address, 2 failures allowed, window 2, token life 1 + leeway 1, clock to 2 | holds |
| `auth_refresh` | Is a refreshed token fresh? | as above, no failures | violated: finding |
| `startup` | What do starts find, leave and repeat, and does every server serve? | 2 commands and 1 server, or 1 and 2; 1 table, 1 index, 1 seed, 1 default account, 1 login; 1 stop (`MaxStops`), an old account emptied twice | holds |
| `client` | Which session is stored, which list is shown, does anything but the body of an answer keep a page waiting for ever? | 2 tabs or a phone, 2 users, 2 filters, 2 successful logins (`MaxTokens`), 4 acts of the user (`MaxSent`) | holds |
| `gateway` | Which environments start, who is answered with what, what do budgets and summaries show? | families of environments and requests; 2 requests, 1 category, 2 budgets, 2 days of which the first has 2 slots, 2 ranges that begin or end between them, 2 changes of the ledger (`MaxChanges`) | holds |

Why these bounds are enough to be interesting:

- Ledger: the races need two requests on one row, a third and a fourth request
  to observe or repair it; three accounts let an update move a transaction while
  another uses the third; a third category makes one retyped, one used and one
  seeded; amount 0 exercises the validation, and two records per batch the partial
  failure. Three requests for liveness allow a waiter behind a deadlocked pair.
- Report cache: two keys and `ScanCount` 1 make SCAN incremental; two queries per
  report let a commit fall between them; two readers let one fill a key the other
  one's sweep has passed; a tick for the store lets it come after the request deadline
  and after the sweep.
- Import: the files hold a record and its case variant, a second record of the
  same category and a bad row; three uploads let one retry after two overlapped.
- Auth: with a window of 2 and a clock to 2, one window ends and the next
  begins; two requests make the check and the recording of failures overlap; a
  token expires, with and without its leeway, before the clock ends.

- Startup: a server beside a command beside a third process is the least in which
  two look for one object while a third commits it; one seed and one default
  account are enough for twins; one stop falls between any two statements, and two
  emptyings let a balance be filled, emptied and filled again.
- Client: two tabs race for one token, two tokens let an old one's 401 meet a new
  one, or its body, and four acts suffice for a login in each tab and a change under each.
- Gateway: what interacts varies together (pool sizes; HSTS; secrets with origins and
  Redis; both .env layers), every other variable alone over all classes of text; headers of
  one or two ranges, since two decide every comparison. The summaries have two days, the
  first in two slots: one report ends between them, the other begins there and spans
  the second day, so a day is shown in part by both and two reports meet in one month. Requests that touch no table
  are taken one at a time and at empty tables (`MayVisit`), because they share nothing;
  budgets and summaries are not mixed in one server (`MayOperate`) because no
  statement of one reads what the other writes; those requests meet one configuration.

Symmetry is used over requests, readers, transactions and uploads, which no
definition tells apart, and never in a run that checks liveness.

**Fairness.** `ledger_live`: `SF_vars(Step(r))`, a statement that
is again and again able to run does run: goroutines are preemptively scheduled,
and PostgreSQL grants row locks in the order they were asked for, so weak
fairness would be too little for a waiter whose lock is taken and released
around it, and strong fairness is what the queue provides. `WF_vars(DeadlockAbort(r))`:
the detector runs after `deadlock_timeout`. Nothing is assumed of clients.
`startup`: weak fairness of the statements of each process, of `Exit` (`Shutdown` has
`HTTP_SHUTDOWN_TIMEOUT`) and of `Launch`, since `docker-compose.yaml:118` says
`restart: unless-stopped`; the migration command is not run again (`restart: "no"`, :148),
and nothing is assumed of users or of who stops what. `client`: weak fairness of
the head of an answer to a request some page waits for, because the server gives one or the
timer of `fetchAPI` ends the request after 30 seconds, and of the page's learning that it
has failed. The timer is cleared when the head has come (`client.ts:195`, on the phone
too), so nothing is assumed of bodies: `CheckingEnds` says that a page stops waiting for
`/me` or that the head of its answer is there (`Reading`). Nothing is assumed of the user.

`CHECK_DEADLOCK FALSE` is set in the two `Auth` instances, whose clock is bounded, in `client`,
whose user stops acting, and in `gateway`, where a refused start is the end; `Ledger` and `Import` have an explicit `Quiet` step instead.

### Findings

1. `ledger_race`: `Update` and `Delete` revert the effect of a row loaded before
   their transaction; two of them on one transaction both revert it, and the
   balance is off for good. The comments at `transactions/service.go:179` and `:231`
   promise that balances equal the net effect of the history.
2. `report_import`: an import invalidates nothing, against `modules/reports/README.md`.
3. `import_twice`: the duplicate check precedes the transaction, so two overlapping
   uploads of one file record it twice, against `dataio/service.go:310`.
4. `auth_refresh`: in the second a token was issued in, refresh revokes it, builds
   the same string and hands it out, against `openapi.yaml:113`.

Read off the code while modelling, without a run of their own:

- `readme.md:312` gives `HTTP_REQUEST_TIMEOUT` the default `0s`; `config.go:24` and
  `cmd/server/README.md` say 60 s. With 60 s the default write timeout (30 s) closes the
  connection before the 504 of `RequestTimeout` could be written.
- `cmd/server/README.md` says that empty lists of origins are refused; `CORS_ALLOW_ORIGINS=","`
  falls back to the local origins (`LoadText`).
- `GIN_MODE=Release` passes `Validate`, which folds case, and `gin.SetMode` then panics
  (`SetModePanics`; the exception in `StartsAsWritten`). The package `init` of gin reads the
  variable of the process, too, and panics on an unknown mode before `Load` runs; a model of it would
  end in the same place, a process that does not start.
- A blank `REDIS_PASSWORD` becomes the development one before `RedisConfig.Validate` looks at
  it, so its check for a missing password never fires; behind a public origin
  `NoExampleSecrets` refuses that password instead.
- `Assign(struct).FirstOrCreate` updates only fields that are not zero: an income or expense
  that has become 0 stays in the summary rows (`Assign`; `LacksOne` in `SnapshotOnceTrue`).
- `budgets.Update` replies 404 for any error of its first query, a timeout included.
- `modules/reports/README.md` calls the module read-only; `Summary` writes summary rows.
- The row of a day may hold a part of that day (`Within`): the default range ends at
  `time.Now()`, and a later report with an earlier end overwrites the row with less.
- `Accept: application/json;q=nan, application/json` gets 406 and the same ranges in the other
  order are accepted (`Shadowed`; the exception in `NegotiatedByWeight`).
- No timer runs for the body of an answer: AuthGate and `boot` wait for it for ever.
- A session check clears the token a second time after it has read the body of the 401,
  whichever token is stored by then (`DropAgain`); and a 401 that only means "Redis did not
  answer" ends a session that is valid (`"unverified"`).
- The answer to a COMMIT that took effect may be lost: the job row then says that all rows
  failed, and they are in the ledger (`LoseCommit`). A retry that skips duplicates finds them.

## 4. Proofs

Every invariant and every action property of a passing run is a theorem of the
specification, for every number of requests, rows, keys and ticks; so is the
refinement of `LedgerAbs`. Each rests on one inductive invariant per module,
proved from `Init` and, action by action, from `Next`.

| Module | Theorems | Inductive invariant |
|---|---|---|
| `LedgerProofs` | `TypeCorrect`, `PostedMatchesRowHolds`, `NoDanglingReferenceHolds`, `DeletedStaysDeletedHolds`, `CategoryTypeAgreesHolds`, `OnlyTwoAccountsDeadlockHolds`, `BalanceExplainedHolds`, `LedgerImplementsPromise` | `LedgerInv`; `TypedInv`, `LocksInv`, `BalanceInv` on top |
| `AuthProofs` | `AuthTypeCorrect`, `RevokedStaysOutHolds`, `RotationRevokesHolds`, `GuessesBoundedHolds`, `RefusedOnlyForCauseHolds` | `AuthInv`; `LimiterInv` |
| `ReportCacheProofs` | `ReportTypeCorrect`, `StaleOnlyByOverlapHolds`, `BoundedStalenessHolds` | `CacheInv` |
| `ImportProofs` | `ImportTypeCorrect`, `JobTellsTheLedgerHolds`, `TwinsNeedOverlapHolds`, `RetryRecordsNothingTwiceHolds` | `ImportInv` |
| `StartupProofs` | `StartupTypeCorrect`, `RecordedIsCompleteHolds`, `ServingMeansReadyHolds`, `LegacyCountedOncePerEmptyingHolds`, `TwinsNeedRivalsHolds`, `FailsOnlyBesideAnotherHolds` | `StartInv` |
| `ClientProofs` | `ClientTypeCorrect`, `LiveTokensAccountedHolds`, `ScreenTellsTheTruthHolds`, `LiveSessionEndsForCauseHolds` | `ClientInv` |
| `GatewayProofs` | `TypeCorrect`, `StartsAsWrittenHolds`, `EveryAnswerGuardedHolds`, `CountedAsAnsweredHolds`, `NegotiatedByWeightHolds`, `BudgetsStandAsCheckedHolds`, `SnapshotOnceTrueHolds` | `GatewayInv`, which contains `PlanInv`; `BootInv` |

Why the properties alone are not inductive, and what is added:

**Ledger.** The step that matters is `Commit`, and what it installs is in the open
transaction. `LedgerInv` therefore says of each request what its statements have done:
`FieldsFit` (it holds what its next statement needs), `CreatePosted` (an open Create has
posted the effect of each row it inserted but the one it is about to post), `EditPosted`
(an untainted Update or Delete has posted minus the old effect from `Revert` on and plus
the new one from `Apply` on, and the row it loaded is still the stored one) and
`RowsOwned` (an uncommitted row belongs to one request, and its parents exist, which the
pins keep true when somebody deletes an account or category).

- `TypedInv`: whatever row a request or a table holds agrees with its category, or the
  category's change of type is in the history.
- `LocksInv`: statements that commit by themselves hold no lock; an Update locks
  its old account first; nobody has loaded the rows a Create has inserted. Whoever is in a
  deadlock then holds one account and waits for another (`MemberOfDeadlock`).
- `BalanceInv`: what an open transaction will add to an account is the sum, over its
  rows, of what its statements have added in their name; a commit then moves both sides
  of `BalanceExplained` alike. The lemmas about sums are in `Sums`.
- `LedgerImplementsPromise`: a `Commit`, and whatever creates, changes or deletes an account, is
  a step of `LedgerAbs`; every other step leaves the tables alone.

**Auth.** `RevokedStaysOut` speaks of requests that passed the middleware; `AuthInv` adds
why they cannot have: a token in `gone` is *out* (expired, or stored in Redis until it
is), a request that waits to store a revocation has a lifetime that still reaches
(`Reaches`), and one that arrived with a revoked token carries one that is out
(`BarredIsOut`). `OutStays` is the heart: no step, the clock included, brings a token
back. The limiter's bounds come from `LimiterInv`, one `KeyOK` per key, which relates
the counter and the window of the code to the failures of the last ticks by age, and to
the attempts that `Allow` has let in and that may still fail: a window holds at most
`Cap`, that is `MaxFailures - 1` plus the number of requests, failures, and two windows
follow each other in any stretch of time as long as one.

**ReportCache.** A stale entry is written by a computation that began before the commit;
so `FillsAreYoung` bounds the age of what a running computation has missed by the time its
queries and its store have taken, `EntriesAgeWithIt` adds that age to the time an entry has left, and `SweepCovers` says
that a sweep under way has still to look at, or to delete, each entry it is there for,
unless the entry was stored after the commit.

**Import.** `Phase` counts the rows of the file by where the goroutine is, and says that
rows are in the ledger when it has counted successes or its COMMIT was not answered; `Rowed`
says the job row has the same total. `Sequenced`, `CommittedBy`, `Filed`, `MadeOnce` and
`TwinsByUploads` follow a name from the transaction that creates it to the table, and
`EndedBefore` and `AcceptedIsNew` what an upload knew of those that had ended when it began.

**Startup.** `FileSoFar` says how much of its file a command has created, in the tables or in its
own transaction; `Progress` how far a server, or a call of `EnsureDefaultDataForUser`, has
come, with everything it passed still there or deleted by its owner; `OneCreates` and
`FewCreate` who may be about to create a row of one name; `Book` that the old balance enters
an account only while that is empty; `Alone` that what a process looked for without
a rival is still missing when it creates it.

**Client.** The invariant follows each request from the moment it is sent: `Numbered`,
`Known` (a token somebody holds has an owner), `Shape` (what a request and its answer say
of its token), `Fresh` (a token on its way is nobody else's), `InSession` (once the stored
token is sent, later requests carry it), and `ScreenOK` for each tab: the last load sent
asks for what the filters say, and the tab waits for it or shows it, unless misled. What a
401 says of its token is that it is dead only where the server knew it (`"unauthorized"`);
that is why `LiveSessionEndsForCause` names the other two causes.

**Gateway.** A trail is what `Down` computes for the request and the configuration of
this server, and an answer is what `Up` makes of it (`Connected`). The rest is about the chains:
`GuardedDown` (whoever answers first, the headers its route is owed were set before),
`CountedDown` (the metrics middleware is entered before anything that could answer), `UpIs` and
`ReturnIs` (what may lie between two returns: `Under`), `LoopIsBest` and `AcceptsAsWanted`
(the loop over the header finds the first of the most specific ranges, and under it the
greatest weight, unless what it found first is no number: `FirstMatch`, `Weightiest`). `PlanInv` says what a request that is
about to write has checked (`Writing`) or read (`Reporting`: what its own range showed at some moment), and that what is
stored was readable or is recorded as doubtful (`Recorded`).

**How recursion is handled.** The models use recursive functions and, for sums, a fold of
the library. That such a function exists and takes the next step is proved for the two
uses here by least number (`LeastNumber`, `StepsExist`) and by smallest set (`Sums`), from
the library's theorem that `<` is well founded; the induction schemes that take an operator
are out of the provers' reach.

**Assumptions.** They are the `ASSUME`s of the modules, evaluated by TLC in every run, and
no theorem has others: the types of the constants; that special values (no row, no entry, nobody)
are not values; `LedgerAssumption`, `AuthAssumption`, `StartupAssumption`,
`MigrateAssumption`, `ClientAssumption` and `PlanningAssumption` also that the sets summed or
counted over are finite; `LimiterAssumption` that limit and window are positive (with
0 there is no limiter: `newLoginLimiterFromConfig`); `StartupAssumption` that seeds and default accounts
have different names, as in `store.go`, and that servers, commands and logins are different
processes; `GatewayAssumption` the shape of a request.

**Only model-checked.** The liveness properties `EveryRequestEnds`, `EveryServerServes` and
`CheckingEnds`: temporal reasoning with fairness and ENABLED is out of the provers' reach, so
they hold for the bounds of section 3. The four findings are counterexamples of TLC. And of
`Config`, that its classes of text stand for all text is a reading of the parsers that no
tool checks.

## 5. Limits

- One user. Every statement has `WHERE user_id = ?`; nothing is shared by two users
  but the limiter's map, whose keys are independent by construction.
- PostgreSQL, Redis and the clock are modelled as the code uses them (external in
  the map). Redis keeps what it stores until it expires; it may fail and be late,
  but a Redis that loses its data brings revoked tokens back, and that is not in the
  model. One clock for all processes.
- A process that starts without Redis revokes nothing: that is in `Auth`, and
  `RevokedStaysOut` and `RotationRevokes` say `redis /\ ...` for that reason. A token
  revoked before such a start is accepted until the next start that reaches Redis.
  `ReportCache` has Redis throughout; without it there is nothing to be stale.
- `import` uploads with `skipDuplicates` on; the model has the other value too.
- Request fields are members of small sets; text, formatting and messages are left out.
- `Startup` has one user and one account of each name; what AutoMigrate alters in a table
  that exists is left out. `Config` has one class of text per outcome of the parsers.
- `Client` has one list per screen and no edit forms; a phone's other lists load like it. The
  phone's calls of AsyncStorage are one step with what follows them, and a 200 whose body
  breaks off, which the clients take as an empty object, is left out.
- `ReportCache` counts time in ticks: `MaxStore` stands for the second of `cacheCtx` and the
  socket timeouts of the Redis client, which end a command that was sent.
- `Gateway` takes the bearer check as given (`Auth` has it) and one content of a body.
- Not modelled: AI text parsing, the helpers for money, time and queries, the splitter
  of SQL text, the parsers of import files, the writing of exports, the readiness
  probe and the log. They are functions of one input without state, over floating point,
  calendar or text; `PROJECT.json` says so per component.

## 6. Plan

Modules and theorems of sections 2 and 4 are complete for what section 5 does not
exclude. What could be added, in this order:

1. The mobile client's forms: an edit sends back the balance it once loaded
   (`mobile/App.tsx:170`), which `Client` would have to compose with `Ledger` to show.
2. The cache of parsed texts (`modules/ai/service.go:43`), with the day in which an entry was
   made, and the rounding of amounts (`shared/money/money.go:17`) over bounded inputs.
3. More of `reports/service.go` (what the other queries of a report add up), and the parsers
   of import files.
4. An abstract specification of sessions that `Auth` implements.
