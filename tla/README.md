# A TLA+ model of Bond Trading

Bond Trading keeps a private portfolio of bonds: lots bought by several users, market data
taken from the Moscow Exchange (MOEX ISS), yields computed from both, spreadsheets imported,
and a Google Sheet kept up to date by a background worker. The service is Python
(FastAPI, SQLAlchemy on PostgreSQL in READ COMMITTED, MinIO for files); the sources are under
`src/src/bond_trading`, called `bond_trading` below.

The hard part of the system is not one algorithm. It is the **synchronisation of the sheet**:
API requests, a scheduler and any number of worker processes share the rows of a queue table;
a run of the queue then spends minutes between reading a sheet and writing it, while the user
types into it. Around it stand the components that read and write the same tables: refreshes of
market data, lots and their yields, imports, accounts. All of them share one hazard: a request
reads in one statement and commits in another, and others commit in between.

## 1. Inventory

| Component | State | Operations | What is hard about it | What makes it correct |
|---|---|---|---|---|
| Sync queue (`services/sheets.py` 84-155, 398-512; `workers/sheet_sync.py`) | `sheet_connections`, `sheet_sync_jobs` | configure, enqueue by an event or by hand, enqueue what is due, claim, settle, retry | every operation is a SELECT and, later, a commit of its own transaction; workers die; a failed run goes back into the queue | one runner per job; attempts bounded; settled jobs final; open work bounded; a due connection is attempted; no event lost |
| Sync run (`services/sheets.py` 183-384) | the cells of the sheet, the rows read, the quotes, the updates | read rows, refresh ISINs, build updates, post, commit | read long before written, by row number; posts repeated after lost answers; overlapping runs; the user | the user's cells are kept; a row shows data of its own ISIN; figures and verdict agree; prices do not go back; a run ends |
| Google client (`infrastructure/google_sheets/client.py`) | access token | read, update, retry | an answer that does not arrive says nothing about the request | a bounded number of attempts, errors reported |
| Instrument refresh (`services/instruments.py`, `routers/instruments.py`, `routers/market.py`) | `bond_instruments`, `corporate_actions`, `market_snapshots` | refresh one, refresh all, add a bare instrument, record an error | rows read before MOEX is asked and written after; unique keys; a failed flush in the session of a batch; the event is queued after the commit | nothing stored is lost; row and newest snapshot fit; a failure marks the right snapshot; what is committed is announced |
| MOEX client and mapper (`infrastructure/moex`) | cache, semaphore | the four answers of a refresh, accrued interest of a day | similar names in a search, two face values, empty dates, repeated rows | the exact ISIN; rows without a date are dropped |
| Imports (`services/imports.py`, `routers/imports.py`) | preview cache, `import_batches`, `bond_lots` | preview, commit | two commits of one preview; restart between preview and commit | the lots of a file are created once |
| Uploads (`services/uploads.py`, `storage/minio.py`) | objects, `uploaded_files` | store, mark, download | two stores without a common transaction | every row has its object, orphans only after failures |
| Spreadsheet reader (`imports/xlsx_reader.py`), ISIN (`domain/value_objects/isin.py`) | none | read a file, check a number | end of the table, formulas, check digit | no row disappears; what counts as typed in was typed in; a mistyped digit is refused |
| Lots and yields (`services/lots.py`, `domain/calculations`) | `bond_lots`, `yield_snapshots` | create, update, delete, calculate | columns written one by one; three reads before a commit; revised corporate actions; boundaries of dates | overrides stay explained; each cash flow counts once, the same for page and sheet; a quote is not older than the rest |
| Accounts and sessions (`services/auth.py`, `presentation/router.py`) | `users`, `auth_sessions` | bootstrap, create, login, logout, change password, switch on and off | check and write are separate statements; a login overlaps a revocation | an active administrator remains; a revocation is complete |
| Settings (`services/settings.py`) | `app_settings` | get or create, update | two first reads | one row per user |
| Column letters, web pages, configuration, observability, wiring | none of their own | call the services above | - | - |

How they interact: the API and the web pages run in one process and share one database with the
workers. Whoever changes lots, settings, imports or market data calls `enqueue_sheet_sync` and
commits the change together with the new job (`routers/instruments.py` is the exception: it
commits the market data first). A worker polls: it inserts jobs for the connections that are
due, claims the oldest job that is ready with `FOR UPDATE SKIP LOCKED`, runs it, and settles
it. A run calls the instrument refresh for every ISIN in its own session, whose commits also
commit what the run has written to the connection.

The list of what is hard to test, each at its line, is `hazards` in `PROJECT.json`.

## 2. Plan

| Step | Modules | State |
|---|---|---|
| 1 | `SheetSyncQueue`, abstract `SyncJobLease`, their proofs | done |
| 2 | `SheetSyncRun` and its proofs | done |
| 3 | `ImportPipeline` and its proofs: objects, uploads, preview cache, commits | done |
| 4 | abstract `MarketData`, `InstrumentRefresh` and their proofs: concurrent upserts, snapshots, `refresh_error`, failed batches, the event after the commit | done |
| 5 | `Accounts` and its proofs: activation, last administrator, sessions | done |
| 6 | pure algorithms: `YieldEngine`, `MoexMapper`, `Isin`, `SpreadsheetReader` | done; formulas of the sheet's columns and column letters are left |
| 7 | compositions: `Lots` over `MarketData`, the mapper and the engine; `ImportedLots` over the pipeline and the reader; proofs about both | done |
| 8 | abstract `ImportLedger`, refined by `ImportPipeline` | done |
| 9 | `Arithmetic`: sums, quotients and the induction that proofs about amounts and digits need | done |
| 10 | a model of the Google access token; an abstract register of accounts refined by `Accounts` | left |

Who uses whom: `SheetSyncQueue` refines `SyncJobLease`, `ImportPipeline` refines `ImportLedger`. `InstrumentRefresh` extends and refines
`MarketData`; `Lots` extends `MarketData` too, so that what lots read is exactly what refreshes
promise, and `MoexMapper`, which extends `YieldEngine`. `ImportedLots` extends `ImportPipeline` and
`SpreadsheetReader`, which extends `Isin`.

## 3. Modules

### `SheetSyncQueue` - the queue and its workers

An action is one committed transaction or one SELECT of it, the granularity at which PostgreSQL
interleaves sessions in READ COMMITTED.

| Model | Code |
|---|---|
| `enabled`, `due` | `SheetConnectionModel.enabled`; `last_attempt_at + interval <= now` |
| `status`, `attempts`, `ready`, `connectionOf`, `nextJob` | rows of `SheetSyncJobModel`; `ready` is `next_attempt_at <= now`; job numbers are in the order of `created_at` |
| `rpc`, `rconn` | where the transaction of an API request stands, and whose it is |
| `wpc`, `todo`, `staged`, `wjob` | where `process_one_job` stands in a worker, due connections it has not looked at, jobs it has added and not committed, the row it holds |
| `crashes` | deaths of workers, bounded by `MaxCrashes` |
| `dirty` | history: a committed event that no started run follows |
| `BeginEvent`, `LookUpQueued`, `CommitCoalesced`, `CommitInserted` | `enqueue_sheet_sync` and the commit of its caller |
| `BeginManual`, `LookUpManual`, `CommitManual` | `SheetSyncService.enqueue` (the button works while the connection is off) |
| `AbandonRequest` | the rollback of `get_session` |
| `Configure` | `SheetSyncService.configure` |
| `ScanConnections`, `CheckDue`, `CommitDue` | `enqueue_due_sheet_syncs`: one query for the connections, one per connection, one commit |
| `LockJob`, `NothingToClaim`, `StartJob` | `claim_next_sheet_sync_job`: the locked row and the commit |
| `CheckpointRun`, `SucceedJob`, `RecordFailure` | commits of a run, its end, `record_sheet_sync_failure` |
| `CrashWorker`, `RestartWorker` | a killed process or an exception that leaves `run_worker`; `restart: unless-stopped` of the container |
| `IntervalElapses`, `BackoffElapses` | the clock |

`SyncJobLease` is what the queue promises, without connections, locks, requests and clocks: a job
is run by one worker at a time, a limited number of times, settled only by its runner, and never
touched again. `SheetSyncQueue!ImplementsLease` states the refinement: the runners of a job are
the workers that execute it.

### `SheetSyncRun` - what a run does to the sheet

| Model | Code |
|---|---|
| `isin`, `commission`, `accrued` | the ISIN column, column L and column J of every row: what they hold and who wrote it |
| `out` | what the application writes in a row: price (with AD and the time), `coupons` (AE, AF), `figures` (AG..AK), `verdict` (AL), `mark` (the status column) |
| `market` | the version of the market data MOEX would return |
| `pc`, `snap`, `pending`, `quote`, `batch`, `tries` | the local state of one `execute` and of the client's retry loop |
| `late` | posts the client has given up that may still be applied |
| `StartRun`, `ReadRows`, `RefreshIsin`, `BuildUpdates` | lines 190-365 of `services/sheets.py` |
| `PostAnswered`, `AnswerLost`, `PostUnanswered`, `LateArrival` | `update_cells` and `_request`: applied and answered; applied, answer lost; not applied, or not yet |
| `CommitRun`, `AbortRun` | the final commit; an exception or the death of the worker anywhere |
| `EditCell`, `SwapRows`, `MarketMoves` | the user types or sorts; MOEX publishes |

A `values:batchUpdate` is atomic (documented by Google) and addresses rows by number. The texts a
user may type are abstracted to what the code distinguishes: an ISIN that `normalize_isin`
accepts, one it refuses, an empty cell; for L also a text that is no number. The dates,
quantities and amounts of a row only decide whether MOEX History answers, whether the row is a
purchase and whether it can be calculated, so these are left open (`answered`, `parsed`, `usable`),
row by row. A row gets its paid coupons as soon as it is a purchase (`Purchased`), before anything is
asked of the offer: AE and AF may stand beside a reason, the other figures may not.

The two modules meet at `CheckpointRun`, `SucceedJob`, `RecordFailure` and `CrashWorker` of the
queue, which are the commits and the ends of the run. Since the queue allows several runs of one
connection at a time (two workers; a job requeued by a failure beside a newly queued one), `Runs`
in `SheetSyncRun` overlap without restriction.

### `ImportPipeline` - from a file to a batch of lots

| Model | Code |
|---|---|
| `objects` | keys in the bucket; a key contains the upload id, so the model names it by the upload |
| `owner`, `content`, `status` | the row of `uploaded_files` (the first two are fixed when `store` builds the key, before the row is committed) |
| `cached` | `ImportPreviewCache`; a preview is made once per upload, so it is named by its upload |
| `batches` | rows of `import_batches` in the order of their commits; a batch stands for its lots, which are committed with it |
| `rpc`, `rupload`, `ruser` | where a request stands, its upload, its user |
| `faulted` | history: uploads whose storing met an error, a lost answer or a restart |
| `BeginPreview` .. `MarkFailed` | `preview_import` of the API and of the web pages, `UploadService.store`, `mark_parsed`, `mark_failed` |
| `BeginCommit` .. `DiscardPreview` | `commit_import`, `ImportPreviewCache.get`, `ImportService.commit` |
| `Ahead`, `FlushBatch`, `FlushRefused` | the unique key of `import_batches`: a flush waits for a transaction that has flushed the key, then goes on or gets IntegrityError |
| `AbandonRequest`, `PreviewExpires`, `RestartProcess` | an exception and its rollback, the lifetime of a preview, a new API process |

`ImportLedger` is what imports promise, without requests, caches, storage and failures: an upload is
sent, stored and read once; a content enters the ledger of its user once, in the same step in which
the upload says "imported"; "duplicate" is said only of a content that is there. The pipeline
implements it with its own `owner`, `content`, `status` and `batches`.

The name of the sheet and the checksum are functions of the bytes, so the key (owner, checksum,
sheet) is (owner, content). The job that `commit` adds to the queue is `CommitInserted` or
`CommitCoalesced` of `SheetSyncQueue`: it is part of the same database transaction. What the rows
of the sheet do to the instruments is left to the instrument refresh; an error of it aborts the
request here.

A lost answer has a visible consequence the model shows and the documents do not mention: when the
commit of an upload's row succeeds and its answer is lost, the compensation deletes the object of
a row that exists, and a download of it fails. `RowsHaveObjects` states this as the only exception.
And when the answer of an import is lost, the retry finds the batch and marks the upload it was
made from as its own duplicate; `StatusExplained` and `BatchesAreOwned` allow it.

### `MarketData` and `InstrumentRefresh` - what is known of a bond

`MarketData` is what refreshes promise together: an instrument stays; actions and snapshots are
only added; an action keeps the time of its first refresh; a row's columns come from the newest
commit or from an earlier one; a failed refresh leaves a mark and changes nothing else.
`InstrumentRefresh` says how they do it.

| Model | Code |
|---|---|
| `instrument`, `actions`, `snapshots` | `bond_instruments` (known at all, face value, `source_updated_at`), `corporate_actions` with the time of the refresh that stored them, `market_snapshots` |
| `request` | a database session: what kind of handler, the ISINs it has still to do, what it has read of each, what MOEX answered (with the rows the answer lists twice, `repeated`), which actions are new to it |
| `clock` | one tick for each answer and each comparison; bounded by `MaxClock` |
| `torn`, `unsynced`, `excused`, and `overtaken` in a request | history: whose last refresh was overtaken; whether committed data wait for an event; whether the process died or a batch broke |
| `BeginRefresh`, `BeginAll`, `BeginSheet`, `BeginBare`, `NextIsin` | `routers/instruments.py`, `routers/market.py`, the loop of a sheet run, `ensure` for lots and imports |
| `ClientAnswers`, `ClientRaises` | `MoexClient.refresh`, external |
| `Flush`, `Compare`, `Commit`, `CommitRefused`, `CommitBare` | `InstrumentService.refresh`: rows are locked by the first flush that writes them; the unique keys refuse |
| `FindSnapshot`, `MarkSnapshot`, `Fail` | `_record_refresh_error`; the IntegrityError that leaves the session of a batch unusable (`poisoned`) |
| `QueueEvent`, `EndBatch`, `GiveUpBatch`, `Restart` | the event after the commit, its loss |

A column is written only when it differs from what the session has read: SQLAlchemy sends changed
columns. So two refreshes that overlap may leave the face value of one beside the quote of another.
An action is inserted once per row of the answer, and the loop compares with what was stored before
it: a new row that the answer lists twice violates the unique key without any other request
(`Refused`).

### `MoexMapper`, `YieldEngine`, `Lots` - from answers to yields

`MoexMapper` turns an answer (a record of the four tables) into a quote and a calendar, and says which
rows the answer lists more than once (`Repeated`). A quote without SYSTIME has the day it was
received, so the day of a quote may go back at a later refresh; nothing in the code or here compares
them. `YieldEngine` has the window of a holding period (`bought < date <= exit`), the two rules that
make stored rows cash flows (for lots rows equal in type, date and amount count once; for sheets one
row of an event counts, of the newest), cost, tax and annual yield as exact fractions, and the
errors. The query of a sheet orders rows by time only, so which of several rows that one refresh
stored is the one counted is open: `SheetFlows` is the set of the possible outcomes, and properties
hold for each.

| Model of `Lots` | Code |
|---|---|
| `lot`, `yields` | rows of `bond_lots`; the newest row of `yield_snapshots` of each |
| `request` | an update or a calculation between its reads and its commit; `stamps` are the times of the refreshes that wrote what it has read |
| `calendar`, `returned`, `unexplained` | history: the last calendar; rows MOEX revised and restored; lots whose override was edited over or robbed of its reason |
| `Refresh` | a refresh, whole: `InstrumentRefresh` has its steps, `Publish` of `MarketData` is what both share; one number stands for the time of its snapshot and of its actions; an answer that repeats a new row changes nothing |
| `Create`, `BeginUpdate`, `CommitUpdate`, `Delete` | `LotService`, with the validation of `LotCreate` and `LotPatch` |
| `BeginCalculate`, `ReadActions`, `CommitYield` | `calculate`: lot, actions, newest snapshot, in that order, each as committed at that moment |

### `Isin`, `SpreadsheetReader`, `ImportedLots` - what a batch consists of

`SpreadsheetReader` chooses the sheet, finds the header, reads rows until a blank one, checks each
and says what it becomes; a cell knows whether it is a formula. The name and the offer submission
period are copied without a look at formulas (`Text`), as in the code. `Isin` is the format and the
check digit over the values of characters. `ImportedLots` gives every content of `ImportPipeline`
a file, requires that the readable contents are the ones the reader accepts, and states what the
lots of a committed batch are.

### `Accounts` - who may do what

| Model | Code |
|---|---|
| `account`, `password` | `users`: absent, active or disabled; the password its hash verifies |
| `session` | rows of `auth_sessions`: open, of whom; with which password they were opened (history) |
| `request` | a handler between its SELECT and its commit: a login, a change of the password, a switch, a creation |
| `skewed` | history: a check of `set_active` was overtaken by a commit |
| bootstrap, login, logout, expiry, change, switch, create | one action per statement group of `AuthService` and its handlers; an UPDATE of the sessions locks its rows until the commit |

## 4. Runs

All runs use model values and small bounds. `CHECK_DEADLOCK FALSE` is in the configurations whose
bounds (on runs and edits, on the clock, on requests) let the system stop. The queue is checked
for deadlock.

| Run | Instance | What it shows |
|---|---|---|
| `queue_race` | 1 connection, 2 workers, 1 request, 3 jobs, 2 attempts, 1 crash | one runner per job (`SingleRunner`); `AttemptDiscipline`; the RUNNING rows nobody executes are at most the crashes; settled jobs are final; the queue implements `SyncJobLease` |
| `queue_live` | 1 connection, 1 worker, 1 request, 3 jobs, 2 attempts, 1 crash, fair | every queued job is claimed; every job settles or is orphaned by the crash; a due connection is attempted unless an orphaned job blocks it; open work stays within workers + requests, though no constraint says so |
| `queue_orphan` (violated) | the same without the exception for orphans | a worker that dies during a run leaves a RUNNING row that nothing ever resets; its connection is never scheduled again |
| `queue_lost` (violated) | 1 worker, 1 request | a change that was merged with a queued job is committed after that job was claimed; no run follows it, contrary to `docs/google-sheets.md` |
| `run_overlap` | 2 rows, 2 ISINs, 2 overlapping runs, a status column, 2 starts, 2 attempts per post, 1 edit or sort between runs | filled J and L are kept by every post; at success the rows of a run show data of their own ISIN, with figures exactly where AL says calculated and paid coupons only where J and L are filled; a refused ISIN shows its refusal |
| `run_serial` | 1 row, 2 ISINs, 2 versions of their data, no status column, 1 run at a time, 2 starts, 2 attempts, late posts, 2 edits, fair | no run posts an older price over a newer one; every run ends |
| `run_typed` (violated) | 2 rows, 2 edits, the user edits or sorts while the run is open | what the user types into J or L, or moves there by sorting, between the reading and the post is replaced, contrary to `docs/google-sheets.md` |
| `imports` | 2 users, 2 uploads, 2 requests; a new and an old binary file and one that cannot be read; fair | no content is imported twice for a user; batches belong to the owner of their upload; every status and every row without object or object without row is accounted for; every request ends; the lots of a batch are the rows of its file, none lost, nothing calculated taken for typed, no digit of an ISIN mistyped; refinement of `ImportLedger` |
| `accounts` | 3 users of whom 2 are administrators, 2 passwords, 2 session rows, 2 requests | an administrator remains unless a check was overtaken; a session of a revoked user stays open only if its login overlapped the revocation |
| `accounts_last_admin` (violated) | the same, without the exception for overtaken checks | two administrators are disabled by two requests whose checks count each other; none is left, contrary to `docs/authentication.md` |
| `market` | 2 instruments, 2 requests, 2 quotes, 2 calendars, 6 ticks; the constraint `Followed` bounds which requests overlap on two instruments and how long | row and newest snapshot are of one answer unless a refresh was overtaken; unique keys refuse only what overlapped or what an answer lists twice; a failure marks the snapshot of its own row; what the API commits is announced unless the process dies or a batch breaks; refinement of `MarketData` |
| `lots` | 1 bond, 1 lot, 2 requests that begin twice, 3 refreshes, 4 patches, a coupon that is repeated, revised, restored, listed with two amounts or without one, answers with and without a time, a redemption in two parts, targets on the maturity and behind it, purchases before and after the schedule | overrides stay explained; the sheet counts an amount of the newest calendar for each of its events; page and sheet agree until a revision; no result counts more principal than is repaid after the purchase, unless a stale face value stands in for the redemption; planned and current yields do not depend on the quantity; the snapshot of a result is not older than the refreshes it was read from |

Why the bounds are enough to be interesting. Three actors at one row of the queue (two workers and
a request) is the smallest number with which a look-up, an insert and a claim interleave in every
order, and three jobs let one be queued, one be run and one be decided. In `queue_live` the backlog
bound is 2 of 3 jobs, so that it can be passed. One run that is retried and one that follows it
need two attempts. In `SheetSyncRun` two starts let a run be overtaken by another, two rows let a sort
move what it wrote; two versions of the market data are what it takes to go back; two attempts are
what it takes for a post to be applied twice. In `imports` two requests are enough for one to wait for the key of the
other, two uploads for the same content to arrive twice, two users for a key that differs in the
owner only. In `accounts` two administrators can each be switched off by a check that counts the
other. In `market` four ticks are two refreshes with an answer and a comparison each, on one
instrument or two, and six are a refresh of a bond whose action is not published yet and two that
overlap and both bring it (`CommitRefused`); two quotes that differ in every column show a mixture.
`Followed` cuts two overlapping batches on two instruments and batches after the fourth tick. In `lots` three
refreshes bring a coupon, revise it and restore it, and two requests are an update over an update
or a calculation over an update. Every property has a mutant of the code (`mutants` in
`PROJECT.json`) which TLC finds at these bounds. Symmetry is used in `queue_race`, `run_overlap`,
`accounts`, `market` and `lots`, none of which checks liveness.

**Fairness.** `WF(WorkerStep)`: `run_worker` loops until it is stopped, and every call of a run has
a timeout (MOEX and Google clients are configured with one), so a worker that is up goes on.
`WF(RestartWorker)`: the container is restarted unless stopped. `WF(BackoffElapses)`: clocks
advance. Nothing is assumed of requests, of the user, of `Configure`, of crashes or of the
interval; `SucceedJob` and `RecordFailure` share one fairness condition, so no run is assumed to
succeed. In `ImportPipeline` a request that can go on does so; `RequestsEnd` excludes, by its
hypothesis, that batches ahead of a waiting request are rolled back again and again for ever, since
PostgreSQL does not promise the key to the one that waited. `FairSpec` of `SheetSyncRun`: weak fairness of the steps of a run, whatever the calls
answer.

**The violated runs** are disagreements between the code and its documents, quoted in `findings`.
Each is checked on the faithful model, on the specification the code justifies.

**What the passing properties exclude.** Where the code does not prevent a race, a property that
holds excludes it by name, and shows that it is the only cause and that nothing worse comes of it; it
does not show that the race cannot happen. These are:

| Property | Excludes | The document that promises more |
|---|---|---|
| `AdminRemainsUnlessSkewed` | `skewed`: two administrators disabled by checks that count each other | `docs/authentication.md:67`, without exception; `accounts_last_admin` refutes it |
| `RevocationIsComplete` | `late`: a login in flight during the revocation | - |
| `RowFollowsNewestSnapshot` | `torn`: refreshes of one instrument that overlap, until the next one | - |
| `FailureMarksItsOwn` | a failure that another commit of the instrument has overtaken | - |
| `ChangesAreAnnounced` | `excused`: the death of the process after the commit, a batch that breaks; `unsynced` is one flag for all instruments | - |
| `OverrideIsExplained` | `unexplained`: edits of a lot that overlap, a body that clears the reason alone | `docs/architecture.md:80` demands a reason |
| `SheetFollowsCalendar` | `returned`: a row that MOEX revised and restored | - |
| `PortfolioAgreesWithSheet` | `Revised`: two stored amounts of one event, which the page of a lot both counts | - |
| `PrincipalIsPaidOnce` | `FaceIsStale`: a face value that stands in for a missing redemption although part of it is repaid elsewhere | - |
| `RowsHaveObjects` | a row whose commit looked like a failure | - |
| `InputsKept`, `SheetAgrees` | by the hypothesis that nobody edits or sorts while a run is open | `docs/google-sheets.md:39`; `run_typed` refutes it |
| `NeverOlder` | the late arrival itself, which may bring back an older price | - |

## 5. Proofs

All theorems hold for every value of the constants that satisfies the named assumptions
(`ConnectionsAssumption`, `ActorsAssumption`, `BoundsAssumption`; `CellsAssumption`,
`OptionsAssumption`, `LimitsAssumption`; `ReadableAssumption`, `NobodyAssumption`;
`UsersAssumption`; `QuotesAssumption`, `ClockAssumption`; `PatchAssumption`, `DaysAssumption`,
`AnswerAssumption`, `AmountsAssumption`; `FilesAssumption`). TLC evaluates all of them.
`AnswerAssumption` says that the sets of quotes and calendars contain what the mapper makes of the
answers, `FilesAssumption` that a content is readable when the reader finds a table in its file;
`PatchAssumption`, `DaysAssumption`, `AmountsAssumption` (finite calendars, amounts and prices that
are integers or missing) and `IsFile` in `FilesAssumption` (sheets of rows of cells) are types. How
many rows a calendar has of one type and day is not assumed.

`SheetSyncQueueProofs`: `Invariance` proves the inductive invariant `IInv`. `SingleRunner` is not
inductive alone: a claim checks that a row is queued, not that nobody executes it, so `IInv` adds
that the job of a worker has a row and that a row at or after `nextJob` has none; with `TypeOK` and
`AttemptDiscipline` it is preserved by every action. From it follow `TypeCorrectness`,
`OneRunnerPerJob`, `BoundedAttempts`, `SettledForever` (an action property) and
`QueueImplementsLease` (initial states map to initial states; every action is a step or a stutter
of the lease).

`BoundedBacklog`, in the same module: the claim "at most one piece of open work per worker
and request in flight" needs a stronger one: each actor pays for at most one piece. The proof
shows that work is opened only when the look-up found nothing queued, and then at most one piece
per actor is open; while something is queued, work only moves (decided insert to queued job,
queued job to executed job and back), so the sum cannot pass the bound. `OrphansAreCrashes` compares
the set of RUNNING rows without a runner before and after each step: it grows by at most one row,
and only with a death of a worker that was at a row.

`SheetSyncRunProofs`: `WellTyped` for every environment. `InputsAreKept` and `RowsAgreeAtSuccess`
under the hypothesis `Quiet` (the user does not edit while a run is open, no post outlives its
client); `run_typed` shows that the hypothesis is needed. The inductive invariant says that what an
open run has read still describes the sheet, up to cells it found empty and another run filled
(`StillTrue`), and that a batch fills only cells that were read empty, rewrites exactly the rows of
valid ISINs with results of that ISIN, and marks exactly the refused ones (`SoundBatch`). Overlapping runs preserve it because all
of them fill an empty cell with the same kind of value and rewrite a row with data of the same
ISIN. `PricesMoveForward`, an action property of the posts of open runs, holds when runs follow one
another (`Serial`, as in `run_serial`), whatever the user types or sorts meanwhile and although posts
that were given up arrive late; what such an arrival itself writes is not restricted. It needs that no price shown or on its way is ahead of the market or of what
the open run was quoted (`QuotesLead`), and that a run writes the prices it was quoted
(`BatchIsQuoted`).

`ImportPipelineProofs`: all invariants of the pipeline and the refinement of `ImportLedger`, for
any numbers of users, contents, uploads and requests. `ImportedOnce` needs `KeysHeld` (a flushed
batch is the only one of its key, flushed or committed). What rows say of batches and objects
needs that a request stores or previews an upload alone and before any preview of it is kept
(`AloneAtUpload`), and what a request knows of its upload at each of its steps (`Phases`). For
the refinement it remains to see that a request commits a batch only for an upload that is
"parsed": were it "imported" or "duplicate", `StatusExplained` would give a batch of the same
key, which `KeysHeld` excludes.

`ImportedLotsProofs`: what the reader computes, for every file. Opening a file changes marks of
formulas only, so its sheets have the same headers, blank rows and texts (`Alike`);
`RowsAreAccountedFor` follows from the block of rows being an interval that ends before the least
blank row. `FieldsAreTypedIn` is about every field but the note, which the code copies unchecked.
`MistypedIsinsAreRefused` shows that a digit replaced changes what the check digit adds
up in one place (`MistypedDiffers`, by induction over the characters that are joined) and that one
place changes the total by less than ten and not by nothing (`OneDigitIsNoticed`).

`AccountsProofs`: `AnAdministratorRemains` and `RevocationsAreComplete`, for any numbers of users,
administrators, sessions and requests. The first needs that a pending switch has counted another
active administrator, or was overtaken since; the second that a login in flight carries the mark
of every revocation that ran meanwhile, and that rows an UPDATE has staged stay what they were.

`InstrumentRefreshProofs`: all invariants of the run and the refinement of `MarketData`, for any
numbers of instruments, requests, quotes and calendars. `RowFollowsNewestSnapshot` says nothing of
requests in flight, so the inductive invariant adds what they know: the step determines which
fields are set (`Shapes`); an answer is of the past and its time differs from every stored one and
every other answer (`Answers`, `TimesDiffer`, `AnswersAreNewest`); what has been read is still
stored unless the request is marked overtaken (`ReadsAreFresh`, `RowsStay`); the actions it
compared as new are still new (`NewIsNew`), from which `RefusalsHaveTwoCauses` follows: what is
refused was overtaken or is listed twice by the answer; an instrument that is being inserted is inserted by
nobody else (`StubsAreAlone`); and committed data that no event announces belong to a request that
will queue one (`EventIsPending`). Each conjunct has a lemma with one step per action.

`LotsProofs`: all invariants of the run, and that lots keep `MarketData`, for any bonds, lots,
requests, answers and patches. `SheetFollowsCalendar` needs that no stored row of an event that the
newest calendar no longer lists is as new as one it lists, unless that came back;
`PortfolioAgreesWithSheet` that every event with an amount has a newest row and that every outcome of
`SheetFlows` takes one (`ChosenFlows`); `QuoteIsNotOlder` that whatever a calculation in flight has
read was written by a refresh whose snapshot is stored: it is about the times of refreshes, not about
those MOEX gives, which may go back.

`YieldsArePerBond` is about every calculation a request may make, of the planned and of the current
result: each amount of the cash flow of n bonds is n times that of one, so profits and costs scale,
and fractions in lowest terms forget the factor (`GcdScales`, along Euclid's recursion). It needs
that faces are natural numbers, that bids and accrued interests are integers or missing, and that the
actions stored are those of some answer (`RowsAreAnswered`).

`PrincipalsArePaidOnce` has the hypothesis `Consistent`: in an answer of MOEX no amount is negative
and the face value is at most what its own calendar repays after its day. Without it the
statement would be about MOEX, not about this code. The inductive invariant carries that relation
from the answer to the stored rows and from there to what a calculation has read, through
refreshes, partial answers, updates and deletions that commit in between.

`Arithmetic`: sums over finite sets (`SumUnfolds`, `SumTakesOut`, `SumOfUnion`) and quotients. The
induction theorems of the library take operators, so each induction is made by hand: a least
counterexample (`LeastNatural`), or the subsets of a finite set (`SubsetInduction`). A recursive
function in the community modules is a CHOICE among solutions of its equation; that the equation
has a solution is a lemma of its own, for the sum, for Euclid's algorithm and for joining
sequences.

The type invariants of `SheetSyncQueue`, `SheetSyncRun` and `ImportPipeline` are not checked by a
run: `TypeCorrectness` and `WellTyped` prove them for every value of the constants.

Model-checked only: liveness (`QueuedIsClaimed`, `EveryJobSettles`, `DueIsServed`, `RunEnds`,
`RequestsEnd`), since liveness under fairness and ENABLED are beyond the prover, and the violated
runs. Every invariant, action property and refinement that a passing run checks is a theorem.

## 6. Not modelled

- The formulas of the sheet's columns over several purchases of one bond (`sheet_calculations.py`):
  arithmetic; which stored rows it counts is `SheetFlows`.
- Column letters and ranges: two conversions without state that the repository tests.
- The MOEX client's retry loop, login, semaphore and cache. Every call of `refresh` passes
  `force=True`, so the cache is written and never read. A call answers or raises.
- The Google access token and its lock, `check_connection`, parsing of numbers in cells.
- In the reader: cell formats, dates and numbers written as texts, NaN.
- The row of `app_settings`: one row per owner by its key; an update with its event is
  `CommitInserted` of the queue.
- A second API process: requests are already independent sessions in the models.
- Deleting a connection or an instrument: no code path deletes one.
- Migrations, templates, start and configuration, logging, metrics.
- The session of a sheet run that a failed flush leaves unusable: `InstrumentRefresh` has it
  (`poisoned`), in the queue its effect is `CrashWorker` (the failure cannot be recorded and the
  exception leaves the worker loop).

## 7. Behaviour worth knowing

Seen while modelling, and no run of its own:

- Two queued jobs of one connection may wait at once: the look-up and the insert are separate
  statements (`services/sheets.py:136`), although `docs/architecture.md:118` speaks of merging.
- A PATCH that clears only the reason of a manual price passes the validation
  (`api/schemas.py:108`), although `docs/architecture.md:80` demands a reason; `OverrideIsExplained`
  excludes such lots by name.
- When the current result of a lot raises, the planned one computed before it is not stored either
  (`services/lots.py:168`).
- A coupon that MOEX revises and then restores stays hidden from sheets, because its row keeps the
  time of its first refresh; `SheetFollowsCalendar` excludes such rows by name.
- Refreshes of one instrument that overlap may leave columns of one beside the snapshot of another
  until the next refresh; `RowFollowsNewestSnapshot` excludes these by name.
- In old binary spreadsheets a formula cannot be told from its result, so a calculated redemption
  price is imported as a manual one; `LotsAreTyped` excludes these files.
- Without a status column AL of a row whose ISIN became invalid is not written and keeps the verdict
  of the ISIN before (`services/sheets.py:357`), although `docs/google-sheets.md:54` calls AL the
  status of the calculation; `SheetAgrees` asks for the refusal only with that column.
- An answer of MOEX that lists a new row twice makes the refresh fail, and fail again, until the row
  is listed once (`services/instruments.py:87`).
- Two overlapping clicks on the switch of an account set the same value twice, because the form
  negates what it read (`presentation/router.py:663`); no document says what they should do.
- Two first reads of one user's settings or two first configurations of one sheet connection both
  find no row; the unique key ends one of the requests with an error and leaves nothing behind.
- Two imports that insert the same new instruments in different orders may wait for each other's
  keys (`services/imports.py:109`); PostgreSQL aborts one, which is `AbandonRequest`.
- The portfolio page pairs a lot that was edited with the yields of its earlier row until the lot
  is calculated again; `yields` in `Lots` keeps the purchase and target it was computed from.
