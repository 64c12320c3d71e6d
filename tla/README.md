# A verification of production-order-control

The program keeps the production orders ("batches") of a factory and the
products made in them: a FastAPI service, Celery workers with periodic tasks,
PostgreSQL, Redis, RabbitMQ and MinIO. This directory holds TLA+ models of it,
the TLC configurations that check them on small instances, and proofs that TLAPS
checks for every instance.

    tlc -workers 2 -config Lifecycle.cfg MCBatchLifecycle.tla    # one run
    tlapm WebhookDelivery_proofs.tla                              # one module of proofs

`PROJECT.json` lists the runs, what each definition stands for in the source
(`map`), the hazards of the code and the theorems.

## 1. The system

| Component | Source (under `src/src/`) | State | Operations | Module |
|---|---|---|---|---|
| Batch lifecycle | `domain/services/batch_service.py`, `data/repositories/batch_repository.py`, `api/v1/routers/batches.py` | table `batches`: number and date (unique), `is_closed`, `closed_at`, the shift | `POST /batches`, `PATCH /batches/{id}`, reads, the nightly `auto_close_expired_batches` | `BatchLifecycle`, which implements `Ledger` |
| Products and aggregation | `domain/services/product_service.py`, `data/repositories/product_repository.py`, `tasks/aggregation_tasks.py` | table `products`: `unique_code` (unique), `batch_id`, `is_aggregated`, `aggregated_at` | `POST /products`, all-or-nothing aggregation (HTTP), code-by-code aggregation (Celery) | `BatchLifecycle`, which implements `Ledger` |
| Webhook delivery | `domain/services/webhook_service.py`, `data/repositories/webhook_repository.py`, `tasks/webhook_tasks.py`, `tasks/scheduled_tasks.py`, `api/v1/routers/webhooks.py` | `webhook_subscriptions`, `webhook_deliveries`, messages of RabbitMQ | `dispatch_event`, `send_webhook` with retries, `retry_failed_webhooks`; creation, change and deletion of a subscription | `WebhookDelivery`, which implements `Announcement` |
| Database sessions | `core/database.py`, `core/dependencies.py` | one transaction per request or task | commit at the end, roll back on any exception | in every module with rows |
| Celery and Beat | `celery_app.py` | schedule, message queue | early acknowledgement, `task.retry` | `WebhookDelivery`, the sweeps in `BatchLifecycle`, `BatchCache` |
| Creation and import | `domain/services/batch_service.py`, `tasks/import_tasks.py`, `data/repositories/work_center_repository.py` | `batches`, `work_centers` | look up then insert; one transaction for a whole file | `BatchCreation`, which implements `Registry` |
| Redis caches | `core/cache.py` and its users | detail, list and dashboard keys with a TTL | read-through, invalidation before the commit, push by the statistics task | `BatchCache` |
| Rate limiter | `core/rate_limit.py` | one Redis counter per client and window | count, weigh, refuse | `RateLimit` |
| Export | `tasks/export_tasks.py`, `data/repositories/batch_repository.py` | the rows read so far; one MinIO object per run | paging by offset, upload | `ExportPaging`, `FileTasks` |
| Reports | `tasks/report_tasks.py` | one MinIO object per batch and format | build, upload over the last one, announce | `ObjectStorage`, `FileTasks` |
| Object storage and cleanup | `storage/`, `tasks/scheduled_tasks.py`, `api/v1/routers/batches.py` | MinIO objects and links to them | upload, link, nightly deletion by age | `ObjectStorage`, `FileTasks` |
| Analytics | `domain/services/analytics_service.py` | the dashboard key of Redis | read-only arithmetic | its cache: `BatchCache` |
| Routers, schemas, settings, migrations | `main.py`, `api/`, `core/config.py`, `alembic/` | none | validation, error codes | not modelled: each handler calls one service |

How they interact: a request or task opens one session, the services read and
write rows in it, `WebhookService.dispatch_event` adds a delivery row to the
SAME transaction but publishes its Celery task at once, the service drops cache
keys, and only then does `get_session` commit. So three stores change in an order
that no transaction covers: RabbitMQ and Redis before PostgreSQL. A worker takes
a message (acknowledged before it runs), POSTs, and either records the outcome or
publishes itself again, which rolls back what it has just recorded. Beat starts
the sweeps (auto-close daily, statistics every 5, webhook retries every 15
minutes, the cleanup of files daily). Reports and exports leave a file in MinIO and hand
out a link to it; the cleanup knows of neither.

What is hard: decisions taken on rows that were read without a lock and may be
stale when they are written (no `SELECT ... FOR UPDATE`, no version column, no
`WHERE is_closed = false` in the UPDATE); an ORM that writes only the columns that
differ from what it LOADED; waiting on row locks and unique keys, and deadlocks of
long transactions; messages that run ahead of their commit; tasks that are lost,
duplicated or rolled back. `PROJECT.json` lists every such place as a hazard.

What makes each component correct:

- *batches*: `is_closed` and `closed_at` agree; a batch changes state only when
  asked to; every closing is announced by `batch_closed`; every request ends;
- *products*: a code is in one batch; aggregation and `product_aggregated` go
  together; a closed batch takes in no new work; statistics do not overstate; a request
  acts on batches and products at one moment and as asked, or not at all;
- *webhooks*: nothing is sent for an event that was rolled back; the number of
  POSTs is bounded, and that of the tasks by `retry_count`; one task per delivery; a success is final; everything
  committed is settled in the end, or was lost in a way that can be named;
- *creation and import*: number and date are unique; an import's summary says what
  was committed; each request is as if it ran alone, and ends; a work center comes with its first batch;
- *caches*: a write deletes every key that shows what it changes; whatever races leave
  behind is gone in the end;
- *rate limiter*: never more than the limit in a fixed window; nobody is refused who
  did not exceed it; a burst at a window's end stays near the limit;
- *export*: no more batches are missed or repeated than left or entered the result meanwhile;
- *files*: a link works until it expires; a cleanup that ends has left out no old file.

## 2. The modules

### BatchLifecycle

One transaction per `Session`. `tx[s]` is what the session is doing and has not
committed; `batch` and `product` are the committed rows. One action per
statement or group of statements between which another session can act:

| Action | Code |
|---|---|
| `PatchLoad`, `PatchFlush` | `BatchService.update_batch`: `get_by_id`; the assignments and the flush that sends the UPDATE |
| `SweepSelect`, `SweepClose` | `_auto_close`: `get_expired_open_batches`; `bulk_close` |
| `CountProducts` | `get_batch_stats`, once per batch that is being closed |
| `AddCheckBatch`, `AddCheckCodes`, `AddInsert` | `ProductService.add_products`: one check per batch, the existing codes, one INSERT per row |
| `AggregateCheckBatch`, `AggregateCheckCodes`, `AggregateUpdate` | `aggregate_products` and `bulk_aggregate`, whole list (HTTP) or code by code (`_aggregate`) |
| `Commit`, `Rollback`, `DeadlockVictim` | `get_session`, and what PostgreSQL does |
| `CreateBatch`, `ShiftEnds`, `Start` | the world: rows appear, time passes, requests arrive |

A SELECT reads the committed rows (READ COMMITTED) overlaid with the session's own
writes. A flush takes the locks of its rows and waits for whoever holds them; an
INSERT waits for a session that inserted the same `unique_code` and fails if
it is there. `PatchUpdate` gives the columns of the UPDATE from the row that was
*loaded*: a column whose new value equals the loaded one is not written. The order of the rows
inside one UPDATE of `bulk_aggregate` is left open (any order of locking), so more
deadlocks are possible than in one build of PostgreSQL, never fewer.

Events are counted when the transaction that holds their delivery rows commits
(`closeEvents`, `aggEvents`); what then happens to a delivery is the other module.

### Ledger

What is left of the sessions of `BatchLifecycle` for whoever reads the tables and the events: each request
is asked (`Ask`), and later has its effect in one step (`Perform`) or is given up without a trace (`GiveUp`).
The effects are `Close` of some batches whose shift has ended or of the one of the PATCH, `Reopen`, `Enter` of all items of a
`POST /products`, and `Aggregate` of all codes of an HTTP request or of some codes of a task, each of which must
belong to the batch that was named. `BatchLifecycle` implements it under the mapping `Record`: a batch is `none`,
`open` or `closed` (`State`), what is asked is `tx[s].req`, the news are the committed events. Loading, counting,
checking, locking and flushing are stutters, `Commit` is the effect, or gives up when a PATCH finds nothing to change.
It leaves out on purpose what the code does not give: that the batch is still open at the effect, that a
batch is closed, or a code aggregated, by one request only.

### WebhookDelivery

| Action | Code |
|---|---|
| `Dispatch`, `CommitDispatch`, `AbortDispatch` | `dispatch_event` in the transaction of the announcing service: `create_delivery`, `send_webhook.delay`, and how that transaction ends |
| `DispatchUnpublished` | the broker refuses the task. Imports and reports catch the error and commit the row all the same; in the others the transaction ends as `AbortDispatch` |
| `Lookup` | start of `_send_webhook`: the row is read, or the task retries at most `DELIVERY_LOOKUP_MAX_RETRIES` times |
| `Post` | `httpx.post`, any answer |
| `Retry`, `Record` | `_maybe_retry` and the success branch: `task.retry` raises inside `get_session` and rolls back; the last retry and a success commit |
| `SweepSelect`, `SweepClaim`, `SweepPublish`, `SweepCommit`, `SweepAbort` | `claim_deliveries_to_retry` (its subquery, then its UPDATE), `_retry_failed_webhooks` |
| `CreateSubscription`, `UpdateSubscription`, `DeleteSubscription` | `POST`, `PATCH` (`is_active`, `retry_count`, at any time) and `DELETE /webhooks`, the last with the cascade |
| `Crash` | a worker dies or loses the broker; the message was acknowledged before |

`SweepClaim` shows what PostgreSQL does with `UPDATE ... WHERE id IN (SELECT ...)`:
a row that another sweep updates meanwhile is waited for and then updated again, for the
list of ids comes from the statement's snapshot. `Recorded` again writes only columns that
differ from what the worker loaded.

### Announcement

What is left of all this for whoever receives events: an event is sent only once it has happened,
an outcome is recorded only after it was sent, no more attempts are counted than were made, a
deleted event stays deleted. `WebhookDelivery` implements it under the refinement mapping `Promise` (`fate`
from the status of the row, `sent` from the POSTs, `counted` from `attempts`): dispatching, queueing, claiming
and dying are stutters; a commit is `Happen`, a POST `Send`, the outcome `Record`, the commit of a
sweep `Renew`. It promises no more on purpose: overlapping sweeps can put a success back to due.

### BatchCreation

A batch is its number and date (`Key`) and its work center. `tx[s].rows` and
`newCenters` are what a session has flushed, `created` and `skipped` the counters of the import.

| Action | Code |
|---|---|
| `CheckKey` | `get_by_number_and_date`: of all items of a POST before any is written (a conflict ends the request), of one row of an import (a conflict, or a row that `_row_to_item` cannot convert, is counted as skipped) |
| `FindCenter`, `InsertCenter` | `get_or_create`: the SELECT, the flush |
| `InsertBatch` | the flush of the batch. It waits for a session that has inserted the same key; an `IntegrityError` is caught by neither caller and ends the session |
| `ReportSelect`, `ReportInsert` | `dispatch_event("import_completed")` within `except Exception`: the subscriptions, the flush of a delivery. A failed flush is swallowed, but its session cannot commit |
| `Unsubscribe` | `DELETE /webhooks/{id}` meanwhile (it waits for a session that has inserted a delivery) |
| `Commit`, `Rollback`, `DeadlockVictim` | `get_session`, and what PostgreSQL does |

### Registry

What is left of the creation: a request has its effect at one moment, as if it ran alone then, or none. A POST creates all its
items or nothing; an import creates, for each key of the file that is not there, the batch of the FIRST row with that
key that can be read, and the centers of what it creates. `BatchCreation` implements it under the mapping `Serial`
(what is asked is `tx[s].req`): what a session looked up long before its commit is still true then.

### BatchCache

`batch` is the committed table, `cache` what Redis holds: `batch_detail:{id}`, the list, the
dashboard. One action per await between which others act:

| Action | Code |
|---|---|
| `Load`, `Flush`, `Drop`, `Commit` | a write (PATCH, products, creation, the sweep): look, write and take locks, delete the keys of `Affected` one by one, commit after that |
| `Get`, `Select`, `SelectSecond`, `Put` | a read: `cache_get`, two SELECTs, `cache_set`. PATCH and POST /batches take these steps BEFORE their commit, on their own uncommitted rows (`Seen`: the identity map of the session) |
| `Start` with `Push` | `update_cached_statistics`: the SELECTs and the `cache_set`, no look at the cache |
| `Expire`, `Rollback` | the TTL of a key; a failure of any step, which leaves what is cached |

One list key stands for those of all filters. `batch_statistics:{id}` is deleted by the code
and filled by nothing, so it is left out. The history variable `calm` says that no write has overlapped
another session's or failed; it only appears in `InvalidationComplete`.

### RateLimit

| Action | Code |
|---|---|
| `Arrive` | `dispatch` reads the clock: window and fraction of it |
| `Pipeline` | INCR, EXPIRE NX, GET as one MULTI/EXEC, and the verdict on the weighted count |
| `Unavailable`, `LoseReply` | `RedisError` before or after the pipeline took effect: the request passes |
| `Tick` | time. A pipeline takes effect at most `MaxLatency` ticks after the clock was read |

The comparison is multiplied by `Window`, so that a fraction is a number of ticks. A counter is
gone when its TTL has passed (`Count`), which is one window after its FIRST request.

### ExportPaging, ObjectStorage, FileTasks

| Action | Code |
|---|---|
| `Count`, `Select` | one call of `get_list` by `_fetch_all`: the COUNT, then the page, each on what is committed by then |
| `TableChange` | any commit that makes batches enter or leave the result (created, closed, reopened, moved to another filter) |
| `ExportUpload`, `ExportFail` (`PagingEnd`) | the rest of `_export_batches_to_file_async`: the file, the upload, the link in the result |
| `ReportBuild`, `ReportUpload`, `Announce`, `ReportFail` | `_generate_batch_report_async`: the file on disk, the upload over whatever has that name, `report_generated` and the result with the link; a failure, which leaves the upload |
| `ImportUpload` | `POST /batches/import`: a file under a new name |
| `LinkExpires`, `GrowsOld` | time: the link's 7 days, the file's 30 |
| `CleanupStart`, `CleanupList`, `CleanupDelete`, `CleanupEnd`, `CleanupFail` | `_cleanup_old_files_sync`: one cutoff; each bucket listed in full, then deleted file by file without another look; any call may fail and ends the task |

`FileTasks` composes the two: an export reads as `ExportPaging` has it and leaves a file among those of
`ObjectStorage`. A row is an id and the time of its transaction, which the batches of one POST or import share
(`created_at` is `now()`), so `Newest` gives every answer that `ORDER BY created_at DESC` allows. The history variables `left`,
`entered`, `late` and `split` only appear in the properties, as do `overdue` and `raced`.

Each `MC` module instantiates its namesake; some declare a
symmetry, used in runs of invariants and action properties only, never for liveness.

## 3. The runs

| Run | Instance | Shows |
|---|---|---|
| `lifecycle` | 2 batches, 2 codes, 2 sessions, 3 requests | `TypeOK`, `BornOpenCoherent`, `CloseNeverUnannounced`, `AggregationAnnounced`, `StatsNeverOverstate`, `ClosedBatchDrains`, `ClosedOnDemand`, `RecordKept` |
| `lifecycle_ends` | 1 batch, 2 codes, 2 sessions, 3 requests, fair | `SessionsEnd` |
| `creation` | 2 keys, 2 work centers, 2 sessions, 2 requests of up to 2 rows, 1 failure, fair | `TypeOK`, `SummaryTrue`, `CentersUsed`, `CentersExist`, `CreatedOnce`, `AsIfAlone`, `RequestsEnd` |
| `cache` | 1 batch, 2 sessions, 2 writes (1 fails), any reads and pushes, fair | `TypeOK`, `InvalidationComplete`, `EventuallyFresh` |
| `rate_limit` | 4 requests, limit 2, window of 3 ticks, time 6, latency 2 | `TypeOK`, `WindowLimit`, `RefusalJustified` |
| `webhook` | 2 deliveries, 2 workers, 1 sweep, 1 crash, late commits, `retry_count` 1 or 2, fair | `TypeOK`, `SingleTask`, `SuccessFinal`, `RetryLimit`, `EventuallySettled` |
| `webhook_faults` | 1 delivery, 2 workers, 2 sweeps, 1 crash, 1 failed sweep, late commits | `NoPhantomPost`, `PostBudget`, `AttemptsBehind`, `PromiseKept` |
| `files` | 4 batches, two of one transaction, pages of 2, 2 that enter or leave; 1 file per bucket, 1 failed cleanup | `TypeOK`, `FewMissed`, `FewRepeated`, `LinksAlive`, `CleanupThorough` |
| `closed_batch_frozen` | 1 batch, 2 codes, 2 sessions, 4 requests | a counterexample, see below |
| `rows_kept` | as `creation`, no failure | a counterexample, see below |
| `burst_near_limit` | 6 requests, limit 3, window of 4 ticks, no latency | a counterexample, see below |
| `retrying_overwritten` | 1 delivery, 1 worker, 1 crash | a counterexample, see below |

Why the bounds are enough. Two sessions meet in every pair of steps; a third could only
repeat what one of two does, and the wait-for cycles of more sessions have the
same shape. Two batches are needed
where a request names several (`add_products`) or the sweep several rows; three requests
allow a close, and a reopen with another session stale throughout. Longer chains (close,
reopen, close again) are covered by the proofs of `BornOpenCoherent` and `CloseNeverUnannounced`,
which hold for any number of requests. Two codes give both orders of writing, thus deadlocks;
so do two keys and two centers in `creation`, where files of two rows can follow a skipped row by
a good one; two requests meet in every way, and what a third would find committed the theorems cover. In `cache` two sessions are a writer and whoever meets it, and two writes a stale
value and the deletion that should remove it; keys other than `batch_detail` are shared, so one batch
shows every pair of keys. In `rate_limit` the time covers two windows, all that one request looks at, and a
latency of two ticks of three carries a pipeline into the window after its own. For deliveries
a `retry_count` of 2 allows a second round by the sweep, and its change to 1 takes the round away again, `MaxRetries = 3` and
`LookupRetries = 2` are the program's own values. `MaxRequests`, `MaxCodes`, `MaxRows`,
`MaxFaults`, `MaxWrites`, `MaxTime`, `MaxLatency`, `MaxCrashes`, `MaxAborts`, `MaxMoves` and `MaxFailures` bound the runs only: the
proofs hold for any value. In `files` four rows and pages of two make an export of two full pages, or of two and an
empty one; one tie that a page may split or not; and two moves, which is a row that leaves one page and one that
enters another. A file per bucket is enough for a cleanup that is between any two of them.
Deadlock is not checked: once all requests are spent the models stop by design.

Fairness. `BatchLifecycle!FairSpec` assumes that a session that has started keeps
running (an asyncio handler or a worker process, both supervised) and that PostgreSQL
resolves the deadlocks it detects; no request, shift end or failure is forced.
`BatchCreation!FairSpec` assumes the same of requests and imports.
`BatchCache!FairSpec` assumes the same of its sessions (whoever holds a row lock there waits for nobody, so
weak fairness is enough) and that each key with a TTL expires; reads, pushes and failures are free.
`WebhookDelivery!FairSpec` assumes that a transaction ends, that workers keep
taking messages and finish what they took (httpx has a timeout of 10 s), and that Beat
starts the sweep again and again. In the run that checks `EventuallySettled` sweeps neither overlap nor
fail half-way (one sweeper, `MaxAborts = 0`); with either the property does not hold, as
the next section says. The other faults are there, and the property names what may
become of a delivery that nobody takes (`Orphaned`): a worker died with it, or it was never sent at all, because the
broker refused the task or the commit came after the last of the three lookups (some four seconds). The first
leaves the row `pending` or `retrying`, which `retrying_overwritten` shows, the others `pending`. With `Timely` the
model can be restricted to commits that come in time.
`FileTasks` has no liveness property: nothing in the code repeats a failed export or report.

### What the code says and does not keep

Each of these runs ends in a counterexample; `findings` in `PROJECT.json` quotes the text.

- `ClosedBatchFrozen`: products can be added to, or aggregated in, a batch that was
  closed after the check (`product_service.py:44`, `:100`). What does hold is
  `ClosedBatchDrains`: a closed batch admits no *new* session.
- `RowsKept`: an import is to keep the rows it has created whatever becomes of its
  notification (`import_tasks.py:91`). The notification shares the import's transaction: a
  delivery that cannot be flushed is swallowed and then fails the commit. What does hold is
  `SummaryTrue`: an import that commits reports what it committed.
- `BurstNearLimit`: a burst across a window's end is to stay close to the limit
  (`rate_limit.py:43`). The counter of a window dies one window after its first request, early in
  the next one, so that 2 * limit - 1 can pass in a row. What does hold is `WindowLimit` and,
  since the same expiry makes the weighted count an underestimate, `RefusalJustified`.
- `RetryingOverwritten`: a row stays `retrying` for ever when its task is lost (`webhook_repository.py:133`).

Further disagreements the models have, for which no run is kept: a closing that two
sessions announce (`scheduled_tasks.py:41` says one event per batch; what holds is
`CloseNeverUnannounced`); a product aggregated by two sessions (`product_service.py:93`; what holds is
`AggregationAnnounced`, which asks only that there be an event, and `RecordKept`); `attempts`,
which counts the tasks that ran to their last retry and not the POSTs
(`webhook.py:124`; what holds is `AttemptsBehind`); a row that two overlapping sweeps claim
(`webhook_repository.py:125`; what holds is `SingleTask` for sweeps one at a time, and `PostBudget` and `PromiseKept` for any); a row
that stays `retrying` though its task has run to its end and no worker died: a sweep that failed after it had published, or
overlaps another, leaves a `failed` row with a task; the next sweep matches it while that task delivers it, and
publishes another; the worker of that one loads `success` before the sweep commits `retrying`, and its own `success`
is no change to what it has loaded (`webhook_repository.py:133`; what holds is `SuccessFinal` and `EventuallySettled` for sweeps
that neither overlap nor fail); a `batch_detail` that is stale for up to its 600 s because a GET
read the old row before a PATCH deleted the key and cached it afterwards, or because the PATCH cached a
row that was then rolled back (what holds is `EventuallyFresh`); an export that misses batches it
should have read, without any change, when a page ends between batches of one import
(`export_tasks.py:102` says all are exported; what holds is `FewMissed`), and with changes when rows leave the
result; a report that is deleted right after it was written again, because the cleanup had listed the one before
(what holds is `LinksAlive`); a report whose `report_generated` cannot be flushed, so that its task fails after
the upload (`report_tasks.py:80` says it must not; the cause is that of `RowsKept`); two exports of one second,
of which the later replaces the other's file; a delivery whose task the broker refused and that no sweep
takes up.

## 4. The proofs

`BatchLifecycle_proofs`, `BatchWork_proofs`, `BatchCreation_proofs`, `BatchCache_proofs`,
`RateLimit_proofs`, `WebhookDelivery_proofs`, `ExportPaging_proofs` and `FileTasks_proofs`: the
theorems hold for any sets of batches, keys, codes, work centers, requests, sessions, deliveries,
workers, sweeps, rows and files and any bounds. From the code's constants only the named `ASSUME`s of
the modules are used; TLC evaluates them in every run.

*BatchLifecycle.* `BornOpenCoherent` alone is not inductive: whether a commit keeps the
two columns together depends on what is in `tx[s].upd`, built from a row that may no
longer be in the table. The invariant `IInv` therefore says what each session
knows: the row it loaded was itself coherent if its batch was born open;
an UPDATE of a born-open batch writes both columns or neither (the key step: a coherent loaded
row differs from the new one in both columns or none), and coherent values of them; a session past
`counting` that will close a batch has the event of that batch in `stats`, so that `Commit`
never raises `closings` without `closeEvents`. Theorems: `Invariance`
(`Spec => []IInv`), `TypeCorrect`, `ClosedAtCoherent`, `CloseAnnounced`. One lemma per
action, cited by the step for `Next`.

*BatchWork* adds to `IInv` what sessions have written and not committed (`WorkInv`): nobody has
committed a code that a session has inserted, because two sessions never hold the same one;
`is_closed` is in an UPDATE only if the request asked for that value; a session aggregates in the batch it
has checked. With it a commit sets `is_aggregated` and counts the event for the same products, and
the products of a batch only grow (`AggregationsAnnounced`, `StatsConservative`); a change of
`is_closed` leads back to a request (`ClosingOnDemand`); and a session can begin to hold a batch only by a
check that finds it open (`ClosedDrains`).

`RecordIsKept` is the refinement of `Ledger`. What a commit writes must be what was asked, though it was
put together step by step; `RecordInv` adds to `WorkInv` what each session still owes (`RecordOK`). `ClosingOK`: the sweep's targets
are batches whose shift has ended, events are counted only for targets, a session that is done and has counted closes,
and an UPDATE that sets `is_closed` has locked exactly the targets, so that what is closed and what is
announced are the same batches. `AddingOK`: what is inserted and what is left in `todo` are together the items
of the request, and their batches were all checked before the first INSERT; at `done` nothing is left. `AggregatingOK`: what
is aggregated is among the codes asked for and in the batch named; an HTTP request keeps its one group to the end. These
survive the steps of others because no row vanishes and no product moves (`CommitProducts`). Each
step before a commit is one lemma that ends in `Works`: no table changes, and the session ends (`GiveUp`) or keeps its
request (a stutter). `CommitPerforms` maps the commit of each kind of request to its effect.

*BatchCreation.* `IInv` says of each session that its counters describe the items it is past
(`LocalOK`: created is the number of its rows, because their keys differ), that the keys it
has inserted are still free in the table and each center it has created carries a row or is about to
(`SharedOK`), and that no two sessions hold the same key. The last is what the unique
constraint and its waiting give, and it makes the others inductive: without it a `Commit` could take
away the keys of another session. Theorems: `CreationInvariance`, `CreationTypeCorrect`,
`SummaryIsTrue`, `CentersWithBatches` (`CentersUsed` and `CentersExist`), `CentersOfBatches`,
`NeverCreatedTwice`.

`CreationIsSerial` is the refinement of `Registry`. `SerialInv` adds to `IInv` what a session has read (`ReadsOK`): of the items it is past, each
that it skipped has a key that is committed or its own, and each that it took was the first with its key and is
a row of the session. Nothing that others do makes either untrue: a committed key stays, and a key the session has inserted nobody
else can commit. At `done` the session's keys are therefore the fresh keys of the whole request (`DoneFresh`), which is
what `Registry` creates.

*BatchCache.* `InvalidationComplete` speaks of moments without a write. The invariant says what holds
during one that has met nobody (`WriteOK`): before it flushes every key is fresh; afterwards every
key it has not still to delete is fresh for the table *as it will commit it* (`After`). That a key
outside `Affected` is such a key is the lemma `Unaffected`, and where the list of deletions is put to the test;
that what a PATCH caches of its own uncommitted row is one is `SeenIsAfter`. At the commit `After`
becomes the table. The types need a count: the work in a batch and the writes under way
never exceed the writes started (`WorkBound`). Theorems: `CacheInvariance`, `CacheTypeCorrect`,
`DeletionsComplete`.

*RateLimit.* `WindowLimit` speaks of requests, the code of counters. `KeyOK` ties them: while
its window lasts a counter equals the number of requests it has counted in time, since its TTL reaches
past the window's end; after that it is at most the number of those counted since it was set up. An
accepted request has seen a count within the limit, whatever the weight of the window before. `RefusalForCause`
follows from the same bound: what a request reads in the two counters are requests of the last
`Window` ticks, and the weights are at most one. Theorems: `RateInvariance`, `RateTypeCorrect`,
`LimitPerWindow`, `RefusalForCause`.

*WebhookDelivery.* `Inv` joins the types with: a worker that is past its lookup
works on a committed row, a row is not deleted while its subscription exists, and what was
posted was committed. It gives `WebhookTypeCorrect` and `NothingSentUncommitted` with
any number of overlapping sweeps, crashes and aborted sweeps. `SingleTask` and
`SuccessFinal` do not hold in general (two overlapping sweeps publish two tasks), so they are proved
under `SerialSweeps`: no sweep fails half-way, and all sweepers are equal (one at a
time), which is the schedule of Beat as long as a sweep ends within its 15 minutes. `SerialInv` says that a
delivery that is `failed`, `success` or about to be claimed has no task in the queue or
with a worker, and that a delivery has never two. Theorems: `OneTaskWhenSerial`,
`SuccessFinalWhenSerial`. `TasksWithinRetryCount` (`RetryLimit`) needs the same assumption, since overlapping sweeps publish one row twice: a delivery has at
most one task more than it has counted attempts, and one less for a failed row that has not been published
again (`LimitOK`), so that a sweep that publishes spends an attempt; and its limit is some value `retry_count` has had, for the
setting may change after the sweep has matched the row. The run `webhook` checks all three on an instance that meets the assumption.
`AttemptsNeverAhead` needs no such assumption: the attempts a worker has loaded, and one more once it
has posted, never exceed the POSTs made, whatever others record meanwhile. `PromiseIsKept` is the refinement:
under the mapping `Promise` the initial states are initial states of `Announcement` and each step is one of
its steps or a stutter, whatever crashes, overlaps and aborts. `PostsWithinBudget` needs no
assumption either. Nothing in the state says which retries of which task were sent, so `SentInv` says that there is a
set of pairs of a task and a retry, with as many members as the delivery had POSTs, none of which is still to be
sent by a message in the queue or a worker. A new POST adds a pair that was not in it, since `UniqueInv` has each task
in one place and a message that is put back has one retry more; and there are only (MaxRetries + 1) pairs
per task.

*ExportPaging, FileTasks.* An invariant about "the first rows up to the offset" is not
inductive: which rows those are changes with the table. `MissedInv` is stated for all sets at once instead:
take any rows `V` that are still missing, within a set `C` of rows of the result outside of which no row is newer than one
of `V`. Then `V` is no larger than what has left the result, or only by what `C` is larger than the
offset. `ExportsMissFew` and `ExportsRepeatFew` take from it and its like for repeated rows what the properties
name. For the files, `CleanupsAreThorough`: while a cleanup is under way each overdue file is in a bucket that is
still due or in the list being deleted; and `LinksStayAlive`, under the assumption that the links live no longer
than the files (`ExpiresDays <= OLD_FILES_MAX_AGE_DAYS`, 7 and 30 in the settings): a file behind a link is never
old, and only one that is written again under its old name can be listed.

Only model-checked: liveness (`SessionsEnd`, `RequestsEnd`, `EventuallySettled`, `EventuallyFresh`), which is out of
this prover's reach. Every safety property of a passing run is proved.

## 5. What is not modelled

- Two auto-close sweeps at the same time: `Start` allows one, since Beat starts it once a day. Sweeps of
  `retry_failed_webhooks`, every 15 minutes, may overlap (`Sweeper`).
- The payload of events, signatures, the `events` filter of a subscription: all deliveries are
  those of one subscription.
- The list keys per filter, and a Redis failure in `BatchCache` other than as "any step can fail". A POST, a row of
  an import and a call for products concern one batch there.
- Several clients of the rate limiter (their keys have nothing in common), clocks of processes that
  disagree, and a Redis that evicts keys.
- The connection pool: `core/database.py` builds it at import and every `asyncio.run` of a worker
  uses it; how the driver fails then is outside the repository, so any step may fail.
- An empty PATCH body, an empty list of codes, a code twice in one `POST /products`, a key twice in one
  `POST /batches`, an empty file: they end before they write.
- The contents of files, the layout of reports and exports, downloads, and two exports of one second, whose
  names are the same (a name is a file's identity in `ObjectStorage`, and only reports share one).
- The arithmetic of analytics, routers, schemas, configuration: they keep no state of their own and are
  functions of one request; unit tests reach them.

## 6. The plan

All modules of the plan are there, in the order of the sections above: the core (`BatchLifecycle`,
`WebhookDelivery`), `BatchCreation`, `BatchCache`, `RateLimit`, then the abstract specifications `Announcement`, `Ledger` and `Registry` with their refinements,
`ExportPaging` with `ObjectStorage` in `FileTasks`, and a module of proofs for each.

What would come next:

1. Names of export files, to say which of two exports of one second survives.
2. `BatchCache` with several filters of the list, once the code deletes some of them only.

None of the modules that are proved about declares a RECURSIVE operator.
