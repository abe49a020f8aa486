# CPA Usage Keeper in TLA+

CPA Usage Keeper is a Go server beside CLIProxyAPI (CPA). It takes usage
messages from CPA, stores them in SQLite, counts them into rollups, prices
them, accepts usage that other keepers and exporters push to it, and serves
the result. This directory models the parts of it whose correctness depends
on order, failure and concurrency: TLA+ modules, TLC runs over small
instances, and TLAPS proofs for all instances.

`PROJECT.json` is the machine-readable side of this file: which definition
models which lines, which run checks which property, which mutation of the
code each property catches, and the hazards the properties are aimed at.

    tlc -workers 2 -config UsageInbox.cfg MCUsageInbox    # one run
    tlapm UsageInboxProofs.tla                            # one proof module

## 1. Inventory

### The path of a usage message

    CPA queue --(subscribe | Redis LPOP | HTTP)--> RedisIngestRunner.pendingInbox
        --Insert--> redis_usage_inboxes --ProcessRedisUsageInbox--> usage_events
        --UsageAggregationRunner--> overview / activity / latency rollups,
                                    identity statistics
        --ArchiveExpiredUsageEvents--> archive
    exporter --POST /export/usage--> CommitUsageBatch --> redis_usage_inboxes

Everything is one process and one SQLite writer. Concurrency comes from
goroutines (one per runner, one per HTTP request) that interleave between
SQL statements and transactions, from the process stopping anywhere, and from
CPA and the exporters, which fail and repeat themselves.

### Components, their state and their operations

| Component | State | Operations | Hard behaviour |
|---|---|---|---|
| Ingest runner (`poller/redis_ingest_runner.go`) | mode, sub-state, last error and warning, `pendingInbox`, recovery deadlines | probe, backfill, receive, pull, fall back, recover, write inbox | messages are popped before they are stored; eleven call sites of one pull-and-write; a mode for each broken link |
| Inbox and event commit (`service/sync.go`, `repository/redis_usage_inbox.go`) | `redis_usage_inboxes` with status and attempts, `usage_events` | list, decode, resolve identities, mark failures, commit, notify, clean up | one batch in several statements; retries bounded and paced; clean-up and deletion run beside it |
| Keeper export (`service/usage_export.go`, `repository/usage_export.go`, `api/export_auth.go`) | instances, credentials, delivery ledger, stream watermark | authenticate, commit a batch, acknowledge; create, rotate, revoke, delete | replays, gaps, changed payloads, lost replies, two requests at once, checks made before the transaction |
| Aggregation (`poller/usage_aggregation_runner.go`, `repository/usage_aggregation_*.go`, `repository/usage_identities.go`) | checkpoints per instance and rollup, cursors per identity, wake channel, debounce, round state | announce, freeze target, rollup turn, identity turn, pass over pushed instances, archive | additive rows; three transactions per page; wake-ups; yielding to the inbox; permanent failure of one rollup |
| Metadata sync (`app/metadata_sync.go`) | notification mode, activation, two one-slot channels, debounce | signal, tick, refresh, sync | requests merged and delayed between two steps of a caller |
| Pricing recalculation (`service/pricing_recalculation*.go`, the three gates, `repository/usage_cost_recalculation.go`) | event costs, hour and day buckets, recent-event cache, quota cache, gates, task | price, commit, aggregate, archive, read, start, rewrite, finalize, reload, cancel | everyone else has to be outside while costs are rewritten, and has to be let in again whatever fails |
| Metadata export (`repository/metadata_snapshots.go`) | revision and body per instance and category | push a snapshot | late, repeated and conflicting revisions |
| Auth sessions, login limiter, OIDC transactions (`auth/`, `oidc/`) | session map over a table, pending activity updates, attempt windows, transactions | create, touch, revoke, expire, attempt, begin, consume | background writer against revocation; one-time use |
| Quota (`quota/`) | task queue, workers, cache with generation, pending header snapshots | enqueue, run, publish, invalidate, merge, flush, stop | a late worker against a newer task; a bounded map at its limit |
| Credential management (`service/credential_*.go`) | keyed locks, metadata version | read-change-write of an upstream list, coordinated snapshot | a snapshot fetched before a change and persisted after it |
| Startup pipeline and legacy migration (`app/startup_pipeline.go`, `repository/pricing_legacy_*.go`) | phase, bootstrap inbox, migration pages | bootstrap, migrate, validate, activate | a stop at any step while messages keep arriving |
| Backup and maintenance (`backup/`, `app/backup_runner.go`, `app/maintenance.go`) | files, retry counter, daily timer | copy, rename, compress, clean up, archive, vacuum | a stop between two file operations |
| Reads (`repository/usage*.go`, `service/request_log.go`, `api/usage_events.go`) | recent event cache, in-flight request logs, download tokens | plan a range, read rollups, cache and edge events, page by cursor, share a fetch | one answer pieced together from sources that change between the reads; local times with a changing offset |
| Rules (`tokenprocessor/`, `quota/normalize.go`, `activity/`, `pricing_metadata_sync.go`, old migrations) | none | token shapes, quota rows and verdicts, activity buckets, price choice | boundaries, missing values, several spellings of one fact |
| Small runners (plugin API keys, CPA error events) | bounded sets, retry index | accept, register, subscribe, retry | limits and retry counts over partial failures |
| Everything else | none of its own, or display state | formatting, encoding, web interface | covered by table tests |

`PROJECT.json` lists all the parts with their files, and why a part is not
modelled.

### What makes each component correct

* **Inbox**: no message is counted twice, none disappears except with a lost
  reply or a stop, a failing row gets exactly its five attempts with a pause
  between them, order of arrival is kept, a deleted instance stays empty, and
  every row is settled in the end.
* **Keeper export**: an exporter may delete what was acknowledged; what it
  repeats is stored once; the first payload wins; authentication that has
  become stale leaves nothing in a deleted instance.
* **Aggregation**: an event is in every rollup and in its identity once; the
  archive removes nothing that is not counted; the runner does not sleep over
  work; a broken rollup does not stop the others.
* **Ingest modes**: one consumed batch at most is held and it is stored; the
  status is about now; a broken subscription is tried again.
* **Metadata sync**: no request is forgotten.
* **Metadata export**: no older snapshot replaces a newer one, and the rows
  are those of the last accepted body.
* **Sessions and login**: what was revoked is never valid again, what is valid
  can be seen and revoked; one OIDC login gives one session, to the browser
  that began it; attempts stay within the limits.
* **Quota**: one provider call per credential at a time, no figure replaced by
  an older one, nothing forgotten at a full map or a failed write, rounds end.
* **Credentials**: a synchronisation never undoes a change that was made
  through the keeper; a change of one entry leaves the others alone, but for
  what others did meanwhile at a CPA without ETags.
* **Startup**: an interrupted upgrade goes on without pricing an event twice,
  and messages that arrive meanwhile wait in the inbox.
* **Reads**: an overview counts an event once whatever its sources do
  meanwhile; a walk shows an event once; reports of one range agree.
* **Recalculation**: totals are explained by events between any two
  transactions; no reader sees a change in mid-read; no cache keeps an old
  amount; the gates open again.

## 2. Modules

| Module | Models | Composition |
|---|---|---|
| `UsageLedger` | abstract: each offered message is counted or given up, once | |
| `UsageInbox` | ingest hand-over, inbox table, process runner, clean-up, deletion, crash; at its end the refinement mapping to the ledger | instantiates `UsageLedger` |
| `KeeperInstances` | instances and credentials | |
| `KeeperExport` | exporter, concurrent handlers, commit, acknowledgement, deletion | extends `KeeperInstances` |
| `MetadataExport` | metadata snapshots of an exporter that may be reinstalled | extends `KeeperInstances` |
| `UsageAggregation` | aggregation runner, announcements, archive | |
| `MetadataSync` | metadata runner under any signals | |
| `IngestModes` | ingest mode machine and the signals it gives | extends `MetadataSync` |
| `PricingRecalculation` | recalculation with everyone it has to exclude | |
| `AuthSessions` | session cache, table, activity writer, policy, API keys | |
| `AuthLogin` | attempt limiter; password, API-key and OIDC logins | extends `AuthSessions` |
| `QuotaRefresh` | task map, scans, dispatchers, workers, inspection, shutdown | |
| `QuotaHeaders` | figures from response headers, beside refreshes | extends `QuotaRefresh` |
| `QuotaHistory` | queues, runner, cycles and segments of the Codex history | |
| `CredentialMutations` | changes of credentials beside the synchronisation | |
| `StartupPipeline` | start and first upgrade, M0 to M8 | |
| `DatabaseBackup` | scheduled backups: schedule, copy, compression, clean-up, and a stop anywhere | |
| `UsageOverviewReads` | one overview request against rollups, cache and edge events | |
| `UsageEventLog` | cursor walk, shared request-log fetch, download tokens | |
| `UsageClock` | local times as text, days, reads by segments, the next quota round | operators |
| `UsageAnalyses` | compositions, latency and speed of an analysis; realtime blocks | operators over `UsageClock` |
| `UsageRollups` | activity buckets and grids; latency rows with their samples and sketches | operators over `UsageClock` |
| `TokenRules` | token shapes and the migrations that rewrite them | operators |
| `QuotaRows`, `QuotaWindows` | rows and verdicts of provider answers; usage of a window and efficiency of cycles | operators |
| `PricingCatalogue` | the choice among price candidates | operators |
| `UsageInboxProofs` | theorems about the inbox, and that it implements the ledger | extends `UsageInbox` |
| `KeeperExportProofs` | theorems about pushed usage and pushed metadata | extends `KeeperExport`, `MetadataExport` |
| `UsageAggregationProofs` | theorems about aggregation and the latency samples | extends `UsageAggregation`, `UsageRollups` |
| `ServicesProofs` | theorems about credentials, backups and the upgrade | extends `CredentialMutations`, `DatabaseBackup`, `StartupPipeline` |
| `AuthProofs` | theorems about sessions and logins | extends `AuthLogin` |
| `PricingProofs` | theorems about recalculation | extends `PricingRecalculation` |
| `QuotaProofs` | theorems about refresh tasks and response headers | extends `QuotaHeaders` |
| `UsageEventProofs` | theorems about ingest modes, the metadata runner, the event log and the overview | extends `IngestModes`, `UsageEventLog`, `UsageOverviewReads` |
| `MC*` | constants and scenes for TLC | |

Several `MC` modules put components that share no state into one run: a
variable `scene` fixed in the initial state says which of them a behaviour is
about, and the others keep their initial values. A property of a component
is then checked in its own scenes and holds trivially in the other ones.

### State and actions against the code

**UsageInbox.** `remote` is CPA's queue, `held` is `pendingInbox`, `inbox`
the table by id with status, attempts and the number of `usage_events` rows
each row ever caused. The process runner's batch is `todo`, `valid`,
`failing`; one action per SQL statement or transaction: `ListBatch`,
`DecodeMalformed` (the `decode_failed` update), `ResolveError`, `MarkFailed`
(update and read back), `Commit` (events and marks in one transaction),
`Notify`. The error paths are actions of their own (`DecodeMarkError`,
`MarkFailedError`, `CommitError`). `Cleanup` and `DeleteInstance` take no
lock, exactly as in the code, so a row may vanish under a running batch; the
update then matches nothing, and the integrity triggers refuse events of a
deleted instance. `Crash` forgets memory. Messages carry only what the
control flow asks of them: decodable, resolvable.

**KeeperInstances, KeeperExport, MetadataExport.** A handler goes through the
two reads of `Authenticate`, then its transaction, then a reply that may be
lost or arrive late; several handlers run at once. A payload is represented
by its digest: the first one or another. The watermark moves to the end of
the contiguous run (`Reaches`). The administrator's requests are single
transactions and interleave with all of it. The exporter is external: it
numbers events, keeps what is not acknowledged and may send anything it has,
in any order. A metadata body is a set of items together with the exporter's
`life` and `change` it was made at; revisions start again in a new life, and
the keeper orders what arrives by revision and digest alone.

**UsageAggregation.** `mem` is what the runner's mutex guards; `turn` holds
its locals, because a turn reads a snapshot and a page, looks at the inbox
and writes three times, and other goroutines act in between. `counted` says
how often a rollup contains an event: rows are added to, so the model counts
instead of setting. `notice` and `sync` are announcements between commit and
wake-up. `Archive` takes any set of old events that the code's check lets
pass.

**MetadataSync, IngestModes.** Channels are Boolean slots, a refresh request
is two steps (`recordRefreshRequest`, `SendRefresh`). `MetadataSync` is
checked with every sequence of signals an ingest runner may produce
(`AnySignal`). `IngestModes` contains the ingest runner completely and of the
metadata runner what its calls meet (`Observer`): the rest of that runner
changes nothing the ingest runner reads, nor `notificationMode`. All modes
call `serialPullAndWrite`; `site` names the call site, `Fallback` and `Top`
say what it does next.

**PricingRecalculation.** An amount is the price revision it was computed
with. A bucket is kept as the contributions of its events; its stored cost is
their sum, so "the bucket is right" is "every contribution is". One day of
hours; finalization overwrites whole rows, hours before days, and may stop
between rows. The gates are Booleans with the counters the code waits for
(`proc`, `maint`, `agg.active`, `reads`). `QueueSize` covers the append
channel and the batch in the worker's hand. The quota cache is reduced to its
generation and the amounts its entries were computed from.

**AuthSessions, AuthLogin.** The limiter is a value behind a
mutex, so `Allow` and its siblings are operators; where the full table evicts
one of several oldest sources the result is a set. What it has let through is
kept beside it, per instant, as the history `tries`. The session manager's
cache, its table, the pending activity updates and the update in the writer's
hand are four places for one session; a request through the middleware is
three steps (resolve, check the role, touch), `Touch` two, because the lock is
released in between. Time is counted in write intervals. A login begins with
a shared discovery flight, opens a transaction bound by a cookie, and its
callback consumes the transaction before it waits for the provider. Restarts
keep the table and lose everything else, and may bring another policy.

**QuotaRefresh, QuotaHeaders, QuotaHistory.** A worker changes a record only
while the map still holds that very record; the model keeps records in the
map and gives everybody else a reference (`Current`). Scans walk credentials one
by one and can be overtaken by an invalidation, which empties the map under a
new generation. The header worker's map of pending snapshots is bounded; its
flush reads a record, merges and publishes while refreshes do the same. A
figure is the time it was observed. The history keeps, per role of a window,
the runner's memory, the stored cycles and their segments; every write may
fail between two of its batches, and a cycle may be deleted under it.

**CredentialMutations.** CPA's rows, the local rows and the coordinator's
version. A change is: lock, call CPA (for a list: get, edit, put), complete
(local row, version, refresh request). Each get is answered with an ETag or, by
an old CPA, without: with one the put is sent with `If-Match` and a list that
has changed is refused, without one it is unconditional
(`provider_key_config.go:80`). The ETag stands for the list it came with. The
synchronisation pins the version, fetches, and persists what it fetched unless
the version has moved. Two histories: `outside` is the sequence of rows and
fields that others changed at CPA, and `drift` marks a row whose state at CPA
changed in a way no request writes locally (others changed it, an answer or a
local write was lost, or an unconditional put took a change of others back); a
synchronisation that stores the row ends it.

**StartupPipeline.** One action per transaction of M0 to M8, each with its
stop and its failing statement; the pages of M4 and M5, the checks of M6, the
baselines they compare with, the hand-over of the ingest writer from the
bootstrap to the business side, and messages that arrive meanwhile.

**DatabaseBackup.** Each step on the file system (create, copy, rename, open,
compress, remove, rename, remove the source, remove what has expired) is an
action that may fail, and the process may end after any of them. A file is its
stamp, its extension (`db`, `gz`, and the temporary `db.tmp` and `gz.tmp`), its
modification time and whether it is whole; what is in it does not matter, since
the copy is taken under a pinned snapshot. `plan` is the configuration:
interval, retention, compression. `runner` has the fields of the runner, and
`Tick` lets it be late or slow. Time is counted in retry delays.

**UsageOverviewReads, UsageEventLog.** An overview request fixes `queryNow`
and a plan (`Plan`: full days, full hours, ragged ends, `RawWindows`), then
reads one window after the other from the cache or the database and then the
rollups, while events are stored, queued for the cache, cached, pruned and
rolled up. What it adds up is kept as how often it counted each event. A walk
keeps the (time, id) of the last row it saw. A flight of `fetchRequestLog`
has waiters; `inflight` is the entry of the map.

**The operator modules.** `UsageClock` has instants, a zone as a list of
segments with their offsets, and the local text as a pair that is compared as
SQLite compares the text; `EventTimeReads` is the list of segment reads. The
others follow their functions one by one: a JSON object is a function from
field and spelling (`QuotaRows`), a calendar grid a sequence of cells and a
latency row its counts, a bag of sketch bins and a set of sample points
(`UsageRollups`), a price a position in an order (`PricingCatalogue`).
`MCAlgorithms` holds, for each, inputs and a reference definition written
without looking at the way the code computes it.

## 3. Runs

| Run | Checks | Shows |
|---|---|---|
| `usage_inbox` | `ExactlyOnce`, `RetryBudget`, `MessagesKept`, `NoHotRetry`, `DeletionIsFinal`, `ImplementsLedger`, `Settles` | the statement-level pipeline with failures, clean-up, deletion and a crash implements the ledger and drains |
| `keeper_export` | `StoredOnce`, `AcksAreStored`, `NothingAfterDelete`, `RowsMatchLedger`, `NoResurrection` | usage and metadata through two handlers at once: gaps, replays, changed payloads, lost and late replies, a reinstalled exporter, deletion |
| `aggregation` | `CountedOnce`, `AsleepMeansDone`, `ArchiveOnlyCounted` | legacy turns with failing statements, yielding, a late identity, archive and restart; or beside a pushed instance |
| `aggregation_live` | `HealthyRollupsGoOn` | the activity rollup fails for ever, the rest and the identities go on |
| `aggregation_frozen` | `HealthyRollupsGoOn` violated | the same with a pushed instance: finding 1 |
| `ingest` | `RequestsKept`, `HeldIsStored`, `SubscriptionReturns` | all modes and fallbacks while Redis may stay down for ever; merged, delayed and unlucky refresh requests |
| `recalculation` | `CostsAgree`, `OldPricesGone`, `ReadersUndisturbed`, `TaskEnds` | pages of one, failures, a crash, readers, a quota refresh, cache appends, maintenance and shutdown against the gates |
| `recalculation_pushed` | `CostsAgree` violated | pushed instances: finding 2 |
| `auth_login` | `SessionsAgree`, `AttemptBound`, `LoginIsOnes` | the middleware and the activity writer against revocation and restarts; attempts at the limits; two browsers with two OIDC transactions |
| `quota` | `RefreshSound`, `HistoryConsistent`, `NeverOlder`, `RoundsEnd` | four callers over one map; a manual refresh beside the header worker; the history runner with failing writes |
| `services` | `NoUndo`, `OnlyItsField`, `UpgradeSound`, `BackupsKept` | two requests and an outsider on one list beside a synchronisation; an upgrade stopped three times; backups with failing steps and crashes |
| `usage_reads` | `CountsOnce`, `EventLogServes`, `TimesExact`, `ReportsAgree`, `ChargesExact`, `QuotaExact` | the read side beside its writers, and the pure rules against their reference definitions |

Some properties are conjunctions of named parts, each with its own comment:
`MessagesKept` = `NothingVanishes` and `ArrivalOrder`; `Settles` =
`RowsSettle` and `QueuesDrain`; `SessionsAgree` = `GoneStaysGone`,
`NoHiddenSession` and `ActivitySettles`; `RefreshSound` = `OneCallPerCredential`,
`CompletedMeansEnded` and `NoSnapshotForgotten`; `HistoryConsistent` =
`SegmentsFall`, `MemoryIsBacked`, `NoInputForgotten` and `ResetsAdvance`;
`UpgradeSound` = `UpgradeNeverStuck` and `UpgradeExact`; `EventLogServes` =
`WalkIsComplete` and `LogsServedOnce`; `QuotaExact` = `VerdictExact`, `HeadersAgree`,
`WindowUsageExact` and `EfficiencyExact`; `BackupsKept` = `NamesPromise`,
`Restorable`, `Spaced` and `NothingLeft`; `ChargesExact` = `TokensExact` and
`PriceChoiceExact`; `ReportsAgree` = `RealtimeExact`, `SamplesExact`, `RangesAgree`,
`CompositionsAgree`, `ActivityExact` and `LatencyExact`; `TimesExact` = `ReadsExact`,
`DaysExact` and `ScheduleExact`.

Every property of a passing run has a mutant in `PROJECT.json`: a variant of
one definition (marked "Variant with a fault" in the module) that a slip in
the code would produce, under which TLC finds that property violated.

Two configurations stand beside the runs. `KeeperAdmin.cfg` (module
`KeeperExport`; `StreamsDrain`) and `MetadataSync.cfg`
(module `MetadataSync`; `RequestsServed`, `PollingCatchesUp`) check the
liveness of the exporter's stream and of the metadata runner; both pass.

    tlc -workers 2 -config KeeperAdmin.cfg KeeperExport
    tlc -workers 2 -config MetadataSync.cfg MetadataSync

### Bounds and why they are enough

* `usage_inbox`: three messages, one of each kind (unresolvable, undecodable,
  ordinary), two instances, batches of two, two attempts, one crash. A batch
  can be full or partial, mixed or uniform; a row can fail, be retried and be
  discarded; two batches can be held at once; a third message arrives behind
  a failing one.
* `keeper_export`: two sequences give a gap, a replay and a partial overlap;
  two handlers give every race between two commits, or between a commit and
  the deletion of the instance. For metadata, two revisions, two changes and
  two lives give a late, a repeated and a conflicting snapshot. Handlers are a
  symmetry set. `KeeperAdmin.cfg` has two credentials for rotation.
* `aggregation*`: two events and pages of one make a turn stop between pages and
  let checkpoints part; one identity can appear before or after its events. A
  behaviour is about the legacy instance with archive and restart, or about both
  instances with an identity that is known before the first event. With
  liveness, one event.
* `ingest`: no numeric bound. Batches are six kinds and `held` stays bounded
  by itself, which `OneBatchHeld` states.
* `recalculation`: two events over three instants of two hours, so a period
  can cut a day and an hour, with pages of one, so a task has several pages;
  or one event past the retention with maintenance, two simultaneous reads and
  a quota refresh. One task and one crash: a second task after a crash starts
  from the tables alone, which `CostsAgree` describes.
* `auth_login`: one request at a time against the writer, the administrator and
  restarts; two tokens because a request may carry two; two sources with a table
  of one, so that eviction happens; two browsers with two transactions, one each
  at a time, so that either limit is reached. Requests and sessions end with the
  first lifetime; attempts with wrong passwords go on to instant 4, so that two
  windows follow each other and let through all they can: twice the limit of all
  sources is really reached, and so is twice the limit of one source less one.
  Logins succeed at time 0 only. One failing statement, and no restart after it;
  one of the two beside logins. Browsers, transactions and tokens are symmetry
  sets.
* `quota`: two credentials and two slots; four callers, since a manual request,
  two overlapping inspections and a scheduled round treat the map differently;
  one invalidation or the shutdown. Headers: a map of one entry, so that it
  overflows, and one manual request (a second one beside a change of type meets
  an observation of section 4; `RefreshIsSound` is the statement without such a
  change, for any number of requests).
  History: three responses out of eight, which cover a cycle seen at several
  times and levels, a countdown reset, a next cycle and another window.
* `services`: two members of one list, two requests, every list with an ETag or
  without, and one change by others, made before a request has changed anything
  and with no failure after it (an unconditional put may take it back, also
  after a synchronisation has stored it); without the list's lock, two
  unconditional puts violate `OnlyItsField` here;
  a legacy database of three events with a gap in the ids, pages of one, two
  messages, three stops. Backups: a day of four units, an interval of two days
  and one that is no number of days, without retention and with one day, one
  retry, two faults and one slow unit within eight units: a failed attempt with
  its retry, a crash at any step, and a day that expires.
* `usage_reads`: days of two hours of two ticks, at most two events, a cache
  that reaches back less than a day, and ranges of every kind the API makes. A
  request for all instances comes without a comparison, with events of one
  instance. Walks over four rows with two stamps and pages of two; three clients
  at a fetch. The algorithms: zones with one change of offset at several
  instants, among them one that is larger than an hour; every combination of
  small counts; three events whose stamps fall on and beside the cells' bounds,
  merged in two pages, for heat and latency; money on both sides of every limit.
  Hour, day and retention lengths are constants of the modules, so the scale is
  smaller and the boundaries are the same.

Deadlock is checked where the system cannot stop (`usage_inbox`, whose runner
always wakes again, and the ingest and recalculation runs). Elsewhere the
bounded environment really ends: every event was produced, every instance
deleted, the runner sleeps, the service is shut down.

### Fairness

Safety runs use none. The liveness runs assume, per specification:

* `UsageInbox`: the loop of the process runner runs (weak); a pull, an inbox
  insert, a `decode_failed` or a `process_failed` update that is tried again
  and again is not refused every time (strong): SQLite's `busy_timeout` and
  the pauses between attempts are there for that. `Commit` is *not* assumed:
  a row whose commit always fails is discarded.
* `KeeperExport` (supplementary): the exporter goes on retrying with every
  credential it has, handlers end, and of the retries not all requests and not
  all replies fail.
* `UsageAggregation`: goroutines run, the timer fires, no statement fails for
  ever except the writes of the rollups in `Broken`.
* `MetadataSync` (supplementary): Go's `select` picks ready branches at random,
  so no branch that is ready again and again is passed over (strong); requests
  do not arrive less than a debounce window apart for ever (the debounce is
  trailing and has no upper bound: it would starve); not every sync fails.
* `IngestModes`: the Redis queue may fail for ever; HTTP, the subscription
  and the database may fail any number of times but not always, and no queue
  fills every batch for ever (the backfill would never end).
* `PricingRecalculation`: whoever is inside a gate leaves it, the cache worker
  and the task go on. Nothing is assumed about success.
* `QuotaRefresh`: scans, dispatchers and workers go on (weak); a provider call
  ends, by its own timeout at the latest, with any verdict.

## 4. Findings and observations

**Finding 1** (`aggregation_frozen`). A failing pass over pushed instances
requests itself again before the loop looks at legacy work. With one enabled
pushed instance and an activity rollup that keeps failing, no legacy event
reaches any rollup, while a test of the same failure without pushed instances
demands that overview, latency and identities go on.

**Finding 2** (`recalculation_pushed`). Finalization overwrites the buckets of
all instances with sums over events up to the last *legacy* event; aggregated
events of pushed instances beyond it vanish from their hour and day, although
the comment says the sum covers the whole bucket.

Further observations came out of the same models. They are not runs; each says
how to see it.

*Ingestion and aggregation*

* *Asleep over pushed events.* `aggregateInstanceOnce`
  (`usage_aggregation_runner.go:360`) passes over an instance with waiting
  inbox rows, or one that is disabled at that moment, and the request for the
  pass has been cleared. If those rows then end undecodable or discarded, or
  the instance is enabled again, nothing asks for another pass.
* *Repeated control messages.* A batch whose insert failed hands its control
  messages over again at the retry (`redis_inbox_writer.go:125`), so an old
  message re-enters notification mode after the failure had left it;
  `recordFailure`'s comment asks for a later message. Conversely a failed sync
  in notification mode waits for the next announcement.
* `Status()` is described as failing only when all entries fail, but an inbox
  write failure and a disconnected subscription set `lastError` as well.

*Costs*

* *Archived events* (`PricingRecalculation.cfg` without `e = 1` in `MCNext`:
  `CostsAgree` violated). Finalization sums the hot table only. With a hot
  retention below the 30 days a recalculation may start back, an hour or day
  that is partly archived loses the cost of its archived events; the passing run
  archives whole hours only.
* *Old prices after a completed task.* The same target as in finding 2: events
  of pushed instances beyond the last legacy event keep their old price
  (`PricingPushed.cfg` with `OldPricesGone`).

*Credentials and quota*

* *Queued and never dispatched* (add `QueuedRoundsEnd` to `Quota.cfg`). When
  the lookup of a later credential fails, `Refresh` returns before it starts
  the dispatcher of the tasks it has already queued. They stay queued, and every
  later request skips the credential as active; the comment at
  `refresh.go:245` asks for the opposite.
* *Headers of an earlier type* (`started' <= 2` in `OneCredential`, one
  credential, `Callers = {"manual"}`: `OneCallPerCredential` violated). A flush
  that looked a credential up before its type changed compares types only
  (`header_cache_worker.go:888`), so it replaces the active task of the new
  type, although the comment at line 796 says that no header replaces an active
  task; the next request then starts a second provider call beside the first.
  The passing run has one request beside the headers and does not meet it.
* *Throttled without a stored snapshot* (`FetchProviders` before `StoreList`).
  `fetchProviderMetadataThrottled` takes its time stamp when the fetch
  succeeds, not when the snapshot is stored; its comments say only a fully
  successful round advances it.
* *One of two formats* (`GivenFormatDecides` under `SparseSpec`). Comments of
  the Kimi and Gemini inspection say each format is judged for itself; a missing
  number reads as zero, so an answer in one format is judged "limit reached".
* *A list put back without an ETag* (drop the second disjunct of
  `OnlyItsField`). Where CPA gives no ETag, a request takes back what somebody
  else changed in the list between its get and its put, and nothing reports it.
  The comment at `provider_key_config.go:80` keeps this for old versions, and
  `provider_config_etag_test.go` asks for it. The keeper's own requests exclude
  each other by the list's lock, and the row taken back agrees again after the
  next synchronisation.
* A mutation whose answer is lost neither moves the version nor asks for a
  refresh. Overlapping `StartInspection` calls inherit `inspectionCompletedAt`.
  The history runner's reset anchor in memory moves with headers that decline.
  An exhausted pay-as-you-go budget of xAI, or Claude's extra usage at 100%
  alone, is "limit reached" although other budget remains.

*Reads*

* *Zones of half an hour.* Hour rows hold absolute hours. A custom range of
  hours is aligned to local ones and read from hour rows alone, and a day of
  such a zone does not begin on a row, although the comment at
  `repository/usage.go:918` promises exact filtering (`UsageReads.cfg` with
  `Zone = 1`, `MaxEvents = 1`: `CountsOnce` violated). `analysisUsesDailyStats`
  knows of the case for today and yesterday only.
* *Series against totals* (`SeriesMatchTotals`) and *list bounds* (`ListExact`):
  the comparison series of one instance adds up the rows of all instances, since
  its query lacks the instance filter that the totals have; and the list
  compares local texts without segments, so a bound inside an hour that the
  clock repeats selects the wrong events.
* An overview requested exactly at local midnight reads nothing. The cache's
  cover is judged by `queryNow`, its pruning by its own clock. The cache path
  filters by auth index, the database path for edge events by provider only.
  Offset pages may repeat or skip rows under ingestion. A CSV export that fails
  after its first rows ends as a truncated success.
* In zones whose clock skips midnight the daily grid of that day matches no
  stored rows, and a daily refresh may be due at 01:00 or at the second
  midnight; `ReportsAgree` and `ScheduleExact` speak of zones that show every
  midnight once. There, too, the cut-off of the latency rows
  (`latency/aggregate.go:39`) drops the oldest day a day early. Latency windows
  are aligned to local hours, the analysis to absolute ones.
* The 20260601 and 20260605 migrations compute a day with the event's own
  offset; the verifier of M2 has no upper bound for totals of negative counts.

*Backups*

* With an interval that is no number of days, a failing backup is tried again at
  once for ever when its retries are used up: the next one is due from the last
  success on. With a daily schedule the slots after such a failure get no
  retries.
* The clean-up also follows an attempt that failed, so under lasting failures the
  last backups go once their days have expired; `Restorable` promises no more. A
  compression that fails in the clean-up leaves the expired days where they are.
* `LastBackupAt` is the modification time. A late compression of an old file
  gives it a new one and puts off what is due by interval.

*Logins*: the window of all sources can be opened by an attempt that its own
source's limit then refuses, so twice its limit can pass within one window's
length; for one source it is one less. `AttemptBound` states both, and both occur.

*Instances*: deleting an instance leaves its row in `cpa_metadata_snapshots`;
an empty snapshot under way can write such a row after the deletion. No later
instance can reach it. Credential and identity-type lookups are not scoped by
instance.

## 5. Proofs

Eight modules prove, for every value of the constants, what the runs check on
small instances. The assumptions are those named in the modules; TLC evaluates
them on every run.

| Assumption | Says |
|---|---|
| `InboxAssumption`, `InstancesAssumption`, `ExportAssumption`, `MetadataAssumption` | the legacy instance is one of the instances, limits are positive numbers, bounds are numbers, every message has a kind, the credentials that push metadata are credentials |
| `AggregationAssumption` | pages are not empty, bounds are numbers, every identity has a home and every event an author, the legacy instance is not one of the pushed ones |
| `AuthAssumption`, `OIDCAssumption`, `LimiterAssumption` | lifetimes and bounds are numbers, limits and windows positive ones, a policy has its three fields, there is an address |
| `NoneAssumption`, `NoLoginAssumption` | the mark for "nothing" is no session, no update and no state; in `QuotaRefresh`, no record |
| `RecalculationAssumption` | the legacy instance is not one of the pushed ones, limits are positive numbers, instants and bounds are numbers |
| `MutationsAssumption` | bounds are numbers, the file is no member of the list |
| `StartupAssumption` | the legacy events are finitely many and have positive ids, pages are not empty |
| `BackupAssumption` | 04:00 is within the day and after midnight, intervals are positive, retentions and bounds are numbers |
| `OverviewReadsAssumption` | an hour has several ticks, a day has hours, the cache reaches back further than an hour, pages are not empty, rolling ranges have a length, stamps, offsets and bounds are numbers, filters name instances or all of them |
| `EventLogAssumption` | stamps and bounds are numbers, pages are not empty, tokens have a lifetime, the mark for "any kind" is no kind |
| `LatencyAssumption`, `GrainAssumption` | a sample may hold a point, a grid has cells and no more than its window has seconds, lengths are numbers |
| `RefreshAssumption` | there are finitely many credentials, callers are among the four, there is a worker slot, bounds are numbers |

| Module | Theorem | Statement |
|---|---|---|
| `UsageInboxProofs` | `TypeCorrect`, `CountedOnce`, `BudgetKept`, `NotifiedAfterCommit` | `TypeOK`, `ExactlyOnce`, `RetryBudget`, `NotifiedAreCommitted` always hold |
| | `MessagesAreKept` | `MessagesKept`: nothing vanishes or is doubled on its way, order of arrival is kept |
| | `SettledForGood`, `RetriesWait`, `DeletedForGood` | the action properties `SettledRowsStay`, `NoHotRetry`, `DeletionIsFinal` |
| | `PipelineIsLedger` | the refinement `ImplementsLedger` |
| `KeeperExportProofs` | `TypeCorrect`, `DeliveredOnce`, `ContiguousWatermark`, `SafeToForget`, `DeletedStaysEmpty`, `CredentialsDieWithInstance` | `TypeOK`, `StoredOnce`, `WatermarkExact`, `AcksAreStored`, `NothingAfterDelete`, `NoOrphanCredentials` always hold |
| | `PayloadImmutable` | the action property `FirstPayloadStays` |
| | `MetadataTypeCorrect`, `LedgerTellsRows`, `NeverOlderList` | `MetadataTypeOK`, `RowsMatchLedger`; the action property `NoResurrection` |
| `UsageAggregationProofs` | `TypeCorrect`, `EventsCountedOnce`, `SleepsOverNothing`, `ArchivedWereCounted` | `TypeOK`, `CountedOnce`, `AsleepMeansDone`; the action property `ArchiveOnlyCounted` |
| | `SampleOfAll`, `SampleIsFull` | the sample of latency points does not depend on how events are spread over pages, and is as large as it may be |
| `ServicesProofs` | `TypeCorrect`, `ChangesStay`, `PutsOnlyItsField` | credentials: `TypeOK`, `NoUndo`; the action property `OnlyItsField` |
| | `BackupTypeCorrect`, `BackupsAreKept` | `BackupTypeOK`, `BackupsKept`: names promise whole files, a finished backup can be restored until its day expires, an interval lies between those that were due, nothing temporary is left without a fault |
| | `UpgradeIsSound` | `UpgradeSound`: an interrupted upgrade is never stuck, and ends with every event converted, priced and counted once |
| `AuthProofs` | `TypeCorrect`, `OneStore` | `SessionTypeOK`, and `SessionsAgree` of every run of the session manager |
| | `LoginsUseSessions` | what the login handlers, callbacks and restarts do to the session manager are steps of it: `LoginSpec => SessionsSpec` |
| | `OwnLogin` | `LoginIsOnes` of every run with logins |
| | `AttemptsLimited` | `AttemptBound`: what passes the limiter in any window's length, per source and in all |
| `PricingProofs` | `TypeCorrect`, `OldPricesAreGone`, `CostsDoAgree` | `TypeOK` always; `OldPricesGone` if `Pushed = {}`; `CostsAgree` if also `~Expired` |
| | `ReadersAreUndisturbed` | `ReadersUndisturbed`: under a read no stored cost changes, and no cache is behind |
| `QuotaProofs` | `TypeCorrect`, `InspectionsAndSnapshots` | `TypeOK`; `CompletedMeansEnded` and `NoSnapshotForgotten`, two parts of `RefreshSound` |
| | `FiguresNeverOlder` | the action property `NeverOlder` |
| | `RefreshIsSound` | `RefreshSound`, in every run in which credentials keep their types |
| `UsageEventProofs` | `SyncTypeCorrect`, `RequestsAreKept` | `SyncTypeOK` and `RequestsKept` of the metadata runner under every sequence of signals |
| | `SignalsConform`, `RequestsAreKeptByBoth` | the ingest runner gives it no other sequence: `Spec => SyncSpec`; so `RequestsKept` of both together |
| | `TypeCorrect`, `BacklogStaysUpstream`, `StatusIsTrue` | `TypeOK`; the safety parts of `HeldIsStored` (`OneBatchHeld`) and `SubscriptionReturns` (`StatusIsCurrent`, `PollingWhileBroken`) |
| | `LogServesEveryone` | `EventLogServes`: a walk shows what there was, once and in order; a fetch serves everyone who waits for it; a link opens one download, its own, in its time |
| | `OverviewCountsOnce` | `CountsOnce`, in a zone of whole hours: the answer counts each event of its range once and no other, whatever is stored, cached, pruned and rolled up between its reads |

The last two theorems about recalculation have hypotheses, `Pushed = {}`
(`OnlyLegacy`) and, for `CostsDoAgree`, `~Expired`. They are not there for the
proof: with pushed instances both properties fail (finding 2, whose run shows it
for `CostsAgree`), and with partly archived hours `CostsAgree` fails (the
observation on archived events). The theorems say that nothing else breaks them:
no order of batches, pages, failures, closings and crashes, for any number of
events, revisions and tasks.

`RefreshIsSound` has the hypothesis `[][UNCHANGED kind]_vars`, that no
credential changes its type, and it too is needed: with a change of type two
provider calls may run for one credential (section 4, the observation on
headers of an earlier type). The other theorems about quota let types change.

`OverviewCountsOnce` has the hypothesis `WholeHours`, that the zone's offset is a
multiple of an hour. It is needed (section 4, *zones of half an hour*), and holds
wherever hour rows and local hours are the same hours. For such a zone the theorem
covers every length of hours and days, every rolling range, window of the
cache, queue, page size and number of events.

### The inductive invariants, and why they are needed

**UsageInbox.** `ExactlyOnce` alone is not inductive: it has to be known that
what a running batch holds in memory has not been counted. `BatchInv` says
so: rows in `todo`, `failing` and (before the commit) `valid` have no event
and are retryable or deleted; the three sets are disjoint; which of them may
be non-empty follows from `pc`. `RetriesWait` needs `TriedInv`: a row that was
marked since the last sleep is in no list of the batch, and unless the batch
is going to sleep it is settled. `DeletedForGood` needs `GoneInv`: every row of
a deleted instance is deleted, so a failure mark of a batch that still lists
it matches nothing. `MessagesAreKept` needs `OrderInv`: what is in the table,
in the held batches and in CPA's queue is one sequence in the order of
production, so that handing a batch on never overtakes. The
proof that a step preserves the invariant has one case per action; lemmas
describe what replacing a row and appending a batch do to the table.

**UsageLedger.** The mapping calls a message counted when its row caused a usage
event, and given up when it was lost or its row, settled without an event, is no
longer in the hands of a batch; the total is the number of usage events.
`PipelineIsLedger` follows the steps: `OfferNext` (a message that is pulled or
pushed is offered), `CommitCounts` (a commit counts one message per row, since
the rows it marks hold different messages, which `MessagesKept` gives), and
`KeepStep` (every other step keeps the usage events and can only give a message
up). The cardinality of the set of usage events is the number of rows that have
one (`FewEvents`, `Totals`).

**KeeperExport.** `AcksAreStored` is about instances that exist, and an
instance comes into being while replies are under way. `FreshInv` adds that
nothing refers to an instance that was not created yet: no credential, no
handler, no acknowledgement. `WatermarkExact` is preserved because `Reaches`
starts from a watermark that already covers stored events.

**MetadataExport.** The keeper compares revisions, the property speaks of the
lists behind them. `Numbered` connects them: of the snapshots of one life that
are under way, in a handler or in the ledger, the one with the higher revision
never carries the older list, and the exporter's counter is behind none of
them. `RowsInv` says that the rows are those of the ledger's body as long as the
instance is not deleted, and `Successes` that a success was given for that body
or for one the ledger has passed since.

**UsageAggregation.** A turn reads a snapshot of the checkpoints, reads a page,
and adds to the rollups one by one; between, other goroutines write.
`CursorsBehind` and `NoneAhead` say that no checkpoint and no count is ahead of
the table, `ArchivedPassed` that what has been archived lies behind every
checkpoint of its instance, so that a page read from the hot table misses
nothing. `SharedExact` says that the page read once for all rollups is, for
each rollup not yet written, exactly the events from the checkpoint in the
snapshot on, without a gap; the guard of the transaction ("the checkpoint is
still the one that was read") then means that nobody has counted any of them.
`FirstOfIsDense` and `PageIsExact` show this of a page when it is read. The
model bounds the table by `MaxRows` where rows arrive; `CommitEvent` repeats the
bound as a guard, which never holds it up.

`AsleepMeansDone` needs to know where work is written down while it is not
done. `RollupsDue` lists the places for an event a rollup misses (its
announcement, the pending window, the frozen target, the start that reads the
table), `NamesDue` those for an identity (an announcement, a wanted scan, the
part of the current scan that is still to come). `TurnKnows` says that what a
turn captured under the mutex is still so when it finishes, and `SleepsRight`
that nothing noted during the sleep is without a signal, a token or a timer.
That an identity page omits only what comes after it (`FirstOfIsFull`) needs
a least element of a set of numbers (`Least`); the library's theorem on
well-founded orders gives it without induction over an operator.

**CredentialMutations.** `NoUndo` speaks of rows at rest. `Agrees` is the
invariant per row: it agrees with CPA, or somebody else has changed it, or a
request that holds its key's lock is between its call and its completion
(`LocksExclude`: no other request is). `DocumentsRead` says that a list which
was read for a put differs from CPA's only in what others have changed since:
that makes a conditional put an edit of the present list, and an unconditional
one an edit that takes back no more than the rows `drift` marks. A snapshot that is older than a completed
change is harmless because the change has moved the version, which the
synchronisation compares before it writes.

**DatabaseBackup.** `NamesPromise` is not inductive without `CopyInv` and `ZipInv`,
which say what is on disk at each point of an attempt: while the source of a
compression may still be removed the compressed copy is there and whole, and
until then the source is. `SpaceInv` carries `Spaced` over a sleep: whenever the
sleep that was chosen ends, every backup that will not have expired by then is an
interval away; it needs that a day is where the clock divided by its length says
(`Euclid`), since daily schedules count days and others units. `LeftInv` says
what a run without faults has left behind.

**StartupPipeline.** `UpgradeExact` speaks of the end, so the invariant says
what each phase has reached. `ConvertInv` relates the rows to the recorded
backup, by the migrations applied since; `CursorInv` says that everything up to
a cursor is priced, and that what the phase has passed is complete; `OverviewInv`
that the rebuilt overview counts exactly the rows behind its two cursors;
`PhaseInv` that no event is added while the upgrade runs, and `InboxInv` that
messages are in the inbox until they are events. `PointInv` says at which points
of `Initialize` which phases are possible. With these no check of the pipeline
can refuse a database that an interrupted upgrade left (`~refused`).

**AuthSessions, AuthLogin.** A session is at four places at once. `Consistent`
says, per token: a token that was revoked is neither in the cache nor in the
table, and nothing is anywhere before the token was issued; a cached session has
its row and is the same login; and the times of activity in cache, pending map,
writer's hand and table are ordered, so that a late write only moves them
forward and none is missing unless its update failed. The logins are composed
with the session manager by steps of both; `LoginsUseSessions` shows that each
of them is a step of the manager or leaves it alone, so that `OneStore` holds of
the whole. For `LoginIsOnes`, `OneAt` says that of a transaction, a callback in
progress and a session at most one holds a state, each for the browser that
began it, and `LoginKnows` what a callback in progress knows.

`AttemptBound` compares instants a window apart, the limiter keeps only a count
and a start. `SourceWindow` relates them: the count bounds what was let through
since the window opened, the attempt that opened it was among that, and less
than the limit had passed in a window's length before; `SourceQuiet` says of a
source without a window that it may open one. `GlobalWindow` is the same for all
sources together, but for the attempt that opened the window, which may have been
refused. The history counts from the beginning, so that the passing of time
only moves the point it is compared with (`ThroughGrows`), and no sum over a
window is needed.

**PricingRecalculation.** None of the properties mentions the gates, and all of
them rest on them. `Gates` says, for each label of the task, whom it has
excluded by then: batches and clean-up once usage work has settled, appends to
the cache once they are drained, the aggregation runner once it has settled,
readers once they are drained; the order in which the gates open again is the
order in which the labels leave these sets. `Control` is `Gates` with the types.
`Fresh` adds where the caches may be behind: from the first rewritten page until
they are reloaded and emptied, at labels where readers are still blocked. A
quota refresh is under no gate, and may publish amounts it read before the
rewrite; the generation it compares is what stops it, so `Fresh` speaks of a
refresh only while its generation is the current one. `Repriced` carries
`OldPricesGone` through the task: a batch that is left when usage work has
settled has the new prices, and a page prices everything up to its last event
(`PagePrices`), which needs that a page that is not full has left nothing out
(`FirstOfIsFull`). `Sums` carries `CostsAgree`: both buckets hold the stored
costs up to the cursor, the page in the aggregation runner's hand is dense from
the checkpoint it was read at, and the rewrite meets no event beyond its target
and none that was not counted (`MeetsNothingNew`): only then may a page add
its difference to the buckets (`ApplySums`) and may finalization overwrite a
row with the costs (`FinalizeSums`). `Sums` and `Repriced` are
proved relative to `Control`.

**QuotaRefresh, QuotaHeaders.** `OneCallPerCredential` counts workers; what
keeps them apart is the record in the map. `Calling` says that a worker with a
call of the current generation has the running record of its credential, and
that no other worker holds a reference that could still start one. The first
half ends when the service closes, for then dispatchers fail records that
others hold; the second half stays. A reference never comes to stand for a
later record, since a new record is another object than every one that a
goroutine refers to (`FreshIsFresh`; `HeldStep`: a step adds at most one
reference). `OfItsType` says that references, jobs past their lookup and active
records are of the credential's type: the header worker compares types before
it leaves an active record alone. `NeverOlder` rests on `Observed`: a snapshot
holds nothing later than its time and only its type's figures, an active or
failed record holds none, and a completed one none later than its time, so
that comparing a record's time bounds each of its figures. For
`CompletedMeansEnded`, `OneInspection` says that while an inspection scans, the
round it will install has not begun. `TaskSteps` lists what a step can do to a
record.

**MetadataSync, IngestModes.** `RequestsKept` lists what may still lead to a
sync. `Kept` says which of it may be relied on where: before the first
connection is taken only its announcement, since requests are not queued then;
at the points of the loop that wait for or run a debounced sync the timer, and
while that sync runs not the timer, which its end drops. `SignalsConform` needs
`OneSignal`: a request of the ingest runner is sent before its next call, so the
two steps of a request never overlap with another signal of the same goroutine.
`BacklogStaysUpstream` follows from `HeldWhere`, which says at which points
nothing is held: a subscription listens, and a call returns, only with
everything stored, unless the call returns because the insert failed.
`StatusIsTrue` needs `StatusWhere`, because `recordState` forgets a failure only
on *entering* a healthy state: the backfill and the retry of Redis must still be
shown in the state they started in when they succeed, whatever failures were
recorded on the way.

**UsageEventLog.** `WalkInv` says that a row stored before the walk began was
seen, or lies behind the last row seen while more is promised, or was archived; a
page is the first rows in the order of (time, id), and that it leaves out only
what comes later is shown of sets with a least element (`WFMin`), for the
recursion over a sequence cannot be followed. `FetchInv` counts the waiters of
the flight that can be joined: they are the clients that have not left it.
`TokenInv` says that a token that has opened a download is stored no more.

**UsageOverviewReads.** What makes the answer right is the plan, and `PlanCovers`
says how: of the windows of single events, the full hours and the rollup rows, no
two hold the same instant (`Disjoint`: a window is read without its full hours,
rows lie within them), none holds an instant outside the range but for newer usage
at an open right end, and together they hold every instant of the range
(`Coming`). It is shown kind by kind of range, from lemmas on hours and days as
multiples (`FullHoursAre`, `WholeHoursRead`, `RaggedEnds`). `ReadInv` carries it
through the read: what was counted is of the instance and was asked for, and is in
nothing that is still to be read (`CountedRightly`); an event that was rolled up and
cached at the start is in the cache for as long as the cache reaches back to it, and
is counted, or is still to come, or was in a window that the cache served
and has left it since (`OwedIsKept`, `Slipped`); the snapshot holds what was
rolled up then (`SnapshotFits`). What goes on beside the read only adds events, moves
the cursor on and drops from the cache what it no longer reaches back to (`GoesOn`).

### Only model-checked

* All liveness properties: `Settles`, `HealthyRollupsGoOn`, `SubscriptionReturns`,
  `TaskEnds`, `RoundsEnd`, and those of the supplementary configurations.
* The other properties of `usage_reads`: `TimesExact`, `ReportsAgree`,
  `ChargesExact`, `QuotaExact`. They say what a fold over a table, a day's rows or
  a JSON array computes, and need induction over data, which is outside the
  prover's reach.
* `HistoryConsistent`: every batch of the history runner is one fold that merges
  observations in memory and another that writes them, so that each part of it
  rests on what a fold keeps.

## 6. Not modelled, and the plan

Not modelled: HTTP and JSON syntax, Redis encoding, decimal arithmetic and the
compilation of price rules, the error of latency quantiles, names, aliases and
listings, the migrations that only change the schema, the web interface.
They are translations without a protocol; the repository's table tests fit
them better. Messages lost inside CPA or on the wire appear only as
`LoseReply`. The lengths of timeouts are reduced to the order of what they
trigger.

Also not modelled, though they have state: the small runners (plugin API keys,
CPA error events). They meet none of the modelled components.

Work that is left, most important first:

1. An abstract specification worth stating: an atomic catalogue of prices,
   implemented by the recalculation with its gates.
2. The small runners.
3. `QuotaHistory` with its two folds as steps of one observation each, which could
   be proved about.
