# A verification of crm-sync

This directory models and checks the synchronisation engine in `src/src`: a
TypeScript service that keeps Salesforce and HubSpot in step. It migrates records
in bulk under reviewed plans, then listens to changes in either CRM and carries
them over to the other. The modules below are translated from that source. TLC
checks them on small instances and TLAPS proves the central invariants for every
value of the constants. `PROJECT.json` maps every definition to the lines it
stands for.

Source paths below are relative to `src/src`; docs are under `src/docs`.

1. [The system](#1-the-system)
2. [What is hard in it, and what should hold](#2-what-is-hard-in-it-and-what-should-hold)
3. [Modules and the code](#3-modules-and-the-code)
4. [Runs, bounds and what they show](#4-runs-bounds-and-what-they-show)
5. [Fairness](#5-fairness)
6. [Proofs](#6-proofs)
7. [What the code does not promise](#7-what-the-code-does-not-promise)
8. [What is not modelled](#8-what-is-not-modelled)
9. [Plan](#9-plan)
10. [Running it](#10-running-it)

## 1. The system

```
 webhooks, poller, CDC ──► SyncEngine.enqueue ──► sync_events (PostgreSQL)
                                                     │ claim / setStatus
   operators: replay, dismiss, approve ─────────────►│
                                                     ▼
                                 SyncEngine.pump ─► process(job)
                                                     │
                        ┌────────────────────────────┤
                        ▼                            ▼
              GovernanceStore             Reconciler.reconcile ──► connectors ──► CRMs
        (conflicts, deletion_requests)               │
                                                     ▼
                                    id map (record_links, sides, natural keys)

 plan routes ──► MigrationPlanStore ──► MigrationEngine ──► Reconciler.preview / reconcile
 AlertDigester ── lists dead_letter and manual_review jobs ──► SMTP
```

A server is one Node process. Its concurrency is the interleaving of handlers at
their awaits. Several processes may share the database, and the queue is written
for that (`FOR UPDATE SKIP LOCKED`). State that must survive is in PostgreSQL;
timers, promises and the digester's set of marked keys are lost with the process.

| Component | State it keeps | Operations | Talks to |
|---|---|---|---|
| Sync queue (`engine/syncEngine.ts`, `db/postgresSyncEventStore.ts`) | `sync_events`: status, attempts, `next_attempt_at`, lock; per process a timer, a `running` flag, executions in flight | init, enqueue, kick, pump, claim, process, replay, dismiss, approveDelete | Reconciler, GovernanceStore |
| Delete governance (`db/postgresGovernanceStore.ts`) | `deletion_requests`, `conflicts` | recordDeletion, completeDeletion, recordConflict | queue, Reconciler |
| Reconciler (`engine/reconciler.ts`) | none of its own; locals between awaits | reconcile, propagateDelete, preview | connectors, id map |
| Identity map (`db/postgresIdMapStore.ts`) | `record_links`, `record_link_sides`, `record_natural_keys` | bySource, byNaturalKey, upsertLink | Reconciler |
| Conflict, mapping, values (`core/conflict.ts`, `core/mapping.ts`) | mapping rows | resolve, toCanonical, fromCanonical, contentHash | Reconciler |
| Migration engine (`engine/migrationEngine.ts`, `db/postgresMigrationStore.ts`) | `migration_runs`, `migration_items` (frozen previews) | run, previewRecord, executePreview | Reconciler, plan routes |
| Migration plans (`db/postgresMigrationPlanStore.ts`, routes of `server.ts`) | `migration_plans`: revision, status, schema hashes, canary, preview | create, update, preflight, test-record, test-batch, preview, execute | migration engine, preflight |
| Alert digester (`engine/syncAlertDigester.ts`) | keys already alerted, in memory | tick, checkNow | queue (lists), SMTP |
| Poller (`engine/syncPoller.ts`, `db/postgresReplayCursorStore.ts`) | `webhook_cursors`; in memory the types being polled | tick, poll now, pollOne | connectors (lists), queue |
| Change-data-capture worker (`connectors/salesforce/cdcWorker.ts`) | the committed replay id of a topic | subscribe, persist, commit | queue |
| Webhooks (routes of `server.ts`, `parseWebhook` of the connectors, `engine/typeResolver.ts`) | HubSpot's cache of object type ids | receive, parse, resolve, enqueue, acknowledge | connectors, queue |
| OAuth sessions (`connectors/*/auth.ts`, `core/connectionStore.ts`, routes) | the connection of each CRM, a refresh in flight, the states of authorizations, `liveInited` | start, callback, disconnect, get a token, refresh, initialize | connectors |
| Sync settings and object mappings (`core/syncConfig.ts`, `db/postgresSyncConfigStore.ts`, `db/postgresObjectMappingStore.ts`, routes) | rows and their cached copies: pairing, field rules, natural key, settings | edit rules, edit key, re-pair, edit translations, patch settings, register, pause | every execution and poll reads the copies |
| Call policy (`core/httpPolicy.ts`, `core/rateLimiter.ts`) | next slot per limiter, retries per call | acquire, send, retry, repeat after a 401 | connectors |
| Migration requests and quotas (`server.ts`, `engine/migrationEngine.ts`, `db/operationsRepository.ts`) | `migration_runs`, `migration_items`, `usage_counters` | quota, run, incrementUsage | connectors, Reconciler |
| Associations (`engine/associationEngine.ts`) | `association_links` | syncRecord after a record is reconciled | connectors, id map |
| Field values (`core/mapping.ts`, `core/idMap.ts`), preflight (`engine/preflight.ts`), conditions (`core/syncConfig.ts`) | none: functions of rules, schemas and values | transform, translate, hash; report; evaluate and compile | Reconciler, migrations, poller, webhooks |
| The rest: API keys and audit, AI copilot, activity log, tenancy, dashboard, CLI | see `PROJECT.json` | | |

## 2. What is hard in it, and what should hold

The hazards are listed line by line in `PROJECT.json`. They fall into these groups.

**The queue.** The pump is a loop over awaits, guarded by a `running` flag and a
`timer`. A kick that comes while it runs is dropped, and what re-arms it afterwards
is a count of rows read at some other moment. Outcome writes (`setStatus`) are not
fenced by the lease, so that a slow execution may overwrite what a recovery, a
replay or an operator wrote. Operators check a job in one statement and change it
in another. `approveDelete` makes three writes, any of which may be the last. It is
correct when: a job in `processing` has somebody who is processing it; `completed`
means done; a delete request is not called completed before the record is gone; a
failing job is neither forgotten nor retried for ever; the attempt limit holds.

**The reconciler.** An execution reads the source, looks for its link, reads the
counterpart, records a conflict, writes the target, possibly writes the source and
then saves the link: up to eight awaited calls, with users editing both CRMs
meanwhile and any of the calls failing with or without effect. Each write it makes
raises an event in the other direction, and only content hashes stop the two CRMs
from answering each other for ever. It is correct when: linked records agree once
nothing is left to do; the engine's own writes are recognised; no second copy of a
record is created; a deletion carried over removes nothing that lives on the other
side; the whole comes to rest.

**Migration plans.** A plan is gated: preflight, a canary, a preview, then
execution, each valid for one revision of the plan. The gates look at a row that
was read before several awaits, while other requests edit the plan, take previews
and run canaries. It is correct when: nothing is executed that was not previewed
from the executed revision; no revision is executed before a canary of it was
verified; a preview that has drifted writes nothing; a verified canary was carried
out.

**The digester.** Jobs are marked as told before the mail is sent, the marks are
keyed by status and attempts, the lists are limited, and two checks may overlap. It
is correct when: one state of a job is mailed once per process; the timer alone
brings every state of a job that this process has not marked, and that its lists can
show, into a mail. That every failure is mailed about it does not achieve: marks
outlive a replay, a mail that is refused is not repeated, and lists end.

**Change intake.** A poll takes its next cursor before the first page and commits it
after the last enqueue, with records changing between two pages, calls failing, the
process dying and other processes polling the same type. The stream's worker commits
a replay id after it has persisted the event, and may not be the only worker. A
webhook is posted again until it is answered, perhaps while the first post is still
being parsed, and the canonical object of its record is looked up anew each time. It
is correct when nothing before a committed position is missing from the queue, when a
change that is reported twice is one job, and when what stays changed is seen in the
end.

**Sessions and calls.** A vendor may replace the refresh token whenever it is used,
so that two refreshes of one token lose the connection; a refresh stores the
connection it was given, whatever an administrator did meanwhile; the HTTP client is
built once from a session and kept. Retries, repeated requests and first sends share
a limiter that works by arithmetic on the clock. It is correct when the stored token
is one the vendor takes, when the client calls the organization that is connected,
and when requests keep their distance.

**Settings.** Six routes read the settings, change a copy, and write it, with awaits
between; an edit of what is synchronised must switch its sync off until an operator
has looked at it; re-pairing an object is three writes, and rules that name fields of
the old pairing must not survive it.

**Migration requests.** A quota is asked before a run and counted after it; the
report, the items and the errors of a run are written one by one while calls fail. It
is correct when the limit holds and when a completed report accounts for every record.

**Values, schemas, conditions.** The same rule, the same schema or the same condition
is interpreted in two places: the two directions of a transform, the preflight and
the writer, the webhook's resolver and the poll's query. They must agree, or an echo
is written on and on, a passed migration is refused, a record reaches one object by
one way and not by the other.

## 3. Modules and the code

One action is one database transaction, one call to a CRM or to SMTP, or one
stretch of code between two awaits. Contents, names and messages are model values.
A definition whose comment begins with "Mutant:" is a plausible bug in the
definition that follows it; no specification uses it, and it exists to show that
the properties notice (`PROJECT.json`, "mutants").

### SyncQueue

| TLA+ | Code |
|---|---|
| `status`, `attempts`, `due`, `lockedBy`, `leaseOld`, `age` | columns of `sync_events`; `due` is `next_attempt_at <= now()`, `leaseOld` is "locked_at older than five minutes", `age` the rank by `created_at` |
| `timer`, `pump`, `kicks`, `ending` | `SyncEngine.timer`; `running` and where the loop is; replies on the way whose continuation calls `kick()`; `stats()` calls made by the pump's `finally` |
| `work`, `seen` | the promises of `process(job)` the pump awaits, and the `attempts` their claim returned |
| `dismissing`, `approving` | operator requests between check and write |
| `request`, `removed`, `settled` | `deletion_requests`; records removed in the destination; history of changes carried out or found to need nothing |
| `Start`, `Kick`, `TimerFires`, `Claim`, `ClaimReply`, `PumpEnds`, `ClaimAgain`, `StatsReply` | `init()`, `kick()`, the timer's callback and `pump()` |
| `Execute` and its twelve actions | `process(job)`: skip, apply, the three delete policies, the `catch` block |
| `Enqueue`, `Replay`, `DismissCheck`/`DismissWrite`, `Approve…` | the public calls |
| `BackoffElapses`, `LeaseAges`, `Crash` | time and the end of a process |

A job is named by the identity of the vendor event, so a redelivery is an
`Enqueue` of a known name and changes nothing. `Claim` is the statement at the
database; `ClaimReply` and `PumpEnds` are separate since the rows are leased before
their process hears of it. That gap is where a kick gets lost.

### Reconciler

| TLA+ | Code |
|---|---|
| `crm` | the records of both CRMs (external) |
| `side`, `keyLink` | `record_link_sides`, `record_natural_keys` |
| `pending`, `deletions`, `tries`, `dead`, `review` | the queue, reduced to a set of records with an event waiting, the attempts of their job and its two bad ends |
| `run` | the locals of each `reconcile()` in progress |
| `Read`, `FindBySource`, `FindByKey`, `Search` | reading the record and `resolveLink` |
| `ReadCounterpart`, `RecordConflict` | the conflict check, `resolve()` and `governance.recordConflict` |
| `Update`, `Create`, `Heal`, `WriteFails`, `WriteBack`, `Save` | the write, its retry on the owner of a duplicate key, the write-back of a merged winner, `upsertLink` |
| `FindDoomed`, `RemoveCounterpart` | `propagateDelete` |
| `Fault` | a call that throws, with or without effect, or a process that dies with its lease recovered |

A record's content is a function of its canonical fields and its hash is the content
itself: SHA-256 is taken to be injective. What a CRM reads back for a written value
is a constant (`Kept`), as are required, read-only and key fields. Which of two
modification times is newer is left open, since each is stamped by another clock.
Two events for one record that wait at the same time are merged, since both would
read the record when they run.

### MigrationPlan

| TLA+ | Code |
|---|---|
| `plan` | the row of `migration_plans`: revision, status, schema hashes, preview and its revision, canary, execution run |
| `frozen`, `runs` | `migration_items` of each preview run, and the runs begun |
| `version` | what source and target hold of each record, as a number that any write or change increments: a frozen plan matches exactly while the version is the one it was made from |
| `schema` | the vendors' schemas, as a number |
| `req` | a handler: its route, its stage and what it has read |
| `SaveValidation`, `SavePreview`, `SaveCanary`, `FinishCanary`, `MayStart`, `FinishExecution`, `Edit` | the statements of the store, with their `WHERE` clauses |
| `Open`, `Check`, `Validate` | the gates of the six routes and the preflight |
| `BeginPreview`, `FreezeRecord`, `RecordPreview`, `RecordCanary` | `previewRecord()` and `run(dryRun)` |
| `BeginBatch`, `BatchRecord`, `VerifyCanary` | the batch canary and `finishCanary()` |
| `StartExecution`, `BeginVerify`, `VerifyRecord`, `BeginApply`, `ApplyRecord`, `EndApply`, `RecordOutcome`, `Abort` | `/execute`, `/test-record/execute` and `executePreview()`; `Executing(q)` from `startExecution()` to the answer |
| `CallFails` | any of a handler's calls throws: `Abort` goes on to `finishExecution(false)` in the `catch` of `/execute`, every other route answers with an error |
| `Crash` | the process dies and every handler with it |
| `canaried`, `proven`, `drifted`, `offPlan`, `stranded` | history, read by properties only; `stranded`: an execution ended without the write of its outcome since the row last became `executing` |

The Reconciler appears here as its effect on a version. A preflight may block, a
preview of a record may come out ambiguous or in error (`None`, which no execution
accepts). Any read or write may throw, any number of times, with or without effect,
and so may the two that decide what a plan shows: `startExecution()` runs before the
`try` (`server.ts:770`), so that an update whose answer is lost leaves `executing`
without a handler, and so does a `finishExecution()` that throws in the `catch`
(`server.ts:785`). Processes die any number of times too.

### AlertDigester

`status` and `attempts` are the queue as the digester can see it: `"queued"` covers
`queued`, `processing` and `retry`. Jobs are numbered as they were created, since a
list ends with the newest `MaxList` jobs of a status. `alerted` is the in-memory set;
`check` holds the checks in progress, the timer's (`Timer`) and operators'. `Begin`
and `Proceed` (`ListDead`, `ListReview`, `Mark`, `Send`, `SendFails`) are `checkNow()`,
`Toggle` and `Restart` the settings and the process. `mailed`, `lost` and `heard` are
history: the keys this process has mailed, those in mails that were not taken, and the
jobs an operator was mailed about in the state they have now.

### JobQueue

What the queue promises of an accepted event, without rows, leases, retries and
processes: `Accept`, `Perform`, `Report`. `SyncQueue!ImplementsJobQueue` is
`JobQueue!Spec` under the mapping `state <- Reported` (the status, as far as those
who enqueued the job can tell) and `done <- settled`.

### SyncIntake

| TLA+ | Code |
|---|---|
| `now`, `modified`, `gone` | the vendor's clock and the records of one native object (external) |
| `cursor`, `enqueued` | the row of `webhook_cursors`; the event ids handed to `SyncEngine.enqueue` |
| `poll` | per process the locals of `pollOne()`: `since`, `pollStartedAt`, the page token, the events so far |
| `Begin` | `tick()` or "sync now", with `runningTypes` |
| `ReadCursor`, `StartPaging`, `Page`, `ListDeleted`, `EnqueueEvents`, `Commit` | the awaits of `pollOne()` |
| `PollFails` | any of them throws, or the process dies |
| `View`, `PageOf` | what a page holds: Salesforce's query locator keeps the first result, HubSpot's search evaluates the query for each page |
| `starts`, `horizon` | history: the instants polls began at, the first look back |

### EventIntake

`published`, `cursor`, `queuedTo` and `worker` are the stream of a topic, the
committed replay id, what has been persisted and where each process's `consume()` is
(`Subscribe`, `Deliver`, `Commit`, `Disconnect`). `changes`, `parsing`, `acked`,
`dropped` and `jobs` are webhooks from the change to the answer (`Post`, `Parse`,
`ParseFails`, `Answer`); `class` is the canonical object whose conditions the record
meets at present, `known` HubSpot's cache of object type ids. An event's identity
(`EventId`) is the vendor's stamp, as in the connectors' `eventId`.

### OAuthSession

`conn` is the row of the connection store, `flight` the promise `refreshInFlight`,
`caller` the requests that need a token, each with the row it read, `client` the
connector's `http`, and `liveInited` the flag of `ensureLiveInit()`. `valid` and
`spent` are what the vendor still takes (external). `Start`, `Callback`, `Exchanged`,
`Disconnect`, `SaveCredentials` and `Reset` are the administrator's routes, whose
reset of `liveInited` is a step of its own; `Get`, `Seed`, `HandOut`, `Join`,
`StartRefresh` are `getAccessToken()`, `Refreshed`, `Refused`, `ReplyLost`, `Store`
the refresh. Tokens are numbered in the order the vendor issues them.

### VendorCall

`nextAvailableAt` is the limiter's, `call` holds each request's slot, due time and
`crmRetryCount`. `Request`, `Send`, `Throttled`, `Retry` are `acquire()` and
`installHttpPolicy()`; `Unauthorized` the interceptor for a 401; `Reinit` an
initialization, which makes a second client with a limiter of its own.

### SyncSettings

`row` is what PostgreSQL holds of one object, `mem` the copies in memory that
executions read, `req` the HTTP handlers. `EditRules`, `EditKey`, `RePair`,
`EditValues`, `PatchSettings`, `CreateOther` begin the six routes; `Store…` and
`AdoptPairing` are their writes; `PauseOrAnswer` and `Pause` are `pauseSyncIfLive()`;
`WriteConfig` and `ReplaceConfig` are `syncConfig.update()`; `Fails` is any of the
awaits throwing; `Restart` reloads the copies and merges the defaults. Field rules and
natural keys are known only by the pairing whose fields they name.

### MigrationRun

`usage` and `counting` are the month's counter and the increments under way, `run`
the locals of `run()` and its status row, `items` the rows of `migration_items`.
`Begin` asks the quota, `List`, `Take`, `Reconcile`, `StoreItem`, `NextPage`,
`Complete` are the loop, `IncrementUsage` the counting; `StoreItemFails` and
`ListFails` its errors. What a reconciled record becomes is in Reconciler.

### Associations

`lookups` and `related` are one record's relations in Salesforce and in HubSpot,
`linked` the related records that have a counterpart, `syncing` the `syncRecord()` of
each direction (`List`, `SyncRecord`, `Defer`, `Associate`, `Synced`, `SyncFails`),
`links` the rows of `association_links`. A Salesforce object may have no lookup to the
type, as from companies to contacts: `SetLookup` then changes nothing
(`salesforceConnector.ts:280`), and `RecordLink` stores the link all the same
(`associationEngine.ts:58-72`). `CanHold` says of a CRM that it has somewhere to keep
the association, and `made` which ones were really made.

### FieldConversion, PreflightChecks, SyncConditions

Pure code, written as operators and checked against what it is meant to achieve
rather than against a copy of itself. FieldConversion carries one field's value to
and fro (`Transformed`, `Looked`, `ContentHash`) until its echo is recognised.
PreflightChecks computes a report (`Problems`) and compares it with what
`fromCanonicalFields()` would write; a transform is unset, the explicit `identity` that
the dashboard saves in every rule (`operations.ts:464-465`), or another one, since
`isBidirectional()` takes the second for none (`preflight.ts:96-97`) and the severity
takes it for one (line 101). SyncConditions evaluates a condition as the
webhook's resolver does (`Evaluated`, `ResolvedType`) and as the compiled SOQL does
(`Selected`, `Polled`).

### How the modules meet

The queue abstracts an execution to its outcome (`Skip`, `ApplyChange`, `Fail`,
`FailAmbiguous`); Reconciler has the execution in full above a set of waiting
events. MigrationPlan abstracts a reconciled record to a version, MigrationRun to a
success or an error. AlertDigester reads a queue reduced to two columns. The intake
modules end at `enqueue`, where an event id is inserted once, which is `Enqueue` of
SyncQueue and `Accept` of JobQueue. SyncSettings' copies are the rules that
FieldConversion and PreflightChecks take as constants.

*Platform* puts the parts that share no state side by side: a behaviour of Platform
is a behaviour of one of its parts, the `topic`, so that one model-checking run visits
them all. It instantiates SyncSettings, OAuthSession, VendorCall, EventIntake,
SyncIntake, MigrationRun, Associations, FieldConversion, PreflightChecks and
SyncConditions; the variables of the others are `None`.

## 4. Runs, bounds and what they show

Each run asks one question. Bounds are constants whose names begin with `Max`.

| Run | Instance | States | Shows |
|---|---|---|---|
| `queue_lease` | 1 delete, 2 processes, cascade, 2 attempts, 1 replay, 1 crash | 1 852 373 | `LeaseAccounted`, `RetryWatched`, `TypeOK` |
| `queue_approve` | 1 delete, 1 process, manual review, 2 replays, 2 crashes | 80 436 | `CompletedIsDone`, `RequestHonest`, `AttemptBudget`, `DeadLetterStays`, `ImplementsJobQueue` |
| `queue_retry` | an update and a delete, 1 process, fair | 125 873 | `RetrySettles` |
| `queue_served` | 1 update, 1 process, fair | 773 to the violation | refutes `QueuedIsServed` |
| `rec_one` | 1 execution at a time, 3 ids per CRM, 3 edits, 1 fault, last-write-wins | 396 177 | `Agreement`, `NoTwinCreated`, `TypeOK` |
| `rec_echo` | as before, 2 edits, 1 deletion, no faults, field-merge, a unique key in HubSpot and a required field, fair | 329 695 | `EchoDropped`, `DeleteSparesLiving`, `Quiesces` |
| `rec_match` | 2 ids, 2 edits | 588 to the violation | refutes `MatchLinks` |
| `plan_gates` | 1 record, 2 concurrent requests, 2 revisions, 3 runs, any call failing, any number of crashes | 3 049 373 | `CanaryFirst`, `ExecutesItsRevision`, `ExecutingIsRunning` |
| `plan_record` | 1 record, all routes but the batch, 2 revisions, 4 runs, a user's change, a schema change, any call failing, any number of crashes | 4 024 293 | `CanaryRan`, `DriftStopsExecution`, `TypeOK` |
| `alert_checks` | 2 jobs, lists of 1, 1 attempt, 2 overlapping checks, 1 replay, 1 lost mail, 1 restart or change of settings, fair | 437 773 | `MailedOnce`, `EveryNewStateMailed`, `TypeOK` |
| `intake_poll` | 1 process, 2 records on a page each, 3 instants, 1 failed call or crash, fair | 838 102 | `Covered` (changes and deletions), `ChangeIsSeen` |
| `parts` | each part of Platform in turn, see below | 2 146 793 | one or two invariants per part |

The parts of Platform, in the run `parts`:

| Part | Instance | States | Shows |
|---|---|---|---|
| settings | 2 handlers, 4 requests, 1 re-pairing, 1 restart | 221 000 | `PauseHolds`, `RulesFitPairing` |
| session | 2 callers, 2 tokens besides the first, 1 authorization, 1 lost answer or restart, rotation | 417 000 | `TokenKept`, `ClientIsCurrent` |
| call | 3 calls, 1 retry and 1 repetition each, 4 ticks, slots 2 apart, 1 second client | 249 000 | `SlotsSpaced` |
| intake | 2 processes, 2 events in the stream, 2 changes by webhook, 1 fault | 249 000 | `StreamHasNoGap`, `JobPerChange` |
| poll | 2 processes, 1 record, 3 instants | 591 000 | `Covered` |
| run | 2 requests, 3 records in pages of 2, quota 3, 2 failures | 12 000 | `QuotaHolds`, `ReportAccounts` |
| associations | 2 related records, 0 to 2 lookups, 2 edits, 1 failure | 24 000 | `RecordedIsMade` |
| field | 10 kinds of field, with 3 tables of translations; up to 4 writes | 219 | `EchoEnds` |
| preflight | 174 960 combinations of rules, schemas and key profiles | 349 920 | `PassedIsWritable` |
| conditions | 2 objects on one native object, numbers to 2, texts over 2 letters | 33 000 | `ResolvedAsPolled` |

Why these bounds are enough to be interesting:

- *Queue.* A lost update needs two writers of one row: one job suffices, with two
  processes, or with one process and an operator. Two attempts make "retry" and
  "exhausted" both occur. One crash strands a lease, a second one strikes after
  the recovery. One replay may land in every phase of an execution. `queue_retry`
  has two jobs, so that one job's progress can be starved by the other's. Rows are
  independent of each other except through the size of a claim and `stats()`; the
  theorems of section 6 remove the bounds for all its safety properties.
- *Reconciler.* Three edits let a user change each side once, and one side again
  during the execution. Three ids per CRM leave room for a record on each side, a
  created counterpart and one more. Values are one key, two or three bodies and
  null.
- *Plans.* Two requests are enough for every pair of routes to overlap; two
  revisions for any "older than"; three runs for a canary, a preview and an
  execution; a fourth for the canary's own execution. `MCMigrationPlan_drift` repeats
  `DriftStopsExecution` with two records and two changes, so that the second can drift
  while the first is checked (312 325 states); the theorem has any number of both.
- *Digester.* The key of an alert concerns one job, the overlap two checks. A second
  job and a list of one make the limit bite: the newer job keeps the older one off the
  list. With one attempt a replayed job reaches a key that may be marked already; the
  restart forgets the marks at any moment. `MCAlertDigester_attempts` repeats `MailedOnce`
  with two attempts, so that keys of one job differ in them, and two restarts or
  changes of settings (3 450 759 states); the theorem has any number of all of these.
- *Intake.* Two records on a page each put a change between two pages; three instants
  are a cursor, a change and the next cursor. Overlap needs two processes and one
  record, which is the part of Platform; failures and liveness are the run with one
  process. Two events in the stream are the least among which one can be skipped.
- *Settings.* Four requests of two handlers: an edit, another that overlaps it, an
  operator's settings and an edit after them.
- *Session.* Two callers share a refresh or miss it; one authorization replaces the
  connection meanwhile. `MCPlatform_types` repeats both properties with three tokens
  (two rotations after an authorization), and checks the type invariants of all parts.
- *Calls.* Three requests are a burst with one in the middle; a slot is two ticks, so
  that requests can come too close. *Runs*: two requests that both fit the quota and
  together do not. *Associations*: two lookups that compete for one relation.
- *Values, preflight, conditions.* Every transform the dashboard offers, on the types
  of the two CRMs that it fits; every judgement of a rule, alone and beside a second
  rule for the same field or for another one; every operator on blanks, equal, smaller
  and larger values.

`MaxCalls` is 1 in every queue run: one reply whose continuation kicks, and one
`stats()` call, may be outstanding in a process at a time. `plan_gates` uses
the routes batch, preview and execute, which are the ones that reach an execution with
the fewest runs. Its `VIEW` leaves out `proven`, `drifted` and `offPlan`, histories
that no action's guard and none of its three properties reads, so that two states that
differ in them only have the same behaviours as far as the run is concerned.

Deadlock is checked in the MigrationPlan runs, where a request can always be made.
The other modules describe systems that come to rest when users, vendors and
operators do nothing more, or when a `Max` bound is reached, so that deadlock is
not checked there; what must not stop is stated as a liveness property.

Symmetry is used for interchangeable ids, links, processes, records and requests,
and only in runs without a liveness property.

### Found by the runs

1. **An acknowledged event may wait for the next call** (`queue_served`,
   `engine/syncEngine.ts:103`). The pump's last, empty claim has read the table but
   its reply is on the way; an event is inserted and its kick returns at once,
   since `running` is still true; the pump ends and asks only for the count of
   *retry* rows. The event stays `queued` until something else calls `kick()`. The
   comment at line 45 promises: "Persist first, then schedule. Webhook handlers can
   safely acknowledge after this resolves."
2. **A first-time match is refused by PostgreSQL** (`rec_match`,
   `engine/reconciler.ts:130`). The link found by natural key has a fresh id that no
   row of `record_links` has, and its target hash is undefined, so the conflict
   branch is taken and `recordConflict` inserts that id into a column that
   references `record_links(id)`. `docs/ARCHITECTURE.md:96-97` says "A match links
   the two records instead of duplicating". The in-memory stores of the tests have
   no foreign key.

## 5. Fairness

`FairSpec` assumes of each module only what the event loop, timers and awaited calls
provide. Users, operators, vendors' deliveries, crashes and lost mails are never
fair.

- *SyncQueue*: weak fairness of `Start` (a stopped process is started again), of
  every step of the loop (a resolved promise continues, an armed timer fires, a
  query is answered), of `Execute(e, j)` as a whole (an execution goes on, to
  whatever outcome) and of `BackoffElapses` and `LeaseAges` (time passes). There is
  no fairness between the outcomes of an execution: it may fail every time.
- *Reconciler*: weak fairness of `Step(w)`: an execution that has begun goes on, and
  a worker that is free claims a waiting event. Which event it claims is not fair.
- *AlertDigester*: weak fairness of `Begin(Timer)`, since the interval timer fires as
  long as the process runs, and of `Proceed(c)` for each check that has begun, whoever
  began it: queries are answered and a mail is taken or refused. Operators need never
  ask for a check. `EveryNewStateMailed` is conditional on notifications staying on.
- *SyncIntake*: weak fairness of `Advance` (the clock runs), of `Begin(p)` (the schedule
  ticks as long as the type is enabled) and of `PollStep(p)` (calls are answered).
  Changes, deletions, settings and faults are not fair; `ChangeIsSeen` is conditional
  on polling staying enabled.

## 6. Proofs

`tlapm` proves, for every value of the constants that satisfies the modules'
assumptions:

| Theorem | Says |
|---|---|
| `SyncQueueProofs!TypeCorrect` | `Spec => []TypeOK` |
| `SyncQueueProofs!LeaseAlwaysAccounted` | a `processing` row is being executed by the live process that holds it, or its holder is gone |
| `SyncQueueProofs!RetriesWatched` | a row in `retry` is watched by some process, or some process is down |
| `SyncQueueProofs!CompletedAlwaysDone` | `completed` only after the change was carried out |
| `SyncQueueProofs!RequestAlwaysHonest` | outside cascade, a linked delete request is `completed` only after the removal |
| `SyncQueueProofs!BudgetAlwaysKept` | one process attempts a job at most `maxAttempts` times, and once more for each crash |
| `SyncQueueProofs!DeadLettersStay` | with one process, only an operator brings a dead letter back |
| `SyncQueueRefinement!QueueImplemented` | `Spec => ImplementsJobQueue`: the queue implements JobQueue |
| `MigrationPlanProofs!TypeCorrect` | `Spec => []TypeOK` |
| `MigrationPlanProofs!CanaryAlwaysFirst` | no execution of a revision without a verified canary of it |
| `MigrationPlanProofs!ExecutesWhatWasPreviewed` | an execution carries out a preview of its own revision |
| `MigrationPlanProofs!ExecutingMeansRunning` | a plan shown as executing has a handler executing that revision, unless an execution ended without the write of its outcome: by a crash, by a `finishExecution()` that throws in the `catch`, or by the lost answer of `startExecution()` |
| `MigrationPlanProofs!DriftAlwaysStops` | an execution whose preview drifted before it began writes nothing |
| `MigrationPlanProofs!VerifiedCanaryRan` | while a plan is tried out on single records, one request at a time, its verified canary has written a record without an error |
| `AlertDigesterProofs!TypeCorrect` | `Spec => []TypeOK` |
| `AlertDigesterProofs!AlwaysMailedOnce` | no process mails the same state of a job twice |
| `SyncIntakeProofs!NothingLeftBehind` | with a query that is evaluated once, nothing before the committed cursor is missing from the queue |
| `PlatformProofs!SlotsAlwaysSpaced` | two requests of one client that wait or are under way are an interval apart |
| `PlatformProofs!StreamNeverHasGap` | no event up to the committed replay id is missing from the queue |
| `PlatformProofs!JobAlwaysPerChange` | an acknowledged, stamped change is one job, however often it is posted |
| `PlatformProofs!RecordedAlwaysMade` | an association is recorded only after its parent was linked and, where the CRM can hold it, after it was made |
| `PlatformProofs!PassedAlwaysWritable` | a passed preflight rules out a write to a field that is missing or read-only, and a value of another type goes through a two-way transform or stands under a warning |
| `PlatformProofs!AlwaysResolvedAsPolled` | a webhook's record is resolved to an object whose poll lists it |
| `PlatformProofs!QuotaAlwaysHolds` | what is migrated stays within the month's limit, while runs do not overlap |
| `PlatformProofs!ReportAlwaysAccounts` | a completed report has an item for each record and an error item for each error |
| `PlatformProofs!PollsAlwaysCovered` | the same as `NothingLeftBehind`, of the polls of Platform |
| `PlatformProofs!EchoAlwaysEnds` | one write carries a change of a field whose rules fit its values; its echo is recognised |
| `SettingsProofs!PauseAlwaysHolds` | an edited object stays off until an operator asks for other settings, while one config is written at a time |
| `SettingsProofs!RulesAlwaysFit` | rules and natural key are those of the paired objects, while a re-pairing is neither cut short nor overlapped |
| `SettingsProofs!TokenAlwaysKept` | the stored refresh token, or its successor in flight, is one the vendor takes |
| `SettingsProofs!ClientAlwaysCurrent` | a connector taken as initialized calls the organization that is connected |
| `ReconcilerProofs!TypeCorrect` | `Spec => []TypeOK`, and what the locals of an execution hold at each stage, for any number of workers |
| `ReconcilerProofs!OneWorkerAgrees` | with one worker, two linked records that nothing will see to any more agree |
| `ReconcilerProofs!OneWorkerSparesLiving` | with one worker, a deletion that is carried over removes no record that is linked to a living one |
| `ReconcilerProofs!OneWorkerMakesNoTwin` | with one worker, no record is created beside one of the engine's own with the same key, while keys are kept as written and users leave them alone |
| `ReconcilerProofs!OneWorkerDropsEchoes` | with one worker, an execution that read what the engine wrote to a linked record never writes, under the three conditions below |

**Assumptions.** `SyncQueue!ConstantsAssumption`: finitely many jobs, deletes among
them, linked ones among those, a positive concurrency and attempt limit, one of the
three policies. `SyncQueue!LockHolderAssumption`: no process is called like the two
markers. `MigrationPlan!ConstantsAssumption`: a finite, non-empty scope, bounds that
are numbers, and a `None` that is neither a number nor a record.
`AlertDigester!ConstantsAssumption` and `SyncIntake!IntakeAssumption` are of the same
kind: positive limits and pages, finitely many records, a `None` that is no number.
`NothingLeftBehind` supposes besides that `Paging = "locator"`: for HubSpot's paging by
offset it is false (section 7). `Platform!PlatformAssumption` says that bounds are
numbers, intervals and pages are positive and limits are numbers; `NoneIsNoRow` that
the absence of a connection is not a connection. `Reconciler!ConstantsAssumption` and
`MarkersAssumption`: the key fields are fields, a CRM makes a value of a value, and
the markers for what is absent are neither contents, ids, links nor link rows.
`EchoAlwaysEnds` supposes that every configured field `Fits`; `MCPlatform` assumes it
of the fields of its run, so that TLC finds the hypothesis met by each of them. The number of processes and requests
is arbitrary, infinite included. Theorems about a part of Platform are stated of
Platform's `Spec`: a step of Platform is one of its topic's part, which the other parts
leave alone (`StepOfTopic` and its like).

**Argument for the queue.** Each invariant is proved over `TypeOK`, one case per
action. `LeaseAccounted` needs no strengthening: `ExecuteShape` first shows that every
step of an execution either moves it to another phase (`Advance`), leaving its row,
or ends it with a row that is not `processing` (`Finish`), so that the execution a
lease rests on cannot end without the lease. `RetryWatched` rests on the same shape:
a row comes to be in `retry` only from a process whose pump is working or which has
just started, and a pump ends only into a `stats()` call, whose reply sees the row.
`CompletedIsDone` is strengthened by "an execution in phase `settled`, and an
approval in step `removed`, has its job in `settled`". `RequestHonest` is
strengthened by "an approval past its removal has its linked record in `removed`".

**Argument for the refinement.** `StepIsQueueStep` sorts the steps of the queue into
four kinds: those that leave what is reported of every job and `settled` alone, those
that accept new jobs, those that carry one out, and those that write an outcome.
`QueueStepRefines` maps each kind to a step or a stutter of JobQueue. Two facts are
needed besides `TypeOK`: `DoneInv`, since only a job in `settled` may be reported as
completed, and `AcceptedFirst`: an execution, an approval or a dismissal under way is
of a job whose row exists, and rows are never deleted.

**Argument for the plan.** `Inv` in `MigrationPlanProofs` is inductive. None of the
four properties is: they speak of a handler's *copy* of the row, read before several
awaits. The strengthening says that what a row says of runs and canaries is true of
*any* copy, old or new (`RowOK`): its preview is a run nobody adds to any more
(`Settled`) and was taken from the revision it names; its verified canary is in
`canaried`. That survives every step because the world moves in one direction
(`Grows`): runs are appended, settled runs never change, versions only increase,
`canaried` only grows. `RowKept` and `HandlerKept` state this once, and each action
then has to argue only about the one handler it moves. For drift, `Unchanged` says of
an execution that every record it has checked was, when it *began*, at the version of
its preview: preview version <= version at the beginning <= version now, and the
check found the first equal to the last.

**Argument for the budget.** `OneProcess` is needed: with two, an execution that
outlived its lease writes over what the other process made of the row. For the one
process, `Orderly` says that its pump claims only when nothing is under way, and that
it holds no row while it is down; `Budgeted` bounds the attempts of each row by its
status, by `maxAttempts` and one for each crash so far. The attempt that a crash cost
is the one that the crash allows in addition, which is why a stale `processing` row
may go back to `retry`. An execution has *seen* at least its row's attempts, since
only a replay takes them back; so whoever finds the limit not reached by what it has
seen leaves a row with attempts left. `DeadLetterStays` rests on the last conjunct: no
execution of a dead letter is under way.

**Argument for the canary.** `VerifiedCanaryRan` has two hypotheses, and both are
needed. With a batch a verified canary may have written nothing
(`MCMigrationPlan_canary`); with a second request another canary may be the one that is
marked (the same with `Routes <- TestRoutes`). `Testing` says, of the one handler there is, that the
canary it executes is the plan's while its revision is, that it does not come to
verify or write without a record, and that once it has written one, its run has
written for good (`proven`). For that a frozen preview that holds no record must be
the empty sequence the code tests for, which `Taken` now says of previews.

**Argument for the reconciler.** `Settled` is what is true between any two calls when
one execution is under way at a time. `OneLink`: a record is on one link; `BothSides`:
a link has both its sides, with one hash, since `saveLink` writes both after the
write-back made them equal; `KeysSaved`: a key leads to a saved link. `HashesTrue`
carries `Agreement`: a recorded hash is what the record holds, unless the record is
`Covered`, that is, an event for it waits, its job was given up or awaits review, or
it is being reconciled. When all is quiet, two linked records that are not covered
hold what their hashes say, and the hashes are equal. Of the execution, `InStep` says
that the record holds what was read of it *or* has an event waiting (a user may edit
it during any of the calls, and an edit leaves an event), that a record it has written
has the echo's event waiting, and that the counterpart it is about to remove is still
the other side of a link of the deleted record. Every one of these fails for two
workers: `MCReconciler_agree` and `MCReconciler_twins` are what follows.

For twins, `NoTwinAhead` says of an execution about to create a record that no living
record of the engine's has its key. What `Search` found out must still be true at
`Create`, a call later, which is why the theorem supposes `KeysStay`: a user who gives
the key to another of the engine's records in between makes a twin, with one worker
too. And a CRM that keeps something else than the key it was sent would have `Search`
look for a key no record has, hence the hypothesis on `Kept`.

For echoes, `Echoing` says that the recorded hash of a record the engine wrote last is
what the record holds (`EchoesKnown`), unless an execution has just written it and has
the hash still to save (`Writing`). Behind it stands that a link is found again:
its sides have the key that was hashed, which leads to the link (`LinksKeyed`), and
where the CRM says so one record has it (`Distinct`). Then an execution between its
write and its save holds what both records hold (`ReadTrue`, `WriteTrue`), and the link
it will save takes neither a record nor a key from another link (`LinkTrue`), so that
neither the write-back nor the save can be refused. The three conditions are needed:

- *`AsWritten`*: what is mapped read-only, or kept as something else, reads back as
  another hash (`MCReconciler_bounce`).
- *Keys stay* (in `Undisturbed`): with a key moved by a user between two calls, the
  record that is written may turn out to be on another link, and `upsertLink` refuses
  the row after the write.
- *No execution is cut short between its write and its save* (in `Undisturbed`): when
  a call fails, the process dies or the source is deleted there, the write stands
  without its hash. The queue repeats the execution, or the echo is taken for news and
  carried over once: `OneWorkerAgrees`, which has none of these conditions, says that
  the records agree once nothing is left to do all the same. `rec_echo` has no faults, and too few
  edits for a deletion to come between; the longer behaviours were found while the
  invariant was tried out.

**Argument for the digester.** A key is about to be mailed by one check only, it has
been marked, and it has not been mailed (`MarkedFirst`). Two checks may list the same
job, but `Mark` picks what is unmarked and marks it in one step.

**Argument for the poller.** `CoveredTo(c)` is what the property says of the cursor, of
any instant `c`; `Reached(c)` adds that a poll began at `c`, or that it is as far back
as polls look. The invariant has it of the cursor and of the `since` of every poll under
way, and `Listed` of what each poll has collected: on the pages it has read every change
strictly later than `since` and before its own start, then all of them, then every
deletion, then all of it on the queue. What is covered stays covered because the world
only moves on (`Later`): whoever edits or deletes a record does so now, not before an
instant at which a poll has already begun, so that a record that is due of a poll was
due all along. A frozen result keeps its order, which is what `RankKept` says and what
fails for paging by offset. The commit joins the two intervals at `since`: a change in
that very instant falls under the exemption, a deletion is listed again.

**Arguments for the parts of Platform.**

- *Polls.* `SyncIntakeProofs` is instantiated with Platform's constants and its lemmas
  (`NextKeeps`, `NothingIsLeft`) are cited of the instance: a step of Platform is a
  step of the poller or leaves it alone.
- *Fields.* `Fits` is what EchoEnds needs of a field: a text, as it is or in lower
  case, with a table that is one-to-one in each column and no value that the other
  CRM's column would take for another one; or a number, flag or moment kept as a text,
  with the rules that read it. Either way what is written reads back as the canonical
  value that was carried (`TextReadsBack`, `TypedReadsBack`), so that the second
  reading finds the hash it recorded. Section 7 has the fields that do not fit.
- *Calls.* A limiter is past every slot that still waits or is under way
  (`SlotsPast`), so that the slot it gives next is clear of all of them.
- *Stream.* What a worker has read since it subscribed has been persisted, and it
  subscribed at a cursor that has no gap behind it (`StreamInv`).
- *Webhooks.* The id of a job is its change's, whatever object the record was resolved
  to, and there is a row for each acknowledged change (`HookInv`).
- *Associations.* One that is about to be recorded has been made, if the other CRM can
  hold it, and its parent is linked (`LinksInv`); lookups neither come nor go.
- *Preflight.* `NoErrorMeansWritable`: each kind of error is raised by the absence of
  something the writer needs, and a mismatch that raises none has a warning or a rule
  that goes both ways.
- *Conditions.* `ConditionsAgree`: both interpreters give each condition the same
  verdict outside orderings of blanks. The object resolved to is the least of those
  that meet the record, which exists since their order is well-founded.
- *Runs.* A run has counted exactly the records it has passed (`Passed`), and each has
  its item, each error its error item (`Itemized`). For the quota, while runs do not
  overlap: what has been written is at most what was counted, what is about to be, and
  what the one run under way has reconciled, which its limit bounds (`Alone`).
- *Settings.* A copy lags behind its row only between two steps of one request, and the
  copy that an edit writes is never live (`PauseInv`). Rules in use fit the pairing in
  memory; what is stored fits the stored one, except between the two writes of a
  re-pairing, during which nobody else edits (`FitInv`).
- *Session.* The reply that a refresh holds is good, and the row's token is valid
  unless that reply replaces it (`TokenInv`). Since the last reset that found nobody
  initializing, whoever builds a client does it from the stored connection (`Current`).

**Left to TLC.** Liveness (`RetrySettles`, `Quiesces`, `EveryNewStateMailed`,
`ChangeIsSeen`) and `ENABLED` are beyond the proof system here. Platform's
`TypeOK` is a conjunction of the types of its parts, of which the proofs use and show
what each theorem needs.

## 7. What the code does not promise

Some properties one might expect hold only under a restriction. Each has a
configuration that lets TLC produce the counterexample. Where a comment or a doc says
otherwise, it is quoted. `MCPlatform_open` lists nineteen of them; TLC stops at the
first it refutes, so the others are to be commented out to see one in particular.

| Property | Configuration | Behaviour |
|---|---|---|
| `TerminalIsFinal` | `MCSyncQueue_terminal` | a job checked for dismissal in `retry` is claimed meanwhile; its execution's late write replaces `dismissed` |
| `ProcessingIsTransient` | `MCSyncQueue_stranded` | a process restarted within five minutes of a crash finds no stale lease, and nobody looks again |
| `Agreement` | `MCReconciler_agree` | two executions at once, for the two sides of one link, overwrite each other |
| `NoTwinCreated` | `MCReconciler_twins` | two executions for two records with one natural key both search, find nothing and create |
| `EchoDropped` | `MCReconciler_bounce` | a field mapped read-only does not come back as it was meant to be written, and the echo looks like news |
| `CanaryRan` | `MCMigrationPlan_canary` | a batch in which every record fails is recorded as a verified canary |
| `CanaryRan` | `MCMigrationPlan_canary` with `Routes <- TestRoutes` | a second canary is prepared while the first executes, and is the one that gets verified |
| `DriftInvalidates` | `MCMigrationPlan_late` | a record that drifts between its check and its write is written |
| `NeverStranded` | `MCMigrationPlan_late` | a plan stays `executing` with nobody executing it: the process died, `finishExecution()` threw in the `catch`, or the answer of `startExecution()` was lost before the `try`; it stays so until an operator asks for an edit, a preflight, a preview or another execution |
| `EveryFailureTold` | `MCAlertDigester_told` | `replay()` sets `attempts` back to 0, so that the next failure has the key of the first, which stays marked while the process runs. `syncAlertDigester.ts:37-39`: "lets a job that fails again after a replay (same id, higher attempt count) trigger a fresh alert instead of being silently deduped forever" |
| `EveryFailureTold` | `MCAlertDigester_told` with `MaxReplays = 0`, `MaxLosses = 1` | a mail that was not taken is not sent again |
| `EveryFailureTold` | `MCAlertDigester_told` with `MaxReplays = 0`, `NJob = 2` | jobs beyond the list's limit are not looked at |
| `SchemaAsPreviewed` | `MCMigrationPlan_schema` | `/preflight` replaces `schema_hashes` and leaves the preview (`server.ts:454`), so that `/execute` compares the schema with the last validation. `HANDOFF.md:58`: "plan revisions, schema hashes, and every source record are rechecked before the first confirmed CRM write" |
| `ChangesCovered` | `MCSyncIntake_offset` | HubSpot's search evaluates the query for each page; a record edited between two pages moves to the end, and the one that takes its place is on neither |
| `ChangedMidPollSeen` | `MCSyncIntake_tie` | queries list what is strictly later than the cursor: a change in the very instant of the cursor, after the page was read, is listed by neither poll. `syncPoller.ts:202`: "so a record changed mid-poll isn't skipped next cycle" |
| `QuietUntilReviewed` | `MCPlatform_open` | a settings request that computed its copy before an edit's pause writes it afterwards, and sync is on again |
| `NeverStaleRules` | `MCPlatform_open` | a re-pairing stopped between its writes, or an edit of the rules that overlaps it, leaves rules of the old pairing. `server.ts:1099-1104`: "they're cleared rather than carried forward stale" |
| `NewcomerIsQuiet` | `MCPlatform_open` | a new object whose switched-off entry was not saved is enabled by the defaults merged at the next start. `server.ts:1036`: "no longer implies Sync enrollment" |
| `NeverToldInVain` | `MCPlatform_open` | a caller that read the row before a refresh ended starts another one with the replaced token, is refused, and reports that the CRM must be reconnected. `HANDOFF.md:107-108`: "refreshes are single-flight" |
| `NeverAnotherOrganization` | `MCPlatform_open` | an initialization that read the old connection finishes after the reset and keeps the old organization's client |
| `SlotsSpacedAcrossClients` | `MCPlatform_open` | each initialization makes a limiter, which begins idle beside the calls of the last one |
| `RefreshedOnce` | `MCPlatform_open` | the repeated request runs through the interceptor again. `salesforceConnector.ts:53`: "Refresh the bearer on 401 once" |
| `JobPerChangeUnstamped` | `MCPlatform_open` | events without `occurredAt` have one identity for ever: the second change of a record is taken for a repetition |
| `NoneDropped` | `MCPlatform_open` | a webhook is acknowledged without a job when its object type is not in the cache yet. `hubspotConnector.ts:96`: "so custom-object webhooks resolve from the first event" |
| `QuotaHoldsAlways` | `MCPlatform_open` | two requests that overlap are each allowed what is left; a run that fails counts nothing |
| `ErrorsNotWritten` | `MCPlatform_open` | an item that cannot be stored makes an error of a record that was written |
| `EveryRecordMade` | `MCPlatform_open` | the Salesforce object has no lookup to the type; `associate()` returns without a write, and the link is recorded and counted as synced |
| `SidesAgree` | `MCPlatform_open` | an association to a record without a counterpart is counted as deferred and not tried again; a lookup holds one value, HubSpot a set |
| `EchoEnds` | `MCPlatform_open` | with a date kept as a number in a HubSpot text, a flag that the rules make a number of in one CRM and a word in the other, or two values that share one translation, what is written does not read back |
| `UntransformedIsBlocked` | `MCPlatform_preflight` | once the dashboard has saved the rules, each has an explicit `identity` where it had no transform, and a mismatch of types is a warning: the preflight passes, and the value is written as it is, to a field that may refuse it. `preflight.ts:89-90` means the warning for "a transform configured on only one side (or one direction)"; line 104 says the field "requires a transform" |
| `OneSidedIsWarned` | `MCPlatform_open` | only a transform on the target's rule downgrades a mismatch to a warning; one on the source's rule alone leaves an error. `preflight.ts:89-90`: "A transform configured on only one side (or one direction) still gets flagged" |
| `RequiredIsWritten` | `MCPlatform_open` | a required field counts as mapped when any rule names it, be it read-only or without a source |
| `BlankIsOrderedAlike` | `MCPlatform_open` | `Number(null)` is 0, SOQL's null is less than nothing. `syncConfig.ts:139-144`: "the reference behavior a connector's compiled SOQL/search-filter must match" |
| `AdvancedIsHeeded` | `MCPlatform_open` | the resolver does not evaluate the advanced condition that the poll's query has |

## 8. What is not modelled

`PROJECT.json` lists every component with its status. In short:

- *Could still be modelled* (section 9): when a poll is due (intervals and cron
  expressions) and its history of summaries; HubSpot's compiled filter beside SOQL;
  the webhook's signature; fingerprints of unkeyed records; quotas other than the
  migrated records'.
- *Nothing to interleave*: API keys and the audit trail are single statements around
  the routes; PKCE, scopes and error texts of the OAuth routes; object descriptions
  and default mappings.
- *Left out for good*: the dashboard's HTML, argument parsing, logging and wording;
  the AI copilot, which keeps no state; set-up scripts that run once; the in-memory
  and file stores, which stand in for PostgreSQL in tests and the demo; `.sfdx`,
  which holds generated Apex stubs.
- *Abstracted inside modelled parts*: what a vendor's query or payload looks like;
  hashes (taken to be injective); wall-clock times (a lease is young or old, a
  retry due or not); the difference between the server's clock and the vendor's, which
  SyncIntake takes for one, so that what a skew does to the changes around
  `pollStartedAt` is outside what `Covered` and `ChangeIsSeen` show; numbers below zero
  and the wildcards `_` and `%` in SyncConditions, whose numbers are naturals and whose
  texts are letters: a negative threshold of `gt` on a blank, and a wildcard in
  `contains`, are judged differently by resolver and query; dotted paths and trimming of values; the wording of vendor
  errors; listing and archiving; the human's resolution of a conflict, which nothing
  else reads.
- *External*: PostgreSQL's statements are atomic and its constraints hold; a CRM's
  call takes effect at one moment or not at all, and its answer may be lost; SMTP
  takes a mail or does not.

## 9. Plan

Done: `SyncQueue`, `Reconciler`, `MigrationPlan`, `AlertDigester`; in front of the
queue `SyncIntake` and `EventIntake`; around it `OAuthSession`, `VendorCall`,
`SyncSettings`, `MigrationRun` and `Associations`; the pure code of `FieldConversion`,
`PreflightChecks` and `SyncConditions`; the abstract `JobQueue`, and the proof that
SyncQueue implements it. Proved besides: the invariants of SyncQueue, Reconciler (for
one worker), MigrationPlan, AlertDigester, SyncIntake and the parts of Platform, as
section 6 lists them.

Next, in this order:

1. A refinement of Reconciler's own: for one worker, an execution as one atomic change
   of both CRMs, over the invariant `Settled`.
2. The Reconciler above JobQueue instead of a set of waiting events.
3. `Reconciler.preview()` against `reconcile()`; due times of polls; HubSpot's filter
   in SyncConditions.

## 10. Running it

```
tlc -workers 2 -config MCSyncQueue_lease.cfg MCSyncQueue
tlapm MigrationPlanProofs.tla
```

Every configuration `MC<Module>_<name>.cfg` belongs to the module `MC<Module>`. The
largest runs take three to four minutes on two cores, the others a minute or two at
most. The modules with theorems are `SyncQueueProofs`, `SyncQueueRefinement`,
`ReconcilerProofs`, `MigrationPlanProofs`, `AlertDigesterProofs`, `SyncIntakeProofs`,
`SettingsProofs` and `PlatformProofs`: about 11 000 obligations, each module a minute
or a few, `ReconcilerProofs` ten.
