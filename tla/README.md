# clickup-sync: verification project

clickup-sync mirrors a ClickUp workspace into PostgreSQL: webhooks announce
changes, BullMQ workers fetch what changed and write it, cron jobs repair what
the webhooks missed, and administrators re-run what failed.  On top of the
mirror it prices tracked time and re-assigns time entries by tag.

This directory holds TLA+ models of the parts of `src/src` that are hard to get
right by testing, TLC instances of them, and TLAPS proofs.  Paths below are
relative to `src/src` unless they start with another directory.

Contents: [the system](#1-the-system), [how to run](#2-how-to-run),
[WebhookPipeline](#3-webhookpipeline), [TimeEntries](#4-timeentries),
[RateSuccession and Costs](#5-ratesuccession-and-costs),
[TaskMirror](#6-taskmirror), [WebhookRegistration](#7-settings-and-webhookregistration),
[Organisation](#8-organisation), [bounds](#9-bounds), [fairness](#10-fairness),
[proofs](#11-proofs),
[where code and comments disagree](#12-where-code-and-comments-disagree),
[not modelled](#13-not-modelled), [plan](#14-plan).

## 1. The system

One NestJS process serves HTTP, runs the cron jobs and all BullMQ workers; it
may be deployed more than once against the same PostgreSQL and Redis.  No code
takes a lock across awaits, so between any two `await`s of a handler every other
handler, worker, cron tick and instance can run.  State that survives a crash is
in PostgreSQL, in Redis (queues) and in ClickUp itself.

| component | state it keeps | operations | talks to | what is hard | what must hold |
|---|---|---|---|---|---|
| Webhook receiver (`webhooks/`) | `clickup_webhook_events` (unique fingerprint, status), `clickup_webhook_seen` | receive | enqueues on `clickup-webhooks` | the row is committed before `queue.add`; concurrent duplicates; a failed or lost enqueue | an accepted event is queued once and never forgotten |
| Event worker (`workers/clickup-event.processor.ts`) | event row, `clickup_task_events` | process, onFailed | enqueues on `clickup-tasks`, `clickup-time-entries` | attempts that fail half way, stalls, hooks that die, marks that are only logged | "processed" means all follow-up work is queued |
| Dead letters and retry tools (`jobs/`, `admin/admin-dead-letters…`, `admin/admin-webhooks…`) | `dead_letter_jobs` | retry, retry-all, resolve, retry-failed | put jobs back on any queue | marks written after the job is queued; two admins at once; re-parsed payloads | marked as retried only if requeued; the event stays recoverable |
| Time-entry sync (`time-entries/time-entries.service.ts`) | `clickup_time_entries` | syncTaskTimeEntries, reconcileWindow | reads ClickUp, enqueues replacements, asks the cost calculator | fetched data that is old when it is written; pruning on partial data | the slice becomes what ClickUp has; no live row is pruned |
| Assignee replacement (`time-entries/assignee-replacement.service.ts`) | `time_entry_replacements`, `tag_assignee_map` | replaceEntry, backfill-replacement | creates and deletes in ClickUp | two systems, no transaction; retries from any point | no hours lost, none counted twice, one copy per entry |
| Rates and costs (`rates/`, `time-entries/cost-*.ts`) | `assignee_rates` (exclusion constraint), price columns of the rows | create, update, remove, recalculate | enqueues on `maintenance` | planning and writing on different readings; recalculation racing edits and syncs | succession leaves no overlap; a stale price is on somebody's list |
| Tasks (`tasks/`, `time-entries/task-reconciliation.service.ts`) | `clickup_tasks` with tombstones | syncTask(s), softDelete, reconcileTask, syncMissingParents | reads ClickUp, upserts lists | a task fetched before its deletion and written after it | a deleted task stays deleted; entries of a deleted task do not return |
| Webhook registration and autoheal (`clickup/clickup-webhooks…`, `clickup/webhook-health…`) | ClickUp's registrations, stored secret, in-memory heal counters | register, rotate, pruneStale, checkAndHeal | ClickUp, settings | check-then-create; delete before create; a secret that cannot be stored; counters per instance | one registration, whose secret is the stored one; caps on heals |
| Scheduler and backfill (`sync/`, `workers/backfill.processor.ts`) | the backfill queue, `job_logs` | reconcileRecentUpdates, reconcileArchived, syncListCatalogs, backfillSpace | enqueues task and time-entry syncs | the overlap guard reads the queue before it adds, and two callers have none; rotation over a list whose length changes | at most one backfill per space in flight; every enabled space gets its turn |
| Lists catalog (`lists/`) | `clickup_lists` | upsertMany, upsertMinimalFromTasks | tasks, cron | two writers of unequal authority | a minimal row never degrades an authoritative one |
| Workspace members (`clickup/workspace-members…`) | in-memory directory, request in flight | getDirectory | ClickUp, settings | time to live; team id that changes | concurrent callers share one request; a directory of the right team |
| Settings (`settings/`) | one row, an in-memory copy per instance | update, setWebhookSecret, refresh | everybody reads the copy | a patch merged onto a copy that may be old | no update is lost |
| Authentication and organisation (`auth/`) | users, sessions, invitations | changeRole, setStatus, remove, transferOwnership, sessions | – | last-owner checks are not atomic with the writes | an organisation keeps an active owner |
| Spike notices (`admin/spike-*`) | `spike_notifications` | notify, resolve | mail | the mail precedes its record | at least once; at most once recorded |
| Budgets, reports | – | aggregates | – | pure functions | – |
| Queues (`queues/`) | BullMQ jobs in Redis | add with attempts, ids, priorities | all workers | stalls, retention of ids | see the models that use them |
| Infrastructure, web application, `source-workflows/` | – | – | – | – | – |

`PROJECT.json` lists each of them with its sources and status, and lists under
"hazards" the places in this code where a test would hardly reach.

## 2. How to run

    tlc -workers 2 -config WebhookFaults.cfg MCWebhookPipeline
    tlapm CostsProofs.tla

Each `.cfg` belongs to the `MC…` module of its component: `Webhook*` to
`MCWebhookPipeline`, `Entries*` to `MCTimeEntries`, `Costs*` to `MCCosts`,
`Mirror` to `MCTaskMirror`, `Registration` to `MCWebhookRegistration`,
`Organisation` to `MCOrganisation`.  An MC module extends its component's module with
definitions that a `.cfg` cannot express: types of events, slices, symmetry
sets, bounds.  Every model is written with one action per await of the code, a
section per handler or worker, the properties at the end and, before the
definitions they vary, a few *faulty variants* that no specification uses: each
is a plausible bug, and putting it in place of the definition makes TLC refute
the property that guards against that bug (the pairs are in `PROJECT.json`,
"mutants").

The variables marked *history* are not in the program.  `gap` is the most
important of them: when the code, at a step the model can point to, gives up
track of something (a process dies at the wrong moment, an error is only
logged), the step adds a named reason to `gap`.  A property of the form "P
unless gap" is then a complete list of the ways in which P can fail, and each
way is a step of the code that a reader can find.

## 3. WebhookPipeline

The HTTP handler, the worker of `clickup-webhooks`, the dead-letter store and
the retry tools, from the delivery of an event to the follow-up jobs.

| state | code |
|---|---|
| `row` | `status` of the event's row in `clickup_webhook_events` |
| `seen`, `history` | `clickup_webhook_seen`, `clickup_task_events` |
| `req` | a `receive()` in progress: after the commit, after a failed `queue.add` |
| `job` | the queue: a waiting job, the await of `process()` or `onFailed()` a job is at, attempts left, stalls; `keyed`: its fingerprint is that of the row |
| `letter` | `dead_letter_jobs` |
| `out` | follow-up jobs that reached their queues |
| `retry`, `redeliver` | the loops of retry-failed and of the dead-letter tools |

| actions | code |
|---|---|
| `ReceiveSave` … `ReceiveCrash` | `receive()`: commit, `queue.add`, `markFailed` |
| `Take` … `MarkProcessed` | `process()`: field changes, task job, time job, `markProcessed`; `AttemptFails` is an exception in between |
| `WriteLetter`, `MarkExhausted`, `HookCrash` | `onFailed()` |
| `JobStalls` | BullMQ's stalled-job check, with `maxStalledCount` |
| `RetryScan` … `RetryCrash` | `retryFailedWebhooks()` |
| `LetterPick` … `LetterResolve` | `retryDeadLetter()`, `retryAllDeadLetters()`, `resolve()` |

An event is its fingerprint; the payload is its type, whether it names a task,
and whether its fingerprint is stable under re-parsing (`Unstable`: fingerprints
that are a hash of the JSON text, which a JSONB column does not preserve).

Properties
- `Recoverable`: a row that says *received* has a handler, a job or an
  unretried dead letter, or fell into one of six windows.
- `AdmittedOnce`: concurrent duplicate deliveries queue an event once.
- `HandedOff`: *processed* implies that all follow-up work was queued, over
  attempts, stalls and requeues.
- `KeepsPromises`: the pipeline implements `FollowUps` (below).
- `RetriedMeansRequeued`: the retried mark of a letter is never false.
- `Settles` (liveness): a received event ends processed or failed, in a window,
  or on record.

`FollowUps` is the abstract specification: what the queues behind the pipeline
may rely on, in four actions (an event is accepted, a follow-up is queued, the
event is settled, an administrator reopens it) and without a word of rows, jobs,
attempts or letters.  The refinement maps `row` to the stage of an event and
`out` to what was queued for it; `Promise` is stated event type by event type in
`Required`, independently of the branches of `process()` (for one type a comment
elsewhere says otherwise, section 12); `Ahead` says that the time entries of a task
are not queued before the task.  `TaskMirror` starts from
these promises: its `Notified` owes a task's sync and time jobs, and its
`Deliver` queues them in that order.

Runs
- **webhook_faults**: any of five events, one per route through `process()`,
  delivered twice at once, two workers, two queue slots, a dead-letter administrator, every fault; safety and
  the refinement.
- **webhook_live**: an event of unstable fingerprint, two retry-failed requests
  and a dead-letter request at once, every fault; safety without the bound on
  windows that webhook_faults uses, and `Settles`.
- **webhook_retry_race**: see section 12.

## 4. TimeEntries

Two sync paths (`syncTaskTimeEntries`, `reconcileWindow`), the replacement
worker, the backfill of replacements, the dead-letter retry, and the users and
administrators who change ClickUp and the mapping in the meantime.

| state | code |
|---|---|
| `remote`, `made` | ClickUp's entries; which entry a copy was made from |
| `local` | ids in `clickup_time_entries` |
| `audit` | `time_entry_replacements` (unique per original) |
| `mapped` | an active `tag_assignee_map` row for the tag |
| `job`, `kept` | the replacement queue; ids BullMQ still knows after the job ended |
| `dead` | dead letters of that queue |
| `sync` | a sync: the slice it asked for, what it got, what it keeps, what is left to write |
| `disturbed`, `logged`, `byUser`, `removed`, `gap` | history |

| actions | code |
|---|---|
| `Lookup`, `CheckMapping`, `Create`, `Record`, `DeleteOriginal`, `Upsert`, `Drop` | the numbered steps of `replaceEntry()`, with the resume branch (`redelete`, `redrop`) |
| `CallFails`, the lost answers in `Create` and `DeleteOriginal`, `JobStalls`, `WriteLetter` | failures, stalls and `onFailed` |
| `SyncFetch`, `SyncResolve`, `SyncUpsert`, `SyncPrune`, `SyncTags`, `SyncEnqueue` | `persistEntries()` and the prune around it |
| `BackfillScan`, `BackfillAdd`, `DeadRetry`, `Evict` | the admin tools; `removeOnComplete` / `removeOnFail` |

Deterministic ids (`replace-<entry>`) are modelled as BullMQ treats them: an add
is ignored while the id is known, finished jobs included; a dead-letter retry has
no such id.  A task lookup fails only for entries without a local row: the task
of a stored entry is stored.

`Reassignment` is what all of this amounts to for the people whose time is
tracked, without jobs, retries, syncs and rows: the hours of an entry stand under
one entry of ClickUp, the logged one and then, from one moment to the next and
for good, a copy.  `TimeEntries` implements it under the mapping `Register`: the
moment is the row of `time_entry_replacements`, `lapsed` are the entries with an
unrecorded copy or two jobs at once.

Properties
- `HoursKept`: an original that the worker deleted has a copy of that very entry
  on record, there unless a user deleted it.
- `OneCopy`: one copy per entry unless an attempt ended between creation and
  audit row, or two jobs of the entry ran at once.
- `ReplacesAtomically`: `TimeEntries` implements `Reassignment`.
- `CountedOnce`: entry and copy are both local rows only while a job or a dead
  letter will still see to it, or in a named window.
- `PruneSparesLive`, `SyncExact`: what a prune may remove, and what an
  undisturbed sync achieves.
- `OriginalRemoved` (liveness): once the copy is on record the original goes, or
  an administrator can see that it did not.

Runs
- **entries_faults**: two jobs of one entry at once (a keyed one and a
  dead-letter retry) beside a sync of the whole window, with every fault: the
  invariants of the replacement and the refinement.
- **entries_syncs**: two syncs of nested slices over three entries, unreachable
  tasks and truncated answers, no replacements.
- **entries_live**: one job with two attempts and a stall, failing calls and
  crashes: a later attempt finishes what an earlier one left (liveness).
- **entries_two_copies**: see section 12.

## 5. RateSuccession and Costs

`RateSuccession` is the pure part: rows of closed intervals, which rate covers a
day, the plan of `planRateSuccession` and what carrying it out does.  `Costs`
extends it with the requests, jobs and syncs around one assignee's table.

| state | code |
|---|---|
| `rate` | `assignee_rates` of one assignee, with the exclusion constraint as the guard of every write |
| `excluded`, `pref` | `cost.excludedAssignees`; `cost.autoRecalcOnRateChange`, `rateMatching` and `nonBillableZero` |
| `fact` | what the rows of an entry and of its task say: start, billable, due date |
| `stored` | the price columns of `clickup_time_entries`; `Unset` is "no row" |
| `admin`, `sync` | requests and syncs in progress, with what they read; a sync lists entries with what ClickUp said of them |
| `job` | the `maintenance` queue: rows to do as they were listed, the cache of the run, the price held |

| actions | code |
|---|---|
| `CreateRead`, `CreateCommit`, `CreateAborts` | `createWithSuccession()`: the transaction plans on one reading; its writes take effect later, together, if the constraint admits them |
| `UpdateRate`, `RemoveRate` | single statements; removal nulls the reference in the rows |
| `ExcludeRead`, `ExcludeWrite` | `updateExcludedAssignees()` |
| `PatchPreferences` | `SettingsService.update()` from the settings page: any of the three preferences, or the exclusion list; it queues nothing |
| `DueMoves` | the upsert of a task whose due date changed; it queues nothing either |
| `Notify`, `NotifySkipped`, `NotifyFails`, `RecalculateCosts` | `enqueueRecalc` and the button |
| `Take` … `JobStalls` | `recalculate()`, row by row, and its retries |
| `SyncBegin` … `SyncFails`, `RowVanishes` | what syncs and prunes do to prices, and to the rows they are for |

A price is its status, the rate it names and that rate's amount.  `Calculate` is
`calculate()` with all it depends on: the exclusion list, `nonBillableZero`, the
cache, `rateMatching` with the due date, the rate table.  `Current` is what it
would give for a row now; a stored price is stale when it differs.  A gap of this
model is cleared when the next recalculation is queued, which is what makes the
next recalculation responsible for it.

Of the nine windows three are what the code does every time: the settings page and
the upsert of a task change what prices depend on and queue no recalculation
(`repriced`, `due_moved`), and neither does a rate change while the preference is
off (`auto_off`).  Two are late writers: a sync that read its rates before a change
(`late_sync`), and a recalculation that listed a row before a sync changed it
(`late_recalc`).  The rest are failures: `unqueued`, `exhausted`, `stalled_out`, and
`unnoticed`, an exclusion list compared with an old reading.

`PriceBook` is the same for those who read costs: a price list by days, prices
shown on rows, and what the calculations at work have in hand.  A price is shown
only for a day at which the calculation found the row dated (by its start or its
due date), and only if a calculation read it off the list while the list said so,
unless the assignee was excluded or the row free of charge; a change of the list
concerns the days of one rate.  `Costs`
implements it under the mapping `Book`, where the rows of `assignee_rates`, the
caches of runs and the prices held by jobs and syncs become days and prices.
`PriceBook` allows one thing that a reader may not expect: a new rate may give
earlier days without a price the price of a day before them.  A succession that
was planned on an old reading does that when somebody shortened a rate meanwhile,
because the cap it carries out then lengthens it.

Properties
- `PlanExact`: for every reachable table and every new rate the planner
  accepts, carrying the plan out leaves no overlap, re-prices no earlier day and
  prices every day of the new rate.  `Resolve` and `SuccessionExact` state that
  day by day, independently of how the planner works.
- `StaleIsPending`: a price that is not what a calculation would give now is on
  the list of a request about to notify, a job that waits, or a job at work that
  will write the current price, or in one of nine windows.
- `KeepsBook`: `Costs` implements `PriceBook`.
- `CostsSettle` (liveness): a stale price is corrected or falls into a window.

Runs
- **costs_edits**: from every admissible table of two rates; two requests, two
  jobs, a sync, two rows of one day (so that the cache of a run matters) that are
  not to be billed, and a due date on another day.
- **costs_live**: failing statements, crashes, retries, stalls, an entry that is
  edited in ClickUp; liveness and the refinement.

The succession planned on an old reading needs three days and two prices.  It is
reached by `CostsEdits.cfg` with `LastDay = 3`, `Cents = {1, 2}`, `Entry = {e1}`,
`DueDay = {0}`, `Sync = {}`, `Job = {j1}`, `Faults = {}` and `KeepsBook` as the only
property, which passes; without the last disjunct of `PriceBook!NewRate` it fails.

## 6. TaskMirror

The copy of ClickUp's tasks and everything that writes it: `syncTask`,
`softDelete` and `reconcileTask` in the worker of `clickup-tasks`, the time sync
that fetches a missing task first, `backfillSpace` page by page, and the requests
and crons that ask for them.  It works on two instances: two jobs of a queue run
at once.

| state | code |
|---|---|
| `remote`, `recent`, `tracked` | ClickUp's task; updated within the lookback; has tracked time |
| `row` | `clickup_tasks`: none, up to date, out of date, tombstone |
| `entries` | tasks with rows in `clickup_time_entries` (one bit of `TimeEntries`) |
| `owed` | follow-ups the webhook pipeline will queue (`FollowUps`) |
| `job` | jobs of `clickup-tasks` and `clickup-time-entries`: the await each is at, whether the copy in hand is out of date |
| `backfill` | a backfill: page, batch, tasks seen, parents referred to |
| `asking`, `sweep` | requests past the overlap guard; reconciliations still to be queued |
| `slips` (history) | how a backfill came to be queued beside another |

| actions | code |
|---|---|
| `Change`, `Remove` | ClickUp; the webhook arrives or does not |
| `Fetch`, `Upsert`, `Exists`, `Drop`, `Tombstone` | `TaskSyncProcessor.process()`, by kind of job |
| `Ensure`, `FetchHours`, `WriteHours` | `ensureTaskExists()`, `syncTaskTimeEntries()` |
| `Deliver`, `AdminSync` | the webhook worker's follow-ups; `POST tasks/sync` and `time-entries/sync-task` |
| `BeginSweep`, `SweepAdd` | `reconcileTasks()` |
| `Ask`, `AddBackfill` | the guard and the add of `backfill()` and of both crons |
| `ConnectBackfill` | the backfill that `registerWebhook()` adds with `sync.backfillOnConnect`, without a look at the queue |
| `RetryBackfill` | the retry of a backfill's dead letter, which looks at nothing either |
| `FetchPage`, `StoreTask`, `QueueHours`, `FindMissing`, `FetchParent`, `StoreParent` | `streamAllTasksBySpace()` and `backfillSpace()` |
| `AttemptFails`, `BackfillFails` | a failing call or a crash, the bookkeeping at the end of a backfill included: the job is repeated |

`AdminSync` is a request for a task that ClickUp has had: one for an unknown id ends
at the 404 and finds no row.  The retry of a sync's or a time sync's dead letter is
the same step.  A registration adds a backfill for each space, whether it made a
webhook or found one, and the model has one space; a dead letter may be retried by
several people and lie there from an earlier backfill, so `RetryBackfill` asks for
nothing but a free slot.

Properties
- `Mirrored`: a row is what ClickUp has, or a job will still make it so, or the
  task fell into a window since it was last right.
- `TombstoneTrue`: no failing call ever deletes a task that exists.
- `HoursFollow`: tracked time hangs on a row and goes with the task.
- `BackfillHeals`, `ParentsStored`: what a backfill that reports success has
  achieved, although the listing shifts under it.
- `OneBackfill`: one backfill of a space at a time, from the queueing to the last
  attempt, unless two requests passed the guard before either had added to the queue
  (`both_asked`), or a registration (`on_connect`) or a retried letter
  (`letter_retried`) added one while another was there or asked for.  What is left for
  it to catch is a guard that misses a backfill that waits between two attempts, and a
  retry that starts beside another.

Run **mirror**: a task and its subtask listed before it, two queue slots, two
backfill slots, two requesters and a sweep, two attempts per job; `MaxEvents` counts
changes at ClickUp, failures and requests for a task or a sweep together.

## 7. Settings and WebhookRegistration

`Settings` is the row of `app_settings` and each instance's copy of it;
`WebhookRegistration` composes it with ClickUp's list of webhooks, the
administrator's tools and the auto-heal cron of every instance.

| state | code |
|---|---|
| `db`, `cache` | the row; `SettingsService.cache` per instance |
| `hook` | ClickUp's webhooks: live, suspended, deleted; a webhook is its own secret |
| `task` | requests and cron runs in progress, with what they have read |
| `heals`, `recreates` | `healAttempts` within an hour, `recreateAttempts` within a day, per instance |

| actions | code |
|---|---|
| `List`, `Put`, `Post`, `Store`, `Read`, `ApplyRow` | `register()` and the write and refresh of `setWebhookSecret()` |
| `RotateList`, `Delete` | `rotate()`, and the recreation of the auto-heal |
| `PruneList`, `Prune`, `DeleteById` | `pruneStale()`, `deleteById()` |
| `BeginPatch`, `Upsert`, `Read`, `ApplyRow` | `update()` of the endpoint, the secret, a preference, or several of them |
| `BeginHeal`, `HealList`, `ProbeUp`, `ProbeDown` | `checkAndHeal()` |
| `Suspend`, `HealForgotten`, `CallFails`, `Restart` | ClickUp, the clock, failures, restarts |

The day of the recreate cap does not pass: `ChurnBounded` is about one day.

Properties
- `SecretMatches`: the stored secret is that of the webhook at the configured
  endpoint, through registrations, rotations, heals, moves of the endpoint, secrets
  that an administrator sets, and prunings.  A patch may set a secret before the
  webhook exists, or the right one; one that differs from the webhook's is the window
  `secret_typed`, since `update()` does not look at ClickUp.
- `OneRegistration`, `StaysRegistered`: never two, never none.
- `ChurnBounded`: the daily cap bounds deletions however recreations end.
- `PatchKept`, `CacheFollows`: patches do not undo one another, and an instance
  sees what it wrote.

Run **registration**: two instances, one administrator, two endpoints, two
webhooks, each cap at one, one failure or restart.  `Secret` holds the secrets of the
two webhooks: before the second exists, its secret stands for one of no webhook.  A
patch takes any combination of its three columns.

## 8. Organisation

Accounts, sessions and invitations of the one organisation.  Each request is a
chain of single statements without a transaction; the record of a request keeps
what it has read until it writes, and it may die after any statement.

| state | code |
|---|---|
| `account`, `online`, `invite` | `users`, users with a row in `sessions`, `invitations` |
| `req` | requests in progress: operation, principal, target, the role read |

| actions | code |
|---|---|
| `Manage`, `ReadTarget`, `CheckLastOwner`, `RevokeSessions`, `WriteTarget`, `DemoteActor` | `UsersService.changeRole`, `setStatus`, `remove`, `transferOwnership` behind the guards |
| `Signup…`, `Login`, `IssueSession`, `LogoutAll`, `SessionEnds` | `AuthService`, `SessionService` |
| `CreateInvite` … `InviteWrite`, `RevokeInvite`, `RevokeWrite`, `Accept` … `AcceptMark` | `InvitationService` |

Properties
- `OwnerRemains`: an owner who can log in remains, unless a request wrote on a
  check that had become false.
- `ClaimedOnce`, `SpentOnce`: signup hands the organisation out once, an
  invitation admits one account.
- `DisabledIsOut`: a disabled or removed account keeps no session.

Run **organisation**: three accounts, two requests of any kind at once.

## 9. Bounds

- Slots (`Job`, `Letter`, `Copy`, `Rate`) bound what exists at once.  An action
  that needs a slot waits for one; `LetterRoom` does the same for dead letters.
  Two jobs are enough for every race between two executions of the same work,
  which is what the named windows need.
- `Attempts`, `WebhookAttempts`, `JobAttempts`, `MaxStalls`: small numbers; two
  attempts distinguish "will be retried" from "was the last".
- `MaxGaps` (`GapBound`, `RouteBound`): once something fell into more than so
  many windows TLC explores no further.  The properties excuse it from then on,
  and the proofs cover the rest; webhook_live and the costs runs have no such
  bound.  In mirror a webhook that did not arrive does not count: healing
  it is what the backfill is for.
- `RouteBound` (webhook_faults): a behaviour takes one of the five events all
  the way; events share queue slots only.
- `MappingOn` (entries_syncs, entries_live): the mapping stays active, so that
  the deletion of the original, not the edit of the mapping, is explored.
  entries_faults edits it freely.
- `PageSize = 1`, `MaxPages = 2` (mirror): with two tasks the pages are full, a
  task can move between them, and the cap is reached exactly.
- `MaxEvents = 2` (mirror): two changes at ClickUp, sweeps or failures; every
  race of two writers of a row needs one change between fetch and write.
- `MaxRequests = 2`, `MaxHooks = 2`, `MaxFailures = 1` (registration): a
  webhook and its successor, two requests besides the crons.
- `MaxEdits = 2` (costs_edits), `1` (costs_live): two edits make a race, and an edit
  races a recalculation and a sync; the initial table is *any* table that the
  constraint admits, so histories need not be replayed.  `Choice` has two states of
  the three preferences, which differ in all of them, `DueDay` no due date and one
  on the first day.
- `PruneSafetyMax = 2` in entries_syncs: with three entries, answers fall below,
  at and above the limit.
- Symmetry is used in safety runs only, over interchangeable slots and
  processes.
- `CHECK_DEADLOCK FALSE`: a workspace in which nobody does anything is quiet.

## 10. Fairness

Fairness is assumed of the program, never of its users: nobody is obliged to
deliver a webhook, click a button or start a sync.

- A handler, request or job that started runs on (weak fairness of its next
  step).  Node runs what is ready; a failed call raises an exception, which is a
  step of its own.
- A job that waits is taken (strong fairness of `Take`): BullMQ hands jobs out
  in order, and a retry returns after its delay, so a job cannot be passed over
  for ever although a worker is busy again and again.
- In `Costs`, strong fairness of `Notify`: the request itself never waits; it is
  disabled only while the bounded queue of the model is full.
- Crashes, stalls and failing calls are not fair and not bounded except by the
  attempts and stalls that the code counts.

## 11. Proofs

The proofs hold for every value of the constants, hence for any number of
events, entries, rates, jobs, workers, requests and faults.  The exceptions are
`StalePending`, which assumes one recalculation at a time, and the second kind of
theorem below.

Many properties read "P unless an event, an entry or a request fell into a named
window".  Two kinds of theorem close them.  `WindowsNeedFaults`, one for each of four
components, and `WindowsTakeTwo` of the organisation say which windows can
open at all under which faults: `Exposed` and its kin list the windows that given
constants leave open, and the invariant is that no other one ever opens.
`NoLimboUnexposed`, `OneCopyUnexposed`, `StalePendingUnexposed`,
`ServedWithoutFailures` and `OneAtATimeIsSafe` then state P itself, for the constants
or states under which none of its windows is open, or name the few that stay open
even so.  What they assume is written in the theorem: that certain faults do not
happen, or that certain things are done one at a time.  One worker is what one
instance has (the workers keep BullMQ's default concurrency,
`queues/queue.constants.ts:13`); the absence of faults is what no code can have, and
these theorems say exactly what it buys.

**WebhookPipelineProofs**
- `TypeCorrect`: `TypeOK`.  Inductive with `SlotsOK`: a slot in use names an
  event, a job that may still run has an attempt left, a letter somebody works
  on exists.  Without it `left - 1` could leave the type.
- `NeverForgotten`: `Recoverable`, from the same invariant.  The case that needs
  care is a job's last step: it may be the only support of its event, so it must
  change the row, leave a letter, or open a window.
- `AdmitsOnce`: `AdmittedOnce` is not inductive; `AdmissionInv` adds that an
  event is in the hands of at most one handler, which has not queued it yet, and
  of none while it has no row.
- `ProcessedIsHandedOff`: `HandedOff`.  Inductive as `HandOffInv`: what a job at
  each phase has already queued, whichever of its attempts queued it, with
  `OutOK` and `JobsReady` about the phases and `Known` about the rows.
- `ImplementsFollowUps`: `KeepsPromises`, step by step under the refinement
  mapping: every action is a step of `FollowUps` or leaves rows and queues alone.
- `RetriedWasRequeued`: `RetriedMeansRequeued`; the letters a request is about
  to mark have been queued by it.
- `WindowsNeedFaults`: `AllKeyed` makes a payload's fingerprint stable in every job
  and letter, and `Exposed` names for each window its fault.
- `NoLimboUnexposed`: no event is ever left *received* with nothing to process it,
  with failing queues and exhausted attempts allowed, if no process dies, no mark
  or dead letter is lost, payloads keep their fingerprint and nobody uses
  retry-failed: then the comment that webhook_retry_race refutes is true.

**TimeEntriesProofs**
- `TypeCorrect` with `JobsOK` and `SyncsOK`.
- `HoursNeverLost`: `HoursKept` needs `RecordOK`: a copy on record is a copy of
  that entry, so is the one a job is about to record, and a job at a deleting
  phase has an audit row behind it.
- `ReplacedOnce`: `OneCopy` needs `CopyOK`: outside the two windows an entry has
  one active job, that job creates only while there is no audit row, and every
  copy is on record or in its hands.
- `PrunesSpareLive`, `SyncsAreExact`: `PruneSparesLive` and `SyncExact` are about
  one step, from what a sync holds when it prunes.  `PruneInv`: until it pruned,
  the sync's response is what ClickUp held, or as many entries as the truncation
  bound; and while nobody disturbed it, ClickUp is as it was and what it has
  upserted is stored.  `FiniteInv`, because the bound counts: `remote` and every
  response are finite.
- `NeverCountedTwice`: `CountedOnce` is about rest, so it needs what brings the
  rest about.  `CarriedInv`: once a copy is on record and the original is still in
  ClickUp or among the rows, some job carries the replacement on, or a dead letter
  or a window excuses it.  `DeletedInv`: past the deletion the original is gone
  from ClickUp for good.  `LoggedInv`: jobs, letters and rows are of entries that
  were logged, so logging an entry anew cannot revive an original.
- `ImplementsReassignment`: `ReplacesAtomically`, from the type invariant,
  `RecordOK` and `CopyOK`: an audit row never changes once written, the copy it
  names is a copy of that entry, and a copy is created for an entry with another
  one only if its replacement lapsed.
- `HoursStandInClickUp` carries `HoursAlwaysStand` of **ReassignmentProofs** over:
  the hours of an entry stand in ClickUp until a user deletes the very entry they
  stand under, and no entry stands for two.
- `WindowsNeedFaults`, `OneCopyUnexposed`: with one worker a job that found no
  audit row still finds none when it writes its own (`SoloInv`), although jobs of
  the entry may be queued twice; so one copy per entry, without a window, if no
  process dies and no call to ClickUp or its answer is lost.  It is the property
  that entries_two_copies refutes in the presence of crashes.

**CostsProofs**
- `Succession`: the planner, for every table without overlaps, any number of
  rates and days.
- `TypeCorrect`, `PlansAreExact`: the table stays free of overlaps
  (`Exclusive`), although caps may come from an old reading, because the
  constraint refuses what would overlap; then `Succession` applies.
- `StalePending`: `StaleIsPending` for `Workers = 1` and a finite `Job`.  It
  needs `FreshReads` (unless somebody else is yet to recalculate, every row that the
  one at work has listed, or holds, gets what a calculation would give it now) and
  `OneAtWork`.  `Steady` says what `Current` depends on, so that each action has to
  leave those alone, open a window or be followed by a recalculation.  The
  assumption is BullMQ's default concurrency on one instance; with two
  recalculations at once the property is false, as TLC shows when `Workers = 2` is
  put into `CostsEdits.cfg`: the one that read before a change overwrites the other.
- `ImplementsPriceBook`: `KeepsBook`.  `RangeInv` keeps the rates within the days;
  then each action is one of `PriceBook`: the planner's caps and the new row against
  the days they touch (`CreatePrices`), updates and deletions against stretches of
  days (`UpdateMoves`, `RemoveMoves`), caches and held prices against what the list
  said when they were read, for a day that somebody had for the row (`PricedRun`,
  `RunsRead`, `RecalcShows`, `SyncShows`), settings and dates (`Arranges`,
  `SyncBegins`, `DuesMove`).
- `WindowsNeedFaults`, `StalePendingUnexposed`: `ReadIsFresh`, that a request which
  is alone writes the exclusion list it read.  Six windows need no fault and are
  listed in the theorem (`AlwaysOpen`): the preference turned off, a patch of the
  settings, a due date that moved, attempts used up on a row or rate that vanishes,
  and the late sync and recalculation.

**OrganisationProofs**
- `TypeCorrect`: `TypeOK` with the records of requests.
- `OwnerAlwaysRemains`: the step that needs care is a write after a check: outside
  `stale_check` what the check read still holds, so another owner remains.
- `ClaimedOnlyOnce`: a signup that commits outside `stale_signup` finds no owner,
  and by the former theorem there is none only before the first claim.
- `DisabledStaysOut`: from the revocation of the sessions to the write of the
  status an account has no session, except that of a login in between.
- `InvitationSpentOnce`: an invitation that was used is no longer pending, or the
  one request that used it is about to mark it.
- `WindowsTakeTwo`, `OneAtATimeIsSafe`: if at most one request is at work at any time,
  what a check read still holds at the write, so the only window left is an
  acceptance that dies before it marks its invitation, and an owner always remains,
  the organisation is claimed once and a disabled account stays out.

**WebhookRegistrationProofs** (any number of administrators' requests at once; the
run has one)
- `TypeCorrect`: `TypeOK` with `TasksOK`, which says what a request holds at each
  await, and `SlotTaken`.
- `NoChurn`: `ChurnBounded` follows from the type invariant and the guard of the
  cap; the counter is kept per instance and endpoint.
- `RegisteredOnce`: `UniqueInv`.  That an endpoint has one webhook is not
  inductive: a run that found none must be the only one about to create there,
  and none may exist yet.
- `PreferencesKept`: `PatchInv` adds that a patch under way, outside the window
  `stale_merge`, carries every preference of the row it will replace.
- `SecretKept`: `SecretInv` needs `UniqueInv`, `EndpointInv` (a request works on
  the endpoint that is configured) and `StoringInv` (the webhook whose secret is
  about to be stored still exists).  A patch of the endpoint and the secret keeps it
  when the row it writes has the secret of the webhook there, or of one about to be
  stored; otherwise it opens `moved_back` or `secret_typed`.
- `StaysServed`: `HadInv` needs `PlaceInv`: what a request is about to delete is
  where the request saw it, so only a rotation, which will create again, deletes
  at the configured endpoint.
- `CopyFollows`: `CacheInv` adds that an instance has one re-read in the air.
- `WindowsNeedFaults`, `ServedWithoutFailures`: three windows open only in a step
  that counts a failure, so until the first one rotations and heals leave no endpoint
  bare, whatever overlaps, as long as the endpoint is not moved under them.

**TaskMirrorProofs**
- `TypeCorrect`: `TypeOK` with `JobsOK` and `BackfillsOK`, what a job or a
  backfill holds at each await.
- `OneAtATime`: `OneInv`: while `slips` is empty one request at most is past the
  guard, and only while no backfill is queued.
- `TombstonesTrue`: `GoneInv`: a job that is about to delete, and the webhook that
  will queue one, is of a task that is gone.
- `HoursFollowTask`: `HoursInv`: a job that is about to write tracked time has a
  row to write it under.
- `MirrorExplained`: `MirrorInv` uses `KnownInv` (only tasks ClickUp has had are
  stored, queued or held) and `FreshInv` (a copy in hand that is not marked out
  of date is of a live task), and adds that a task that is gone and has no row
  yet has its deletion coming: otherwise a sync fetched before would revive it.
- `ParentsFollow`: `ParentsInv`: at each phase of a backfill which of the parents
  it refers to are stored already, and which are still in its batch.
- `BackfillsHeal`: `HealInv` says of every task that is due where it is: healed, in
  the batch with a copy that is up to date, or listed behind the pages read so far.
  The last needs what a place in the listing is (`PlaceOnto`: the places of the
  listed tasks are 1, 2, ... without a hole, by the pigeonhole principle), so that a
  page with a task behind it is full (`PageFull`) and the scan goes on; and that a
  deletion moves a place by one at most (`PlaceGoes`), so that a task can cross the
  boundary of a page only from the first place behind it, which is what the window
  `shifted` records.  The run has two tasks on pages of one; the theorem any number.
- `RowsMove`, about steps: no row is erased, an up-to-date one is spoilt only by a
  change in ClickUp or an older copy, and a tombstone is lifted only by an older
  copy.  `FreshRows` adds to `FreshInv` that an up-to-date row is of a live task.

Only model-checked
- the liveness properties `Settles`, `OriginalRemoved` and `CostsSettle`: liveness
  under fairness is out of the prover's reach.

## 12. Where code and comments disagree

Two runs expect a violation; `PROJECT.json`, "findings", quotes the lines.

- **webhook_retry_race**: retry-failed marks a row *received* after it queued the
  job.  If the worker is quicker, the row stays *received* with nothing left to
  process it, the limbo that `clickup-event.processor.ts` says it avoids.
- **entries_two_copies**: an attempt that ends between the creation of the copy
  and its audit row makes the next attempt create another; a comment relies on
  the audit row for idempotency over time.

Five more properties at the end of `TimeEntries.tla` state what comments say and
TLC refutes.  To reproduce one, put it in the place of `OneCopyPerEntry` in
`EntriesTwoCopies.cfg` with the constants below.

| property | change to the constants | what happens |
|---|---|---|
| `OneJobPerEntry` (invariant) | `Attempts = 1` | a dead-letter retry has no deterministic id and runs next to a keyed job |
| `CopiesSurvive` (property) | `Faults = {}`, `Attempts = 1` | a sync that fetched before a replacement prunes the copy's row |
| `DroppedForGood` (property) | `Faults = {}`, `Attempts = 1` | a sync that fetched the original writes its row back |
| `EnqueueTakesEffect` (property) | `Faults = {}`, `Attempts = 1` | a job that ended without a mapping stays known under its id and swallows the next enqueue |
| `ReturnedSurvive` (property) | `Sync = {s1, s2}`, `Faults = {"task"}`, `Attempts = 1` | an entry skipped for its task, stored meanwhile by another sync, is pruned although ClickUp returned it |

`TimeTrackedAlone` at the end of `WebhookPipeline.tla` is a sixth, to be put in the
place of `NoReceivedLimbo` in `WebhookRetryRace.cfg`, with no other change.
`time-entries.service.ts:56-58` explains `ensureTaskExists()` by a
`taskTimeTrackedUpdated` that arrives before its task: "the event processor only
enqueues the time-entry job, not a task job, for that event type".  The event
processor queues both, the task job first, and says so
(`clickup-event.processor.ts:99-116`): "This also guarantees the parent task row
exists before the time-entry worker upserts FKs against it".  `Required`, and with
it `HandedOff`, `FollowUps` and `KeepsPromises`, follow the code; under the comment
of the time-entry service `Required` would be `{"time"}` for that type, and
`KeepsPromises` would fail at the task job.  The tracked time does not depend on
which is meant: `ensureTaskExists()` fetches a task that is missing, whatever the
order of the jobs, as `TaskMirror` has it.

Further disagreements, each with the window of the model that names it:

- retry-failed parses the stored payload again (`admin-webhooks.controller.ts:93`).
  For events without history items the fingerprint is a hash of the payload text,
  which JSONB does not preserve, so `markProcessed` finds no row and the event stays
  *received* although it was processed (`Unstable` events of WebhookPipeline).
- `webhook-health.service.ts:20` and `admin-webhooks.controller.ts:36` call
  `register()` idempotent.  Two of them at once, from two instances or from a cron
  and an administrator, make two webhooks and keep one secret (`both_create`).
- `register()` after the endpoint was moved away and back adopts the webhook it
  finds there, whose secret is not the stored one (`moved_back`).
- `update()` stores any `webhookSecret` it is given.  One that is not the webhook's
  has every delivery refused, and neither `register()`, which leaves the secret of a
  webhook it finds alone, nor a heal corrects it; a rotation does (`secret_typed`).
- The settings are "an in-memory cache at boot (and after every write)"
  (`settings.service.ts:103`): of this instance's writes.  Other instances keep
  their copy, and merge the next patch onto it (`stale_merge`, `stale_endpoint`).
- `admin-sync.controller.ts:86-91` refuses a second backfill because "Sync all", a
  double-click, "the recurring reconcile, or a direct API call could otherwise stack a
  second backfill", and `sync.scheduler.ts:25-29` skips a space for the same reason.
  Two callers have no such guard: `registerWebhook()` with `sync.backfillOnConnect`
  adds a backfill for every enabled space each time it is called, also when the
  webhook was there already (`admin-webhooks.controller.ts:39-49`; `on_connect`), and
  the retry of a dead letter adds the job again whatever is queued
  (`admin-dead-letters.controller.ts:35` and `:53`; `letter_retried`).
- `backfill.service.ts:121` says that "parentTaskId never dangles".  A parent that
  was read but whose row could not be written counts as seen and is not fetched
  again (`skipped`).
- A task that leaves the listing while the backfill reads it shifts the pages: a
  task is not read although the backfill reports success (`shifted`).  A listing
  that fills the last page exactly is reported as cut short.
- Tracked time that was fetched before a task's deletion and written after it
  stays: `findAllIds` leaves deleted tasks out of every later sweep (`late_hours`).
  A task fetched before and written after its deletion loses its tombstone
  (`resurrected`).
- The last-owner checks of `users.service.ts` are not atomic with the writes: two
  requests can leave no owner (`stale_check`).  `wouldRemoveLastOwner` counts active
  owners but does not ask whether the target is one: a *disabled* owner cannot be
  removed while one active owner is left.  A transfer asked for with the machine
  key leaves two owners, because there is no row to demote.
- A revocation or a renewal that overlaps with an acceptance writes over it: an
  invitation that was used is pending again (`reopened`).

## 13. Not modelled

Within the modelled components
- the signature guard and payload parsing, beyond what the fingerprint depends on;
- fetches of several years, made in several calls, and edits of entries;
- a worker that outlives its lock: a stalled job is one whose process died;
- more than one tag per entry and more than one mapping;
- the batches in which `recalculate()` walks the table: the model's attempt lists
  the rows once, so rows a sync inserts behind the cursor are the sync's own
  responsibility (`late_sync`);
- currencies, durations and decimals: data that a price stands for (a duration scales
  the cost of a row and has no part in the choice of its rate), and an entry that
  ClickUp hands over to another user;
- in `Costs`, the row that a replacement upserts: it is priced and written by itself,
  as a sync of that one entry is;
- the two halves of a settings update (write, then re-read into the cache) in
  `Costs`: `ExcludeWrite` and `PatchPreferences` take effect when the cache changes; `Settings` has both
  halves and the caches of other instances;
- the archived pass of a backfill, the daily rotation over the spaces
  (`rotationIndex` takes the day modulo the number of enabled spaces, so a change of
  that number skips or repeats a space), and the refresh of the list catalog;
- which columns an upsert of a task keeps, and what `patchSpaceNames`, `markSuccess`
  and `job_logs` write (when they fail, `BackfillFails` repeats the backfill);
- in `TaskMirror`, retries of the dead letters of deletions and reconciliations: they
  re-read or delete a task that is gone, as a sync or a sweep of it does (a deletion
  also writes the tombstone of a task without a row);
- webhook events a registration subscribes to: whether they are up to date is a
  choice of the model, before and after a patch of `webhookEvents`;
- patches of the team and of the API token: calls then go to another team or fail
  (`CallFails`).  The webhooks of a team are out of sight after a move to another one,
  as after a move of the endpoint, except that a pruning does not see them;
- webhooks that somebody makes at ClickUp by hand;
- the expiry of sessions and invitations: an expired one is one nobody uses;
- dead letters of the maintenance queue: an exhausted recalculation is the window
  `exhausted`;
- rate limits, priorities and delays: they change when a job runs, and the models
  let it run at any time.

Components without a module
- the catalog of lists: idempotent upserts of names that no modelled component
  reads (`lists.repository.ts` lets a minimal row never blank a name);
- the cache of workspace members: it expires by the clock, and callers share the
  request in flight; after a change of the team id the former team's members are
  served until it expires;
- spike notices: a mail is sent before its record, so that a crash in between
  sends it again, as the comment in the code says;
- budgets and reports: read-only SQL and decimal arithmetic;
- infrastructure (`main.ts`, encryption, mail transport, health checks), the web
  application (`apps/web`, `design`: about two thirds of the repository's lines, a
  client that renders what the API returns) and the workflows of
  `source-workflows/`, which keep no protocol state.

## 14. Plan

Done: `WebhookPipeline` and `FollowUps`, `TimeEntries` and `Reassignment`,
`RateSuccession`, `Costs` and `PriceBook`, `Settings` and `WebhookRegistration`, `TaskMirror`, `Organisation`, each
with its MC module, runs and mutants.

Proved: every invariant and every safety property over steps that a run checks,
the three refinements (`FollowUps`, `Reassignment`, `PriceBook`), and which faults
the windows of five components need.

Next
- the same for the windows of `TaskMirror`, several of which need two holders of a
  copy of one task at once;
- an abstract replica with stale reads that `TaskMirror` implements;
- the archived pass and the rotation of spaces in `TaskMirror`.
