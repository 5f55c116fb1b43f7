------------------------------ MODULE TaskMirror ------------------------------
(***************************************************************************)
(* The local copy of ClickUp's tasks: what the clickup-tasks worker, the   *)
(* time-entry sync, the sweep over stored tasks and the backfill of a      *)
(* space do to it, each on several instances at once.                      *)
(*                                                                         *)
(* A task is its state at ClickUp and the age of each copy of it: a copy   *)
(* is fresh until ClickUp's task changes.  Tracked time is one bit per     *)
(* task (module TimeEntries has the detail), and the webhook pipeline is   *)
(* the follow-up work it owes (module WebhookPipeline has the detail).     *)
(* The archived pass of a backfill and the list catalog are left out.      *)
(***************************************************************************)
EXTENDS Naturals, Sequences, FiniteSets

CONSTANTS
  Order,        \* the tasks of one space, in the order ClickUp lists them
  Parent,       \* a subtask's parent
  NoTask,       \* the parent of a task that is not a subtask
  Job,          \* slots of clickup-tasks and clickup-time-entries: bounds the jobs at once
  Backfill,     \* slots of clickup-backfills
  Requester,    \* crons and administrators who ask for a backfill at once
  Sweeper,      \* administrators who ask for a reconciliation of all tasks at once
  JobAttempts,  \* JOB_ATTEMPTS of defaultJobOptions
  Workers,      \* instances: jobs of one queue processed at once
  PageSize,     \* tasks in a full page
  MaxPages,     \* MAX_PAGES
  MaxEvents     \* bound: changes at ClickUp, requests for a task or a sweep, and failures

Task == {Order[k] : k \in DOMAIN Order}

ASSUME ConstantAssumption ==
  /\ Order \in Seq(Task) /\ \A k, l \in DOMAIN Order : Order[k] = Order[l] => k = l
  /\ NoTask \notin Task /\ Parent \in [Task -> Task \cup {NoTask}]
  /\ JobAttempts \in Nat \ {0} /\ Workers \in Nat \ {0}
  /\ PageSize \in Nat \ {0} /\ MaxPages \in Nat \ {0} /\ MaxEvents \in Nat

VARIABLES
  remote,    \* ClickUp's task
  recent,    \* tasks updated within a backfill's lookback
  tracked,   \* tasks with tracked time at ClickUp
  row,       \* the clickup_tasks row
  entries,   \* tasks with rows in clickup_time_entries
  owed,      \* follow-up jobs the webhook pipeline will still queue for a task
  job,       \* jobs of clickup-tasks and clickup-time-entries
  backfill,  \* jobs of clickup-backfills
  asking,    \* backfill requests that found no backfill in the queue
  sweep,     \* sweeps: tasks still to be queued
  events,    \* bounded: changes at ClickUp, requests and failures so far
  gap,       \* history: how the copy of a task got out of step
  slips      \* history: how a backfill came to be queued beside another

source == <<remote, recent, tracked>>
copy   == <<row, entries>>
queues == <<owed, job, backfill, asking, sweep>>
history == <<gap, slips>>
vars   == <<source, copy, queues, events, history>>

GapKind ==
  {"undelivered",  \* ClickUp's webhook did not arrive
   "dead_letter",  \* a job used up its attempts
   "overtaken",    \* a copy fetched earlier was written over one fetched later
   "resurrected",  \* a copy fetched before the deletion was written after it
   "late_hours",   \* tracked time fetched before the deletion was written after it
   "skipped",      \* a batch went on without a row it could not write
   "unfetched",    \* a missing parent could not be fetched
   "shifted"}      \* it moved to a page that had already been read

Slip ==
  {"both_asked",      \* two requests looked at the queue before either had added to it
   "on_connect",      \* a registration of the webhook added one without looking
   "letter_retried"}  \* the retry of a dead letter added one without looking

Kind == {"sync", "delete", "time", "reconcile"}

(* stale: the copy of the task the job holds is out of date.               *)
JobRecord ==
  [kind : Kind, task : Task \cup {NoTask}, left : 0..JobAttempts, stale : BOOLEAN, hours : BOOLEAN,
   pc : {"free", "waiting", "fetch", "upsert", "exists", "drop", "tombstone",
         "ensure", "fetch_hours", "write_hours"}]

(* batch: tasks read and not yet stored; fresh: those whose copy is up to  *)
(* date; queue: tasks whose time entries are still to be queued; refs:     *)
(* parents of the subtasks read; due (history): tasks listed when the scan *)
(* began and not changed since.                                            *)
BackfillRecord ==
  [pc : {"free", "waiting", "page", "store", "queue", "missing", "fetch_parent", "store_parent",
         "done"},
   left : 0..JobAttempts, page : 0..MaxPages, more : BOOLEAN, truncated : BOOLEAN,
   batch : SUBSET Task,
   fresh : SUBSET Task, queue : SUBSET Task, seen : SUBSET Task, refs : SUBSET Task,
   due : SUBSET Task]

TypeOK ==
  /\ remote \in [Task -> {"unborn", "live", "gone"}]
  /\ recent \subseteq Task /\ tracked \subseteq Task
  /\ row \in [Task -> {"none", "fresh", "stale", "deleted"}]
  /\ entries \subseteq Task
  /\ owed \in [Task -> SUBSET {"sync", "delete", "time"}]
  /\ job \in [Job -> JobRecord]
  /\ backfill \in [Backfill -> BackfillRecord]
  /\ asking \subseteq Requester
  /\ sweep \in [Sweeper -> SUBSET Task]
  /\ events \in 0..MaxEvents
  /\ gap \in [Task -> SUBSET GapKind] /\ slips \subseteq Slip

FreeJob == [kind |-> "sync", task |-> NoTask, left |-> 0, stale |-> FALSE, hours |-> FALSE,
            pc |-> "free"]
FreeBackfill ==
  [pc |-> "free", left |-> 0, page |-> 0, more |-> FALSE, truncated |-> FALSE, batch |-> {}, fresh |-> {},
   queue |-> {}, seen |-> {}, refs |-> {}, due |-> {}]

(* Every task may be there already, updated long ago, and not be stored.   *)
Init ==
  /\ remote \in [Task -> {"unborn", "live"}]
  /\ recent = {} /\ tracked = {}
  /\ row \in [Task -> {"none", "fresh"}]
  /\ \A t \in Task : row[t] = "fresh" => remote[t] = "live"
  /\ \A t, p \in Task : remote[t] = "live" /\ Parent[t] = p => remote[p] = "live"
  /\ entries = {}
  /\ owed = [t \in Task |-> {}]
  /\ job = [j \in Job |-> FreeJob]
  /\ backfill = [b \in Backfill |-> FreeBackfill]
  /\ asking = {}
  /\ sweep = [a \in Sweeper |-> {}]
  /\ events = 0
  /\ gap = [t \in Task |-> IF remote[t] = "live" /\ row[t] = "none" THEN {"undelivered"} ELSE {}]
  /\ slips = {}

-----------------------------------------------------------------------------
(* Faulty variants.  Each is a definition below with one plausible bug.    *)

(* A failed upsert is swallowed whatever the job.                          *)
UpsertSkippedAlways(j) ==
  /\ job[j].pc = "upsert"
  /\ job' = [job EXCEPT ![j] = FreeJob]
  /\ UNCHANGED <<source, events, copy, owed, backfill, asking, sweep, history>>

(* A reconciliation takes any error of getTask for a 404.                  *)
TakenForGoneSwept(q) == remote[q.task] # "live" \/ q.kind \in {"time", "reconcile"}

(* A deletion leaves the time entries.                                     *)
FirstStepTombstone(kind) == IF kind = "delete" THEN "tombstone" ELSE "fetch"

(* The overlap guard looks at running backfills only.                      *)
BusyRunning == \E b \in Backfill : backfill[b].pc \notin {"free", "waiting"}

(* The page cap is not looked at.                                          *)
AfterBatchEndless(more) == "page"

(* Missing parents are not looked for.                                     *)
AfterBatchNoParents(more) == IF more THEN "page" ELSE "done"

-----------------------------------------------------------------------------
(* Rows.                                                                   *)

Live(t) == remote[t] = "live"
Stored(t) == row[t] \in {"fresh", "stale"}

(* upsert(): the row has the copy's content and is not deleted.  A fresh   *)
(* copy makes good whatever had been missed.                               *)
Write(t, stale) ==
  /\ row' = [row EXCEPT ![t] = IF stale THEN "stale" ELSE "fresh"]
  /\ gap' = [gap EXCEPT ![t] =
       CASE ~stale                            -> @ \cap {"late_hours"}
         [] stale /\ row[t] = "fresh"         -> @ \cup {"overtaken"}
         [] stale /\ row[t] = "deleted"       -> @ \cup {"resurrected"}
         [] stale /\ row[t] \in {"none", "stale"} -> @]

(* softDelete(): a tombstone, whether there was a row or not.              *)
Tombstoned(t) ==
  /\ row' = [row EXCEPT ![t] = "deleted"]
  /\ gap' = [gap EXCEPT ![t] = @ \cap {"late_hours"}]

(* A row that could not be written is passed over.                         *)
PassedOver(t, kind) == [gap EXCEPT ![t] = IF row[t] = "fresh" THEN @ ELSE @ \cup {kind}]

-----------------------------------------------------------------------------
(* ClickUp.                                                                *)

(* Bound: changes, requests and failures.                                  *)
Event == events < MaxEvents /\ events' = events + 1

(* The tasks a backfill asks for, and the place of one among them.         *)
Listed == {t \in recent : Live(t)}
Before(u, t) == \E k, l \in DOMAIN Order : k < l /\ Order[k] = u /\ Order[l] = t
Position(t) == Cardinality({u \in Listed : Before(u, t)}) + 1

OutOfDate(t) ==
  /\ job' = [j \in Job |-> IF job[j].task = t THEN [job[j] EXCEPT !.stale = TRUE] ELSE job[j]]
  /\ backfill' = [b \in Backfill |->
       [backfill[b] EXCEPT !.fresh = @ \ {t}, !.due = @ \ {t}]]

(* The webhook of a change arrives, or does not.                           *)
Notified(t, kinds) ==
  \/ owed' = [owed EXCEPT ![t] = @ \cup kinds] /\ UNCHANGED gap
  \/ gap' = [gap EXCEPT ![t] = @ \cup {"undelivered"}] /\ UNCHANGED owed

(* taskCreated; taskUpdated and taskTimeTrackedUpdated.                    *)
Change(t) ==
  /\ Event
  /\ remote[t] # "gone" /\ \A p \in Task : Parent[t] = p => Live(p)
  /\ remote' = [remote EXCEPT ![t] = "live"]
  /\ recent' = recent \cup {t}
  /\ tracked' \in {tracked, tracked \cup {t}}
  /\ row' = [row EXCEPT ![t] = IF @ = "fresh" THEN "stale" ELSE @]
  /\ OutOfDate(t)
  /\ Notified(t, {"sync", "time"})
  /\ UNCHANGED <<entries, asking, sweep, slips>>

(* The first task of the next page moves to the page before it.            *)
Shifted(t) ==
  {u \in Listed : \E b \in Backfill :
     /\ backfill[b].more /\ t \in Listed
     /\ Position(t) <= backfill[b].page * PageSize
     /\ Position(u) = backfill[b].page * PageSize + 1
     /\ u \notin backfill[b].seen}

(* taskDeleted; a parent's subtasks go first.                              *)
Remove(t) ==
  /\ Event
  /\ Live(t) /\ \A c \in Task : Parent[c] = t => ~Live(c)
  /\ remote' = [remote EXCEPT ![t] = "gone"]
  /\ tracked' = tracked \ {t}
  /\ row' = [row EXCEPT ![t] = IF @ = "fresh" THEN "stale" ELSE @]
  /\ OutOfDate(t)
  /\ LET moved == [u \in Task |-> IF u \in Shifted(t) THEN gap[u] \cup {"shifted"} ELSE gap[u]] IN
     \/ owed' = [owed EXCEPT ![t] = @ \cup {"delete"}] /\ gap' = moved
     \/ gap' = [moved EXCEPT ![t] = @ \cup {"undelivered"}] /\ UNCHANGED owed
  /\ UNCHANGED <<recent, entries, asking, sweep, slips>>

-----------------------------------------------------------------------------
(* The queues clickup-tasks and clickup-time-entries.                      *)

NewJob(kind, t) ==
  [kind |-> kind, task |-> t, left |-> JobAttempts, stale |-> FALSE, hours |-> FALSE,
   pc |-> "waiting"]

Enqueue(kind, t) ==
  \E j \in Job : job[j].pc = "free" /\ job' = [job EXCEPT ![j] = NewJob(kind, t)]

(* The webhook worker queues the task's sync before that of its time.      *)
Deliver(t) ==
  /\ \E kind \in owed[t] :
       /\ kind = "time" => "sync" \notin owed[t]
       /\ Enqueue(kind, t)
       /\ owed' = [owed EXCEPT ![t] = @ \ {kind}]
  /\ UNCHANGED <<source, events, copy, backfill, asking, sweep, history>>

(* POST /admin/tasks/sync and time-entries/sync-task.                      *)
AdminSync(t) ==
  /\ Event
  /\ remote[t] # "unborn"
  /\ \E kind \in {"sync", "time"} : Enqueue(kind, t)
  /\ UNCHANGED <<source, copy, owed, backfill, asking, sweep, history>>

Running(q) == {j \in Job : job[j].pc \notin {"free", "waiting"} /\ (job[j].kind = "time") = q}

FirstStep(kind) ==
  CASE kind = "delete"                -> "drop"
    [] kind = "time"                  -> "ensure"
    [] kind \in {"sync", "reconcile"} -> "fetch"

Take(j) ==
  /\ job[j].pc = "waiting"
  /\ Cardinality(Running(job[j].kind = "time")) < Workers
  /\ job' = [job EXCEPT ![j].pc = FirstStep(job[j].kind)]
  /\ UNCHANGED <<source, events, copy, owed, backfill, asking, sweep, history>>

Goto(j, pc) == job' = [job EXCEPT ![j].pc = pc]
Finish(j) == job' = [job EXCEPT ![j] = FreeJob]

(* getTask.  A 404 sends a sync to look for a row first, a time sync back  *)
(* to its check, a reconciliation straight to the deletion; a time sync    *)
(* takes any other error for a 404.                                        *)
AfterGone(kind) == IF kind = "reconcile" THEN "drop" ELSE "exists"
TakenForGone(q) == ~Live(q.task) \/ q.kind = "time"

Fetch(j) ==
  LET q == job[j] IN
  /\ q.pc = "fetch"
  /\ \/ Live(q.task) /\ job' = [job EXCEPT ![j].pc = "upsert", ![j].stale = FALSE]
     \/ TakenForGone(q) /\ Goto(j, AfterGone(q.kind))
  /\ UNCHANGED <<source, events, copy, owed, backfill, asking, sweep, history>>

Upsert(j) ==
  LET q == job[j] IN
  /\ q.pc = "upsert"
  /\ Write(q.task, q.stale)
  /\ CASE q.kind = "sync"      -> Finish(j)
       [] q.kind = "time"      -> Goto(j, "exists")
       [] q.kind = "reconcile" -> Goto(j, "ensure")
  /\ UNCHANGED <<source, events, entries, owed, backfill, asking, sweep, slips>>

(* syncTasks() and ensureTaskExists() go on without the row.               *)
UpsertSkipped(j) ==
  LET q == job[j] IN
  /\ q.pc = "upsert" /\ q.kind \in {"time", "reconcile"}
  /\ gap' = IF q.kind = "time" THEN gap ELSE PassedOver(q.task, "skipped")
  /\ Goto(j, IF q.kind = "time" THEN "exists" ELSE "ensure")
  /\ UNCHANGED <<source, events, copy, owed, backfill, asking, sweep, slips>>

Exists(j) ==
  LET q == job[j] IN
  /\ q.pc = "exists"
  /\ CASE row[q.task] = "none"                       -> Finish(j)
       [] row[q.task] # "none" /\ q.kind = "sync"     -> Goto(j, "drop")
       [] row[q.task] # "none" /\ q.kind = "time"     -> Goto(j, "fetch_hours")
  /\ UNCHANGED <<source, events, copy, owed, backfill, asking, sweep, history>>

(* deleteByTaskId().                                                       *)
Drop(j) ==
  LET t == job[j].task IN
  /\ job[j].pc = "drop"
  /\ entries' = entries \ {t}
  /\ gap' = [gap EXCEPT ![t] = @ \ {"late_hours"}]
  /\ Goto(j, "tombstone")
  /\ UNCHANGED <<source, events, row, owed, backfill, asking, sweep, slips>>

Tombstone(j) ==
  /\ job[j].pc = "tombstone"
  /\ Tombstoned(job[j].task)
  /\ Finish(j)
  /\ UNCHANGED <<source, events, entries, owed, backfill, asking, sweep, slips>>

(* ensureTaskExists(), before the time entries are asked for.              *)
Ensure(j) ==
  /\ job[j].pc = "ensure"
  /\ Goto(j, IF row[job[j].task] = "none" THEN "fetch" ELSE "fetch_hours")
  /\ UNCHANGED <<source, events, copy, owed, backfill, asking, sweep, history>>

FetchHours(j) ==
  LET q == job[j] IN
  /\ q.pc = "fetch_hours"
  /\ job' = [job EXCEPT ![j].pc = "write_hours", ![j].hours = q.task \in tracked]
  /\ UNCHANGED <<source, events, copy, owed, backfill, asking, sweep, history>>

(* Upsert and prune of the task's time entries.                            *)
WriteHours(j) ==
  LET q == job[j]
      t == q.task
      dropped == row[t] = "deleted" \/ \E k \in Job : job[k].task = t /\ job[k].pc = "tombstone"
  IN
  /\ q.pc = "write_hours"
  /\ entries' = IF q.hours THEN entries \cup {t} ELSE entries \ {t}
  /\ gap' = [gap EXCEPT ![t] = IF q.hours /\ dropped THEN @ \cup {"late_hours"} ELSE @]
  /\ Finish(j)
  /\ UNCHANGED <<source, events, row, owed, backfill, asking, sweep, slips>>

(* A call or a statement fails, or the process dies: the job is tried      *)
(* again from the start, or ends as a dead letter.                         *)
AttemptFails(j) ==
  LET q == job[j] IN
  /\ q.pc \notin {"free", "waiting"}
  /\ Event
  /\ IF q.left > 1
     THEN /\ job' = [job EXCEPT ![j] = [NewJob(q.kind, q.task) EXCEPT !.left = q.left - 1]]
          /\ UNCHANGED gap
     ELSE /\ Finish(j)
          /\ gap' = IF q.kind = "time" THEN gap
                    ELSE [gap EXCEPT ![q.task] = @ \cup {"dead_letter"}]
  /\ UNCHANGED <<source, copy, owed, backfill, asking, sweep, slips>>

-----------------------------------------------------------------------------
(* POST /admin/tasks/reconcile.                                            *)

NoSweep == \A j \in Job : job[j].pc # "free" => job[j].kind # "reconcile"

(* No reconciliation is queued; the stored tasks are read.                 *)
BeginSweep(a) ==
  /\ Event
  /\ sweep[a] = {} /\ NoSweep
  /\ sweep' = [sweep EXCEPT ![a] = {t \in Task : Stored(t)}]
  /\ UNCHANGED <<source, copy, owed, job, backfill, asking, history>>

SweepAdd(a) ==
  /\ \E t \in sweep[a] :
       /\ Enqueue("reconcile", t)
       /\ sweep' = [sweep EXCEPT ![a] = @ \ {t}]
  /\ UNCHANGED <<source, events, copy, owed, backfill, asking, history>>

SweepDies(a) ==
  /\ sweep[a] # {}
  /\ sweep' = [sweep EXCEPT ![a] = {}]
  /\ UNCHANGED <<source, events, copy, owed, job, backfill, asking, history>>

-----------------------------------------------------------------------------
(* Backfills are queued: POST /admin/backfill and the two crons look at    *)
(* the queue first.                                                        *)

Busy == \E b \in Backfill : backfill[b].pc # "free"

Ask(r) ==
  /\ r \notin asking /\ ~Busy
  /\ asking' = asking \cup {r}
  /\ slips' = IF asking = {} THEN slips ELSE slips \cup {"both_asked"}
  /\ UNCHANGED <<source, events, copy, owed, job, backfill, sweep, gap>>

QueueBackfill ==
  \E b \in Backfill :
    /\ backfill[b].pc = "free"
    /\ backfill' = [backfill EXCEPT ![b] =
                      [FreeBackfill EXCEPT !.pc = "waiting", !.left = JobAttempts]]

AddBackfill(r) ==
  /\ r \in asking
  /\ QueueBackfill
  /\ asking' = asking \ {r}
  /\ UNCHANGED <<source, events, copy, owed, job, sweep, history>>

(* One is added without a look at the queue, while another is there or     *)
(* asked for.                                                              *)
AddUnseen(slip) ==
  /\ QueueBackfill
  /\ slips' = IF Busy \/ asking # {} THEN slips \cup {slip} ELSE slips
  /\ UNCHANGED <<source, events, copy, owed, job, asking, sweep, gap>>

(* POST /admin/webhooks/register, with sync.backfillOnConnect.             *)
ConnectBackfill == AddUnseen("on_connect")

(* POST /admin/dead-letters/:id/retry; a letter may be there from before,  *)
(* and may be retried more than once.                                      *)
RetryBackfill == AddUnseen("letter_retried")

RequestDies(r) ==
  /\ r \in asking
  /\ asking' = asking \ {r}
  /\ UNCHANGED <<source, events, copy, owed, job, backfill, sweep, history>>

-----------------------------------------------------------------------------
(* backfillSpace().                                                        *)

TakeBackfill(b) ==
  /\ backfill[b].pc = "waiting"
  /\ backfill' = [backfill EXCEPT ![b] =
       [FreeBackfill EXCEPT !.pc = "page", !.left = backfill[b].left, !.due = Listed]]
  /\ UNCHANGED <<source, events, copy, owed, job, asking, sweep, history>>

(* Pages are counted from one.                                             *)
PageFromOne(n) == {t \in Listed : Position(t) \in (n + 1) * PageSize + 1 .. (n + 2) * PageSize}

Page(n) == {t \in Listed : Position(t) \in n * PageSize + 1 .. (n + 1) * PageSize}

(* Where a backfill goes once a batch is stored and its time entries are   *)
(* queued.                                                                 *)
AfterBatch(more) == IF more THEN "page" ELSE "missing"

(* A full page means that there is another, unless the cap is reached;     *)
(* tasks read before are left out.                                         *)
FetchPage(b) ==
  LET q == backfill[b]
      tasks == Page(q.page)
      new == tasks \ q.seen
      full == Cardinality(tasks) = PageSize
      more == full /\ q.page + 1 < MaxPages
  IN
  /\ q.pc = "page"
  /\ backfill' = [backfill EXCEPT ![b] =
       [q EXCEPT !.page = @ + 1, !.more = more, !.truncated = full /\ ~more,
                 !.batch = new, !.fresh = new, !.queue = new, !.seen = @ \cup new,
                 !.refs = @ \cup ({Parent[t] : t \in new} \ {NoTask}),
                 !.pc = IF new = {} THEN AfterBatch(more) ELSE "store"]]
  /\ UNCHANGED <<source, events, copy, owed, job, asking, sweep, history>>

(* syncTasks(): parents first, and a row that cannot be written is passed  *)
(* over.                                                                   *)
StoreTask(b) ==
  LET q == backfill[b] IN
  /\ q.pc = "store"
  /\ \E t \in q.batch :
       /\ Parent[t] = NoTask \/ \A u \in q.batch : Parent[u] # NoTask
       /\ \/ Write(t, t \notin q.fresh)
          \/ gap' = PassedOver(t, "skipped") /\ UNCHANGED row
       /\ backfill' = [backfill EXCEPT ![b] =
            [q EXCEPT !.batch = @ \ {t}, !.pc = IF q.batch = {t} THEN "queue" ELSE "store"]]
  /\ UNCHANGED <<source, events, entries, owed, job, asking, sweep, slips>>

QueueHours(b) ==
  LET q == backfill[b] IN
  /\ q.pc = "queue"
  /\ \E t \in q.queue :
       /\ Enqueue("time", t)
       /\ backfill' = [backfill EXCEPT ![b] =
            [q EXCEPT !.queue = @ \ {t}, !.pc = IF q.queue = {t} THEN AfterBatch(q.more) ELSE "queue"]]
  /\ UNCHANGED <<source, events, copy, owed, asking, sweep, history>>

(* syncMissingParents(): the parents referred to, not read and not stored. *)
FindMissing(b) ==
  LET q == backfill[b]
      missing == {p \in q.refs \ q.seen : row[p] = "none"}
  IN
  /\ q.pc = "missing"
  /\ backfill' = [backfill EXCEPT ![b] =
       [q EXCEPT !.batch = missing, !.pc = IF missing = {} THEN "done" ELSE "fetch_parent"]]
  /\ UNCHANGED <<source, events, copy, owed, job, asking, sweep, history>>

NextParent(q, p) ==
  [q EXCEPT !.batch = @ \ {p}, !.fresh = {}, !.queue = {},
            !.pc = IF q.batch = {p} THEN "done" ELSE "fetch_parent"]

(* The parent being fetched is the one in queue.                           *)
FetchParent(b) ==
  LET q == backfill[b] IN
  /\ q.pc = "fetch_parent"
  /\ \E p \in q.batch :
       \/ /\ Live(p)
          /\ backfill' = [backfill EXCEPT ![b] =
               [q EXCEPT !.pc = "store_parent", !.fresh = {p}, !.queue = {p}]]
          /\ UNCHANGED gap
       \/ /\ backfill' = [backfill EXCEPT ![b] = NextParent(q, p)]
          /\ gap' = IF Live(p) THEN PassedOver(p, "unfetched") ELSE gap
  /\ UNCHANGED <<source, events, copy, owed, job, asking, sweep, slips>>

StoreParent(b) ==
  LET q == backfill[b] IN
  /\ q.pc = "store_parent"
  /\ \E p \in q.queue :
       /\ \/ Write(p, p \notin q.fresh)
          \/ gap' = PassedOver(p, "unfetched") /\ UNCHANGED row
       /\ backfill' = [backfill EXCEPT ![b] = NextParent(q, p)]
  /\ UNCHANGED <<source, events, entries, owed, job, asking, sweep, slips>>

(* The job's log says completed, or partial when the cap was reached.      *)
FinishBackfill(b) ==
  /\ backfill[b].pc = "done"
  /\ backfill' = [backfill EXCEPT ![b] = FreeBackfill]
  /\ UNCHANGED <<source, events, copy, owed, job, asking, sweep, history>>

(* A page, a parent look-up, an enqueue or the bookkeeping at the end      *)
(* fails, or the process dies: all of it is repeated.                      *)
BackfillFails(b) ==
  LET q == backfill[b] IN
  /\ q.pc \notin {"free", "waiting"}
  /\ Event
  /\ backfill' = [backfill EXCEPT ![b] =
       IF q.left > 1 THEN [FreeBackfill EXCEPT !.pc = "waiting", !.left = q.left - 1]
                     ELSE FreeBackfill]
  /\ UNCHANGED <<source, copy, owed, job, asking, sweep, history>>

-----------------------------------------------------------------------------
Next ==
  \/ \E t \in Task : Change(t) \/ Remove(t) \/ Deliver(t) \/ AdminSync(t)
  \/ \E j \in Job :
       \/ Take(j) \/ Fetch(j) \/ Upsert(j) \/ UpsertSkipped(j) \/ Exists(j) \/ Drop(j)
       \/ Tombstone(j) \/ Ensure(j) \/ FetchHours(j) \/ WriteHours(j) \/ AttemptFails(j)
  \/ \E a \in Sweeper : BeginSweep(a) \/ SweepAdd(a) \/ SweepDies(a)
  \/ \E r \in Requester : Ask(r) \/ AddBackfill(r) \/ RequestDies(r)
  \/ ConnectBackfill \/ RetryBackfill
  \/ \E b \in Backfill :
       \/ TakeBackfill(b) \/ FetchPage(b) \/ StoreTask(b) \/ QueueHours(b) \/ FindMissing(b)
       \/ FetchParent(b) \/ StoreParent(b) \/ FinishBackfill(b) \/ BackfillFails(b)

Spec == Init /\ [][Next]_vars

-----------------------------------------------------------------------------
(* Properties.                                                             *)

Current(t) ==
  CASE remote[t] = "unborn" -> row[t] = "none"
    [] remote[t] = "live"   -> row[t] = "fresh"
    [] remote[t] = "gone"   -> row[t] \in {"none", "deleted"}

(* Work that will bring the row up to date.                                *)
Coming(t) ==
  \/ owed[t] \cap {"sync", "delete"} # {}
  \/ \E j \in Job :
       /\ job[j].task = t /\ job[j].kind \in {"sync", "delete"}
       /\ job[j].pc = "upsert" => ~job[j].stale

(* A row is what ClickUp has, or a job will still make it so, or the task  *)
(* fell into one of the named windows since it was last right: over every  *)
(* interleaving of syncs, deletions, sweeps, time syncs and backfills      *)
(* (syncTask, syncTasks, softDelete, reconcileTask, backfillSpace).        *)
Mirrored == \A t \in Task : Current(t) \/ gap[t] \ {"late_hours"} # {} \/ Coming(t)

(* No task that ClickUp still has is ever tombstoned, whatever calls fail  *)
(* (TaskSyncProcessor: only a 404 means the task is gone).                 *)
TombstoneTrue == \A t \in Task : row[t] = "deleted" => remote[t] = "gone"

(* Tracked time is stored only under a task row, and goes with the task,   *)
(* unless it was fetched before the deletion and written after it          *)
(* (deleteByTaskId, ensureTaskExists).                                     *)
HoursFollow ==
  \A t \in entries : row[t] # "none" /\ (row[t] = "deleted" => "late_hours" \in gap[t])

(* A backfill that reports success has brought every task in its scope up  *)
(* to date, undelivered webhooks included, unless a page shifted, a row    *)
(* could not be written, or an older copy was written over it              *)
(* (backfillSpace, streamAllTasksBySpace).                                 *)
BackfillHeals ==
  \A b \in Backfill : backfill[b].pc = "done" /\ ~backfill[b].truncated =>
    \A t \in backfill[b].due : row[t] = "fresh" \/ gap[t] \cap {"shifted", "skipped", "overtaken"} # {}

(* After a backfill no subtask it stored refers to a parent without a row, *)
(* unless that parent could not be fetched or written, or is gone          *)
(* (syncMissingParents).                                                   *)
ParentsStored ==
  \A b \in Backfill : backfill[b].pc = "done" =>
    \A t \in backfill[b].seen : Stored(t) /\ Parent[t] # NoTask =>
      \/ row[Parent[t]] # "none" \/ remote[Parent[t]] = "gone"
      \/ gap[Parent[t]] \cap {"skipped", "unfetched"} # {}

(* A space has one backfill at a time, from the moment it is queued until  *)
(* its last attempt ends, unless two requests looked at the queue before   *)
(* either had added to it, or one was added without a look at the queue    *)
(* while another was there or asked for (reconcileRecentUpdates, backfill, *)
(* registerWebhook, retryDeadLetter).                                      *)
OneBackfill == slips = {} => Cardinality({b \in Backfill : backfill[b].pc # "free"}) <= 1
=============================================================================
