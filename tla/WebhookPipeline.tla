--------------------------- MODULE WebhookPipeline ---------------------------
(***************************************************************************)
(* Ingestion of ClickUp webhooks: the HTTP handler that stores an event    *)
(* and queues it, the clickup-webhooks worker, the dead-letter store, and  *)
(* the three admin tools that put failed work back on the queue.           *)
(*                                                                         *)
(* Every database or Redis round trip of the code is a step of its own, so *)
(* handlers, workers and admin requests interleave between any two of      *)
(* them, on one instance of the service or on several.  A webhook is       *)
(* identified by its fingerprint: an element of Event.                     *)
(***************************************************************************)
EXTENDS Naturals, FiniteSets

CONSTANTS
  Event,            \* fingerprints ClickUp may deliver, each any number of times
  NoEvent,          \* "no event": the content of an unused slot
  TypeOf,           \* event name carried by the payload of each event
  Tasked,           \* events whose payload names a task
  Unstable,         \* events whose fingerprint is a hash of the payload that the
                    \* JSONB column does not reproduce when it is parsed again
  Request,          \* concurrent HTTP deliveries
  Job,              \* slots of the clickup-webhooks queue: bounds the jobs at once
  Letter,           \* rows of dead_letter_jobs: bounds the exhausted jobs
  RetryAdmin,       \* concurrent POST /admin/webhooks/retry-failed requests
  LetterAdmin,      \* concurrent POST /admin/dead-letters/... requests
  WebhookAttempts,  \* preferences.failure.webhookRetryAttempts
  JobAttempts,      \* JOB_ATTEMPTS of defaultJobOptions
  Workers,          \* jobs processed at once, over all instances
  MaxStalls,        \* BullMQ maxStalledCount
  Faults            \* which failures the environment may produce

EventType ==
  {"taskStatusUpdated", "taskPriorityUpdated", "taskAssigneeUpdated", "taskMoved",
   "taskTimeTrackedUpdated", "taskUpdated", "taskCreated", "taskDeleted", "other"}

FaultKind ==
  {"crash",          \* a process dies between two round trips
   "letter_write",   \* the dead-letter insert fails
   "mark_write",     \* an update of an event row or a dead-letter row fails
   "history_write"}  \* an upsert into clickup_task_events fails

ASSUME ConstantAssumption ==
  /\ NoEvent \notin Event
  /\ TypeOf \in [Event -> EventType]
  /\ Tasked \subseteq Event /\ Unstable \subseteq Event
  /\ WebhookAttempts \in Nat \ {0} /\ JobAttempts \in Nat \ {0}
  /\ Workers \in Nat \ {0} /\ MaxStalls \in Nat
  /\ Faults \subseteq FaultKind

VARIABLES
  row,          \* status of the clickup_webhook_events row of an event
  seen,         \* events with a clickup_webhook_seen row (written, never read)
  req,          \* delivery handlers: what each still has to do
  job,          \* the clickup-webhooks queue
  letter,       \* dead_letter_jobs
  out,          \* follow-up jobs queued for an event
  history,      \* clickup_task_events rows of an event
  retry,        \* retry-failed requests: events to requeue, event to mark
  redeliver,    \* dead-letter requests: letters to requeue, letter to mark
  gap,          \* history: the windows in which the system lost track of an event
  admitted,     \* history: how often the receive handler queued an event
  requeued      \* history: letters whose job was put back on the queue

vars == <<row, seen, req, job, letter, out, history, retry, redeliver,
          gap, admitted, requeued>>

Status == {"none", "received", "processed", "failed"}

FollowUp == {"delete", "sync", "time"}

(* The windows in which an event can fall between the chairs: its row says *)
(* "received" although nothing will ever look at it again.                 *)
GapKind ==
  {"crashed_before_enqueue",   \* row committed, process died before queue.add
   "failed_mark_lost",         \* queue.add failed and so did markFailed
   "letter_lost",              \* attempts exhausted, dead-letter row not written
   "stalled_out",              \* BullMQ failed the job with attempts left
   "processed_mark_lost",      \* markProcessed failed or found no such row
   "requeue_late"}             \* markRequeued ran after the requeued job ended

MaxAttempts == IF WebhookAttempts > JobAttempts THEN WebhookAttempts ELSE JobAttempts

Phase == {"free", "waiting", "history", "task", "time", "mark", "exhausted", "lettered"}

ReqRecord == [pc : {"idle", "enqueue", "mark_failed"}, ev : Event \cup {NoEvent}]
JobRecord == [phase : Phase, ev : Event \cup {NoEvent}, keyed : BOOLEAN,
              left : 0..MaxAttempts, stalls : 0..MaxStalls]
LetterRecord == [ev : Event \cup {NoEvent}, keyed : BOOLEAN,
                 retried : BOOLEAN, resolved : BOOLEAN]

IdleReq    == [pc |-> "idle", ev |-> NoEvent]
FreeJob    == [phase |-> "free", ev |-> NoEvent, keyed |-> TRUE, left |-> 0, stalls |-> 0]
NoLetter   == [ev |-> NoEvent, keyed |-> TRUE, retried |-> FALSE, resolved |-> FALSE]

TypeOK ==
  /\ row \in [Event -> Status]
  /\ seen \subseteq Event
  /\ req \in [Request -> ReqRecord]
  /\ job \in [Job -> JobRecord]
  /\ letter \in [Letter -> LetterRecord]
  /\ out \in [Event -> SUBSET FollowUp]
  /\ history \in [Event -> {"none", "lost", "stored"}]
  /\ retry \in [RetryAdmin -> [todo : SUBSET Event, marking : SUBSET Event]]
  /\ redeliver \in [LetterAdmin -> [todo : SUBSET Letter, marking : SUBSET Letter]]
  /\ gap \in [Event -> SUBSET GapKind]
  /\ admitted \in [Event -> Nat]
  /\ requeued \subseteq Letter

Init ==
  /\ row = [e \in Event |-> "none"]
  /\ seen = {}
  /\ req = [r \in Request |-> IdleReq]
  /\ job = [j \in Job |-> FreeJob]
  /\ letter = [l \in Letter |-> NoLetter]
  /\ out = [e \in Event |-> {}]
  /\ history = [e \in Event |-> "none"]
  /\ retry = [a \in RetryAdmin |-> [todo |-> {}, marking |-> {}]]
  /\ redeliver = [a \in LetterAdmin |-> [todo |-> {}, marking |-> {}]]
  /\ gap = [e \in Event |-> {}]
  /\ admitted = [e \in Event |-> 0]
  /\ requeued = {}

-----------------------------------------------------------------------------
(* Faulty variants.  Each is a definition below with one plausible bug;    *)
(* no specification uses them.  They show which property notices the bug.  *)

(* process() forgets the time entries.                                     *)
AfterTaskNoTime(e) == "mark"

(* A deleted task is synced again.                                         *)
TaskFollowUpSync(e) == "sync"

(* The time entries are queued ahead of the task.                          *)
AfterHistoryTimeFirst(e) ==
  IF TypeOf[e] = "taskStatusUpdated" \/ e \notin Tasked THEN "mark"
  ELSE IF TypeOf[e] = "taskTimeTrackedUpdated" THEN "time" ELSE "task"

(* A failed attempt is not counted.                                        *)
FreeAttempt(b) == [b EXCEPT !.phase = "waiting"]

(* A job is retried however many attempts it has had.                      *)
EndlessAttempts(b) == [b EXCEPT !.phase = "waiting", !.left = @ - 1]

(* The event table has no unique fingerprint.                              *)
ReceiveSaveTwice(r, e) ==
  /\ req[r].pc = "idle"
  /\ row' = [row EXCEPT ![e] = "received"]
  /\ seen' \in {seen, seen \cup {e}}
  /\ req' = [req EXCEPT ![r] = [pc |-> "enqueue", ev |-> e]]
  /\ UNCHANGED <<job, letter, out, history, retry, redeliver, gap, admitted, requeued>>

(* A failed enqueue is answered without marking the row.                   *)
ReceiveEnqueueFailsUnmarked(r) ==
  /\ req[r].pc = "enqueue"
  /\ req' = [req EXCEPT ![r] = IdleReq]
  /\ UNCHANGED <<row, seen, job, letter, out, history, retry, redeliver, gap, admitted, requeued>>

(* retry-failed clears the failed markers before it queues anything.       *)
RetryScanMarksFirst(a) ==
  /\ retry[a].todo = {} /\ retry[a].marking = {}
  /\ \E e \in Event : row[e] = "failed"
  /\ retry' = [retry EXCEPT ![a] =
                 [todo |-> {e \in Event : row[e] = "failed"}, marking |-> {}]]
  /\ row' = [e \in Event |-> IF row[e] = "failed" THEN "received" ELSE row[e]]
  /\ UNCHANGED <<seen, req, job, letter, out, history, redeliver, gap, admitted, requeued>>

(* The dead-letter tools mark what they picked before they queue anything. *)
LetterPickMarksFirst(a) ==
  /\ redeliver[a].todo = {} /\ redeliver[a].marking = {}
  /\ \E l \in Letter :
       /\ letter[l].ev # NoEvent
       /\ letter' = [letter EXCEPT ![l].retried = TRUE]
       /\ redeliver' = [redeliver EXCEPT ![a] = [todo |-> {l}, marking |-> {}]]
  /\ UNCHANGED <<row, seen, req, job, out, history, retry, gap, admitted, requeued>>

-----------------------------------------------------------------------------
(* What the code decides from the payload.                                 *)

Historic(e) ==
  TypeOf[e] \in {"taskStatusUpdated", "taskPriorityUpdated", "taskAssigneeUpdated", "taskMoved"}

TimeSync(e) == TypeOf[e] \in {"taskTimeTrackedUpdated", "taskUpdated", "taskCreated"}

(* process() after persistFieldChanges: status events and events without a *)
(* task are acknowledged at once, the others queue follow-up work first.   *)
AfterHistory(e) ==
  IF TypeOf[e] = "taskStatusUpdated" \/ e \notin Tasked THEN "mark" ELSE "task"

(* persistFieldChanges returns at once for an event without a task.        *)
FirstPhase(e) == IF Historic(e) /\ e \in Tasked THEN "history" ELSE AfterHistory(e)

AfterTask(e) == IF TimeSync(e) THEN "time" ELSE "mark"

TaskFollowUp(e) == IF TypeOf[e] = "taskDeleted" THEN "delete" ELSE "sync"

-----------------------------------------------------------------------------
(* Predicates on the state.                                                *)

Active(j)  == job[j].phase \in {"history", "task", "time", "mark"}
Working(j) == Active(j) \/ job[j].phase \in {"waiting", "exhausted"}

(* A job that will still decide the fate of event e.                       *)
Live(e) == \E j \in Job : Working(j) /\ job[j].ev = e

(* The handler that stored e has not finished.                             *)
Handling(e) == \E r \in Request : req[r].pc # "idle" /\ req[r].ev = e

BeingMarked(l) == \E a \in LetterAdmin : l \in redeliver[a].marking

(* A dead-letter row of e that was not requeued: still listed, or closed   *)
(* by an admin who decided not to retry it.                                *)
OnRecord(e) ==
  \E l \in Letter : letter[l].ev = e /\ ~letter[l].retried /\ ~BeingMarked(l)

Support(e) == Live(e) \/ Handling(e) \/ OnRecord(e)

-----------------------------------------------------------------------------
(* POST /webhooks/clickup.  With preferences.sync.realtimeWebhooks off the *)
(* handler answers without touching anything: a stuttering step.           *)

(* saveReceived commits the event row; the unique fingerprint makes every  *)
(* later or concurrent delivery a duplicate, which changes nothing.  The   *)
(* insert into clickup_webhook_seen that follows may fail unnoticed.       *)
ReceiveSave(r, e) ==
  /\ req[r].pc = "idle"
  /\ row[e] = "none"
  /\ row' = [row EXCEPT ![e] = "received"]
  /\ seen' \in {seen, seen \cup {e}}
  /\ req' = [req EXCEPT ![r] = [pc |-> "enqueue", ev |-> e]]
  /\ UNCHANGED <<job, letter, out, history, retry, redeliver, gap, admitted, requeued>>

NewJob(e, keyed, attempts) ==
  [phase |-> "waiting", ev |-> e, keyed |-> keyed, left |-> attempts, stalls |-> 0]

ReceiveEnqueue(r) ==
  /\ req[r].pc = "enqueue"
  /\ \E j \in Job :
       /\ job[j].phase = "free"
       /\ job' = [job EXCEPT ![j] = NewJob(req[r].ev, TRUE, WebhookAttempts)]
  /\ admitted' = [admitted EXCEPT ![req[r].ev] = @ + 1]
  /\ req' = [req EXCEPT ![r] = IdleReq]
  /\ UNCHANGED <<row, seen, letter, out, history, retry, redeliver, gap, requeued>>

(* queue.add rejects: the handler goes on to mark the row failed.  The job *)
(* may have reached Redis all the same, the answer having been lost.       *)
ReceiveEnqueueFails(r) ==
  /\ req[r].pc = "enqueue"
  /\ \/ UNCHANGED <<job, admitted>>
     \/ /\ \E j \in Job :
             /\ job[j].phase = "free"
             /\ job' = [job EXCEPT ![j] = NewJob(req[r].ev, TRUE, WebhookAttempts)]
        /\ admitted' = [admitted EXCEPT ![req[r].ev] = @ + 1]
  /\ req' = [req EXCEPT ![r] = [pc |-> "mark_failed", ev |-> @.ev]]
  /\ UNCHANGED <<row, seen, letter, out, history, retry, redeliver, gap, requeued>>

(* markFailed after a failed enqueue; its own failure is only logged.      *)
ReceiveMarkFailed(r) ==
  /\ req[r].pc = "mark_failed"
  /\ \/ /\ row' = [row EXCEPT ![req[r].ev] = "failed"]
        /\ UNCHANGED gap
     \/ /\ "mark_write" \in Faults
        /\ gap' = [gap EXCEPT ![req[r].ev] = @ \cup {"failed_mark_lost"}]
        /\ UNCHANGED row
  /\ req' = [req EXCEPT ![r] = IdleReq]
  /\ UNCHANGED <<seen, job, letter, out, history, retry, redeliver, admitted, requeued>>

(* The process dies after the row was committed: the handler is gone, and  *)
(* ClickUp's next delivery of the event will be taken for a duplicate.     *)
ReceiveCrash(r) ==
  /\ "crash" \in Faults
  /\ req[r].pc # "idle"
  /\ gap' = [gap EXCEPT ![req[r].ev] = @ \cup {"crashed_before_enqueue"}]
  /\ req' = [req EXCEPT ![r] = IdleReq]
  /\ UNCHANGED <<row, seen, job, letter, out, history, retry, redeliver, admitted, requeued>>

Receive(r) ==
  \/ ReceiveEnqueue(r)
  \/ ReceiveEnqueueFails(r)
  \/ ReceiveMarkFailed(r)

-----------------------------------------------------------------------------
(* The clickup-webhooks worker.                                            *)

AtPhase(b, p) == [b EXCEPT !.phase = p]

Take(j) ==
  /\ job[j].phase = "waiting"
  /\ Cardinality({k \in Job : Active(k)}) < Workers
  /\ job' = [job EXCEPT ![j] = AtPhase(@, FirstPhase(job[j].ev))]
  /\ UNCHANGED <<row, seen, req, letter, out, history, retry, redeliver, gap, admitted, requeued>>

(* persistFieldChanges: one upsert per change, keyed by a hash of the      *)
(* change, so a second run adds nothing; a failed upsert is only logged.   *)
PersistHistory(j) ==
  LET e == job[j].ev IN
  /\ job[j].phase = "history"
  /\ \/ history' = [history EXCEPT ![e] = "stored"]
     \/ /\ "history_write" \in Faults
        /\ history' = [history EXCEPT ![e] = IF @ = "stored" THEN @ ELSE "lost"]
  /\ job' = [job EXCEPT ![j] = AtPhase(@, AfterHistory(e))]
  /\ UNCHANGED <<row, seen, req, letter, out, retry, redeliver, gap, admitted, requeued>>

(* Queue the deletion or the re-sync of the task on clickup-tasks.         *)
QueueTask(j) ==
  LET e == job[j].ev IN
  /\ job[j].phase = "task"
  /\ out' = [out EXCEPT ![e] = @ \cup {TaskFollowUp(e)}]
  /\ job' = [job EXCEPT ![j] = AtPhase(@, AfterTask(e))]
  /\ UNCHANGED <<row, seen, req, letter, history, retry, redeliver, gap, admitted, requeued>>

(* Queue the re-sync of the task's time entries.                           *)
QueueTime(j) ==
  /\ job[j].phase = "time"
  /\ out' = [out EXCEPT ![job[j].ev] = @ \cup {"time"}]
  /\ job' = [job EXCEPT ![j] = AtPhase(@, "mark")]
  /\ UNCHANGED <<row, seen, req, letter, history, retry, redeliver, gap, admitted, requeued>>

(* queue.add throws inside process(): the attempt fails.  BullMQ puts the  *)
(* job back, after a delay, until its attempts are used up.  The last      *)
(* failure starts onFailed.  LetterRoom bounds the model: a job runs out   *)
(* of attempts only while a dead-letter slot is left for it.               *)
LetterRoom ==
  Cardinality({j \in Job : job[j].phase = "exhausted"})
    < Cardinality({l \in Letter : letter[l].ev = NoEvent})

OneAttemptLess(b) ==
  [phase |-> IF b.left > 1 THEN "waiting" ELSE "exhausted", ev |-> b.ev,
   keyed |-> b.keyed, left |-> b.left - 1, stalls |-> b.stalls]

AttemptFails(j) ==
  /\ job[j].phase \in {"task", "time"}
  /\ job[j].left = 1 => LetterRoom
  /\ job' = [job EXCEPT ![j] = OneAttemptLess(@)]
  /\ UNCHANGED <<row, seen, req, letter, out, history, retry, redeliver, gap, admitted, requeued>>

(* markProcessed, whose failure is only logged.  It updates the row with   *)
(* the fingerprint of the job's data: when retry-failed parsed a payload   *)
(* that hashes differently now, there is no such row and the update fails. *)
MarkProcessed(j) ==
  LET e == job[j].ev IN
  /\ job[j].phase = "mark"
  /\ \/ /\ job[j].keyed
        /\ row' = [row EXCEPT ![e] = "processed"]
        /\ UNCHANGED gap
     \/ /\ ~job[j].keyed \/ "mark_write" \in Faults
        /\ gap' = [gap EXCEPT ![e] = @ \cup {"processed_mark_lost"}]
        /\ UNCHANGED row
  /\ job' = [job EXCEPT ![j] = FreeJob]
  /\ UNCHANGED <<seen, req, letter, out, history, retry, redeliver, admitted, requeued>>

(* onFailed, first half: recordIfExhausted inserts the dead-letter row.    *)
(* When the insert fails it reports "not exhausted", and the event row is  *)
(* left alone.                                                             *)
WriteLetter(j) ==
  /\ job[j].phase = "exhausted"
  /\ \/ \E l \in Letter :
          /\ letter[l].ev = NoEvent
          /\ letter' = [letter EXCEPT ![l] =
               [ev |-> job[j].ev, keyed |-> job[j].keyed, retried |-> FALSE, resolved |-> FALSE]]
          /\ job' = [job EXCEPT ![j] = AtPhase(@, "lettered")]
          /\ UNCHANGED gap
     \/ /\ "letter_write" \in Faults
        /\ gap' = [gap EXCEPT ![job[j].ev] = @ \cup {"letter_lost"}]
        /\ job' = [job EXCEPT ![j] = FreeJob]
        /\ UNCHANGED letter
  /\ UNCHANGED <<row, seen, req, out, history, retry, redeliver, admitted, requeued>>

(* onFailed, second half: markFailed, whose failure is only logged.        *)
MarkExhausted(j) ==
  /\ job[j].phase = "lettered"
  /\ \/ /\ job[j].keyed
        /\ row' = [row EXCEPT ![job[j].ev] = "failed"]
     \/ /\ ~job[j].keyed \/ "mark_write" \in Faults
        /\ UNCHANGED row
  /\ job' = [job EXCEPT ![j] = FreeJob]
  /\ UNCHANGED <<seen, req, letter, out, history, retry, redeliver, gap, admitted, requeued>>

(* The worker's process dies.  BullMQ finds the job stalled and puts it    *)
(* back; beyond MaxStalls it fails the job for good, counting one attempt. *)
(* onFailed then finds attempts left and does nothing.                     *)
Stalled(b) ==
  [phase |-> "waiting", ev |-> b.ev, keyed |-> b.keyed, left |-> b.left,
   stalls |-> b.stalls + 1]

JobStalls(j) ==
  /\ "crash" \in Faults
  /\ Active(j)
  /\ \/ /\ job[j].stalls < MaxStalls
        /\ job' = [job EXCEPT ![j] = Stalled(@)]
        /\ UNCHANGED gap
     \/ /\ job[j].stalls = MaxStalls
        /\ job[j].left > 1
        /\ job' = [job EXCEPT ![j] = FreeJob]
        /\ gap' = [gap EXCEPT ![job[j].ev] = @ \cup {"stalled_out"}]
     \/ /\ job[j].stalls = MaxStalls
        /\ job[j].left = 1
        /\ LetterRoom
        /\ job' = [job EXCEPT ![j] = OneAttemptLess(@)]
        /\ UNCHANGED gap
  /\ UNCHANGED <<row, seen, req, letter, out, history, retry, redeliver, admitted, requeued>>

(* The process dies inside onFailed; BullMQ does not run the hook again.   *)
HookCrash(j) ==
  /\ "crash" \in Faults
  /\ job[j].phase \in {"exhausted", "lettered"}
  /\ job' = [job EXCEPT ![j] = FreeJob]
  /\ gap' = [gap EXCEPT ![job[j].ev] =
               IF job[j].phase = "exhausted" THEN @ \cup {"letter_lost"} ELSE @]
  /\ UNCHANGED <<row, seen, req, letter, out, history, retry, redeliver, admitted, requeued>>

Process(j) ==
  \/ PersistHistory(j) \/ QueueTask(j) \/ QueueTime(j) \/ AttemptFails(j)
  \/ MarkProcessed(j) \/ WriteLetter(j) \/ MarkExhausted(j)

-----------------------------------------------------------------------------
(* POST /admin/webhooks/retry-failed.                                      *)

RetryScan(a) ==
  /\ retry[a].todo = {} /\ retry[a].marking = {}
  /\ \E e \in Event : row[e] = "failed"
  /\ retry' = [retry EXCEPT ![a] =
                 [todo |-> {e \in Event : row[e] = "failed"}, marking |-> {}]]
  /\ UNCHANGED <<row, seen, req, job, letter, out, history, redeliver, gap, admitted, requeued>>

(* One turn of the loop: parse the stored payload again and queue it.      *)
RetryEnqueue(a) ==
  /\ retry[a].marking = {}
  /\ \E e \in retry[a].todo, j \in Job :
       /\ job[j].phase = "free"
       /\ job' = [job EXCEPT ![j] = NewJob(e, e \notin Unstable, WebhookAttempts)]
       /\ retry' = [retry EXCEPT ![a] = [todo |-> @.todo \ {e}, marking |-> {e}]]
  /\ UNCHANGED <<row, seen, req, letter, out, history, redeliver, gap, admitted, requeued>>

(* queue.add throws: the request fails and the rest of the scan is left.   *)
RetryAborts(a) ==
  /\ retry[a].todo # {} /\ retry[a].marking = {}
  /\ retry' = [retry EXCEPT ![a] = [todo |-> {}, marking |-> {}]]
  /\ UNCHANGED <<row, seen, req, job, letter, out, history, redeliver, gap, admitted, requeued>>

(* markRequeued, only after the job was queued and whatever became of it   *)
(* in the meantime; its failure is ignored.                                *)
RetryMark(a) ==
  \E e \in retry[a].marking :
    /\ \/ /\ row' = [row EXCEPT ![e] = "received"]
          /\ gap' = [gap EXCEPT ![e] = IF Live(e) THEN @ ELSE @ \cup {"requeue_late"}]
       \/ /\ "mark_write" \in Faults
          /\ UNCHANGED <<row, gap>>
    /\ retry' = [retry EXCEPT ![a] = [todo |-> @.todo, marking |-> {}]]
    /\ UNCHANGED <<seen, req, job, letter, out, history, redeliver, admitted, requeued>>

RetryCrash(a) ==
  /\ "crash" \in Faults
  /\ retry[a].todo # {} \/ retry[a].marking # {}
  /\ retry' = [retry EXCEPT ![a] = [todo |-> {}, marking |-> {}]]
  /\ UNCHANGED <<row, seen, req, job, letter, out, history, redeliver, gap, admitted, requeued>>

-----------------------------------------------------------------------------
(* POST /admin/dead-letters/:id/retry, .../retry-all and .../:id/resolve.  *)

Pending(l) == letter[l].ev # NoEvent /\ ~letter[l].retried /\ ~letter[l].resolved

(* retry takes any row by id, even one retried or resolved before;         *)
(* retry-all takes the pending rows.                                       *)
LetterPick(a) ==
  /\ redeliver[a].todo = {} /\ redeliver[a].marking = {}
  /\ \E picked \in {{l} : l \in {k \in Letter : letter[k].ev # NoEvent}}
                     \cup {{l \in Letter : Pending(l)}} :
       /\ picked # {}
       /\ redeliver' = [redeliver EXCEPT ![a] = [todo |-> picked, marking |-> {}]]
  /\ UNCHANGED <<row, seen, req, job, letter, out, history, retry, gap, admitted, requeued>>

LetterEnqueue(a) ==
  /\ redeliver[a].marking = {}
  /\ \E l \in redeliver[a].todo, j \in Job :
       /\ job[j].phase = "free"
       /\ job' = [job EXCEPT ![j] = NewJob(letter[l].ev, letter[l].keyed, JobAttempts)]
       /\ redeliver' = [redeliver EXCEPT ![a] = [todo |-> @.todo \ {l}, marking |-> {l}]]
       /\ requeued' = requeued \cup {l}
  /\ UNCHANGED <<row, seen, req, letter, out, history, retry, gap, admitted>>

(* queue.add throws: this letter is skipped, the others of a retry-all are *)
(* tried.                                                                  *)
LetterSkipped(a) ==
  /\ redeliver[a].marking = {}
  /\ \E l \in redeliver[a].todo :
       redeliver' = [redeliver EXCEPT ![a] = [todo |-> @.todo \ {l}, marking |-> {}]]
  /\ UNCHANGED <<row, seen, req, job, letter, out, history, retry, gap, admitted, requeued>>

Retried(x)  == [x EXCEPT !.retried = TRUE]
Resolved(x) == [x EXCEPT !.resolved = TRUE]

LetterMark(a) ==
  \E l \in redeliver[a].marking :
    /\ \/ letter' = [letter EXCEPT ![l] = Retried(@)]
       \/ /\ "mark_write" \in Faults
          /\ UNCHANGED letter
    /\ redeliver' = [redeliver EXCEPT ![a] = [todo |-> @.todo, marking |-> {}]]
    /\ UNCHANGED <<row, seen, req, job, out, history, retry, gap, admitted, requeued>>

LetterCrash(a) ==
  /\ "crash" \in Faults
  /\ redeliver[a].todo # {} \/ redeliver[a].marking # {}
  /\ redeliver' = [redeliver EXCEPT ![a] = [todo |-> {}, marking |-> {}]]
  /\ UNCHANGED <<row, seen, req, job, letter, out, history, retry, gap, admitted, requeued>>

(* Resolving looks the row up by id too: it may be retried already.        *)
LetterResolve(l) ==
  /\ letter[l].ev # NoEvent
  /\ letter' = [letter EXCEPT ![l] = Resolved(@)]
  /\ UNCHANGED <<row, seen, req, job, out, history, retry, redeliver, gap, admitted, requeued>>

RetryStep(a)  == RetryEnqueue(a) \/ RetryAborts(a) \/ RetryMark(a)
LetterStep(a) == LetterEnqueue(a) \/ LetterSkipped(a) \/ LetterMark(a)

-----------------------------------------------------------------------------
Next ==
  \/ \E r \in Request :
       \/ \E e \in Event : ReceiveSave(r, e)
       \/ ReceiveEnqueue(r) \/ ReceiveEnqueueFails(r) \/ ReceiveMarkFailed(r)
       \/ ReceiveCrash(r)
  \/ \E j \in Job :
       \/ Take(j)
       \/ PersistHistory(j) \/ QueueTask(j) \/ QueueTime(j) \/ AttemptFails(j)
       \/ MarkProcessed(j) \/ WriteLetter(j) \/ MarkExhausted(j)
       \/ JobStalls(j) \/ HookCrash(j)
  \/ \E a \in RetryAdmin :
       \/ RetryScan(a) \/ RetryEnqueue(a) \/ RetryAborts(a) \/ RetryMark(a) \/ RetryCrash(a)
  \/ \E a \in LetterAdmin :
       \/ LetterPick(a) \/ LetterEnqueue(a) \/ LetterSkipped(a) \/ LetterMark(a)
       \/ LetterCrash(a)
  \/ \E l \in Letter : LetterResolve(l)

Spec == Init /\ [][Next]_vars

(* Handlers, workers and admin requests that have started run on; a queue  *)
(* serves its jobs in order, so a waiting job gets its turn again and      *)
(* again.  Nobody is obliged to deliver a webhook or to click a button.    *)
Fairness ==
  /\ \A r \in Request : WF_vars(Receive(r))
  /\ \A j \in Job : SF_vars(Take(j)) /\ WF_vars(Process(j))
  /\ \A a \in RetryAdmin : WF_vars(RetryStep(a))
  /\ \A a \in LetterAdmin : WF_vars(LetterStep(a))

FairSpec == Spec /\ Fairness

-----------------------------------------------------------------------------
(* Properties.                                                             *)

(* The follow-up work each event calls for, stated on its own: a deleted   *)
(* task is deleted and never re-synced, a status change is history only,   *)
(* any other event of a task re-syncs it, and the three events that may    *)
(* move tracked time re-sync the task's time entries as well.  This is     *)
(* what process() does and says; the comment in syncTaskTimeEntries() says *)
(* that taskTimeTrackedUpdated queues no task job: TimeTrackedAlone below. *)
Required(e) ==
  IF e \notin Tasked THEN {} ELSE
    CASE TypeOf[e] = "taskStatusUpdated" -> {}
      [] TypeOf[e] = "taskDeleted"       -> {"delete"}
      [] TypeOf[e] \in {"taskTimeTrackedUpdated", "taskUpdated", "taskCreated"}
                                         -> {"sync", "time"}
      [] OTHER                           -> {"sync"}

(* An event whose row says "received" is never forgotten: a handler or a   *)
(* job will still decide its fate, or a dead-letter row that nobody has    *)
(* retried records it.  The only exceptions are the windows of GapKind.    *)
(* This is the promise of receive(), onFailed() and the admin tools taken  *)
(* together, over every interleaving of them and every crash.              *)
Recoverable ==
  \A e \in Event : row[e] = "received" /\ gap[e] = {} => Support(e)

(* However often and however concurrently ClickUp delivers an event, the   *)
(* receive handler queues it at most once (saveReceived and the unique     *)
(* fingerprint column).                                                    *)
AdmittedOnce == \A e \in Event : admitted[e] <= 1

(* A row says "processed" only when all the follow-up work the event calls *)
(* for has reached its queue and its history rows were at least attempted, *)
(* over any number of attempts, stalls and requeues                        *)
(* (ClickupEventProcessor.process).                                        *)
HandedOff ==
  \A e \in Event :
    row[e] = "processed" =>
      /\ Required(e) \subseteq out[e]
      /\ Historic(e) /\ e \in Tasked => history[e] # "none"

(* Seen from the queues behind it, the pipeline is FollowUps: whatever is  *)
(* delivered twice, retried, requeued or lost, a follow-up of another kind *)
(* than the event calls for is never queued, none before the event is      *)
(* stored, nor the time entries of a task before the task itself, and an   *)
(* event once stored stays stored.                                         *)
Ledger == INSTANCE FollowUps WITH
            Kind    <- FollowUp,
            Promise <- [e \in Event |-> Required(e)],
            Ahead   <- [k \in FollowUp |-> IF k = "time" THEN {"sync"} ELSE {}],
            stage   <- row,
            queued  <- out

KeepsPromises == Ledger!Spec

(* A dead letter leaves the pending list as "retried" only when its job    *)
(* really went back to the queue, whatever fails in the middle of a batch  *)
(* (retryDeadLetter and retryAllDeadLetters).                              *)
RetriedMeansRequeued == \A l \in Letter : letter[l].retried => l \in requeued

(* Every stored event is settled in the end: its row becomes "processed"   *)
(* or "failed", or falls into one of the windows, or stays on record as a  *)
(* dead letter whose row could not be marked.                              *)
Settles ==
  \A e \in Event :
    row[e] = "received" ~> row[e] \in {"processed", "failed"} \/ gap[e] # {} \/ OnRecord(e)

(* Used slots hold an event, a job that may still run has an attempt left, *)
(* and the dead-letter requests work on rows that exist.  What TypeOK and  *)
(* Recoverable need to be inductive.                                       *)
GoodJob(b) ==
  /\ b.phase # "free" => b.ev \in Event
  /\ b.phase \in {"waiting", "history", "task", "time", "mark"} => b.left >= 1

SlotsOK ==
  /\ \A r \in Request : req[r].pc # "idle" => req[r].ev \in Event
  /\ \A j \in Job : GoodJob(job[j])
  /\ \A a \in LetterAdmin, l \in Letter :
       l \in redeliver[a].todo \cup redeliver[a].marking => letter[l].ev \in Event

(* What makes AdmittedOnce inductive: an event is in the hands of at most  *)
(* one handler, which has not queued it before, and of none while it has   *)
(* no row.                                                                 *)
AdmissionInv ==
  /\ AdmittedOnce
  /\ \A e \in Event : row[e] = "none" => admitted[e] = 0 /\ ~Handling(e)
  /\ \A r \in Request : req[r].pc = "enqueue" => admitted[req[r].ev] = 0
  /\ \A r, q \in Request :
       req[r].pc # "idle" /\ req[q].pc # "idle" /\ req[r].ev = req[q].ev => r = q

(* What the comments of ClickupEventProcessor promise: no event sits in    *)
(* "received" limbo, invisible to the retry tool.  The code breaks it.     *)
NoReceivedLimbo == \A e \in Event : row[e] = "received" => Support(e)

(* What the comment in TimeEntriesService.syncTaskTimeEntries says of      *)
(* process(): for taskTimeTrackedUpdated it queues the time-entry job      *)
(* only, "not a task job".  The code breaks it, with every such event.     *)
TimeTrackedAlone ==
  \A e \in Event : TypeOf[e] = "taskTimeTrackedUpdated" => out[e] \subseteq {"time"}
=============================================================================
