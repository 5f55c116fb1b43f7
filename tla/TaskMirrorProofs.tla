--------------------------- MODULE TaskMirrorProofs ---------------------------
(***************************************************************************)
(* Theorems about TaskMirror, for any tasks and subtasks, jobs, backfills, *)
(* sweeps, attempts, page sizes and page caps.                             *)
(***************************************************************************)
EXTENDS TaskMirror, FiniteSetTheorems, TLAPS

(* A job by where it stands.                                               *)
GoodJob(q) ==
  /\ q.pc # "free" => q.task \in Task /\ q.left > 0
  /\ q.pc = "free" => q.task = NoTask
  /\ q.pc \in {"ensure", "fetch_hours", "write_hours"} => q.kind \in {"time", "reconcile"}
  /\ q.pc \in {"drop", "tombstone"} => q.kind # "time"
  /\ q.pc \in {"fetch", "upsert"} => q.kind # "delete"
  /\ q.pc = "exists" => q.kind \in {"sync", "time"}

GoodBackfill(q) ==
  /\ q.pc # "free" => q.left > 0
  /\ q.pc = "page" => q.page < MaxPages
  /\ q.more => q.page < MaxPages
  /\ q.more \/ q.pc = "page" => ~q.truncated

JobsOK == \A j \in Job : GoodJob(job[j])
BackfillsOK == \A b \in Backfill : GoodBackfill(backfill[b])

TypeInv == TypeOK /\ JobsOK /\ BackfillsOK

Born(t) == remote[t] # "unborn"
Gone(t) == remote[t] = "gone"

-----------------------------------------------------------------------------
(* How a step moves a job.                                                 *)

Moved(j) ==
  /\ job' \in [Job -> JobRecord]
  /\ \A k \in Job : k # j => job'[k] = job[k]

Ends(j) == Moved(j) /\ job'[j] = FreeJob

(* The job goes on to pc with what it has.                                 *)
GoesOn(j, pc) ==
  /\ Moved(j)
  /\ job'[j].pc = pc /\ job'[j].kind = job[j].kind /\ job'[j].task = job[j].task
  /\ job'[j].left = job[j].left

Added(j, kind, t) == Moved(j) /\ job[j].pc = "free" /\ job'[j] = NewJob(kind, t)

(* The job is tried again from the start.                                  *)
Retries(j) ==
  /\ Moved(j)
  /\ job'[j].pc = "waiting" /\ job'[j].kind = job[j].kind /\ job'[j].task = job[j].task
  /\ job'[j].left > 0

JobPC == {"free", "waiting", "fetch", "upsert", "exists", "drop", "tombstone",
          "ensure", "fetch_hours", "write_hours"}

LEMMA FreeFacts ==
  /\ FreeJob \in JobRecord
  /\ FreeJob.pc = "free" /\ FreeJob.task = NoTask /\ FreeJob.kind = "sync"
  /\ NoTask \notin Task
BY ConstantAssumption DEF FreeJob, JobRecord, Kind

LEMMA NewFacts ==
  ASSUME NEW kind \in Kind, NEW t \in Task
  PROVE  /\ NewJob(kind, t) \in JobRecord
         /\ NewJob(kind, t).pc = "waiting" /\ NewJob(kind, t).task = t /\ NewJob(kind, t).kind = kind
         /\ NewJob(kind, t).left = JobAttempts /\ JobAttempts > 0
BY ConstantAssumption DEF NewJob, JobRecord

LEMMA MovedBy ==
  ASSUME job \in [Job -> JobRecord], NEW j \in Job, NEW q \in JobRecord, job' = [job EXCEPT ![j] = q]
  PROVE  Moved(j) /\ job'[j] = q
BY DEF Moved

LEMMA FinishEnds ==
  ASSUME job \in [Job -> JobRecord], NEW j \in Job, Finish(j)
  PROVE  Ends(j)
BY FreeFacts, MovedBy DEF Finish, Ends

LEMMA GotoGoesOn ==
  ASSUME job \in [Job -> JobRecord], NEW j \in Job, NEW pc \in JobPC, Goto(j, pc)
  PROVE  GoesOn(j, pc) /\ job'[j].hours = job[j].hours
BY DEF Goto, GoesOn, Moved, JobRecord, JobPC

LEMMA EnqueueAdds ==
  ASSUME job \in [Job -> JobRecord], NEW kind \in Kind, NEW t \in Task, Enqueue(kind, t)
  PROVE  \E j \in Job : Added(j, kind, t)
<1>1. PICK j \in Job : job[j].pc = "free" /\ job' = [job EXCEPT ![j] = NewJob(kind, t)]
  BY DEF Enqueue
<1>2. NewJob(kind, t) \in JobRecord
  BY NewFacts
<1>3. Moved(j) /\ job'[j] = NewJob(kind, t)
  BY <1>1, <1>2, MovedBy
<1> QED BY <1>1, <1>3 DEF Added

LEMMA TakeMoves ==
  ASSUME TypeInv, NEW j \in Job, Take(j)
  PROVE  /\ GoesOn(j, FirstStep(job[j].kind)) /\ job[j].pc = "waiting"
         /\ \/ job[j].kind = "delete" /\ FirstStep(job[j].kind) = "drop"
            \/ job[j].kind = "time" /\ FirstStep(job[j].kind) = "ensure"
            \/ job[j].kind \in {"sync", "reconcile"} /\ FirstStep(job[j].kind) = "fetch"
<1>1. job[j].kind \in Kind /\ job \in [Job -> JobRecord]
  BY DEF TypeInv, TypeOK, JobRecord
<1>2. \/ job[j].kind = "delete" /\ FirstStep(job[j].kind) = "drop"
      \/ job[j].kind = "time" /\ FirstStep(job[j].kind) = "ensure"
      \/ job[j].kind \in {"sync", "reconcile"} /\ FirstStep(job[j].kind) = "fetch"
  BY <1>1 DEF Kind, FirstStep
<1>3. Goto(j, FirstStep(job[j].kind)) /\ job[j].pc = "waiting"
  BY DEF Take, Goto
<1>4. FirstStep(job[j].kind) \in JobPC
  BY <1>2 DEF JobPC
<1> QED BY <1>1, <1>2, <1>3, <1>4, GotoGoesOn

LEMMA FetchMoves ==
  ASSUME TypeInv, NEW j \in Job, Fetch(j)
  PROVE  \/ GoesOn(j, "upsert") /\ Live(job[j].task) /\ job'[j].stale = FALSE
         \/ GoesOn(j, AfterGone(job[j].kind)) /\ TakenForGone(job[j])
<1>1. job[j] \in JobRecord /\ job \in [Job -> JobRecord]
  BY DEF TypeInv, TypeOK
<1>2. CASE Live(job[j].task) /\ job' = [job EXCEPT ![j].pc = "upsert", ![j].stale = FALSE]
  <2>1. job'[j] \in JobRecord
    BY <1>1, <1>2 DEF JobRecord
  <2>2. \A k \in Job : k # j => job'[k] = job[k]
    BY <1>1, <1>2
  <2>3. job' \in [Job -> JobRecord]
    BY <1>1, <1>2, <2>1, <2>2
  <2>4. job'[j].pc = "upsert" /\ job'[j].stale = FALSE /\ job'[j].kind = job[j].kind
    BY <1>1, <1>2 DEF JobRecord
  <2>5. job'[j].task = job[j].task /\ job'[j].left = job[j].left
    BY <1>1, <1>2 DEF JobRecord
  <2> QED BY <1>2, <2>2, <2>3, <2>4, <2>5 DEF GoesOn, Moved
<1>3. CASE TakenForGone(job[j]) /\ Goto(j, AfterGone(job[j].kind))
  <2>1. AfterGone(job[j].kind) \in JobPC
    BY DEF AfterGone, JobPC
  <2> QED BY <1>1, <1>3, <2>1, GotoGoesOn
<1> QED BY <1>2, <1>3 DEF Fetch

LEMMA FetchHoursMoves ==
  ASSUME TypeInv, NEW j \in Job, FetchHours(j)
  PROVE  GoesOn(j, "write_hours")
<1> DEFINE h == (job[j].task \in tracked)
<1>1. job[j] \in JobRecord /\ job \in [Job -> JobRecord]
  BY DEF TypeInv, TypeOK
<1>2. job' = [job EXCEPT ![j].pc = "write_hours", ![j].hours = h] /\ h \in BOOLEAN
  BY DEF FetchHours
<1> HIDE DEF h
<1>3. job'[j] \in JobRecord
  BY <1>1, <1>2 DEF JobRecord
<1>4. \A k \in Job : k # j => job'[k] = job[k]
  BY <1>1, <1>2
<1>5. job' \in [Job -> JobRecord]
  BY <1>1, <1>2, <1>3, <1>4
<1>6. job'[j].pc = "write_hours" /\ job'[j].kind = job[j].kind
  BY <1>1, <1>2 DEF JobRecord
<1>7. job'[j].task = job[j].task /\ job'[j].left = job[j].left
  BY <1>1, <1>2 DEF JobRecord
<1> QED BY <1>4, <1>5, <1>6, <1>7 DEF GoesOn, Moved

LEMMA FailMoves ==
  ASSUME TypeInv, NEW j \in Job, AttemptFails(j)
  PROVE  \/ Retries(j) /\ UNCHANGED gap
         \/ Ends(j) /\ gap' = IF job[j].kind = "time" THEN gap
                              ELSE [gap EXCEPT ![job[j].task] = @ \cup {"dead_letter"}]
<1>1. job[j] \in JobRecord /\ job \in [Job -> JobRecord] /\ GoodJob(job[j])
  BY DEF TypeInv, TypeOK, JobsOK
<1>2. job[j].task \in Task /\ job[j].kind \in Kind /\ job[j].left \in 0..JobAttempts
  BY <1>1 DEF AttemptFails, GoodJob, JobRecord
<1>3. CASE job[j].left > 1
  <2> DEFINE q == [NewJob(job[j].kind, job[j].task) EXCEPT !.left = job[j].left - 1]
  <2>1. job[j].left - 1 \in 0..JobAttempts /\ job[j].left - 1 > 0
    BY <1>2, <1>3, ConstantAssumption
  <2>2. q \in JobRecord
    BY <1>2, <2>1, NewFacts DEF JobRecord
  <2>3. q.pc = "waiting" /\ q.kind = job[j].kind /\ q.task = job[j].task /\ q.left > 0
    BY <1>2, <2>1, NewFacts DEF JobRecord
  <2>4. job' = [job EXCEPT ![j] = q] /\ UNCHANGED gap
    BY <1>3 DEF AttemptFails
  <2> HIDE DEF q
  <2> QED BY <1>1, <2>2, <2>3, <2>4, MovedBy DEF Retries
<1>4. CASE ~(job[j].left > 1)
  BY <1>1, <1>4, FinishEnds DEF AttemptFails
<1> QED BY <1>3, <1>4

LEMMA UpsertMoves ==
  ASSUME TypeInv, NEW j \in Job, Upsert(j)
  PROVE  \/ job[j].kind = "sync" /\ Ends(j)
         \/ job[j].kind = "time" /\ GoesOn(j, "exists")
         \/ job[j].kind = "reconcile" /\ GoesOn(j, "ensure")
<1>1. job \in [Job -> JobRecord] /\ GoodJob(job[j]) /\ job[j].kind \in Kind
  BY DEF TypeInv, TypeOK, JobsOK, JobRecord
<1>2. job[j].kind \in {"sync", "time", "reconcile"} /\ {"exists", "ensure"} \subseteq JobPC
  BY <1>1 DEF Upsert, GoodJob, Kind, JobPC
<1>3. CASE job[j].kind = "sync"
  BY <1>1, <1>3, FinishEnds DEF Upsert
<1>4. CASE job[j].kind = "time"
  BY <1>1, <1>2, <1>4, GotoGoesOn DEF Upsert
<1>5. CASE job[j].kind = "reconcile"
  BY <1>1, <1>2, <1>5, GotoGoesOn DEF Upsert
<1> QED BY <1>2, <1>3, <1>4, <1>5

LEMMA SkippedMoves ==
  ASSUME TypeInv, NEW j \in Job, UpsertSkipped(j)
  PROVE  \/ job[j].kind = "time" /\ GoesOn(j, "exists") /\ UNCHANGED gap
         \/ job[j].kind = "reconcile" /\ GoesOn(j, "ensure") /\ gap' = PassedOver(job[j].task, "skipped")
<1>1. job \in [Job -> JobRecord] /\ {"exists", "ensure"} \subseteq JobPC
  BY DEF TypeInv, TypeOK, JobPC
<1>2. CASE job[j].kind = "time"
  BY <1>1, <1>2, GotoGoesOn DEF UpsertSkipped
<1>3. CASE job[j].kind = "reconcile"
  BY <1>1, <1>3, GotoGoesOn DEF UpsertSkipped
<1> QED BY <1>2, <1>3 DEF UpsertSkipped

LEMMA ExistsMoves ==
  ASSUME TypeInv, NEW j \in Job, Exists(j)
  PROVE  \/ row[job[j].task] = "none" /\ Ends(j)
         \/ row[job[j].task] # "none" /\ job[j].kind = "sync" /\ GoesOn(j, "drop")
         \/ row[job[j].task] # "none" /\ job[j].kind = "time" /\ GoesOn(j, "fetch_hours")
<1>1. job \in [Job -> JobRecord] /\ GoodJob(job[j]) /\ {"drop", "fetch_hours"} \subseteq JobPC
  BY DEF TypeInv, TypeOK, JobsOK, JobPC
<1>2. job[j].kind \in {"sync", "time"}
  BY <1>1 DEF Exists, GoodJob
<1>3. CASE row[job[j].task] = "none"
  BY <1>1, <1>3, FinishEnds DEF Exists
<1>4. CASE row[job[j].task] # "none" /\ job[j].kind = "sync"
  BY <1>1, <1>4, GotoGoesOn DEF Exists
<1>5. CASE row[job[j].task] # "none" /\ job[j].kind = "time"
  BY <1>1, <1>5, GotoGoesOn DEF Exists
<1> QED BY <1>2, <1>3, <1>4, <1>5

LEMMA SimpleMoves ==
  ASSUME TypeInv, NEW j \in Job
  PROVE  /\ Drop(j) => GoesOn(j, "tombstone")
         /\ Tombstone(j) => Ends(j)
         /\ WriteHours(j) => Ends(j)
         /\ Ensure(j) => \/ row[job[j].task] = "none" /\ GoesOn(j, "fetch")
                         \/ row[job[j].task] # "none" /\ GoesOn(j, "fetch_hours")
<1>1. job \in [Job -> JobRecord] /\ {"tombstone", "fetch", "fetch_hours"} \subseteq JobPC
  BY DEF TypeInv, TypeOK, JobPC
<1>2. Drop(j) => GoesOn(j, "tombstone")
  BY <1>1, GotoGoesOn DEF Drop
<1>3. Tombstone(j) => Ends(j)
  BY <1>1, FinishEnds DEF Tombstone
<1>4. WriteHours(j) => Ends(j)
  BY <1>1, FinishEnds DEF WriteHours
<1>5. ASSUME Ensure(j)
      PROVE  \/ row[job[j].task] = "none" /\ GoesOn(j, "fetch")
             \/ row[job[j].task] # "none" /\ GoesOn(j, "fetch_hours")
  BY <1>1, <1>5, GotoGoesOn DEF Ensure
<1> QED BY <1>2, <1>3, <1>4, <1>5

-----------------------------------------------------------------------------
(* How a step moves the jobs and a backfill.                               *)

(* A change at ClickUp: only the age of the copies held moves.             *)
Aged(t) ==
  /\ job' \in [Job -> JobRecord]
  /\ \A j \in Job :
       /\ job'[j].pc = job[j].pc /\ job'[j].kind = job[j].kind /\ job'[j].task = job[j].task
       /\ job'[j].left = job[j].left
       /\ job'[j].stale = (job[j].stale \/ job[j].task = t)

LEMMA OutOfDateAges ==
  ASSUME TypeInv, NEW t \in Task, OutOfDate(t)
  PROVE  Aged(t)
<1>1. job \in [Job -> JobRecord]
  BY DEF TypeInv, TypeOK
<1>2. \A j \in Job : job'[j] = IF job[j].task = t THEN [job[j] EXCEPT !.stale = TRUE] ELSE job[j]
  BY DEF OutOfDate
<1>3. \A j \in Job : job'[j] \in JobRecord
  BY <1>1, <1>2 DEF JobRecord
<1>4. job' \in [Job -> JobRecord]
  BY <1>3 DEF OutOfDate
<1>5. \A j \in Job : job'[j].pc = job[j].pc /\ job'[j].kind = job[j].kind
  BY <1>1, <1>2 DEF JobRecord
<1>6. \A j \in Job : job'[j].task = job[j].task /\ job'[j].left = job[j].left
  BY <1>1, <1>2 DEF JobRecord
<1>7. \A j \in Job : job'[j].stale = (job[j].stale \/ job[j].task = t)
  BY <1>1, <1>2 DEF JobRecord
<1> QED BY <1>4, <1>5, <1>6, <1>7 DEF Aged

Shifts(b) ==
  /\ backfill' \in [Backfill -> BackfillRecord]
  /\ \A c \in Backfill : c # b => backfill'[c] = backfill[c]

BackfillPC == {"free", "waiting", "page", "store", "queue", "missing", "fetch_parent",
               "store_parent", "done"}

(* What the scan has read so far stays.                                    *)
KeepsScan(b) ==
  /\ backfill'[b].seen = backfill[b].seen /\ backfill'[b].refs = backfill[b].refs
  /\ backfill'[b].more = backfill[b].more /\ backfill'[b].page = backfill[b].page
  /\ backfill'[b].left = backfill[b].left
  /\ backfill'[b].truncated = backfill[b].truncated

LEMMA FreeBackfillFacts ==
  /\ FreeBackfill \in BackfillRecord
  /\ FreeBackfill.pc = "free" /\ FreeBackfill.more = FALSE /\ FreeBackfill.page = 0
  /\ FreeBackfill.truncated = FALSE
  /\ FreeBackfill.batch = {} /\ FreeBackfill.fresh = {} /\ FreeBackfill.queue = {}
  /\ FreeBackfill.seen = {} /\ FreeBackfill.refs = {}
<1>1. 0 \in 0..JobAttempts /\ 0 \in 0..MaxPages
  BY ConstantAssumption
<1> QED BY <1>1 DEF FreeBackfill, BackfillRecord

LEMMA ShiftedTo ==
  ASSUME backfill \in [Backfill -> BackfillRecord], NEW b \in Backfill, NEW q \in BackfillRecord,
         backfill' = [backfill EXCEPT ![b] = q]
  PROVE  Shifts(b) /\ backfill'[b] = q
BY DEF Shifts

(* A backfill that holds nothing.                                          *)
Blank(b, pc) ==
  /\ Shifts(b)
  /\ backfill'[b].pc = pc /\ backfill'[b].more = FALSE /\ backfill'[b].page = 0
  /\ backfill'[b].truncated = FALSE
  /\ backfill'[b].batch = {} /\ backfill'[b].fresh = {} /\ backfill'[b].queue = {}
  /\ backfill'[b].seen = {} /\ backfill'[b].refs = {}
  /\ pc # "free" => backfill'[b].left > 0

LEMMA FinishBlanks ==
  ASSUME backfill \in [Backfill -> BackfillRecord], NEW b \in Backfill,
         backfill' = [backfill EXCEPT ![b] = FreeBackfill]
  PROVE  Blank(b, "free")
<1>1. Shifts(b) /\ backfill'[b] = FreeBackfill
  BY FreeBackfillFacts, ShiftedTo
<1> QED BY <1>1, FreeBackfillFacts DEF Blank

LEMMA WaitingBlanks ==
  ASSUME backfill \in [Backfill -> BackfillRecord], NEW b \in Backfill,
         NEW left \in 0..JobAttempts, left > 0,
         backfill' = [backfill EXCEPT ![b] = [FreeBackfill EXCEPT !.pc = "waiting", !.left = left]]
  PROVE  Blank(b, "waiting")
<1> DEFINE q == [FreeBackfill EXCEPT !.pc = "waiting", !.left = left]
<1>1. q \in BackfillRecord
  BY FreeBackfillFacts DEF BackfillRecord
<1>2. q.pc = "waiting" /\ q.left = left /\ q.more = FALSE /\ q.page = 0 /\ q.truncated = FALSE
  BY FreeBackfillFacts DEF BackfillRecord
<1>3. q.batch = {} /\ q.fresh = {} /\ q.queue = {} /\ q.seen = {} /\ q.refs = {}
  BY FreeBackfillFacts DEF BackfillRecord
<1>4. backfill' = [backfill EXCEPT ![b] = q]
  OBVIOUS
<1> HIDE DEF q
<1>5. Shifts(b) /\ backfill'[b] = q
  BY <1>1, <1>4, ShiftedTo
<1> QED BY <1>2, <1>3, <1>5 DEF Blank

LEMMA AddBlanks ==
  ASSUME TypeInv, QueueBackfill
  PROVE  \E b \in Backfill : backfill[b].pc = "free" /\ Blank(b, "waiting")
<1>1. PICK b \in Backfill :
        /\ backfill[b].pc = "free"
        /\ backfill' = [backfill EXCEPT ![b] =
                          [FreeBackfill EXCEPT !.pc = "waiting", !.left = JobAttempts]]
  BY DEF QueueBackfill
<1>2. backfill \in [Backfill -> BackfillRecord] /\ JobAttempts \in 0..JobAttempts /\ JobAttempts > 0
  BY ConstantAssumption DEF TypeInv, TypeOK
<1>3. Blank(b, "waiting")
  BY <1>1, <1>2, WaitingBlanks
<1> QED BY <1>1, <1>3

LEMMA FailBlanks ==
  ASSUME TypeInv, NEW b \in Backfill, BackfillFails(b)
  PROVE  Blank(b, "waiting") \/ Blank(b, "free")
<1>1. backfill \in [Backfill -> BackfillRecord] /\ backfill[b].left \in 0..JobAttempts
  BY DEF TypeInv, TypeOK, BackfillRecord
<1>2. CASE backfill[b].left > 1
  <2> DEFINE left == backfill[b].left - 1
  <2>1. left \in 0..JobAttempts /\ left > 0
    BY <1>1, <1>2, ConstantAssumption
  <2>2. backfill' = [backfill EXCEPT ![b] = [FreeBackfill EXCEPT !.pc = "waiting", !.left = left]]
    BY <1>2 DEF BackfillFails
  <2> HIDE DEF left
  <2> QED BY <1>1, <2>1, <2>2, WaitingBlanks
<1>3. CASE ~(backfill[b].left > 1)
  BY <1>1, <1>3, FinishBlanks DEF BackfillFails
<1> QED BY <1>2, <1>3

LEMMA FinishBackfillBlanks ==
  ASSUME TypeInv, NEW b \in Backfill, FinishBackfill(b)
  PROVE  Blank(b, "free")
BY FinishBlanks DEF TypeInv, TypeOK, FinishBackfill

LEMMA TakeBlanks ==
  ASSUME TypeInv, NEW b \in Backfill, TakeBackfill(b)
  PROVE  Blank(b, "page") /\ backfill[b].pc = "waiting" /\ backfill'[b].due = Listed
<1> DEFINE q == [FreeBackfill EXCEPT !.pc = "page", !.left = backfill[b].left, !.due = Listed]
<1>1. /\ backfill \in [Backfill -> BackfillRecord] /\ backfill[b].left \in 0..JobAttempts
      /\ backfill[b].left > 0 /\ backfill[b].pc = "waiting" /\ Listed \subseteq Task
  BY DEF TypeInv, TypeOK, BackfillRecord, BackfillsOK, GoodBackfill, TakeBackfill, Listed
<1>2. q \in BackfillRecord
  BY <1>1, FreeBackfillFacts DEF BackfillRecord
<1>3. q.pc = "page" /\ q.left = backfill[b].left /\ q.more = FALSE /\ q.page = 0
      /\ q.truncated = FALSE /\ q.due = Listed
  BY FreeBackfillFacts DEF BackfillRecord
<1>4. q.batch = {} /\ q.fresh = {} /\ q.queue = {} /\ q.seen = {} /\ q.refs = {}
  BY FreeBackfillFacts DEF BackfillRecord
<1>5. backfill' = [backfill EXCEPT ![b] = q]
  BY DEF TakeBackfill
<1> HIDE DEF q
<1>6. Shifts(b) /\ backfill'[b] = q
  BY <1>1, <1>2, <1>5, ShiftedTo
<1> QED BY <1>1, <1>3, <1>4, <1>6 DEF Blank

(* A page read: new is what the scan had not seen.                         *)
Paged(b, new) ==
  /\ Shifts(b)
  /\ new \subseteq Listed /\ new = Page(backfill[b].page) \ backfill[b].seen
  /\ backfill'[b].page = backfill[b].page + 1 /\ backfill'[b].due = backfill[b].due
  /\ Cardinality(Page(backfill[b].page)) = PageSize => backfill'[b].more \/ backfill'[b].truncated
  /\ backfill'[b].more => ~backfill'[b].truncated
  /\ backfill'[b].batch = new /\ backfill'[b].fresh = new /\ backfill'[b].queue = new
  /\ backfill'[b].seen = backfill[b].seen \cup new
  /\ backfill'[b].refs = backfill[b].refs \cup ({Parent[t] : t \in new} \ {NoTask})
  /\ backfill'[b].left = backfill[b].left
  /\ backfill'[b].more => backfill'[b].page < MaxPages
  /\ backfill'[b].pc = IF new = {} THEN AfterBatch(backfill'[b].more) ELSE "store"

LEMMA PageListed ==
  ASSUME NEW n
  PROVE  Page(n) \subseteq Listed
BY DEF Page

LEMMA PageMoves ==
  ASSUME TypeInv, NEW b \in Backfill, FetchPage(b)
  PROVE  backfill[b].pc = "page" /\ \E new \in SUBSET Task : Paged(b, new)
<1> DEFINE new == Page(backfill[b].page) \ backfill[b].seen
           full == (Cardinality(Page(backfill[b].page)) = PageSize)
           more == (full /\ backfill[b].page + 1 < MaxPages)
           trunc == (full /\ ~more)
           page == backfill[b].page + 1
           seen == backfill[b].seen \cup new
           refs == backfill[b].refs \cup ({Parent[t] : t \in new} \ {NoTask})
           pc == IF new = {} THEN AfterBatch(more) ELSE "store"
           q == [backfill[b] EXCEPT !.page = page, !.more = more, !.truncated = trunc,
                   !.batch = new, !.fresh = new, !.queue = new, !.seen = seen, !.refs = refs,
                   !.pc = pc]
<1>1. /\ backfill \in [Backfill -> BackfillRecord] /\ backfill[b] \in BackfillRecord
      /\ backfill[b].pc = "page" /\ GoodBackfill(backfill[b])
  BY DEF TypeInv, TypeOK, BackfillsOK, FetchPage
<1>2. backfill' = [backfill EXCEPT ![b] = q]
  BY DEF FetchPage
<1>3. /\ backfill[b].page < MaxPages /\ backfill[b].page \in 0..MaxPages
      /\ backfill[b].seen \subseteq Task /\ backfill[b].refs \subseteq Task
  BY <1>1 DEF GoodBackfill, BackfillRecord
<1>4. page \in 0..MaxPages /\ (more => page < MaxPages) /\ (more => ~trunc)
  BY <1>3, ConstantAssumption
<1>5. new \subseteq Listed /\ new \in SUBSET Task
  <2>1. Page(backfill[b].page) \subseteq Listed
    BY PageListed
  <2>2. Listed \subseteq Task
    BY DEF Listed, TypeInv, TypeOK
  <2> QED BY <2>1, <2>2
<1>6. seen \in SUBSET Task /\ refs \in SUBSET Task
  BY <1>3, <1>5, ConstantAssumption
<1>7. more \in BOOLEAN /\ trunc \in BOOLEAN /\ pc \in BackfillPC
  BY DEF AfterBatch, BackfillPC
<1>8. pc = IF new = {} THEN AfterBatch(more) ELSE "store"
  OBVIOUS
<1>9. /\ seen = backfill[b].seen \cup new
      /\ refs = backfill[b].refs \cup ({Parent[t] : t \in new} \ {NoTask})
      /\ page = backfill[b].page + 1 /\ new = Page(backfill[b].page) \ backfill[b].seen
      /\ Cardinality(Page(backfill[b].page)) = PageSize => more \/ trunc
  OBVIOUS
<1> HIDE DEF new, more, trunc, page, seen, refs, pc
<1>10. q \in BackfillRecord
  BY <1>1, <1>4, <1>5, <1>6, <1>7 DEF BackfillRecord, BackfillPC
<1>11. q.page = page /\ q.more = more /\ q.left = backfill[b].left /\ q.pc = pc
  BY <1>1 DEF BackfillRecord
<1>12. q.batch = new /\ q.fresh = new /\ q.queue = new
  BY <1>1 DEF BackfillRecord
<1>13. q.seen = seen /\ q.refs = refs /\ q.truncated = trunc /\ q.due = backfill[b].due
  BY <1>1 DEF BackfillRecord
<1> HIDE DEF q
<1>14. Shifts(b) /\ backfill'[b] = q
  BY <1>1, <1>2, <1>10, ShiftedTo
<1>15. Paged(b, new)
  BY <1>4, <1>5, <1>8, <1>9, <1>11, <1>12, <1>13, <1>14 DEF Paged
<1> QED BY <1>1, <1>5, <1>15

(* A task of the batch is stored or passed over.                           *)
StoredOne(b, t) ==
  /\ Shifts(b) /\ KeepsScan(b) /\ backfill'[b].due = backfill[b].due
  /\ backfill'[b].batch = backfill[b].batch \ {t}
  /\ backfill'[b].fresh = backfill[b].fresh /\ backfill'[b].queue = backfill[b].queue
  /\ backfill'[b].pc = IF backfill[b].batch = {t} THEN "queue" ELSE "store"

LEMMA StoreMoves ==
  ASSUME TypeInv, NEW b \in Backfill, NEW t \in Task,
         backfill' = [backfill EXCEPT ![b] =
            [backfill[b] EXCEPT !.batch = @ \ {t},
                                !.pc = IF backfill[b].batch = {t} THEN "queue" ELSE "store"]]
  PROVE  StoredOne(b, t)
<1> DEFINE batch == backfill[b].batch \ {t}
           pc == IF backfill[b].batch = {t} THEN "queue" ELSE "store"
           q == [backfill[b] EXCEPT !.batch = batch, !.pc = pc]
<1>1. backfill \in [Backfill -> BackfillRecord] /\ backfill[b] \in BackfillRecord
  BY DEF TypeInv, TypeOK
<1>2. batch \in SUBSET Task /\ pc \in BackfillPC
  BY <1>1 DEF BackfillRecord, BackfillPC
<1>3. backfill' = [backfill EXCEPT ![b] = q]
  OBVIOUS
<1>4. pc = IF backfill[b].batch = {t} THEN "queue" ELSE "store"
  OBVIOUS
<1>5. batch = backfill[b].batch \ {t}
  OBVIOUS
<1> HIDE DEF batch, pc
<1>6. q \in BackfillRecord
  BY <1>1, <1>2 DEF BackfillRecord, BackfillPC
<1>7. q.batch = batch /\ q.pc = pc /\ q.fresh = backfill[b].fresh /\ q.queue = backfill[b].queue
  BY <1>1 DEF BackfillRecord
<1>8. q.seen = backfill[b].seen /\ q.refs = backfill[b].refs /\ q.more = backfill[b].more
  BY <1>1 DEF BackfillRecord
<1>9. /\ q.page = backfill[b].page /\ q.left = backfill[b].left
      /\ q.truncated = backfill[b].truncated /\ q.due = backfill[b].due
  BY <1>1 DEF BackfillRecord
<1> HIDE DEF q
<1>10. Shifts(b) /\ backfill'[b] = q
  BY <1>1, <1>3, <1>6, ShiftedTo
<1> QED BY <1>4, <1>5, <1>7, <1>8, <1>9, <1>10 DEF StoredOne, KeepsScan

(* The time entries of a task are queued.                                  *)
QueuedOne(b, t) ==
  /\ Shifts(b) /\ KeepsScan(b) /\ backfill'[b].due = backfill[b].due
  /\ backfill'[b].batch = backfill[b].batch
  /\ backfill'[b].fresh = backfill[b].fresh
  /\ backfill'[b].queue = backfill[b].queue \ {t}
  /\ backfill'[b].pc = IF backfill[b].queue = {t} THEN AfterBatch(backfill[b].more) ELSE "queue"

LEMMA QueueMoves ==
  ASSUME TypeInv, NEW b \in Backfill, NEW t \in Task,
         backfill' = [backfill EXCEPT ![b] =
            [backfill[b] EXCEPT !.queue = @ \ {t},
               !.pc = IF backfill[b].queue = {t} THEN AfterBatch(backfill[b].more) ELSE "queue"]]
  PROVE  QueuedOne(b, t)
<1> DEFINE queue == backfill[b].queue \ {t}
           pc == IF backfill[b].queue = {t} THEN AfterBatch(backfill[b].more) ELSE "queue"
           q == [backfill[b] EXCEPT !.queue = queue, !.pc = pc]
<1>1. backfill \in [Backfill -> BackfillRecord] /\ backfill[b] \in BackfillRecord
  BY DEF TypeInv, TypeOK
<1>2. queue \in SUBSET Task /\ pc \in BackfillPC
  BY <1>1 DEF BackfillRecord, BackfillPC, AfterBatch
<1>3. backfill' = [backfill EXCEPT ![b] = q]
  OBVIOUS
<1>4. pc = IF backfill[b].queue = {t} THEN AfterBatch(backfill[b].more) ELSE "queue"
  OBVIOUS
<1>5. queue = backfill[b].queue \ {t}
  OBVIOUS
<1> HIDE DEF queue, pc
<1>6. q \in BackfillRecord
  BY <1>1, <1>2 DEF BackfillRecord, BackfillPC
<1>7. q.queue = queue /\ q.pc = pc /\ q.fresh = backfill[b].fresh /\ q.batch = backfill[b].batch
  BY <1>1 DEF BackfillRecord
<1>8. q.seen = backfill[b].seen /\ q.refs = backfill[b].refs /\ q.more = backfill[b].more
  BY <1>1 DEF BackfillRecord
<1>9. /\ q.page = backfill[b].page /\ q.left = backfill[b].left
      /\ q.truncated = backfill[b].truncated /\ q.due = backfill[b].due
  BY <1>1 DEF BackfillRecord
<1> HIDE DEF q
<1>10. Shifts(b) /\ backfill'[b] = q
  BY <1>1, <1>3, <1>6, ShiftedTo
<1> QED BY <1>4, <1>5, <1>7, <1>8, <1>9, <1>10 DEF QueuedOne, KeepsScan

(* The parents to fetch are known.                                         *)
Missing(b) == {p \in backfill[b].refs \ backfill[b].seen : row[p] = "none"}

Searched(b) ==
  /\ Shifts(b) /\ KeepsScan(b) /\ backfill'[b].due = backfill[b].due
  /\ backfill'[b].batch = Missing(b)
  /\ backfill'[b].fresh = backfill[b].fresh /\ backfill'[b].queue = backfill[b].queue
  /\ backfill'[b].pc = IF Missing(b) = {} THEN "done" ELSE "fetch_parent"

LEMMA MissingMoves ==
  ASSUME TypeInv, NEW b \in Backfill, FindMissing(b)
  PROVE  backfill[b].pc = "missing" /\ Searched(b)
<1> DEFINE batch == Missing(b)
           pc == IF batch = {} THEN "done" ELSE "fetch_parent"
           q == [backfill[b] EXCEPT !.batch = batch, !.pc = pc]
<1>1. /\ backfill \in [Backfill -> BackfillRecord] /\ backfill[b] \in BackfillRecord
      /\ backfill[b].pc = "missing"
  BY DEF TypeInv, TypeOK, FindMissing
<1>2. batch \in SUBSET Task /\ pc \in BackfillPC
  BY <1>1 DEF BackfillRecord, BackfillPC, Missing
<1>3. backfill' = [backfill EXCEPT ![b] = q]
  BY DEF FindMissing, Missing
<1>4. pc = IF batch = {} THEN "done" ELSE "fetch_parent"
  OBVIOUS
<1>5. batch = Missing(b)
  OBVIOUS
<1> HIDE DEF batch, pc
<1>6. q \in BackfillRecord
  BY <1>1, <1>2 DEF BackfillRecord, BackfillPC
<1>7. q.batch = batch /\ q.pc = pc /\ q.fresh = backfill[b].fresh /\ q.queue = backfill[b].queue
  BY <1>1 DEF BackfillRecord
<1>8. q.seen = backfill[b].seen /\ q.refs = backfill[b].refs /\ q.more = backfill[b].more
  BY <1>1 DEF BackfillRecord
<1>9. /\ q.page = backfill[b].page /\ q.left = backfill[b].left
      /\ q.truncated = backfill[b].truncated /\ q.due = backfill[b].due
  BY <1>1 DEF BackfillRecord
<1> HIDE DEF q
<1>10. Shifts(b) /\ backfill'[b] = q
  BY <1>1, <1>3, <1>6, ShiftedTo
<1> QED BY <1>1, <1>4, <1>5, <1>7, <1>8, <1>9, <1>10 DEF Searched, KeepsScan

(* A parent is fetched; a parent is done with.                             *)
Fetched(b, p) ==
  /\ Shifts(b) /\ KeepsScan(b) /\ backfill'[b].due = backfill[b].due
  /\ backfill'[b].batch = backfill[b].batch
  /\ backfill'[b].fresh = {p} /\ backfill'[b].queue = {p}
  /\ backfill'[b].pc = "store_parent"

Passed(b, p) ==
  /\ Shifts(b) /\ KeepsScan(b) /\ backfill'[b].due = backfill[b].due
  /\ backfill'[b].batch = backfill[b].batch \ {p}
  /\ backfill'[b].fresh = {} /\ backfill'[b].queue = {}
  /\ backfill'[b].pc = IF backfill[b].batch = {p} THEN "done" ELSE "fetch_parent"

LEMMA FetchedBy ==
  ASSUME TypeInv, NEW b \in Backfill, NEW p \in Task,
         backfill' = [backfill EXCEPT ![b] =
            [backfill[b] EXCEPT !.pc = "store_parent", !.fresh = {p}, !.queue = {p}]]
  PROVE  Fetched(b, p)
<1> DEFINE q == [backfill[b] EXCEPT !.pc = "store_parent", !.fresh = {p}, !.queue = {p}]
<1>1. backfill \in [Backfill -> BackfillRecord] /\ backfill[b] \in BackfillRecord
  BY DEF TypeInv, TypeOK
<1>2. q \in BackfillRecord
  BY <1>1 DEF BackfillRecord
<1>3. q.pc = "store_parent" /\ q.fresh = {p} /\ q.queue = {p} /\ q.batch = backfill[b].batch
  BY <1>1 DEF BackfillRecord
<1>4. q.seen = backfill[b].seen /\ q.refs = backfill[b].refs /\ q.more = backfill[b].more
  BY <1>1 DEF BackfillRecord
<1>5. /\ q.page = backfill[b].page /\ q.left = backfill[b].left
      /\ q.truncated = backfill[b].truncated /\ q.due = backfill[b].due
  BY <1>1 DEF BackfillRecord
<1>6. backfill' = [backfill EXCEPT ![b] = q]
  OBVIOUS
<1> HIDE DEF q
<1>7. Shifts(b) /\ backfill'[b] = q
  BY <1>1, <1>2, <1>6, ShiftedTo
<1> QED BY <1>3, <1>4, <1>5, <1>7 DEF Fetched, KeepsScan

LEMMA PassedBy ==
  ASSUME TypeInv, NEW b \in Backfill, NEW p \in Task,
         backfill' = [backfill EXCEPT ![b] = NextParent(backfill[b], p)]
  PROVE  Passed(b, p)
<1> DEFINE batch == backfill[b].batch \ {p}
           pc == IF backfill[b].batch = {p} THEN "done" ELSE "fetch_parent"
           q == [backfill[b] EXCEPT !.batch = batch, !.fresh = {}, !.queue = {}, !.pc = pc]
<1>1. backfill \in [Backfill -> BackfillRecord] /\ backfill[b] \in BackfillRecord
  BY DEF TypeInv, TypeOK
<1>2. batch \in SUBSET Task /\ pc \in BackfillPC
  BY <1>1 DEF BackfillRecord, BackfillPC
<1>3. backfill' = [backfill EXCEPT ![b] = q]
  BY DEF NextParent
<1>4. pc = IF backfill[b].batch = {p} THEN "done" ELSE "fetch_parent"
  OBVIOUS
<1>5. batch = backfill[b].batch \ {p}
  OBVIOUS
<1> HIDE DEF batch, pc
<1>6. q \in BackfillRecord
  BY <1>1, <1>2 DEF BackfillRecord, BackfillPC
<1>7. q.batch = batch /\ q.pc = pc /\ q.fresh = {} /\ q.queue = {}
  BY <1>1 DEF BackfillRecord
<1>8. q.seen = backfill[b].seen /\ q.refs = backfill[b].refs /\ q.more = backfill[b].more
  BY <1>1 DEF BackfillRecord
<1>9. /\ q.page = backfill[b].page /\ q.left = backfill[b].left
      /\ q.truncated = backfill[b].truncated /\ q.due = backfill[b].due
  BY <1>1 DEF BackfillRecord
<1> HIDE DEF q
<1>10. Shifts(b) /\ backfill'[b] = q
  BY <1>1, <1>3, <1>6, ShiftedTo
<1> QED BY <1>4, <1>5, <1>7, <1>8, <1>9, <1>10 DEF Passed, KeepsScan

(* A change at ClickUp: a copy held is no longer up to date.               *)
Dated(t) ==
  /\ backfill' \in [Backfill -> BackfillRecord]
  /\ \A b \in Backfill :
       /\ backfill'[b].pc = backfill[b].pc /\ KeepsScan(b)
       /\ backfill'[b].batch = backfill[b].batch /\ backfill'[b].queue = backfill[b].queue
       /\ backfill'[b].fresh = backfill[b].fresh \ {t}
       /\ backfill'[b].due = backfill[b].due \ {t}

LEMMA OutOfDateDates ==
  ASSUME TypeInv, NEW t \in Task, OutOfDate(t)
  PROVE  Dated(t)
<1>1. backfill \in [Backfill -> BackfillRecord]
  BY DEF TypeInv, TypeOK
<1>2. ASSUME NEW b \in Backfill
      PROVE  /\ backfill'[b] \in BackfillRecord
             /\ backfill'[b].pc = backfill[b].pc
             /\ backfill'[b].fresh = backfill[b].fresh \ {t}
             /\ backfill'[b].due = backfill[b].due \ {t}
             /\ backfill'[b].batch = backfill[b].batch /\ backfill'[b].queue = backfill[b].queue
             /\ KeepsScan(b)
  <2> DEFINE fresh == backfill[b].fresh \ {t}
             due == backfill[b].due \ {t}
             q == [backfill[b] EXCEPT !.fresh = fresh, !.due = due]
  <2>1. backfill[b] \in BackfillRecord
    BY <1>1
  <2>2. fresh \in SUBSET Task /\ due \in SUBSET Task
    BY <2>1 DEF BackfillRecord
  <2>3. backfill'[b] = q
    BY DEF OutOfDate
  <2>4. fresh = backfill[b].fresh \ {t} /\ due = backfill[b].due \ {t}
    OBVIOUS
  <2> HIDE DEF fresh, due
  <2>5. q \in BackfillRecord
    BY <2>1, <2>2 DEF BackfillRecord
  <2>6. q.pc = backfill[b].pc /\ q.fresh = fresh /\ q.due = due
    BY <2>1 DEF BackfillRecord
  <2>7. q.batch = backfill[b].batch /\ q.queue = backfill[b].queue
    BY <2>1 DEF BackfillRecord
  <2>8. q.seen = backfill[b].seen /\ q.refs = backfill[b].refs /\ q.more = backfill[b].more
    BY <2>1 DEF BackfillRecord
  <2>9. /\ q.page = backfill[b].page /\ q.left = backfill[b].left
        /\ q.truncated = backfill[b].truncated
    BY <2>1 DEF BackfillRecord
  <2> HIDE DEF q
  <2> QED BY <2>3, <2>4, <2>5, <2>6, <2>7, <2>8, <2>9 DEF KeepsScan
<1>3. backfill' \in [Backfill -> BackfillRecord]
  BY <1>2 DEF OutOfDate
<1> QED BY <1>2, <1>3 DEF Dated

-----------------------------------------------------------------------------
(* Every variable keeps its type, every job and backfill its shape.        *)

LEMMA MovedGood ==
  ASSUME JobsOK, NEW j \in Job, Moved(j), GoodJob(job'[j])
  PROVE  JobsOK'
<1>1. \A k \in Job : k # j => job'[k] = job[k]
  BY DEF Moved
<1>2. \A k \in Job : k # j => GoodJob(job'[k])
  BY <1>1 DEF JobsOK, GoodJob
<1> QED BY <1>2 DEF JobsOK

LEMMA EndsGood ==
  ASSUME JobsOK, NEW j \in Job, Ends(j)
  PROVE  JobsOK'
<1>1. GoodJob(job'[j])
  BY FreeFacts DEF Ends, GoodJob
<1> QED BY <1>1, MovedGood DEF Ends

LEMMA AddedGood ==
  ASSUME JobsOK, NEW j \in Job, NEW kind \in Kind, NEW t \in Task, Added(j, kind, t)
  PROVE  JobsOK'
<1>1. /\ job'[j].pc = "waiting" /\ job'[j].task = t /\ job'[j].left = JobAttempts
      /\ JobAttempts > 0
  BY NewFacts DEF Added
<1>2. GoodJob(job'[j])
  BY <1>1 DEF GoodJob
<1> QED BY <1>2, MovedGood DEF Added

LEMMA RetriesGood ==
  ASSUME JobsOK, NEW j \in Job, Retries(j), job[j].pc # "free"
  PROVE  JobsOK'
<1>1. GoodJob(job'[j])
  BY DEF Retries, GoodJob, JobsOK
<1> QED BY <1>1, MovedGood DEF Retries

(* Where a job of a kind may stand.                                        *)
Fits(kind, pc) ==
  /\ pc # "free"
  /\ pc \in {"ensure", "fetch_hours", "write_hours"} => kind \in {"time", "reconcile"}
  /\ pc \in {"drop", "tombstone"} => kind # "time"
  /\ pc \in {"fetch", "upsert"} => kind # "delete"
  /\ pc = "exists" => kind \in {"sync", "time"}

LEMMA GoesOnGood ==
  ASSUME JobsOK, NEW j \in Job, NEW pc, GoesOn(j, pc), job[j].pc # "free", Fits(job[j].kind, pc)
  PROVE  job' \in [Job -> JobRecord] /\ JobsOK'
<1>1. GoodJob(job'[j])
  BY DEF GoesOn, GoodJob, JobsOK, Fits
<1> QED BY <1>1, MovedGood DEF GoesOn, Moved

LEMMA AgedGood ==
  ASSUME JobsOK, NEW t, Aged(t)
  PROVE  job' \in [Job -> JobRecord] /\ JobsOK'
BY DEF Aged, JobsOK, GoodJob

LEMMA DeliverAdds ==
  ASSUME TypeInv, NEW t \in Task, Deliver(t)
  PROVE  \E kind \in owed[t], j \in Job : kind \in Kind /\ Added(j, kind, t)
<1>1. owed[t] \subseteq Kind
  BY DEF TypeInv, TypeOK, Kind
<1>2. PICK kind \in owed[t] : Enqueue(kind, t)
  BY DEF Deliver
<1>3. \E j \in Job : Added(j, kind, t)
  BY <1>1, <1>2, EnqueueAdds DEF TypeInv, TypeOK
<1> QED BY <1>1, <1>3

LEMMA AdminAdds ==
  ASSUME TypeInv, NEW t \in Task, AdminSync(t)
  PROVE  /\ Born(t)
         /\ \E kind \in {"sync", "time"}, j \in Job : kind \in Kind /\ Added(j, kind, t)
<1>1. PICK kind \in {"sync", "time"} : Enqueue(kind, t)
  BY DEF AdminSync
<1>2. kind \in Kind
  BY DEF Kind
<1>3. \E j \in Job : Added(j, kind, t)
  BY <1>1, <1>2, EnqueueAdds DEF TypeInv, TypeOK
<1>4. Born(t)
  BY DEF AdminSync, Born
<1> QED BY <1>2, <1>3, <1>4

LEMMA SweepAdds ==
  ASSUME TypeInv, NEW a \in Sweeper, SweepAdd(a)
  PROVE  \E t \in sweep[a], j \in Job : t \in Task /\ Added(j, "reconcile", t)
<1>1. sweep[a] \subseteq Task /\ "reconcile" \in Kind
  BY DEF TypeInv, TypeOK, Kind
<1>2. PICK t \in sweep[a] : Enqueue("reconcile", t)
  BY DEF SweepAdd
<1>3. \E j \in Job : Added(j, "reconcile", t)
  BY <1>1, <1>2, EnqueueAdds DEF TypeInv, TypeOK
<1> QED BY <1>1, <1>3

LEMMA HoursAdds ==
  ASSUME TypeInv, NEW b \in Backfill, QueueHours(b)
  PROVE  /\ backfill[b].pc = "queue"
         /\ \E t \in backfill[b].queue, j \in Job :
              t \in Task /\ Added(j, "time", t) /\ QueuedOne(b, t)
<1>1. backfill[b].queue \subseteq Task /\ "time" \in Kind
  BY DEF TypeInv, TypeOK, Kind, BackfillRecord
<1>2. PICK t \in backfill[b].queue :
        /\ Enqueue("time", t)
        /\ backfill' = [backfill EXCEPT ![b] =
            [backfill[b] EXCEPT !.queue = @ \ {t},
               !.pc = IF backfill[b].queue = {t} THEN AfterBatch(backfill[b].more) ELSE "queue"]]
  BY DEF QueueHours
<1>3. \E j \in Job : Added(j, "time", t)
  BY <1>1, <1>2, EnqueueAdds DEF TypeInv, TypeOK
<1>4. QueuedOne(b, t)
  BY <1>1, <1>2, QueueMoves
<1>5. backfill[b].pc = "queue"
  BY DEF QueueHours
<1> QED BY <1>1, <1>3, <1>4, <1>5

LEMMA JobsStep ==
  ASSUME TypeInv, Next
  PROVE  job' \in [Job -> JobRecord] /\ JobsOK'
<1>0. JobsOK /\ job \in [Job -> JobRecord]
  BY DEF TypeInv, TypeOK
<1>a. ASSUME NEW j \in Job, Ends(j)
      PROVE  job' \in [Job -> JobRecord] /\ JobsOK'
  BY <1>0, <1>a, EndsGood DEF Ends, Moved
<1>b. ASSUME NEW j \in Job, NEW kind \in Kind, NEW t \in Task, Added(j, kind, t)
      PROVE  job' \in [Job -> JobRecord] /\ JobsOK'
  BY <1>0, <1>b, AddedGood DEF Added, Moved
<1>c. ASSUME UNCHANGED job
      PROVE  job' \in [Job -> JobRecord] /\ JobsOK'
  BY <1>0, <1>c DEF JobsOK
<1>1. ASSUME NEW t \in Task, Change(t) \/ Remove(t)
      PROVE  job' \in [Job -> JobRecord] /\ JobsOK'
  BY <1>0, <1>1, OutOfDateAges, AgedGood DEF Change, Remove
<1>2. ASSUME NEW t \in Task, Deliver(t)
      PROVE  job' \in [Job -> JobRecord] /\ JobsOK'
  BY <1>2, <1>b, DeliverAdds
<1>m. ASSUME NEW t \in Task, AdminSync(t)
      PROVE  job' \in [Job -> JobRecord] /\ JobsOK'
  BY <1>m, <1>b, AdminAdds
<1>3. ASSUME NEW j \in Job, Take(j)
      PROVE  job' \in [Job -> JobRecord] /\ JobsOK'
  <2>1. /\ GoesOn(j, FirstStep(job[j].kind)) /\ job[j].pc = "waiting"
        /\ \/ job[j].kind = "delete" /\ FirstStep(job[j].kind) = "drop"
           \/ job[j].kind = "time" /\ FirstStep(job[j].kind) = "ensure"
           \/ job[j].kind \in {"sync", "reconcile"} /\ FirstStep(job[j].kind) = "fetch"
    BY <1>3, TakeMoves
  <2>2. Fits(job[j].kind, FirstStep(job[j].kind))
    BY <2>1 DEF Fits
  <2> QED BY <1>0, <2>1, <2>2, GoesOnGood
<1>4. ASSUME NEW j \in Job, Fetch(j)
      PROVE  job' \in [Job -> JobRecord] /\ JobsOK'
  <2>1. job[j].pc = "fetch" /\ job[j].kind # "delete" /\ job[j].kind \in Kind
    BY <1>0, <1>4 DEF Fetch, JobsOK, GoodJob, JobRecord
  <2>2. Fits(job[j].kind, "upsert") /\ Fits(job[j].kind, AfterGone(job[j].kind))
    BY <2>1 DEF Fits, AfterGone, Kind
  <2> QED BY <1>0, <1>4, <2>1, <2>2, FetchMoves, GoesOnGood
<1>5. ASSUME NEW j \in Job, Upsert(j)
      PROVE  job' \in [Job -> JobRecord] /\ JobsOK'
  <2>1. job[j].pc = "upsert" /\ Fits("time", "exists") /\ Fits("reconcile", "ensure")
    BY <1>5 DEF Upsert, Fits
  <2>2. CASE job[j].kind = "sync" /\ Ends(j)
    BY <2>2, <1>a
  <2>3. CASE job[j].kind = "time" /\ GoesOn(j, "exists")
    BY <1>0, <2>1, <2>3, GoesOnGood
  <2>4. CASE job[j].kind = "reconcile" /\ GoesOn(j, "ensure")
    BY <1>0, <2>1, <2>4, GoesOnGood
  <2> QED BY <1>5, <2>2, <2>3, <2>4, UpsertMoves
<1>6. ASSUME NEW j \in Job, UpsertSkipped(j)
      PROVE  job' \in [Job -> JobRecord] /\ JobsOK'
  <2>1. job[j].pc = "upsert" /\ Fits("time", "exists") /\ Fits("reconcile", "ensure")
    BY <1>6 DEF UpsertSkipped, Fits
  <2>3. CASE job[j].kind = "time" /\ GoesOn(j, "exists")
    BY <1>0, <2>1, <2>3, GoesOnGood
  <2>4. CASE job[j].kind = "reconcile" /\ GoesOn(j, "ensure")
    BY <1>0, <2>1, <2>4, GoesOnGood
  <2> QED BY <1>6, <2>3, <2>4, SkippedMoves
<1>7. ASSUME NEW j \in Job, Exists(j)
      PROVE  job' \in [Job -> JobRecord] /\ JobsOK'
  <2>1. job[j].pc = "exists" /\ Fits("sync", "drop") /\ Fits("time", "fetch_hours")
    BY <1>7 DEF Exists, Fits
  <2>2. CASE Ends(j)
    BY <2>2, <1>a
  <2>3. CASE job[j].kind = "sync" /\ GoesOn(j, "drop")
    BY <1>0, <2>1, <2>3, GoesOnGood
  <2>4. CASE job[j].kind = "time" /\ GoesOn(j, "fetch_hours")
    BY <1>0, <2>1, <2>4, GoesOnGood
  <2> QED BY <1>7, <2>2, <2>3, <2>4, ExistsMoves
<1>8. ASSUME NEW j \in Job, Drop(j)
      PROVE  job' \in [Job -> JobRecord] /\ JobsOK'
  <2>1. job[j].pc = "drop" /\ Fits(job[j].kind, "tombstone")
    BY <1>0, <1>8 DEF Drop, Fits, JobsOK, GoodJob
  <2> QED BY <1>0, <1>8, <2>1, SimpleMoves, GoesOnGood
<1>9. ASSUME NEW j \in Job, Tombstone(j) \/ WriteHours(j)
      PROVE  job' \in [Job -> JobRecord] /\ JobsOK'
  BY <1>9, <1>a, SimpleMoves
<1>10. ASSUME NEW j \in Job, Ensure(j)
       PROVE  job' \in [Job -> JobRecord] /\ JobsOK'
  <2>1. job[j].pc = "ensure" /\ Fits(job[j].kind, "fetch") /\ Fits(job[j].kind, "fetch_hours")
    BY <1>0, <1>10 DEF Ensure, Fits, JobsOK, GoodJob
  <2> QED BY <1>0, <1>10, <2>1, SimpleMoves, GoesOnGood
<1>11. ASSUME NEW j \in Job, FetchHours(j)
       PROVE  job' \in [Job -> JobRecord] /\ JobsOK'
  <2>1. job[j].pc = "fetch_hours" /\ Fits(job[j].kind, "write_hours")
    BY <1>0, <1>11 DEF FetchHours, Fits, JobsOK, GoodJob
  <2> QED BY <1>0, <1>11, <2>1, FetchHoursMoves, GoesOnGood
<1>12. ASSUME NEW j \in Job, AttemptFails(j)
       PROVE  job' \in [Job -> JobRecord] /\ JobsOK'
  <2>1. job[j].pc # "free"
    BY <1>12 DEF AttemptFails
  <2>2. CASE Retries(j)
    BY <1>0, <2>1, <2>2, RetriesGood DEF Retries, Moved
  <2> QED BY <1>12, <1>a, <2>2, FailMoves
<1>13. ASSUME NEW a \in Sweeper, SweepAdd(a)
       PROVE  job' \in [Job -> JobRecord] /\ JobsOK'
  BY <1>13, <1>b, SweepAdds DEF Kind
<1>14. ASSUME NEW a \in Sweeper, BeginSweep(a) \/ SweepDies(a)
       PROVE  job' \in [Job -> JobRecord] /\ JobsOK'
  BY <1>14, <1>c DEF BeginSweep, SweepDies
<1>15. ASSUME NEW r \in Requester, Ask(r) \/ AddBackfill(r) \/ RequestDies(r)
       PROVE  job' \in [Job -> JobRecord] /\ JobsOK'
  BY <1>15, <1>c DEF Ask, AddBackfill, RequestDies
<1>u. ASSUME ConnectBackfill \/ RetryBackfill PROVE job' \in [Job -> JobRecord] /\ JobsOK'
  BY <1>u, <1>c DEF ConnectBackfill, RetryBackfill, AddUnseen
<1>16. ASSUME NEW b \in Backfill, QueueHours(b)
       PROVE  job' \in [Job -> JobRecord] /\ JobsOK'
  BY <1>16, <1>b, HoursAdds DEF Kind
<1>17. ASSUME NEW b \in Backfill,
              TakeBackfill(b) \/ FetchPage(b) \/ StoreTask(b) \/ FindMissing(b)
       PROVE  job' \in [Job -> JobRecord] /\ JobsOK'
  BY <1>17, <1>c DEF TakeBackfill, FetchPage, StoreTask, FindMissing
<1>18. ASSUME NEW b \in Backfill,
              FetchParent(b) \/ StoreParent(b) \/ FinishBackfill(b) \/ BackfillFails(b)
       PROVE  job' \in [Job -> JobRecord] /\ JobsOK'
  BY <1>18, <1>c DEF FetchParent, StoreParent, FinishBackfill, BackfillFails
<1> QED BY <1>1, <1>2, <1>3, <1>4, <1>5, <1>6, <1>7, <1>8, <1>9, <1>10, <1>11, <1>12, <1>13,
           <1>14, <1>15, <1>16, <1>17, <1>18, <1>u, <1>m DEF Next

LEMMA StoreTaskMoves ==
  ASSUME TypeInv, NEW b \in Backfill, StoreTask(b)
  PROVE  /\ backfill[b].pc = "store"
         /\ \E t \in backfill[b].batch :
              /\ t \in Task /\ StoredOne(b, t)
              /\ \/ Write(t, t \notin backfill[b].fresh)
                 \/ gap' = PassedOver(t, "skipped") /\ UNCHANGED row
<1>1. backfill[b].batch \subseteq Task
  BY DEF TypeInv, TypeOK, BackfillRecord
<1>2. PICK t \in backfill[b].batch :
        /\ \/ Write(t, t \notin backfill[b].fresh)
           \/ gap' = PassedOver(t, "skipped") /\ UNCHANGED row
        /\ backfill' = [backfill EXCEPT ![b] =
            [backfill[b] EXCEPT !.batch = @ \ {t},
                                !.pc = IF backfill[b].batch = {t} THEN "queue" ELSE "store"]]
  BY DEF StoreTask
<1>3. StoredOne(b, t)
  BY <1>1, <1>2, StoreMoves
<1> QED BY <1>1, <1>2, <1>3 DEF StoreTask

LEMMA FetchParentMoves ==
  ASSUME TypeInv, NEW b \in Backfill, FetchParent(b)
  PROVE  /\ backfill[b].pc = "fetch_parent"
         /\ \E p \in backfill[b].batch :
              /\ p \in Task
              /\ \/ Live(p) /\ Fetched(b, p) /\ UNCHANGED gap
                 \/ Passed(b, p) /\ gap' = IF Live(p) THEN PassedOver(p, "unfetched") ELSE gap
<1>1. backfill[b].batch \subseteq Task
  BY DEF TypeInv, TypeOK, BackfillRecord
<1>2. PICK p \in backfill[b].batch :
        \/ /\ Live(p)
           /\ backfill' = [backfill EXCEPT ![b] =
               [backfill[b] EXCEPT !.pc = "store_parent", !.fresh = {p}, !.queue = {p}]]
           /\ UNCHANGED gap
        \/ /\ backfill' = [backfill EXCEPT ![b] = NextParent(backfill[b], p)]
           /\ gap' = IF Live(p) THEN PassedOver(p, "unfetched") ELSE gap
  BY DEF FetchParent
<1>3. \/ Live(p) /\ Fetched(b, p) /\ UNCHANGED gap
      \/ Passed(b, p) /\ gap' = IF Live(p) THEN PassedOver(p, "unfetched") ELSE gap
  BY <1>1, <1>2, FetchedBy, PassedBy
<1> QED BY <1>1, <1>3 DEF FetchParent

LEMMA StoreParentMoves ==
  ASSUME TypeInv, NEW b \in Backfill, StoreParent(b)
  PROVE  /\ backfill[b].pc = "store_parent"
         /\ \E p \in backfill[b].queue :
              /\ p \in Task /\ Passed(b, p)
              /\ \/ Write(p, p \notin backfill[b].fresh)
                 \/ gap' = PassedOver(p, "unfetched") /\ UNCHANGED row
<1>1. backfill[b].queue \subseteq Task
  BY DEF TypeInv, TypeOK, BackfillRecord
<1>2. PICK p \in backfill[b].queue :
        /\ \/ Write(p, p \notin backfill[b].fresh)
           \/ gap' = PassedOver(p, "unfetched") /\ UNCHANGED row
        /\ backfill' = [backfill EXCEPT ![b] = NextParent(backfill[b], p)]
  BY DEF StoreParent
<1>3. Passed(b, p)
  BY <1>1, <1>2, PassedBy
<1> QED BY <1>1, <1>2, <1>3 DEF StoreParent

LEMMA ShiftsGood ==
  ASSUME TypeInv, NEW b \in Backfill, Shifts(b), GoodBackfill(backfill'[b])
  PROVE  backfill' \in [Backfill -> BackfillRecord] /\ BackfillsOK'
<1>1. \A c \in Backfill : c # b => backfill'[c] = backfill[c]
  BY DEF Shifts
<1>2. \A c \in Backfill : c # b => GoodBackfill(backfill'[c])
  BY <1>1 DEF TypeInv, BackfillsOK, GoodBackfill
<1> QED BY <1>2 DEF BackfillsOK, Shifts

LEMMA BlankGood ==
  ASSUME TypeInv, NEW b \in Backfill, NEW pc, Blank(b, pc)
  PROVE  backfill' \in [Backfill -> BackfillRecord] /\ BackfillsOK'
<1>1. GoodBackfill(backfill'[b])
  BY ConstantAssumption DEF Blank, GoodBackfill
<1> QED BY <1>1, ShiftsGood DEF Blank

LEMMA KeepsGood ==
  ASSUME TypeInv, NEW b \in Backfill, Shifts(b), KeepsScan(b),
         backfill[b].pc # "free", backfill'[b].pc = "page" => backfill[b].more
  PROVE  backfill' \in [Backfill -> BackfillRecord] /\ BackfillsOK'
<1>1. GoodBackfill(backfill'[b])
  BY DEF KeepsScan, GoodBackfill, TypeInv, BackfillsOK
<1> QED BY <1>1, ShiftsGood

LEMMA BackfillsStep ==
  ASSUME TypeInv, Next
  PROVE  backfill' \in [Backfill -> BackfillRecord] /\ BackfillsOK'
<1> DEFINE Good == backfill' \in [Backfill -> BackfillRecord] /\ BackfillsOK'
<1>c. ASSUME UNCHANGED backfill PROVE Good
  BY <1>c DEF TypeInv, TypeOK, BackfillsOK
<1>1. ASSUME NEW t \in Task, Change(t) \/ Remove(t) PROVE Good
  <2>1. Dated(t)
    BY <1>1, OutOfDateDates DEF Change, Remove
  <2> QED BY <2>1 DEF Dated, KeepsScan, TypeInv, BackfillsOK, GoodBackfill
<1>2. ASSUME NEW t \in Task, Deliver(t) \/ AdminSync(t) PROVE Good
  BY <1>2, <1>c DEF Deliver, AdminSync
<1>3. ASSUME NEW j \in Job, Take(j) \/ Fetch(j) \/ Upsert(j) \/ UpsertSkipped(j) PROVE Good
  BY <1>3, <1>c DEF Take, Fetch, Upsert, UpsertSkipped
<1>4. ASSUME NEW j \in Job, Exists(j) \/ Drop(j) \/ Tombstone(j) \/ Ensure(j) PROVE Good
  BY <1>4, <1>c DEF Exists, Drop, Tombstone, Ensure
<1>5. ASSUME NEW j \in Job, FetchHours(j) \/ WriteHours(j) \/ AttemptFails(j) PROVE Good
  BY <1>5, <1>c DEF FetchHours, WriteHours, AttemptFails
<1>6. ASSUME NEW a \in Sweeper, BeginSweep(a) \/ SweepAdd(a) \/ SweepDies(a) PROVE Good
  BY <1>6, <1>c DEF BeginSweep, SweepAdd, SweepDies
<1>7. ASSUME NEW r \in Requester, Ask(r) \/ RequestDies(r) PROVE Good
  BY <1>7, <1>c DEF Ask, RequestDies
<1>8. ASSUME NEW r \in Requester, AddBackfill(r) PROVE Good
  BY <1>8, AddBlanks, BlankGood DEF AddBackfill
<1>u. ASSUME ConnectBackfill \/ RetryBackfill PROVE Good
  BY <1>u, AddBlanks, BlankGood DEF ConnectBackfill, RetryBackfill, AddUnseen
<1>9. ASSUME NEW b \in Backfill, TakeBackfill(b) PROVE Good
  BY <1>9, TakeBlanks, BlankGood
<1>10. ASSUME NEW b \in Backfill, FinishBackfill(b) PROVE Good
  BY <1>10, FinishBackfillBlanks, BlankGood
<1>11. ASSUME NEW b \in Backfill, BackfillFails(b) PROVE Good
  BY <1>11, FailBlanks, BlankGood
<1>12. ASSUME NEW b \in Backfill, FetchPage(b) PROVE Good
  <2>1. PICK new \in SUBSET Task : Paged(b, new)
    BY <1>12, PageMoves
  <2>2. backfill[b].left > 0
    BY <1>12 DEF TypeInv, BackfillsOK, GoodBackfill, FetchPage
  <2>3. GoodBackfill(backfill'[b])
    BY <2>1, <2>2 DEF Paged, GoodBackfill, AfterBatch
  <2> QED BY <2>1, <2>3, ShiftsGood DEF Paged
<1>13. ASSUME NEW b \in Backfill, StoreTask(b) PROVE Good
  <2>1. PICK t : StoredOne(b, t)
    BY <1>13, StoreTaskMoves
  <2>2. backfill[b].pc = "store"
    BY <1>13, StoreTaskMoves
  <2> QED BY <2>1, <2>2, KeepsGood DEF StoredOne
<1>14. ASSUME NEW b \in Backfill, QueueHours(b) PROVE Good
  <2>1. PICK t : QueuedOne(b, t)
    BY <1>14, HoursAdds
  <2>2. backfill[b].pc = "queue"
    BY <1>14, HoursAdds
  <2> QED BY <2>1, <2>2, KeepsGood DEF QueuedOne, AfterBatch
<1>15. ASSUME NEW b \in Backfill, FindMissing(b) PROVE Good
  BY <1>15, MissingMoves, KeepsGood DEF Searched
<1>16. ASSUME NEW b \in Backfill, FetchParent(b) PROVE Good
  <2>1. PICK p : Fetched(b, p) \/ Passed(b, p)
    BY <1>16, FetchParentMoves
  <2>2. backfill[b].pc = "fetch_parent"
    BY <1>16, FetchParentMoves
  <2> QED BY <2>1, <2>2, KeepsGood DEF Fetched, Passed
<1>17. ASSUME NEW b \in Backfill, StoreParent(b) PROVE Good
  <2>1. PICK p : Passed(b, p)
    BY <1>17, StoreParentMoves
  <2>2. backfill[b].pc = "store_parent"
    BY <1>17, StoreParentMoves
  <2> QED BY <2>1, <2>2, KeepsGood DEF Passed
<1> HIDE DEF Good
<1>18. Good
  BY <1>1, <1>2, <1>3, <1>4, <1>5, <1>6, <1>7, <1>8, <1>9, <1>10, <1>11, <1>12, <1>13, <1>14,
     <1>15, <1>16, <1>17, <1>u DEF Next
<1> QED BY <1>18 DEF Good

-----------------------------------------------------------------------------
(* How a step moves a row and the history of its gaps.                     *)

RowType == row \in [Task -> {"none", "fresh", "stale", "deleted"}] /\ gap \in [Task -> SUBSET GapKind]

(* Only the row and the gaps of t may move.                                *)
Touches(t) ==
  /\ row' \in [Task -> {"none", "fresh", "stale", "deleted"}]
  /\ gap' \in [Task -> SUBSET GapKind]
  /\ \A u \in Task : u # t => row'[u] = row[u] /\ gap'[u] = gap[u]

Wrote(t, stale) ==
  /\ Touches(t)
  /\ row'[t] = IF stale THEN "stale" ELSE "fresh"
  /\ ~stale => gap'[t] = gap[t] \cap {"late_hours"}
  /\ stale /\ row[t] = "fresh" => gap'[t] = gap[t] \cup {"overtaken"}
  /\ stale /\ row[t] = "deleted" => gap'[t] = gap[t] \cup {"resurrected"}
  /\ stale /\ row[t] \in {"none", "stale"} => gap'[t] = gap[t]

LEMMA WriteWrote ==
  ASSUME RowType, NEW t \in Task, NEW stale \in BOOLEAN, Write(t, stale)
  PROVE  Wrote(t, stale)
<1> DEFINE r == IF stale THEN "stale" ELSE "fresh"
           g == CASE ~stale                               -> gap[t] \cap {"late_hours"}
                  [] stale /\ row[t] = "fresh"            -> gap[t] \cup {"overtaken"}
                  [] stale /\ row[t] = "deleted"          -> gap[t] \cup {"resurrected"}
                  [] stale /\ row[t] \in {"none", "stale"} -> gap[t]
<1>1. row' = [row EXCEPT ![t] = r] /\ gap' = [gap EXCEPT ![t] = g]
  BY DEF Write
<1>2. /\ ~stale => g = gap[t] \cap {"late_hours"}
      /\ stale /\ row[t] = "fresh" => g = gap[t] \cup {"overtaken"}
      /\ stale /\ row[t] = "deleted" => g = gap[t] \cup {"resurrected"}
      /\ stale /\ row[t] \in {"none", "stale"} => g = gap[t]
  OBVIOUS
<1>3. row[t] \in {"none", "fresh", "stale", "deleted"} /\ gap[t] \in SUBSET GapKind
  BY DEF RowType
<1>4. g \in SUBSET GapKind
  BY <1>2, <1>3 DEF GapKind
<1>5. r \in {"none", "fresh", "stale", "deleted"} /\ r = IF stale THEN "stale" ELSE "fresh"
  OBVIOUS
<1> HIDE DEF r, g
<1>6. Touches(t) /\ row'[t] = r /\ gap'[t] = g
  BY <1>1, <1>4, <1>5 DEF Touches, RowType
<1> QED BY <1>2, <1>5, <1>6 DEF Wrote

(* A gap is noted unless the row is up to date.                            *)
Noted(t, kind) ==
  /\ Touches(t) /\ row' = row
  /\ gap'[t] = IF row[t] = "fresh" THEN gap[t] ELSE gap[t] \cup {kind}

LEMMA PassedNotes ==
  ASSUME RowType, NEW t \in Task, NEW kind \in GapKind, gap' = PassedOver(t, kind), UNCHANGED row
  PROVE  Noted(t, kind)
<1> DEFINE g == IF row[t] = "fresh" THEN gap[t] ELSE gap[t] \cup {kind}
<1>1. gap' = [gap EXCEPT ![t] = g]
  BY DEF PassedOver
<1>2. g \in SUBSET GapKind /\ g = IF row[t] = "fresh" THEN gap[t] ELSE gap[t] \cup {kind}
  BY DEF RowType
<1> HIDE DEF g
<1> QED BY <1>1, <1>2 DEF RowType, Touches, Noted

Buried(t) ==
  /\ Touches(t)
  /\ row'[t] = "deleted" /\ gap'[t] = gap[t] \cap {"late_hours"}

LEMMA TombstonedBuries ==
  ASSUME RowType, NEW t \in Task, Tombstoned(t)
  PROVE  Buried(t)
<1>1. gap[t] \cap {"late_hours"} \in SUBSET GapKind
  BY DEF RowType
<1> QED BY <1>1 DEF RowType, Tombstoned, Touches, Buried

(* The row stays and gaps are added, to whatever tasks.                    *)
GapsGrow ==
  /\ gap' \in [Task -> SUBSET GapKind]
  /\ \A u \in Task : gap[u] \subseteq gap'[u]

(* A change and a deletion at ClickUp.                                     *)
Ages(t) ==
  /\ row' \in [Task -> {"none", "fresh", "stale", "deleted"}]
  /\ row'[t] = IF row[t] = "fresh" THEN "stale" ELSE row[t]
  /\ \A u \in Task : u # t => row'[u] = row[u]

Becomes(t, r) ==
  /\ remote' \in [Task -> {"unborn", "live", "gone"}]
  /\ remote'[t] = r
  /\ \A u \in Task : u # t => remote'[u] = remote[u]

Informs(t, kinds) ==
  /\ GapsGrow
  /\ owed' \in [Task -> SUBSET {"sync", "delete", "time"}]
  /\ \A u \in Task : u # t => owed'[u] = owed[u]
  /\ \/ owed'[t] = owed[t] \cup kinds
     \/ owed' = owed /\ "undelivered" \in gap'[t]

LEMMA ChangeMoves ==
  ASSUME TypeInv, NEW t \in Task, Change(t)
  PROVE  Ages(t) /\ Becomes(t, "live") /\ Informs(t, {"sync", "time"}) /\ Aged(t) /\ Dated(t)
<1>1. /\ row \in [Task -> {"none", "fresh", "stale", "deleted"}]
      /\ remote \in [Task -> {"unborn", "live", "gone"}]
      /\ owed \in [Task -> SUBSET {"sync", "delete", "time"}]
      /\ gap \in [Task -> SUBSET GapKind]
  BY DEF TypeInv, TypeOK
<1>2. row' = [row EXCEPT ![t] = IF row[t] = "fresh" THEN "stale" ELSE row[t]]
  BY DEF Change
<1>3. Ages(t)
  BY <1>1, <1>2 DEF Ages
<1>4. Becomes(t, "live")
  BY <1>1 DEF Becomes, Change
<1>5. Informs(t, {"sync", "time"})
  <2>1. CASE owed' = [owed EXCEPT ![t] = owed[t] \cup {"sync", "time"}] /\ UNCHANGED gap
    BY <1>1, <2>1 DEF Informs, GapsGrow
  <2>2. CASE gap' = [gap EXCEPT ![t] = gap[t] \cup {"undelivered"}] /\ UNCHANGED owed
    BY <1>1, <2>2 DEF Informs, GapsGrow, GapKind
  <2> QED BY <2>1, <2>2 DEF Change, Notified
<1>6. Aged(t) /\ Dated(t)
  BY OutOfDateAges, OutOfDateDates DEF Change
<1> QED BY <1>3, <1>4, <1>5, <1>6

LEMMA RemoveMoves ==
  ASSUME TypeInv, NEW t \in Task, Remove(t)
  PROVE  /\ Ages(t) /\ Becomes(t, "gone") /\ Informs(t, {"delete"}) /\ Aged(t) /\ Dated(t)
         /\ Live(t)
<1>1. /\ row \in [Task -> {"none", "fresh", "stale", "deleted"}]
      /\ remote \in [Task -> {"unborn", "live", "gone"}]
      /\ owed \in [Task -> SUBSET {"sync", "delete", "time"}]
      /\ gap \in [Task -> SUBSET GapKind]
  BY DEF TypeInv, TypeOK
<1>2. row' = [row EXCEPT ![t] = IF row[t] = "fresh" THEN "stale" ELSE row[t]]
  BY DEF Remove
<1>3. Ages(t)
  BY <1>1, <1>2 DEF Ages
<1>4. Becomes(t, "gone")
  BY <1>1 DEF Becomes, Remove
<1>5. Informs(t, {"delete"})
  <2> DEFINE moved == [u \in Task |-> IF u \in Shifted(t) THEN gap[u] \cup {"shifted"} ELSE gap[u]]
  <2>1. \/ owed' = [owed EXCEPT ![t] = owed[t] \cup {"delete"}] /\ gap' = moved
        \/ gap' = [moved EXCEPT ![t] = moved[t] \cup {"undelivered"}] /\ UNCHANGED owed
    BY DEF Remove
  <2>2. moved \in [Task -> SUBSET GapKind] /\ \A u \in Task : gap[u] \subseteq moved[u]
    BY <1>1 DEF GapKind
  <2> HIDE DEF moved
  <2>3. CASE owed' = [owed EXCEPT ![t] = owed[t] \cup {"delete"}] /\ gap' = moved
    BY <1>1, <2>2, <2>3 DEF Informs, GapsGrow
  <2>4. CASE gap' = [moved EXCEPT ![t] = moved[t] \cup {"undelivered"}] /\ UNCHANGED owed
    <3>1. gap' \in [Task -> SUBSET GapKind] /\ \A u \in Task : moved[u] \subseteq gap'[u]
      BY <2>2, <2>4 DEF GapKind
    <3>2. "undelivered" \in gap'[t]
      BY <2>2, <2>4
    <3>3. GapsGrow
      BY <2>2, <3>1 DEF GapsGrow
    <3> QED BY <1>1, <2>4, <3>2, <3>3 DEF Informs
  <2> QED BY <2>1, <2>3, <2>4
<1>6. Aged(t) /\ Dated(t) /\ Live(t)
  BY OutOfDateAges, OutOfDateDates DEF Remove
<1> QED BY <1>3, <1>4, <1>5, <1>6

LEMMA UpsertWrote ==
  ASSUME TypeInv, NEW j \in Job, Upsert(j)
  PROVE  job[j].task \in Task /\ Wrote(job[j].task, job[j].stale)
<1>1. job[j].task \in Task
  BY DEF TypeInv, JobsOK, GoodJob, Upsert
<1>2. RowType /\ job[j].stale \in BOOLEAN
  BY DEF TypeInv, TypeOK, RowType, JobRecord
<1>3. Write(job[j].task, job[j].stale)
  BY DEF Upsert
<1> QED BY <1>1, <1>2, <1>3, WriteWrote

LEMMA SkippedNotes ==
  ASSUME TypeInv, NEW j \in Job, UpsertSkipped(j)
  PROVE  job[j].task \in Task /\ (UNCHANGED <<row, gap>> \/ Noted(job[j].task, "skipped"))
<1>1. job[j].task \in Task
  BY DEF TypeInv, JobsOK, GoodJob, UpsertSkipped
<1>2. RowType /\ "skipped" \in GapKind
  BY DEF TypeInv, TypeOK, RowType, GapKind
<1>3. UNCHANGED row /\ (UNCHANGED gap \/ gap' = PassedOver(job[j].task, "skipped"))
  BY DEF UpsertSkipped, copy
<1> QED BY <1>1, <1>2, <1>3, PassedNotes

(* The deletion's first statement, its second, and a write of hours.       *)
LEMMA DropClears ==
  ASSUME TypeInv, NEW j \in Job, Drop(j)
  PROVE  /\ job[j].task \in Task /\ Touches(job[j].task) /\ UNCHANGED row
         /\ entries' = entries \ {job[j].task}
         /\ gap'[job[j].task] = gap[job[j].task] \ {"late_hours"}
<1>1. job[j].task \in Task
  BY DEF TypeInv, JobsOK, GoodJob, Drop
<1>2. gap' = [gap EXCEPT ![job[j].task] = gap[job[j].task] \ {"late_hours"}]
  BY DEF Drop
<1>3. UNCHANGED row /\ entries' = entries \ {job[j].task}
  BY DEF Drop
<1> QED BY <1>1, <1>2, <1>3 DEF Touches, TypeInv, TypeOK

LEMMA TombstoneBuries ==
  ASSUME TypeInv, NEW j \in Job, Tombstone(j)
  PROVE  job[j].task \in Task /\ Buried(job[j].task)
<1>1. job[j].task \in Task
  BY DEF TypeInv, JobsOK, GoodJob, Tombstone
<1>2. RowType /\ Tombstoned(job[j].task)
  BY DEF TypeInv, TypeOK, RowType, Tombstone
<1> QED BY <1>1, <1>2, TombstonedBuries

(* Whether the task of the job has been dropped, or is being dropped.      *)
Dropped(t) == row[t] = "deleted" \/ \E k \in Job : job[k].task = t /\ job[k].pc = "tombstone"

LEMMA HoursWritten ==
  ASSUME TypeInv, NEW j \in Job, WriteHours(j)
  PROVE  /\ job[j].task \in Task /\ Touches(job[j].task) /\ UNCHANGED row
         /\ job[j].pc = "write_hours"
         /\ entries' \subseteq entries \cup {job[j].task}
         /\ gap[job[j].task] \subseteq gap'[job[j].task]
         /\ \/ job[j].task \notin entries'
            \/ Dropped(job[j].task) => "late_hours" \in gap'[job[j].task]
<1> DEFINE t == job[j].task
           g == IF job[j].hours /\ Dropped(t) THEN gap[t] \cup {"late_hours"} ELSE gap[t]
<1>1. t \in Task /\ job[j].pc = "write_hours"
  BY DEF TypeInv, JobsOK, GoodJob, WriteHours
<1>2. /\ entries' = IF job[j].hours THEN entries \cup {t} ELSE entries \ {t}
      /\ gap' = [gap EXCEPT ![t] = g] /\ UNCHANGED row
  BY DEF WriteHours, Dropped
<1>3. g \in SUBSET GapKind /\ gap[t] \subseteq g
  BY <1>1 DEF TypeInv, TypeOK, GapKind
<1>4. job[j].hours /\ Dropped(t) => "late_hours" \in g
  OBVIOUS
<1> HIDE DEF g, t
<1>5. Touches(t) /\ gap'[t] = g
  BY <1>1, <1>2, <1>3 DEF Touches, TypeInv, TypeOK
<1>6. job[j].hours \/ t \notin entries'
  BY <1>2
<1>7. entries' \subseteq entries \cup {t}
  BY <1>2
<1>8. t \notin entries' \/ (Dropped(t) => "late_hours" \in gap'[t])
  BY <1>4, <1>5, <1>6
<1> QED BY <1>1, <1>2, <1>3, <1>5, <1>7, <1>8 DEF t

LEMMA FailureNotes ==
  ASSUME TypeInv, NEW j \in Job, AttemptFails(j)
  PROVE  /\ job[j].task \in Task /\ Touches(job[j].task) /\ UNCHANGED row
         /\ gap[job[j].task] \subseteq gap'[job[j].task]
         /\ \/ Retries(j)
            \/ Ends(j) /\ (job[j].kind # "time" => "dead_letter" \in gap'[job[j].task])
<1>1. job[j].task \in Task /\ UNCHANGED row
  BY DEF TypeInv, JobsOK, GoodJob, AttemptFails, copy
<1>2. CASE Retries(j) /\ UNCHANGED gap
  BY <1>1, <1>2 DEF Touches, TypeInv, TypeOK
<1>3. CASE Ends(j) /\ job[j].kind = "time" /\ gap' = gap
  BY <1>1, <1>3 DEF Touches, TypeInv, TypeOK
<1>4. CASE Ends(j) /\ job[j].kind # "time"
           /\ gap' = [gap EXCEPT ![job[j].task] = gap[job[j].task] \cup {"dead_letter"}]
  BY <1>1, <1>4 DEF Touches, TypeInv, TypeOK, GapKind
<1> QED BY <1>2, <1>3, <1>4, FailMoves

-----------------------------------------------------------------------------
(* The type invariant.                                                     *)

LEMMA TouchesTypes ==
  ASSUME NEW t, Touches(t)
  PROVE  RowType'
BY DEF Touches, RowType

LEMMA RowsStep ==
  ASSUME TypeInv, Next
  PROVE  RowType'
<1>c. ASSUME UNCHANGED <<row, gap>> PROVE RowType'
  BY <1>c DEF TypeInv, TypeOK, RowType
<1>1. ASSUME NEW t \in Task, Change(t) PROVE RowType'
  BY <1>1, ChangeMoves DEF Ages, Informs, GapsGrow, RowType
<1>2. ASSUME NEW t \in Task, Remove(t) PROVE RowType'
  BY <1>2, RemoveMoves DEF Ages, Informs, GapsGrow, RowType
<1>3. ASSUME NEW t \in Task, Deliver(t) \/ AdminSync(t) PROVE RowType'
  BY <1>3, <1>c DEF Deliver, AdminSync, copy, history
<1>4. ASSUME NEW j \in Job, Take(j) \/ Fetch(j) \/ Exists(j) \/ Ensure(j) \/ FetchHours(j)
      PROVE  RowType'
  BY <1>4, <1>c DEF Take, Fetch, Exists, Ensure, FetchHours, copy, history
<1>5. ASSUME NEW j \in Job, Upsert(j) PROVE RowType'
  BY <1>5, UpsertWrote, TouchesTypes DEF Wrote
<1>6. ASSUME NEW j \in Job, UpsertSkipped(j) PROVE RowType'
  BY <1>6, <1>c, SkippedNotes, TouchesTypes DEF Noted
<1>7. ASSUME NEW j \in Job, Drop(j) PROVE RowType'
  BY <1>7, DropClears, TouchesTypes
<1>8. ASSUME NEW j \in Job, Tombstone(j) PROVE RowType'
  BY <1>8, TombstoneBuries, TouchesTypes DEF Buried
<1>9. ASSUME NEW j \in Job, WriteHours(j) PROVE RowType'
  BY <1>9, HoursWritten, TouchesTypes
<1>10. ASSUME NEW j \in Job, AttemptFails(j) PROVE RowType'
  BY <1>10, FailureNotes, TouchesTypes
<1>11. ASSUME NEW a \in Sweeper, BeginSweep(a) \/ SweepAdd(a) \/ SweepDies(a) PROVE RowType'
  BY <1>11, <1>c DEF BeginSweep, SweepAdd, SweepDies, copy, history
<1>12. ASSUME NEW r \in Requester, Ask(r) \/ AddBackfill(r) \/ RequestDies(r) PROVE RowType'
  BY <1>12, <1>c DEF Ask, AddBackfill, RequestDies, copy, history
<1>u. ASSUME ConnectBackfill \/ RetryBackfill PROVE RowType'
  BY <1>u, <1>c DEF ConnectBackfill, RetryBackfill, AddUnseen, copy
<1>13. ASSUME NEW b \in Backfill,
              TakeBackfill(b) \/ FetchPage(b) \/ QueueHours(b) \/ FindMissing(b)
       PROVE  RowType'
  BY <1>13, <1>c DEF TakeBackfill, FetchPage, QueueHours, FindMissing, copy, history
<1>14. ASSUME NEW b \in Backfill, FinishBackfill(b) \/ BackfillFails(b) PROVE RowType'
  BY <1>14, <1>c DEF FinishBackfill, BackfillFails, copy, history
<1>15. RowType /\ {"skipped", "unfetched"} \subseteq GapKind
  BY DEF TypeInv, TypeOK, RowType, GapKind
<1>16. ASSUME NEW b \in Backfill, StoreTask(b) PROVE RowType'
  <2>1. PICK t \in Task : \/ Write(t, t \notin backfill[b].fresh)
                          \/ gap' = PassedOver(t, "skipped") /\ UNCHANGED row
    BY <1>16, StoreTaskMoves
  <2> QED BY <1>15, <2>1, WriteWrote, PassedNotes, TouchesTypes DEF Wrote, Noted
<1>17. ASSUME NEW b \in Backfill, FetchParent(b) PROVE RowType'
  <2>1. PICK p \in Task : UNCHANGED gap \/ gap' = PassedOver(p, "unfetched")
    BY <1>17, FetchParentMoves
  <2>2. UNCHANGED row
    BY <1>17 DEF FetchParent, copy
  <2> QED BY <1>c, <1>15, <2>1, <2>2, PassedNotes, TouchesTypes DEF Noted
<1>18. ASSUME NEW b \in Backfill, StoreParent(b) PROVE RowType'
  <2>1. PICK p \in Task : \/ Write(p, p \notin backfill[b].fresh)
                          \/ gap' = PassedOver(p, "unfetched") /\ UNCHANGED row
    BY <1>18, StoreParentMoves
  <2> QED BY <1>15, <2>1, WriteWrote, PassedNotes, TouchesTypes DEF Wrote, Noted
<1> QED BY <1>1, <1>2, <1>3, <1>4, <1>5, <1>6, <1>7, <1>8, <1>9, <1>10, <1>11, <1>12, <1>13,
           <1>14, <1>16, <1>17, <1>18, <1>u DEF Next

(* What is left: ClickUp, the entries, the work owed and the counters.     *)
RestType ==
  /\ remote \in [Task -> {"unborn", "live", "gone"}]
  /\ recent \subseteq Task /\ tracked \subseteq Task
  /\ entries \subseteq Task
  /\ owed \in [Task -> SUBSET {"sync", "delete", "time"}]
  /\ asking \subseteq Requester
  /\ sweep \in [Sweeper -> SUBSET Task]
  /\ events \in 0..MaxEvents
  /\ slips \subseteq Slip

LEMMA EventTypes ==
  ASSUME TypeInv, Event
  PROVE  events' \in 0..MaxEvents
BY ConstantAssumption DEF TypeInv, TypeOK, Event

LEMMA RestStep ==
  ASSUME TypeInv, Next
  PROVE  RestType'
<1>0. RestType
  BY DEF TypeInv, TypeOK, RestType
<1>c. ASSUME UNCHANGED <<source, entries, owed, asking, sweep, slips>>,
             UNCHANGED events \/ Event
      PROVE  RestType'
  BY <1>0, <1>c, EventTypes DEF RestType, source
<1>1. ASSUME NEW t \in Task, Change(t) PROVE RestType'
  <2>1. events' \in 0..MaxEvents /\ UNCHANGED <<entries, asking, sweep, slips>>
    BY <1>1, EventTypes DEF Change
  <2>2. /\ remote' \in [Task -> {"unborn", "live", "gone"}]
        /\ owed' \in [Task -> SUBSET {"sync", "delete", "time"}]
    BY <1>1, ChangeMoves DEF Becomes, Informs
  <2>3. recent' = recent \cup {t} /\ tracked' \in {tracked, tracked \cup {t}}
    BY <1>1 DEF Change
  <2> QED BY <1>0, <2>1, <2>2, <2>3 DEF RestType
<1>2. ASSUME NEW t \in Task, Remove(t) PROVE RestType'
  <2>1. /\ events' \in 0..MaxEvents
        /\ UNCHANGED <<recent, entries, asking, sweep, slips>> /\ tracked' = tracked \ {t}
    BY <1>2, EventTypes DEF Remove
  <2>2. /\ remote' \in [Task -> {"unborn", "live", "gone"}]
        /\ owed' \in [Task -> SUBSET {"sync", "delete", "time"}]
    BY <1>2, RemoveMoves DEF Becomes, Informs
  <2> QED BY <1>0, <2>1, <2>2 DEF RestType
<1>3. ASSUME NEW t \in Task, Deliver(t) PROVE RestType'
  <2>1. PICK kind \in owed[t] : owed' = [owed EXCEPT ![t] = owed[t] \ {kind}]
    BY <1>3 DEF Deliver
  <2>2. owed' \in [Task -> SUBSET {"sync", "delete", "time"}]
    BY <1>0, <2>1 DEF RestType
  <2> QED BY <1>0, <1>3, <2>2 DEF Deliver, RestType, source, copy, history
<1>m. ASSUME NEW t \in Task, AdminSync(t) PROVE RestType'
  BY <1>m, <1>c DEF AdminSync, copy, history
<1>4. ASSUME NEW j \in Job, Take(j) \/ Fetch(j) \/ Exists(j) \/ Ensure(j) \/ FetchHours(j)
      PROVE  RestType'
  BY <1>4, <1>c DEF Take, Fetch, Exists, Ensure, FetchHours, copy, history
<1>5. ASSUME NEW j \in Job, Upsert(j) \/ UpsertSkipped(j) \/ Tombstone(j) PROVE RestType'
  BY <1>5, <1>c DEF Upsert, UpsertSkipped, Tombstone, copy
<1>6. ASSUME NEW j \in Job, Drop(j) PROVE RestType'
  <2>1. entries' \subseteq Task
    BY <1>0, <1>6, DropClears DEF RestType
  <2>2. UNCHANGED <<source, owed, asking, sweep, slips, events>>
    BY <1>6 DEF Drop
  <2> QED BY <1>0, <2>1, <2>2 DEF RestType, source
<1>7. ASSUME NEW j \in Job, WriteHours(j) PROVE RestType'
  <2>1. entries' \subseteq Task
    BY <1>0, <1>7, HoursWritten DEF RestType
  <2>2. UNCHANGED <<source, owed, asking, sweep, slips, events>>
    BY <1>7 DEF WriteHours
  <2> QED BY <1>0, <2>1, <2>2 DEF RestType, source
<1>8. ASSUME NEW j \in Job, AttemptFails(j) PROVE RestType'
  BY <1>8, <1>c DEF AttemptFails, copy
<1>9. ASSUME NEW a \in Sweeper, BeginSweep(a) PROVE RestType'
  <2>1. events' \in 0..MaxEvents /\ sweep' \in [Sweeper -> SUBSET Task]
    BY <1>0, <1>9, EventTypes DEF BeginSweep, RestType
  <2> QED BY <1>0, <1>9, <2>1 DEF BeginSweep, RestType, source, copy, history
<1>10. ASSUME NEW a \in Sweeper, SweepAdd(a) \/ SweepDies(a) PROVE RestType'
  <2>1. sweep' \in [Sweeper -> SUBSET Task]
    BY <1>0, <1>10 DEF SweepAdd, SweepDies, RestType
  <2> QED BY <1>0, <1>10, <2>1 DEF SweepAdd, SweepDies, RestType, source, copy, history
<1>11. ASSUME NEW r \in Requester, Ask(r) PROVE RestType'
  <2>1. slips' \subseteq Slip /\ asking' \subseteq Requester
    BY <1>0, <1>11 DEF Ask, RestType, Slip
  <2> QED BY <1>0, <1>11, <2>1 DEF Ask, RestType, source, copy
<1>12. ASSUME NEW r \in Requester, AddBackfill(r) \/ RequestDies(r) PROVE RestType'
  BY <1>0, <1>12 DEF AddBackfill, RequestDies, RestType, source, copy, history
<1>u. ASSUME ConnectBackfill \/ RetryBackfill PROVE RestType'
  BY <1>u, <1>0 DEF ConnectBackfill, RetryBackfill, AddUnseen, RestType, source, copy, Slip
<1>13. ASSUME NEW b \in Backfill,
              TakeBackfill(b) \/ FetchPage(b) \/ QueueHours(b) \/ FindMissing(b)
       PROVE  RestType'
  BY <1>13, <1>c DEF TakeBackfill, FetchPage, QueueHours, FindMissing, copy, history
<1>14. ASSUME NEW b \in Backfill,
              FinishBackfill(b) \/ BackfillFails(b) \/ StoreTask(b) \/ StoreParent(b)
       PROVE  RestType'
  BY <1>14, <1>c DEF FinishBackfill, BackfillFails, StoreTask, StoreParent, copy, history
<1>15. ASSUME NEW b \in Backfill, FetchParent(b) PROVE RestType'
  BY <1>15, <1>c DEF FetchParent, copy
<1> QED BY <1>1, <1>2, <1>3, <1>4, <1>5, <1>6, <1>7, <1>8, <1>9, <1>10, <1>11, <1>12, <1>13,
           <1>14, <1>15, <1>u, <1>m DEF Next

LEMMA InitType ==
  ASSUME Init
  PROVE  TypeInv
<1>1. job \in [Job -> JobRecord] /\ JobsOK
  BY FreeFacts DEF Init, JobsOK, GoodJob
<1>2. backfill \in [Backfill -> BackfillRecord] /\ BackfillsOK
  BY FreeBackfillFacts DEF Init, BackfillsOK, GoodBackfill
<1>3. gap \in [Task -> SUBSET GapKind]
  BY DEF Init, GapKind
<1>4. /\ remote \in [Task -> {"unborn", "live", "gone"}]
      /\ row \in [Task -> {"none", "fresh", "stale", "deleted"}]
  BY DEF Init
<1>5. /\ recent \subseteq Task /\ tracked \subseteq Task /\ entries \subseteq Task
      /\ asking \subseteq Requester /\ slips \subseteq Slip
  BY DEF Init
<1>6. /\ owed \in [Task -> SUBSET {"sync", "delete", "time"}]
      /\ sweep \in [Sweeper -> SUBSET Task]
  BY DEF Init
<1>7. events \in 0..MaxEvents
  BY ConstantAssumption DEF Init
<1> QED BY <1>1, <1>2, <1>3, <1>4, <1>5, <1>6, <1>7 DEF TypeInv, TypeOK

LEMMA TypeStep ==
  ASSUME TypeInv, [Next]_vars
  PROVE  TypeInv'
<1>1. CASE Next
  BY <1>1, JobsStep, BackfillsStep, RowsStep, RestStep DEF TypeInv, TypeOK, RowType, RestType
<1>2. CASE UNCHANGED vars
  BY <1>2 DEF vars, source, copy, queues, history, TypeInv, TypeOK, JobsOK, BackfillsOK
<1> QED BY <1>1, <1>2

LEMMA TypeHolds == Spec => []TypeInv
BY InitType, TypeStep, PTL DEF Spec

(* Every job, backfill, row and sweep has its type: a page number stays    *)
(* within the page cap, a job that waits or runs has attempts left and a   *)
(* task, and no step of the queues takes it out of its shape.              *)
THEOREM TypeCorrect == Spec => []TypeOK
<1>1. TypeInv => TypeOK
  BY DEF TypeInv
<1> QED BY <1>1, TypeHolds, PTL

-----------------------------------------------------------------------------
(* One backfill at a time.                                                 *)

BusyAt(b) == backfill[b].pc # "free"

OneInv ==
  slips = {} =>
    /\ \A b, c \in Backfill : BusyAt(b) /\ BusyAt(c) => b = c
    /\ \A r, s \in asking : r = s
    /\ asking # {} => \A b \in Backfill : ~BusyAt(b)

(* Only a request, a registration or a retried letter adds a backfill.     *)
LEMMA BusyStep ==
  ASSUME TypeInv, Next
  PROVE  \/ \A b \in Backfill : backfill'[b].pc # "free" => backfill[b].pc # "free"
         \/ \E r \in Requester : AddBackfill(r)
         \/ ConnectBackfill \/ RetryBackfill
<1> DEFINE Calm == \A b \in Backfill : backfill'[b].pc # "free" => backfill[b].pc # "free"
<1>c. ASSUME UNCHANGED backfill PROVE Calm
  BY <1>c
<1>s. ASSUME NEW b \in Backfill, Shifts(b), backfill[b].pc # "free" PROVE Calm
  BY <1>s DEF Shifts
<1>1. ASSUME NEW t \in Task, Change(t) \/ Remove(t) PROVE Calm
  <2>1. Dated(t)
    BY <1>1, OutOfDateDates DEF Change, Remove
  <2> QED BY <2>1 DEF Dated
<1>2. ASSUME NEW t \in Task, Deliver(t) \/ AdminSync(t) PROVE Calm
  BY <1>2, <1>c DEF Deliver, AdminSync
<1>3. ASSUME NEW j \in Job, Take(j) \/ Fetch(j) \/ Upsert(j) \/ UpsertSkipped(j) PROVE Calm
  BY <1>3, <1>c DEF Take, Fetch, Upsert, UpsertSkipped
<1>4. ASSUME NEW j \in Job, Exists(j) \/ Drop(j) \/ Tombstone(j) \/ Ensure(j) PROVE Calm
  BY <1>4, <1>c DEF Exists, Drop, Tombstone, Ensure
<1>5. ASSUME NEW j \in Job, FetchHours(j) \/ WriteHours(j) \/ AttemptFails(j) PROVE Calm
  BY <1>5, <1>c DEF FetchHours, WriteHours, AttemptFails
<1>6. ASSUME NEW a \in Sweeper, BeginSweep(a) \/ SweepAdd(a) \/ SweepDies(a) PROVE Calm
  BY <1>6, <1>c DEF BeginSweep, SweepAdd, SweepDies
<1>7. ASSUME NEW r \in Requester, Ask(r) \/ RequestDies(r) PROVE Calm
  BY <1>7, <1>c DEF Ask, RequestDies
<1>8. ASSUME NEW b \in Backfill, TakeBackfill(b) PROVE Calm
  BY <1>8, <1>s, TakeBlanks DEF Blank
<1>9. ASSUME NEW b \in Backfill, FinishBackfill(b) PROVE Calm
  BY <1>9, <1>s, FinishBackfillBlanks DEF Blank, FinishBackfill
<1>10. ASSUME NEW b \in Backfill, BackfillFails(b) PROVE Calm
  BY <1>10, <1>s, FailBlanks DEF Blank, BackfillFails
<1>11. ASSUME NEW b \in Backfill, FetchPage(b) PROVE Calm
  BY <1>11, <1>s, PageMoves DEF Paged
<1>12. ASSUME NEW b \in Backfill, StoreTask(b) PROVE Calm
  BY <1>12, <1>s, StoreTaskMoves DEF StoredOne
<1>13. ASSUME NEW b \in Backfill, QueueHours(b) PROVE Calm
  BY <1>13, <1>s, HoursAdds DEF QueuedOne
<1>14. ASSUME NEW b \in Backfill, FindMissing(b) PROVE Calm
  BY <1>14, <1>s, MissingMoves DEF Searched
<1>15. ASSUME NEW b \in Backfill, FetchParent(b) PROVE Calm
  BY <1>15, <1>s, FetchParentMoves DEF Fetched, Passed
<1>16. ASSUME NEW b \in Backfill, StoreParent(b) PROVE Calm
  BY <1>16, <1>s, StoreParentMoves DEF Passed
<1> HIDE DEF Calm
<1>17. Calm \/ (\E r \in Requester : AddBackfill(r)) \/ ConnectBackfill \/ RetryBackfill
  BY <1>1, <1>2, <1>3, <1>4, <1>5, <1>6, <1>7, <1>8, <1>9, <1>10, <1>11, <1>12, <1>13, <1>14,
     <1>15, <1>16 DEF Next
<1> QED BY <1>17 DEF Calm

LEMMA AskingStep ==
  ASSUME Next
  PROVE  \/ asking' \subseteq asking /\ slips' = slips
         \/ \E r \in Requester : Ask(r)
         \/ ConnectBackfill \/ RetryBackfill
<1> DEFINE Quiet == asking' \subseteq asking /\ slips' = slips
<1>1. ASSUME NEW t \in Task, Change(t) \/ Remove(t) \/ Deliver(t) \/ AdminSync(t) PROVE Quiet
  BY <1>1 DEF Change, Remove, Deliver, AdminSync, history
<1>2. ASSUME NEW j \in Job, Take(j) \/ Fetch(j) \/ Upsert(j) \/ UpsertSkipped(j) PROVE Quiet
  BY <1>2 DEF Take, Fetch, Upsert, UpsertSkipped, history
<1>3. ASSUME NEW j \in Job, Exists(j) \/ Drop(j) \/ Tombstone(j) \/ Ensure(j) PROVE Quiet
  BY <1>3 DEF Exists, Drop, Tombstone, Ensure, history
<1>4. ASSUME NEW j \in Job, FetchHours(j) \/ WriteHours(j) \/ AttemptFails(j) PROVE Quiet
  BY <1>4 DEF FetchHours, WriteHours, AttemptFails, history
<1>5. ASSUME NEW a \in Sweeper, BeginSweep(a) \/ SweepAdd(a) \/ SweepDies(a) PROVE Quiet
  BY <1>5 DEF BeginSweep, SweepAdd, SweepDies, history
<1>6. ASSUME NEW r \in Requester, AddBackfill(r) \/ RequestDies(r) PROVE Quiet
  BY <1>6 DEF AddBackfill, RequestDies, history
<1>7. ASSUME NEW b \in Backfill, TakeBackfill(b) \/ FetchPage(b) \/ StoreTask(b) PROVE Quiet
  BY <1>7 DEF TakeBackfill, FetchPage, StoreTask, history
<1>8. ASSUME NEW b \in Backfill, QueueHours(b) \/ FindMissing(b) \/ FetchParent(b) PROVE Quiet
  BY <1>8 DEF QueueHours, FindMissing, FetchParent, history
<1>9. ASSUME NEW b \in Backfill, StoreParent(b) \/ FinishBackfill(b) \/ BackfillFails(b)
      PROVE  Quiet
  BY <1>9 DEF StoreParent, FinishBackfill, BackfillFails, history
<1> HIDE DEF Quiet
<1>10. Quiet \/ (\E r \in Requester : Ask(r)) \/ ConnectBackfill \/ RetryBackfill
  BY <1>1, <1>2, <1>3, <1>4, <1>5, <1>6, <1>7, <1>8, <1>9 DEF Next
<1> QED BY <1>10 DEF Quiet

LEMMA OneStep ==
  ASSUME TypeInv, OneInv, [Next]_vars
  PROVE  OneInv'
<1>1. CASE UNCHANGED vars
  BY <1>1 DEF vars, queues, history, OneInv, BusyAt
<1>2. ASSUME NEW r \in Requester, Ask(r) PROVE OneInv'
  <2>1. /\ slips' = (IF asking = {} THEN slips ELSE slips \cup {"both_asked"})
        /\ asking' = asking \cup {r} /\ backfill' = backfill
    BY <1>2 DEF Ask
  <2>2. \A b \in Backfill : ~BusyAt(b)
    BY <1>2 DEF Ask, Busy, BusyAt
  <2>3. ASSUME slips' = {} PROVE asking' = {r} /\ \A b \in Backfill : backfill'[b].pc = "free"
    BY <2>1, <2>2, <2>3 DEF BusyAt
  <2> QED BY <2>3 DEF OneInv, BusyAt
<1>3. ASSUME NEW r \in Requester, AddBackfill(r) PROVE OneInv'
  <2>1. slips' = slips /\ asking' = asking \ {r} /\ r \in asking
    BY <1>3 DEF AddBackfill, history
  <2>2. PICK b \in Backfill : Shifts(b)
    BY <1>3, AddBlanks DEF Blank, AddBackfill
  <2>3. ASSUME slips' = {}
        PROVE  /\ \A c, d \in Backfill : backfill'[c].pc # "free" /\ backfill'[d].pc # "free" => c = d
               /\ asking' = {}
    <3>1. \A c \in Backfill : backfill[c].pc = "free"
      BY <2>1, <2>3 DEF OneInv, BusyAt
    <3>2. \A c \in Backfill : c # b => backfill'[c].pc = "free"
      BY <2>2, <3>1 DEF Shifts
    <3>3. \A s \in asking : s = r
      BY <2>1, <2>3 DEF OneInv
    <3> QED BY <2>1, <3>2, <3>3
  <2> QED BY <2>3 DEF OneInv, BusyAt
<1>u. ASSUME ConnectBackfill \/ RetryBackfill PROVE OneInv'
  <2>1. /\ QueueBackfill /\ asking' = asking
        /\ slips' = {} => ~Busy /\ asking = {}
    BY <1>u DEF ConnectBackfill, RetryBackfill, AddUnseen
  <2>2. PICK b \in Backfill : Shifts(b)
    BY <2>1, AddBlanks DEF Blank
  <2>3. ASSUME slips' = {}
        PROVE  /\ \A c, d \in Backfill : backfill'[c].pc # "free" /\ backfill'[d].pc # "free" => c = d
               /\ asking' = {}
    <3>1. \A c \in Backfill : backfill[c].pc = "free"
      BY <2>1, <2>3 DEF Busy
    <3>2. \A c \in Backfill : c # b => backfill'[c].pc = "free"
      BY <2>2, <3>1 DEF Shifts
    <3> QED BY <2>1, <2>3, <3>2
  <2> QED BY <2>3 DEF OneInv, BusyAt
<1>4. ASSUME asking' \subseteq asking, slips' = slips,
             \A b \in Backfill : backfill'[b].pc # "free" => backfill[b].pc # "free"
      PROVE  OneInv'
  BY <1>4 DEF OneInv, BusyAt
<1> QED BY <1>1, <1>2, <1>3, <1>4, <1>u, BusyStep, AskingStep

(* A space has one backfill at a time unless two requests looked at the    *)
(* queue before either had added to it, or one was added without a look    *)
(* while another was there or asked for: no retry of a job, crash or       *)
(* failed page starts a second one (reconcileRecentUpdates, backfill,      *)
(* registerWebhook, retryDeadLetter).                                      *)
THEOREM OneAtATime == Spec => []OneBackfill
<1>1. Init => OneInv
  BY DEF Init, OneInv, BusyAt, FreeBackfill
<1>2. TypeInv /\ OneInv /\ [Next]_vars => OneInv'
  BY OneStep
<1>3. OneInv => OneBackfill
  <2> SUFFICES ASSUME OneInv, slips = {}
               PROVE  Cardinality({b \in Backfill : backfill[b].pc # "free"}) <= 1
    BY DEF OneBackfill
  <2> DEFINE S == {b \in Backfill : backfill[b].pc # "free"}
  <2>1. \A b, c \in S : b = c
    BY DEF OneInv, BusyAt
  <2> HIDE DEF S
  <2>2. ASSUME S = {} PROVE Cardinality(S) <= 1
    BY <2>2, FS_EmptySet
  <2>3. ASSUME S # {} PROVE Cardinality(S) <= 1
    <3>1. PICK b \in S : TRUE
      BY <2>3
    <3>2. S = {b}
      BY <2>1, <3>1
    <3>3. Cardinality({b}) = 1
      BY FS_Singleton
    <3> QED BY <3>2, <3>3
  <2>4. Cardinality(S) <= 1
    BY <2>2, <2>3
  <2> QED BY <2>4 DEF S
<1> QED BY <1>1, <1>2, <1>3, TypeHolds, PTL DEF Spec

-----------------------------------------------------------------------------
(* Where what a task's jobs, rows, scans and debts hold comes from.        *)

LEMMA RemoteStep ==
  ASSUME TypeInv, Next
  PROVE  \/ remote' = remote
         \/ \E t \in Task : Change(t) /\ Becomes(t, "live") /\ remote[t] # "gone"
         \/ \E t \in Task : Remove(t) /\ Becomes(t, "gone")
<1>1. ASSUME NEW t \in Task, Change(t)
      PROVE  Becomes(t, "live") /\ remote[t] # "gone"
  BY <1>1, ChangeMoves DEF Change
<1>2. ASSUME NEW t \in Task, Remove(t)
      PROVE  Becomes(t, "gone")
  BY <1>2, RemoveMoves
<1>3. ASSUME NEW t \in Task, Deliver(t) \/ AdminSync(t) PROVE remote' = remote
  BY <1>3 DEF Deliver, AdminSync, source
<1>4. ASSUME NEW j \in Job, Take(j) \/ Fetch(j) \/ Upsert(j) \/ UpsertSkipped(j)
      PROVE  remote' = remote
  BY <1>4 DEF Take, Fetch, Upsert, UpsertSkipped, source
<1>5. ASSUME NEW j \in Job, Exists(j) \/ Drop(j) \/ Tombstone(j) \/ Ensure(j)
      PROVE  remote' = remote
  BY <1>5 DEF Exists, Drop, Tombstone, Ensure, source
<1>6. ASSUME NEW j \in Job, FetchHours(j) \/ WriteHours(j) \/ AttemptFails(j)
      PROVE  remote' = remote
  BY <1>6 DEF FetchHours, WriteHours, AttemptFails, source
<1>7. ASSUME NEW a \in Sweeper, BeginSweep(a) \/ SweepAdd(a) \/ SweepDies(a)
      PROVE  remote' = remote
  BY <1>7 DEF BeginSweep, SweepAdd, SweepDies, source
<1>8. ASSUME NEW r \in Requester, Ask(r) \/ AddBackfill(r) \/ RequestDies(r)
      PROVE  remote' = remote
  BY <1>8 DEF Ask, AddBackfill, RequestDies, source
<1>u. ASSUME ConnectBackfill \/ RetryBackfill PROVE remote' = remote
  BY <1>u DEF ConnectBackfill, RetryBackfill, AddUnseen, source
<1>9. ASSUME NEW b \in Backfill, TakeBackfill(b) \/ FetchPage(b) \/ StoreTask(b)
      PROVE  remote' = remote
  BY <1>9 DEF TakeBackfill, FetchPage, StoreTask, source
<1>10. ASSUME NEW b \in Backfill, QueueHours(b) \/ FindMissing(b) \/ FetchParent(b)
       PROVE  remote' = remote
  BY <1>10 DEF QueueHours, FindMissing, FetchParent, source
<1>11. ASSUME NEW b \in Backfill, StoreParent(b) \/ FinishBackfill(b) \/ BackfillFails(b)
       PROVE  remote' = remote
  BY <1>11 DEF StoreParent, FinishBackfill, BackfillFails, source
<1> QED BY <1>1, <1>2, <1>3, <1>4, <1>5, <1>6, <1>7, <1>8, <1>9, <1>10, <1>11, <1>u DEF Next

LEMMA RemoteKeeps ==
  ASSUME TypeInv, Next, NEW t \in Task
  PROVE  (Born(t) => remote'[t] # "unborn") /\ (Gone(t) => remote'[t] = "gone")
BY RemoteStep DEF Becomes, Born, Gone

LEMMA OwedOrigin ==
  ASSUME TypeInv, Next, NEW t \in Task, NEW kind \in owed'[t]
  PROVE  \/ kind \in owed[t]
         \/ kind \in {"sync", "time"} /\ Change(t)
         \/ kind = "delete" /\ Remove(t)
<1> DEFINE Goal == \/ kind \in owed[t]
                   \/ kind \in {"sync", "time"} /\ Change(t)
                   \/ kind = "delete" /\ Remove(t)
<1>c. ASSUME UNCHANGED owed PROVE Goal
  BY <1>c
<1>1. ASSUME NEW u \in Task, Change(u) PROVE Goal
  BY <1>1, ChangeMoves DEF Informs
<1>2. ASSUME NEW u \in Task, Remove(u) PROVE Goal
  BY <1>2, RemoveMoves DEF Informs
<1>3. ASSUME NEW u \in Task, Deliver(u) PROVE Goal
  <2>1. PICK k \in owed[u] : owed' = [owed EXCEPT ![u] = owed[u] \ {k}]
    BY <1>3 DEF Deliver
  <2> QED BY <2>1 DEF TypeInv, TypeOK
<1>m. ASSUME NEW u \in Task, AdminSync(u) PROVE Goal
  BY <1>m, <1>c DEF AdminSync
<1>4. ASSUME NEW j \in Job, Take(j) \/ Fetch(j) \/ Upsert(j) \/ UpsertSkipped(j) PROVE Goal
  BY <1>4, <1>c DEF Take, Fetch, Upsert, UpsertSkipped
<1>5. ASSUME NEW j \in Job, Exists(j) \/ Drop(j) \/ Tombstone(j) \/ Ensure(j) PROVE Goal
  BY <1>5, <1>c DEF Exists, Drop, Tombstone, Ensure
<1>6. ASSUME NEW j \in Job, FetchHours(j) \/ WriteHours(j) \/ AttemptFails(j) PROVE Goal
  BY <1>6, <1>c DEF FetchHours, WriteHours, AttemptFails
<1>7. ASSUME NEW a \in Sweeper, BeginSweep(a) \/ SweepAdd(a) \/ SweepDies(a) PROVE Goal
  BY <1>7, <1>c DEF BeginSweep, SweepAdd, SweepDies
<1>8. ASSUME NEW r \in Requester, Ask(r) \/ AddBackfill(r) \/ RequestDies(r) PROVE Goal
  BY <1>8, <1>c DEF Ask, AddBackfill, RequestDies
<1>u. ASSUME ConnectBackfill \/ RetryBackfill PROVE Goal
  BY <1>u, <1>c DEF ConnectBackfill, RetryBackfill, AddUnseen
<1>9. ASSUME NEW b \in Backfill, TakeBackfill(b) \/ FetchPage(b) \/ StoreTask(b) PROVE Goal
  BY <1>9, <1>c DEF TakeBackfill, FetchPage, StoreTask
<1>10. ASSUME NEW b \in Backfill, QueueHours(b) \/ FindMissing(b) \/ FetchParent(b) PROVE Goal
  BY <1>10, <1>c DEF QueueHours, FindMissing, FetchParent
<1>11. ASSUME NEW b \in Backfill, StoreParent(b) \/ FinishBackfill(b) \/ BackfillFails(b)
       PROVE  Goal
  BY <1>11, <1>c DEF StoreParent, FinishBackfill, BackfillFails
<1> HIDE DEF Goal
<1>12. Goal
  BY <1>1, <1>2, <1>3, <1>4, <1>5, <1>6, <1>7, <1>8, <1>9, <1>10, <1>11, <1>u, <1>m DEF Next
<1> QED BY <1>12 DEF Goal

LEMMA SweepOrigin ==
  ASSUME TypeInv, Next, NEW a \in Sweeper, NEW t \in sweep'[a]
  PROVE  t \in sweep[a] \/ (t \in Task /\ Stored(t))
<1> DEFINE Goal == t \in sweep[a] \/ (t \in Task /\ Stored(t))
<1>0. sweep \in [Sweeper -> SUBSET Task]
  BY DEF TypeInv, TypeOK
<1>c. ASSUME UNCHANGED sweep PROVE Goal
  BY <1>c
<1>1. ASSUME NEW u \in Task, Change(u) \/ Remove(u) \/ Deliver(u) \/ AdminSync(u) PROVE Goal
  BY <1>1, <1>c DEF Change, Remove, Deliver, AdminSync
<1>2. ASSUME NEW j \in Job, Take(j) \/ Fetch(j) \/ Upsert(j) \/ UpsertSkipped(j) PROVE Goal
  BY <1>2, <1>c DEF Take, Fetch, Upsert, UpsertSkipped
<1>3. ASSUME NEW j \in Job, Exists(j) \/ Drop(j) \/ Tombstone(j) \/ Ensure(j) PROVE Goal
  BY <1>3, <1>c DEF Exists, Drop, Tombstone, Ensure
<1>4. ASSUME NEW j \in Job, FetchHours(j) \/ WriteHours(j) \/ AttemptFails(j) PROVE Goal
  BY <1>4, <1>c DEF FetchHours, WriteHours, AttemptFails
<1>5. ASSUME NEW s \in Sweeper, BeginSweep(s) PROVE Goal
  <2>1. sweep' = [sweep EXCEPT ![s] = {u \in Task : Stored(u)}]
    BY <1>5 DEF BeginSweep
  <2> QED BY <1>0, <2>1
<1>6. ASSUME NEW s \in Sweeper, SweepAdd(s) \/ SweepDies(s) PROVE Goal
  BY <1>0, <1>6 DEF SweepAdd, SweepDies
<1>7. ASSUME NEW r \in Requester, Ask(r) \/ AddBackfill(r) \/ RequestDies(r) PROVE Goal
  BY <1>7, <1>c DEF Ask, AddBackfill, RequestDies
<1>u. ASSUME ConnectBackfill \/ RetryBackfill PROVE Goal
  BY <1>u, <1>c DEF ConnectBackfill, RetryBackfill, AddUnseen
<1>8. ASSUME NEW b \in Backfill, TakeBackfill(b) \/ FetchPage(b) \/ StoreTask(b) PROVE Goal
  BY <1>8, <1>c DEF TakeBackfill, FetchPage, StoreTask
<1>9. ASSUME NEW b \in Backfill, QueueHours(b) \/ FindMissing(b) \/ FetchParent(b) PROVE Goal
  BY <1>9, <1>c DEF QueueHours, FindMissing, FetchParent
<1>10. ASSUME NEW b \in Backfill, StoreParent(b) \/ FinishBackfill(b) \/ BackfillFails(b)
       PROVE  Goal
  BY <1>10, <1>c DEF StoreParent, FinishBackfill, BackfillFails
<1> HIDE DEF Goal
<1>11. Goal
  BY <1>1, <1>2, <1>3, <1>4, <1>5, <1>6, <1>7, <1>8, <1>9, <1>10, <1>u DEF Next
<1> QED BY <1>11 DEF Goal

(* A job goes on with its task, was owed by the webhook pipeline, a sweep  *)
(* or a backfill, or was asked for.                                        *)
Continues(j) ==
  job[j].pc # "free" /\ job'[j].task = job[j].task /\ job'[j].kind = job[j].kind

ComesFrom(j) ==
  \/ job'[j].pc = "free"
  \/ Continues(j)
  \/ \E t \in Task : \E kind \in owed[t] : job'[j] = NewJob(kind, t)
  \/ \E a \in Sweeper : \E t \in sweep[a] : job'[j] = NewJob("reconcile", t)
  \/ \E b \in Backfill : \E t \in backfill[b].queue : job'[j] = NewJob("time", t)
  \/ \E t \in Task : \E kind \in {"sync", "time"} : Born(t) /\ job'[j] = NewJob(kind, t)

LEMMA SlotOrigin ==
  ASSUME TypeInv, NEW j \in Job, NEW k \in Job, Moved(k), ComesFrom(k)
  PROVE  ComesFrom(j)
<1>1. CASE j = k
  BY <1>1
<1>2. CASE j # k
  BY <1>2 DEF Moved, ComesFrom, Continues
<1> QED BY <1>1, <1>2

LEMMA JobOrigin ==
  ASSUME TypeInv, Next, NEW j \in Job
  PROVE  ComesFrom(j)
<1>c. ASSUME UNCHANGED job PROVE ComesFrom(j)
  BY <1>c DEF ComesFrom, Continues
<1>e. ASSUME NEW k \in Job, Ends(k) PROVE ComesFrom(j)
  BY <1>e, SlotOrigin, FreeFacts DEF Ends, ComesFrom
<1>g. ASSUME NEW k \in Job, NEW pc, GoesOn(k, pc), job[k].pc # "free" PROVE ComesFrom(j)
  <2>1. Moved(k) /\ ComesFrom(k)
    BY <1>g DEF GoesOn, ComesFrom, Continues
  <2> QED BY <2>1, SlotOrigin
<1>1. ASSUME NEW u \in Task, Change(u) \/ Remove(u) PROVE ComesFrom(j)
  BY <1>1, OutOfDateAges DEF Change, Remove, Aged, ComesFrom, Continues
<1>2. ASSUME NEW u \in Task, Deliver(u) PROVE ComesFrom(j)
  <2>1. PICK kind \in owed[u], k \in Job : Added(k, kind, u)
    BY <1>2, DeliverAdds
  <2> QED BY <2>1, SlotOrigin DEF Added, ComesFrom
<1>m. ASSUME NEW u \in Task, AdminSync(u) PROVE ComesFrom(j)
  <2>1. Born(u) /\ \E kind \in {"sync", "time"}, k \in Job : Added(k, kind, u)
    BY <1>m, AdminAdds
  <2>2. PICK kind \in {"sync", "time"}, k \in Job : Added(k, kind, u)
    BY <2>1
  <2> QED BY <2>1, <2>2, SlotOrigin DEF Added, ComesFrom
<1>3. ASSUME NEW k \in Job, Take(k) PROVE ComesFrom(j)
  BY <1>3, <1>g, TakeMoves
<1>4. ASSUME NEW k \in Job, Fetch(k) PROVE ComesFrom(j)
  BY <1>4, <1>g, FetchMoves DEF Fetch
<1>5. ASSUME NEW k \in Job, Upsert(k) PROVE ComesFrom(j)
  BY <1>5, <1>e, <1>g, UpsertMoves DEF Upsert
<1>6. ASSUME NEW k \in Job, UpsertSkipped(k) PROVE ComesFrom(j)
  BY <1>6, <1>g, SkippedMoves DEF UpsertSkipped
<1>7. ASSUME NEW k \in Job, Exists(k) PROVE ComesFrom(j)
  BY <1>7, <1>e, <1>g, ExistsMoves DEF Exists
<1>8. ASSUME NEW k \in Job, Drop(k) PROVE ComesFrom(j)
  BY <1>8, <1>g, SimpleMoves DEF Drop
<1>9. ASSUME NEW k \in Job, Tombstone(k) \/ WriteHours(k) PROVE ComesFrom(j)
  BY <1>9, <1>e, SimpleMoves
<1>10. ASSUME NEW k \in Job, Ensure(k) PROVE ComesFrom(j)
  BY <1>10, <1>g, SimpleMoves DEF Ensure
<1>11. ASSUME NEW k \in Job, FetchHours(k) PROVE ComesFrom(j)
  BY <1>11, <1>g, FetchHoursMoves DEF FetchHours
<1>12. ASSUME NEW k \in Job, AttemptFails(k) PROVE ComesFrom(j)
  <2>1. CASE Retries(k)
    BY <1>12, <2>1, SlotOrigin DEF AttemptFails, Retries, ComesFrom, Continues
  <2> QED BY <1>12, <1>e, <2>1, FailMoves
<1>13. ASSUME NEW a \in Sweeper, SweepAdd(a) PROVE ComesFrom(j)
  <2>1. PICK u \in sweep[a], k \in Job : Added(k, "reconcile", u)
    BY <1>13, SweepAdds
  <2> QED BY <2>1, SlotOrigin DEF Added, ComesFrom
<1>14. ASSUME NEW a \in Sweeper, BeginSweep(a) \/ SweepDies(a) PROVE ComesFrom(j)
  BY <1>14, <1>c DEF BeginSweep, SweepDies
<1>15. ASSUME NEW r \in Requester, Ask(r) \/ AddBackfill(r) \/ RequestDies(r)
       PROVE  ComesFrom(j)
  BY <1>15, <1>c DEF Ask, AddBackfill, RequestDies
<1>u. ASSUME ConnectBackfill \/ RetryBackfill PROVE ComesFrom(j)
  BY <1>u, <1>c DEF ConnectBackfill, RetryBackfill, AddUnseen
<1>16. ASSUME NEW b \in Backfill, QueueHours(b) PROVE ComesFrom(j)
  <2>1. PICK u \in backfill[b].queue, k \in Job : Added(k, "time", u)
    BY <1>16, HoursAdds
  <2> QED BY <2>1, SlotOrigin DEF Added, ComesFrom
<1>17. ASSUME NEW b \in Backfill,
              TakeBackfill(b) \/ FetchPage(b) \/ StoreTask(b) \/ FindMissing(b)
       PROVE  ComesFrom(j)
  BY <1>17, <1>c DEF TakeBackfill, FetchPage, StoreTask, FindMissing
<1>18. ASSUME NEW b \in Backfill,
              FetchParent(b) \/ StoreParent(b) \/ FinishBackfill(b) \/ BackfillFails(b)
       PROVE  ComesFrom(j)
  BY <1>18, <1>c DEF FetchParent, StoreParent, FinishBackfill, BackfillFails
<1> QED BY <1>1, <1>2, <1>3, <1>4, <1>5, <1>6, <1>7, <1>8, <1>9, <1>10, <1>11, <1>12, <1>13,
           <1>14, <1>15, <1>16, <1>17, <1>18, <1>u, <1>m DEF Next

(* A backfill holds what it held, or what ClickUp has now.                 *)
HoldsFrom(b) ==
  /\ \A t \in backfill'[b].queue : t \in backfill[b].queue \/ (t \in Task /\ Live(t))
  /\ backfill'[b].pc = "store" =>
       \A t \in backfill'[b].batch :
         (backfill[b].pc = "store" /\ t \in backfill[b].batch) \/ (t \in Task /\ Live(t))
  /\ \A t \in backfill'[b].fresh : t \in backfill[b].fresh \/ (t \in Task /\ Live(t))

LEMMA ScanOrigin ==
  ASSUME TypeInv, NEW b \in Backfill, NEW c \in Backfill, Shifts(c), HoldsFrom(c)
  PROVE  HoldsFrom(b)
<1>1. CASE b = c
  BY <1>1
<1>2. CASE b # c
  <2>1. backfill'[b] = backfill[b]
    BY <1>2 DEF Shifts
  <2> QED BY <2>1 DEF HoldsFrom
<1> QED BY <1>1, <1>2

LEMMA BlankHolds ==
  ASSUME NEW b \in Backfill, NEW pc, Blank(b, pc)
  PROVE  Shifts(b) /\ HoldsFrom(b)
BY DEF Blank, HoldsFrom

LEMMA HoldOrigin ==
  ASSUME TypeInv, Next, NEW b \in Backfill
  PROVE  HoldsFrom(b)
<1>c. ASSUME UNCHANGED backfill PROVE HoldsFrom(b)
  BY <1>c DEF HoldsFrom
<1>1. ASSUME NEW t \in Task, Change(t) \/ Remove(t) PROVE HoldsFrom(b)
  <2>1. Dated(t)
    BY <1>1, OutOfDateDates DEF Change, Remove
  <2> QED BY <2>1 DEF Dated, HoldsFrom
<1>2. ASSUME NEW t \in Task, Deliver(t) \/ AdminSync(t) PROVE HoldsFrom(b)
  BY <1>2, <1>c DEF Deliver, AdminSync
<1>3. ASSUME NEW j \in Job, Take(j) \/ Fetch(j) \/ Upsert(j) \/ UpsertSkipped(j)
      PROVE  HoldsFrom(b)
  BY <1>3, <1>c DEF Take, Fetch, Upsert, UpsertSkipped
<1>4. ASSUME NEW j \in Job, Exists(j) \/ Drop(j) \/ Tombstone(j) \/ Ensure(j)
      PROVE  HoldsFrom(b)
  BY <1>4, <1>c DEF Exists, Drop, Tombstone, Ensure
<1>5. ASSUME NEW j \in Job, FetchHours(j) \/ WriteHours(j) \/ AttemptFails(j)
      PROVE  HoldsFrom(b)
  BY <1>5, <1>c DEF FetchHours, WriteHours, AttemptFails
<1>6. ASSUME NEW a \in Sweeper, BeginSweep(a) \/ SweepAdd(a) \/ SweepDies(a)
      PROVE  HoldsFrom(b)
  BY <1>6, <1>c DEF BeginSweep, SweepAdd, SweepDies
<1>7. ASSUME NEW r \in Requester, Ask(r) \/ RequestDies(r) PROVE HoldsFrom(b)
  BY <1>7, <1>c DEF Ask, RequestDies
<1>8. ASSUME NEW r \in Requester, AddBackfill(r) PROVE HoldsFrom(b)
  BY <1>8, AddBlanks, BlankHolds, ScanOrigin DEF AddBackfill
<1>u. ASSUME ConnectBackfill \/ RetryBackfill PROVE HoldsFrom(b)
  BY <1>u, AddBlanks, BlankHolds, ScanOrigin DEF ConnectBackfill, RetryBackfill, AddUnseen
<1>9. ASSUME NEW c \in Backfill, TakeBackfill(c) PROVE HoldsFrom(b)
  BY <1>9, TakeBlanks, BlankHolds, ScanOrigin
<1>10. ASSUME NEW c \in Backfill, FinishBackfill(c) PROVE HoldsFrom(b)
  BY <1>10, FinishBackfillBlanks, BlankHolds, ScanOrigin
<1>11. ASSUME NEW c \in Backfill, BackfillFails(c) PROVE HoldsFrom(b)
  BY <1>11, FailBlanks, BlankHolds, ScanOrigin
<1>12. ASSUME NEW c \in Backfill, FetchPage(c) PROVE HoldsFrom(b)
  <2>1. PICK new \in SUBSET Task : Paged(c, new)
    BY <1>12, PageMoves
  <2>2. \A t \in new : t \in Task /\ Live(t)
    BY <2>1 DEF Paged, Listed
  <2>3. Shifts(c) /\ HoldsFrom(c)
    BY <2>1, <2>2 DEF Paged, HoldsFrom
  <2> QED BY <2>3, ScanOrigin
<1>13. ASSUME NEW c \in Backfill, StoreTask(c) PROVE HoldsFrom(b)
  <2>1. backfill[c].pc = "store" /\ \E t : StoredOne(c, t)
    BY <1>13, StoreTaskMoves
  <2>2. Shifts(c) /\ HoldsFrom(c)
    BY <2>1 DEF StoredOne, HoldsFrom
  <2> QED BY <2>2, ScanOrigin
<1>14. ASSUME NEW c \in Backfill, QueueHours(c) PROVE HoldsFrom(b)
  <2>1. backfill[c].pc = "queue" /\ \E t : QueuedOne(c, t)
    BY <1>14, HoursAdds
  <2>2. Shifts(c) /\ HoldsFrom(c)
    BY <2>1 DEF QueuedOne, HoldsFrom, AfterBatch
  <2> QED BY <2>2, ScanOrigin
<1>15. ASSUME NEW c \in Backfill, FindMissing(c) PROVE HoldsFrom(b)
  <2>1. Shifts(c) /\ HoldsFrom(c)
    BY <1>15, MissingMoves DEF Searched, HoldsFrom
  <2> QED BY <2>1, ScanOrigin
<1>16. ASSUME NEW c \in Backfill, FetchParent(c) PROVE HoldsFrom(b)
  <2>1. PICK p \in Task : (Live(p) /\ Fetched(c, p)) \/ Passed(c, p)
    BY <1>16, FetchParentMoves
  <2>2. Shifts(c) /\ HoldsFrom(c)
    BY <2>1 DEF Fetched, Passed, HoldsFrom
  <2> QED BY <2>2, ScanOrigin
<1>17. ASSUME NEW c \in Backfill, StoreParent(c) PROVE HoldsFrom(b)
  <2>1. PICK p : Passed(c, p)
    BY <1>17, StoreParentMoves
  <2>2. Shifts(c) /\ HoldsFrom(c)
    BY <2>1 DEF Passed, HoldsFrom
  <2> QED BY <2>2, ScanOrigin
<1> QED BY <1>1, <1>2, <1>3, <1>4, <1>5, <1>6, <1>7, <1>8, <1>9, <1>10, <1>11, <1>12, <1>13,
           <1>14, <1>15, <1>16, <1>17, <1>u DEF Next

(* A row stays, grows old, is tombstoned by a job, or is written by a job  *)
(* or a backfill that holds a copy.                                        *)
WrittenByJob(t) == \E j \in Job : Upsert(j) /\ job[j].task = t /\ Wrote(t, job[j].stale)
WrittenByScan(t) ==
  \E b \in Backfill :
    /\ \/ backfill[b].pc = "store" /\ t \in backfill[b].batch
       \/ backfill[b].pc = "store_parent" /\ t \in backfill[b].queue
    /\ Wrote(t, t \notin backfill[b].fresh)
DroppedByJob(t) == \E j \in Job : Drop(j) /\ job[j].task = t
BuriedByJob(t) == \E j \in Job : Tombstone(j) /\ job[j].task = t /\ Buried(t)

RowFrom(t) ==
  \/ row'[t] = row[t] /\ gap[t] \subseteq gap'[t]
  \/ row'[t] = row[t] /\ DroppedByJob(t) /\ gap[t] \ {"late_hours"} \subseteq gap'[t]
  \/ /\ Change(t) \/ Remove(t)
     /\ row[t] = "fresh" /\ row'[t] = "stale" /\ gap[t] \subseteq gap'[t]
  \/ BuriedByJob(t) \/ WrittenByJob(t) \/ WrittenByScan(t)

LEMMA OtherRow ==
  ASSUME NEW t \in Task, NEW u \in Task, Touches(u), RowFrom(u)
  PROVE  RowFrom(t)
<1>1. CASE t = u
  BY <1>1
<1>2. CASE t # u
  BY <1>2 DEF Touches, RowFrom
<1> QED BY <1>1, <1>2

LEMMA NotedRow ==
  ASSUME NEW u, NEW kind, Noted(u, kind)
  PROVE  Touches(u) /\ RowFrom(u)
BY DEF Noted, RowFrom

LEMMA RowOrigin ==
  ASSUME TypeInv, Next, NEW t \in Task
  PROVE  RowFrom(t)
<1>0. RowType /\ {"skipped", "unfetched"} \subseteq GapKind
  BY DEF TypeInv, TypeOK, RowType, GapKind
<1>c. ASSUME UNCHANGED <<row, gap>> PROVE RowFrom(t)
  BY <1>c DEF RowFrom
<1>1. ASSUME NEW u \in Task, Change(u) \/ Remove(u) PROVE RowFrom(t)
  <2>1. Ages(u) /\ GapsGrow
    BY <1>1, ChangeMoves, RemoveMoves DEF Informs
  <2>2. row'[t] = row[t] \/ (t = u /\ row[t] = "fresh" /\ row'[t] = "stale")
    BY <2>1 DEF Ages
  <2> QED BY <1>1, <2>1, <2>2 DEF GapsGrow, RowFrom
<1>2. ASSUME NEW u \in Task, Deliver(u) \/ AdminSync(u) PROVE RowFrom(t)
  BY <1>2, <1>c DEF Deliver, AdminSync, copy, history
<1>3. ASSUME NEW j \in Job, Take(j) \/ Fetch(j) \/ Exists(j) \/ Ensure(j) \/ FetchHours(j)
      PROVE  RowFrom(t)
  BY <1>3, <1>c DEF Take, Fetch, Exists, Ensure, FetchHours, copy, history
<1>4. ASSUME NEW j \in Job, Upsert(j) PROVE RowFrom(t)
  <2>1. job[j].task \in Task /\ Wrote(job[j].task, job[j].stale)
    BY <1>4, UpsertWrote
  <2>2. RowFrom(job[j].task)
    BY <1>4, <2>1 DEF RowFrom, WrittenByJob
  <2> QED BY <2>1, <2>2, OtherRow DEF Wrote
<1>5. ASSUME NEW j \in Job, UpsertSkipped(j) PROVE RowFrom(t)
  BY <1>5, <1>c, SkippedNotes, NotedRow, OtherRow
<1>6. ASSUME NEW j \in Job, Drop(j) PROVE RowFrom(t)
  <2>1. job[j].task \in Task /\ Touches(job[j].task)
    BY <1>6, DropClears
  <2>2. RowFrom(job[j].task)
    BY <1>6, DropClears DEF RowFrom, DroppedByJob
  <2> QED BY <2>1, <2>2, OtherRow
<1>7. ASSUME NEW j \in Job, Tombstone(j) PROVE RowFrom(t)
  <2>1. job[j].task \in Task /\ Buried(job[j].task)
    BY <1>7, TombstoneBuries
  <2>2. RowFrom(job[j].task)
    BY <1>7, <2>1 DEF RowFrom, BuriedByJob
  <2> QED BY <2>1, <2>2, OtherRow DEF Buried
<1>8. ASSUME NEW j \in Job, WriteHours(j) PROVE RowFrom(t)
  <2>1. job[j].task \in Task /\ Touches(job[j].task)
    BY <1>8, HoursWritten
  <2>2. RowFrom(job[j].task)
    BY <1>8, HoursWritten DEF RowFrom
  <2> QED BY <2>1, <2>2, OtherRow
<1>9. ASSUME NEW j \in Job, AttemptFails(j) PROVE RowFrom(t)
  <2>1. job[j].task \in Task /\ Touches(job[j].task)
    BY <1>9, FailureNotes
  <2>2. RowFrom(job[j].task)
    BY <1>9, FailureNotes DEF RowFrom
  <2> QED BY <2>1, <2>2, OtherRow
<1>10. ASSUME NEW a \in Sweeper, BeginSweep(a) \/ SweepAdd(a) \/ SweepDies(a) PROVE RowFrom(t)
  BY <1>10, <1>c DEF BeginSweep, SweepAdd, SweepDies, copy, history
<1>11. ASSUME NEW r \in Requester, Ask(r) \/ AddBackfill(r) \/ RequestDies(r) PROVE RowFrom(t)
  BY <1>11, <1>c DEF Ask, AddBackfill, RequestDies, copy, history
<1>u. ASSUME ConnectBackfill \/ RetryBackfill PROVE RowFrom(t)
  BY <1>u, <1>c DEF ConnectBackfill, RetryBackfill, AddUnseen, copy
<1>12. ASSUME NEW b \in Backfill,
              TakeBackfill(b) \/ FetchPage(b) \/ QueueHours(b) \/ FindMissing(b)
       PROVE  RowFrom(t)
  BY <1>12, <1>c DEF TakeBackfill, FetchPage, QueueHours, FindMissing, copy, history
<1>13. ASSUME NEW b \in Backfill, FinishBackfill(b) \/ BackfillFails(b) PROVE RowFrom(t)
  BY <1>13, <1>c DEF FinishBackfill, BackfillFails, copy, history
<1>14. ASSUME NEW b \in Backfill, StoreTask(b) PROVE RowFrom(t)
  <2>1. PICK u \in backfill[b].batch :
          /\ u \in Task
          /\ \/ Write(u, u \notin backfill[b].fresh)
             \/ gap' = PassedOver(u, "skipped") /\ UNCHANGED row
    BY <1>14, StoreTaskMoves
  <2>2. CASE Write(u, u \notin backfill[b].fresh)
    <3>1. Wrote(u, u \notin backfill[b].fresh)
      BY <1>0, <2>1, <2>2, WriteWrote
    <3>2. backfill[b].pc = "store"
      BY <1>14 DEF StoreTask
    <3>3. RowFrom(u)
      BY <2>1, <3>1, <3>2 DEF RowFrom, WrittenByScan
    <3> QED BY <2>1, <3>1, <3>3, OtherRow DEF Wrote
  <2>3. CASE gap' = PassedOver(u, "skipped") /\ UNCHANGED row
    BY <1>0, <2>1, <2>3, PassedNotes, NotedRow, OtherRow
  <2> QED BY <2>1, <2>2, <2>3
<1>15. ASSUME NEW b \in Backfill, FetchParent(b) PROVE RowFrom(t)
  <2>1. PICK p \in Task : UNCHANGED gap \/ gap' = PassedOver(p, "unfetched")
    BY <1>15, FetchParentMoves
  <2>2. UNCHANGED row
    BY <1>15 DEF FetchParent, copy
  <2> QED BY <1>c, <1>0, <2>1, <2>2, PassedNotes, NotedRow, OtherRow
<1>16. ASSUME NEW b \in Backfill, StoreParent(b) PROVE RowFrom(t)
  <2>1. PICK u \in backfill[b].queue :
          /\ u \in Task
          /\ \/ Write(u, u \notin backfill[b].fresh)
             \/ gap' = PassedOver(u, "unfetched") /\ UNCHANGED row
    BY <1>16, StoreParentMoves
  <2>2. CASE Write(u, u \notin backfill[b].fresh)
    <3>1. Wrote(u, u \notin backfill[b].fresh)
      BY <1>0, <2>1, <2>2, WriteWrote
    <3>2. backfill[b].pc = "store_parent"
      BY <1>16 DEF StoreParent
    <3>3. RowFrom(u)
      BY <2>1, <3>1, <3>2 DEF RowFrom, WrittenByScan
    <3> QED BY <2>1, <3>1, <3>3, OtherRow DEF Wrote
  <2>3. CASE gap' = PassedOver(u, "unfetched") /\ UNCHANGED row
    BY <1>0, <2>1, <2>3, PassedNotes, NotedRow, OtherRow
  <2> QED BY <2>1, <2>2, <2>3
<1> QED BY <1>1, <1>2, <1>3, <1>4, <1>5, <1>6, <1>7, <1>8, <1>9, <1>10, <1>11, <1>12, <1>13,
           <1>14, <1>15, <1>16, <1>u DEF Next

-----------------------------------------------------------------------------
(* Only tasks ClickUp has had are stored, queued, owed or held.            *)

KnownInv ==
  /\ \A t \in Task : owed[t] # {} => Born(t)
  /\ \A t \in Task : row[t] # "none" => Born(t)
  /\ \A j \in Job : job[j].pc # "free" => Born(job[j].task)
  /\ \A b \in Backfill : \A t \in backfill[b].queue : Born(t)
  /\ \A b \in Backfill : backfill[b].pc = "store" => \A t \in backfill[b].batch : Born(t)
  /\ \A a \in Sweeper : \A t \in sweep[a] : Born(t)

LEMMA InitKnown ==
  ASSUME Init
  PROVE  KnownInv
BY FreeFacts, FreeBackfillFacts DEF Init, KnownInv, Born

LEMMA KnownStep ==
  ASSUME TypeInv, KnownInv, Next
  PROVE  KnownInv'
<1>0. \A t \in Task : Born(t) => remote'[t] # "unborn"
  BY RemoteKeeps
<1>1. ASSUME NEW t \in Task, owed'[t] # {} PROVE remote'[t] # "unborn"
  <2>1. PICK kind \in owed'[t] : TRUE
    BY <1>1
  <2>2. CASE kind \in owed[t]
    BY <1>0, <2>2 DEF KnownInv
  <2>3. CASE Change(t) \/ Remove(t)
    BY <2>3, ChangeMoves, RemoveMoves DEF Becomes
  <2> QED BY <2>1, <2>2, <2>3, OwedOrigin
<1>2. ASSUME NEW t \in Task, row'[t] # "none" PROVE remote'[t] # "unborn"
  <2>1. CASE row[t] # "none"
    BY <1>0, <2>1 DEF KnownInv
  <2>2. CASE BuriedByJob(t) \/ WrittenByJob(t)
    BY <1>0, <2>2 DEF KnownInv, BuriedByJob, WrittenByJob, Tombstone, Upsert
  <2>3. CASE WrittenByScan(t)
    BY <1>0, <2>3 DEF KnownInv, WrittenByScan
  <2> QED BY <1>2, <2>1, <2>2, <2>3, RowOrigin DEF RowFrom
<1>3. ASSUME NEW j \in Job, job'[j].pc # "free" PROVE remote'[job'[j].task] # "unborn"
  <2>1. ComesFrom(j)
    BY JobOrigin
  <2>2. CASE Continues(j)
    BY <1>0, <2>2 DEF Continues, KnownInv, TypeInv, JobsOK, GoodJob
  <2>3. ASSUME NEW t \in Task, NEW kind, job'[j] = NewJob(kind, t), Born(t)
        PROVE  remote'[job'[j].task] # "unborn"
    BY <1>0, <2>3 DEF NewJob
  <2>4. CASE \E t \in Task : \E kind \in owed[t] : job'[j] = NewJob(kind, t)
    BY <2>3, <2>4 DEF KnownInv
  <2>5. CASE \E a \in Sweeper : \E t \in sweep[a] : job'[j] = NewJob("reconcile", t)
    BY <2>3, <2>5 DEF KnownInv, TypeInv, TypeOK
  <2>6. CASE \E b \in Backfill : \E t \in backfill[b].queue : job'[j] = NewJob("time", t)
    <3>1. PICK b \in Backfill : \E t \in backfill[b].queue : job'[j] = NewJob("time", t)
      BY <2>6
    <3>2. PICK t \in backfill[b].queue : job'[j] = NewJob("time", t)
      BY <3>1
    <3>3. t \in Task /\ Born(t)
      BY <3>2 DEF KnownInv, TypeInv, TypeOK, BackfillRecord
    <3> QED BY <2>3, <3>2, <3>3
  <2>7. CASE \E t \in Task : \E kind \in {"sync", "time"} : Born(t) /\ job'[j] = NewJob(kind, t)
    BY <2>3, <2>7
  <2> QED BY <1>3, <2>1, <2>2, <2>4, <2>5, <2>6, <2>7 DEF ComesFrom
<1>4. ASSUME NEW b \in Backfill, NEW t \in backfill'[b].queue PROVE remote'[t] # "unborn"
  <2>1. t \in backfill[b].queue \/ (t \in Task /\ Live(t))
    BY HoldOrigin DEF HoldsFrom
  <2>2. t \in Task /\ Born(t)
    BY <2>1 DEF KnownInv, TypeInv, TypeOK, BackfillRecord, Live, Born
  <2> QED BY <1>0, <2>2
<1>5. ASSUME NEW b \in Backfill, backfill'[b].pc = "store", NEW t \in backfill'[b].batch
      PROVE  remote'[t] # "unborn"
  <2>1. (backfill[b].pc = "store" /\ t \in backfill[b].batch) \/ (t \in Task /\ Live(t))
    BY <1>5, HoldOrigin DEF HoldsFrom
  <2>2. t \in Task /\ Born(t)
    BY <2>1 DEF KnownInv, TypeInv, TypeOK, BackfillRecord, Live, Born
  <2> QED BY <1>0, <2>2
<1>6. ASSUME NEW a \in Sweeper, NEW t \in sweep'[a] PROVE remote'[t] # "unborn"
  <2>1. t \in sweep[a] \/ (t \in Task /\ Stored(t))
    BY SweepOrigin
  <2>2. t \in Task /\ Born(t)
    BY <2>1 DEF KnownInv, TypeInv, TypeOK, Stored
  <2> QED BY <1>0, <2>2
<1> QED BY <1>1, <1>2, <1>3, <1>4, <1>5, <1>6 DEF KnownInv, Born

LEMMA KnownHolds == Spec => []KnownInv
<1>1. TypeInv /\ KnownInv /\ [Next]_vars => KnownInv'
  <2>1. ASSUME KnownInv, UNCHANGED vars PROVE KnownInv'
    BY <2>1 DEF vars, source, copy, queues, KnownInv, Born
  <2> QED BY <2>1, KnownStep
<1> QED BY <1>1, InitKnown, TypeHolds, PTL DEF Spec

-----------------------------------------------------------------------------
(* Only a task that is gone is on its way to a tombstone.                  *)

Departing(q) ==
  \/ q.pc # "free" /\ q.kind = "delete"
  \/ q.pc \in {"drop", "tombstone"}
  \/ q.pc = "exists" /\ q.kind = "sync"

GoneInv ==
  /\ \A t \in Task : "delete" \in owed[t] => Gone(t)
  /\ \A t \in Task : row[t] = "deleted" => Gone(t)
  /\ \A j \in Job : Departing(job[j]) => Gone(job[j].task)

DepartsFrom(j) ==
  \/ ~Departing(job'[j])
  \/ /\ job[j].pc # "free" /\ job'[j].task = job[j].task
     /\ Departing(job[j]) \/ Gone(job[j].task)
  \/ \E t \in Task : "delete" \in owed[t] /\ job'[j].task = t

LEMMA OtherDeparts ==
  ASSUME TypeInv, NEW j \in Job, NEW k \in Job, Moved(k), DepartsFrom(k)
  PROVE  DepartsFrom(j)
<1>1. CASE j = k
  BY <1>1
<1>2. CASE j # k
  <2>1. job'[j] = job[j] /\ job[j].kind \in Kind
    BY <1>2 DEF Moved, TypeInv, TypeOK, JobRecord
  <2>2. job[j].pc # "free" \/ ~Departing(job[j])
    BY DEF Departing
  <2> QED BY <2>1, <2>2 DEF DepartsFrom
<1> QED BY <1>1, <1>2

LEMMA DepartOrigin ==
  ASSUME TypeInv, KnownInv, Next, NEW j \in Job
  PROVE  DepartsFrom(j)
<1>c. ASSUME UNCHANGED job PROVE DepartsFrom(j)
  BY <1>c DEF DepartsFrom, Departing
<1>e. ASSUME NEW k \in Job, Ends(k) PROVE DepartsFrom(j)
  <2>1. ~Departing(job'[k])
    BY <1>e, FreeFacts DEF Ends, Departing
  <2> QED BY <1>e, <2>1, OtherDeparts DEF Ends, DepartsFrom
<1>a. ASSUME NEW k \in Job, NEW t \in Task, NEW kind \in Kind, Added(k, kind, t), kind # "delete"
      PROVE  DepartsFrom(j)
  <2>1. ~Departing(job'[k])
    BY <1>a, NewFacts DEF Added, Departing
  <2> QED BY <1>a, <2>1, OtherDeparts DEF Added, DepartsFrom
<1>g. ASSUME NEW k \in Job, NEW pc, GoesOn(k, pc), job[k].pc # "free",
             \/ Departing(job[k]) \/ Gone(job[k].task)
             \/ pc \notin {"drop", "tombstone", "exists"} /\ job[k].kind # "delete"
             \/ pc = "exists" /\ job[k].kind = "time"
      PROVE  DepartsFrom(j)
  <2>1. Moved(k) /\ DepartsFrom(k)
    BY <1>g DEF GoesOn, DepartsFrom, Departing
  <2> QED BY <2>1, OtherDeparts
<1>1. ASSUME NEW u \in Task, Change(u) \/ Remove(u) PROVE DepartsFrom(j)
  <2>1. Aged(u)
    BY <1>1, OutOfDateAges DEF Change, Remove
  <2> QED BY <2>1 DEF Aged, DepartsFrom, Departing
<1>2. ASSUME NEW u \in Task, Deliver(u) PROVE DepartsFrom(j)
  <2>1. PICK kind \in owed[u], k \in Job : kind \in Kind /\ Added(k, kind, u)
    BY <1>2, DeliverAdds
  <2>2. CASE kind # "delete"
    BY <1>a, <2>1, <2>2
  <2>3. CASE kind = "delete"
    <3>1. DepartsFrom(k)
      BY <2>1, <2>3, NewFacts DEF Added, DepartsFrom
    <3> QED BY <2>1, <3>1, OtherDeparts DEF Added
  <2> QED BY <2>2, <2>3
<1>m. ASSUME NEW u \in Task, AdminSync(u) PROVE DepartsFrom(j)
  <2>1. PICK kind \in {"sync", "time"}, k \in Job : kind \in Kind /\ Added(k, kind, u)
    BY <1>m, AdminAdds
  <2> QED BY <1>a, <2>1
<1>3. ASSUME NEW k \in Job, Take(k) PROVE DepartsFrom(j)
  <2>1. /\ GoesOn(k, FirstStep(job[k].kind)) /\ job[k].pc = "waiting"
        /\ \/ job[k].kind = "delete" /\ FirstStep(job[k].kind) = "drop"
           \/ job[k].kind = "time" /\ FirstStep(job[k].kind) = "ensure"
           \/ job[k].kind \in {"sync", "reconcile"} /\ FirstStep(job[k].kind) = "fetch"
    BY <1>3, TakeMoves
  <2> QED BY <1>g, <2>1 DEF Departing
<1>4. ASSUME NEW k \in Job, Fetch(k) PROVE DepartsFrom(j)
  <2>1. job[k].pc = "fetch" /\ job[k].kind # "delete" /\ job[k].task \in Task
    BY <1>4 DEF Fetch, TypeInv, JobsOK, GoodJob
  <2>2. CASE GoesOn(k, "upsert")
    BY <1>g, <2>1, <2>2
  <2>3. CASE GoesOn(k, AfterGone(job[k].kind)) /\ TakenForGone(job[k])
    <3>1. Born(job[k].task)
      BY <2>1 DEF KnownInv
    <3>2. Gone(job[k].task) \/ job[k].kind = "time"
      BY <2>1, <2>3, <3>1 DEF TakenForGone, Live, Gone, Born, TypeInv, TypeOK
    <3>3. job[k].kind = "time" => AfterGone(job[k].kind) = "exists"
      BY DEF AfterGone
    <3> QED BY <1>g, <2>1, <2>3, <3>2, <3>3
  <2> QED BY <1>4, <2>2, <2>3, FetchMoves
<1>5. ASSUME NEW k \in Job, Upsert(k) PROVE DepartsFrom(j)
  BY <1>5, <1>e, <1>g, UpsertMoves DEF Upsert
<1>6. ASSUME NEW k \in Job, UpsertSkipped(k) PROVE DepartsFrom(j)
  BY <1>6, <1>g, SkippedMoves DEF UpsertSkipped
<1>7. ASSUME NEW k \in Job, Exists(k) PROVE DepartsFrom(j)
  <2>1. job[k].pc = "exists"
    BY <1>7 DEF Exists
  <2>2. CASE Ends(k)
    BY <1>e, <2>2
  <2>3. CASE job[k].kind = "sync" /\ GoesOn(k, "drop")
    BY <1>g, <2>1, <2>3 DEF Departing
  <2>4. CASE job[k].kind = "time" /\ GoesOn(k, "fetch_hours")
    BY <1>g, <2>1, <2>4
  <2> QED BY <1>7, <2>2, <2>3, <2>4, ExistsMoves
<1>8. ASSUME NEW k \in Job, Drop(k) PROVE DepartsFrom(j)
  BY <1>8, <1>g, SimpleMoves DEF Drop, Departing
<1>9. ASSUME NEW k \in Job, Tombstone(k) \/ WriteHours(k) PROVE DepartsFrom(j)
  BY <1>9, <1>e, SimpleMoves
<1>10. ASSUME NEW k \in Job, Ensure(k) PROVE DepartsFrom(j)
  <2>1. job[k].pc = "ensure" /\ job[k].kind # "delete"
    BY <1>10 DEF Ensure, TypeInv, JobsOK, GoodJob
  <2> QED BY <1>10, <1>g, <2>1, SimpleMoves
<1>11. ASSUME NEW k \in Job, FetchHours(k) PROVE DepartsFrom(j)
  <2>1. job[k].pc = "fetch_hours" /\ job[k].kind # "delete"
    BY <1>11 DEF FetchHours, TypeInv, JobsOK, GoodJob
  <2> QED BY <1>11, <1>g, <2>1, FetchHoursMoves
<1>12. ASSUME NEW k \in Job, AttemptFails(k) PROVE DepartsFrom(j)
  <2>1. CASE Retries(k)
    <3>1. Moved(k) /\ DepartsFrom(k)
      BY <1>12, <2>1 DEF AttemptFails, Retries, DepartsFrom, Departing
    <3> QED BY <3>1, OtherDeparts
  <2> QED BY <1>12, <1>e, <2>1, FailMoves
<1>13. ASSUME NEW a \in Sweeper, SweepAdd(a) PROVE DepartsFrom(j)
  <2>1. PICK u \in sweep[a], k \in Job : u \in Task /\ Added(k, "reconcile", u)
    BY <1>13, SweepAdds
  <2> QED BY <1>a, <2>1 DEF Kind
<1>14. ASSUME NEW a \in Sweeper, BeginSweep(a) \/ SweepDies(a) PROVE DepartsFrom(j)
  BY <1>14, <1>c DEF BeginSweep, SweepDies
<1>15. ASSUME NEW r \in Requester, Ask(r) \/ AddBackfill(r) \/ RequestDies(r)
       PROVE  DepartsFrom(j)
  BY <1>15, <1>c DEF Ask, AddBackfill, RequestDies
<1>u. ASSUME ConnectBackfill \/ RetryBackfill PROVE DepartsFrom(j)
  BY <1>u, <1>c DEF ConnectBackfill, RetryBackfill, AddUnseen
<1>16. ASSUME NEW b \in Backfill, QueueHours(b) PROVE DepartsFrom(j)
  <2>1. PICK u \in backfill[b].queue, k \in Job : u \in Task /\ Added(k, "time", u)
    BY <1>16, HoursAdds
  <2> QED BY <1>a, <2>1 DEF Kind
<1>17. ASSUME NEW b \in Backfill,
              TakeBackfill(b) \/ FetchPage(b) \/ StoreTask(b) \/ FindMissing(b)
       PROVE  DepartsFrom(j)
  BY <1>17, <1>c DEF TakeBackfill, FetchPage, StoreTask, FindMissing
<1>18. ASSUME NEW b \in Backfill,
              FetchParent(b) \/ StoreParent(b) \/ FinishBackfill(b) \/ BackfillFails(b)
       PROVE  DepartsFrom(j)
  BY <1>18, <1>c DEF FetchParent, StoreParent, FinishBackfill, BackfillFails
<1> QED BY <1>1, <1>2, <1>3, <1>4, <1>5, <1>6, <1>7, <1>8, <1>9, <1>10, <1>11, <1>12, <1>13,
           <1>14, <1>15, <1>16, <1>17, <1>18, <1>u, <1>m DEF Next

LEMMA GoneStep ==
  ASSUME TypeInv, KnownInv, GoneInv, Next
  PROVE  GoneInv'
<1>0. \A t \in Task : Gone(t) => remote'[t] = "gone"
  BY RemoteKeeps
<1>1. ASSUME NEW t \in Task, "delete" \in owed'[t] PROVE remote'[t] = "gone"
  <2>1. CASE "delete" \in owed[t]
    BY <1>0, <2>1 DEF GoneInv
  <2>2. CASE Remove(t)
    BY <2>2, RemoveMoves DEF Becomes
  <2> QED BY <1>1, <2>1, <2>2, OwedOrigin
<1>2. ASSUME NEW t \in Task, row'[t] = "deleted" PROVE remote'[t] = "gone"
  <2>1. CASE row[t] = "deleted"
    BY <1>0, <2>1 DEF GoneInv
  <2>2. CASE BuriedByJob(t)
    BY <1>0, <2>2 DEF GoneInv, BuriedByJob, Tombstone, Departing
  <2>3. ~WrittenByJob(t) /\ ~WrittenByScan(t)
    BY <1>2 DEF WrittenByJob, WrittenByScan, Wrote
  <2> QED BY <1>2, <2>1, <2>2, <2>3, RowOrigin DEF RowFrom
<1>3. ASSUME NEW j \in Job, Departing(job'[j]) PROVE remote'[job'[j].task] = "gone"
  <2>1. DepartsFrom(j)
    BY DepartOrigin
  <2>2. CASE \E t \in Task : "delete" \in owed[t] /\ job'[j].task = t
    BY <1>0, <2>2 DEF GoneInv
  <2>3. CASE /\ job[j].pc # "free" /\ job'[j].task = job[j].task
             /\ Departing(job[j]) \/ Gone(job[j].task)
    BY <1>0, <2>3 DEF GoneInv, TypeInv, JobsOK, GoodJob
  <2> QED BY <1>3, <2>1, <2>2, <2>3 DEF DepartsFrom
<1> QED BY <1>1, <1>2, <1>3 DEF GoneInv, Gone

LEMMA GoneHolds == Spec => []GoneInv
<1>1. Init => GoneInv
  BY FreeFacts DEF Init, GoneInv, Gone, Departing
<1>2. TypeInv /\ KnownInv /\ GoneInv /\ [Next]_vars => GoneInv'
  <2>1. ASSUME GoneInv, UNCHANGED vars PROVE GoneInv'
    BY <2>1 DEF vars, source, copy, queues, GoneInv, Gone
  <2> QED BY <2>1, GoneStep
<1> QED BY <1>1, <1>2, TypeHolds, KnownHolds, PTL DEF Spec

(* No task that ClickUp still has is ever tombstoned, whatever calls fail  *)
(* and whatever is done to it at once (TaskSyncProcessor: only a 404 means *)
(* the task is gone).                                                      *)
THEOREM TombstonesTrue == Spec => []TombstoneTrue
<1>1. GoneInv => TombstoneTrue
  BY DEF GoneInv, TombstoneTrue, Gone
<1> QED BY <1>1, GoneHolds, PTL

-----------------------------------------------------------------------------
(* What becomes of a job in a step.                                        *)

HoursPC == {"fetch_hours", "write_hours"}

(* It goes on with its task, and stands where the code may take it.        *)
GoesWell(j) ==
  /\ Continues(j)
  /\ job'[j].pc = "tombstone" => job[j].pc = "tombstone" \/ Drop(j)
  /\ job'[j].pc \in HoursPC => job[j].pc \in HoursPC \/ row[job[j].task] # "none"
  /\ job'[j].pc = "upsert" =>
       \/ Live(job[j].task) /\ remote' = remote /\ job'[j].stale = FALSE
       \/ job[j].pc = "upsert" /\ job'[j].stale = job[j].stale
       \/ Change(job[j].task) \/ Remove(job[j].task)

(* It ends, by one of the steps that end a job.                            *)
EndsWell(j) ==
  /\ job'[j].pc = "free"
  /\ \/ Upsert(j) /\ job[j].kind = "sync"
     \/ Exists(j) /\ row[job[j].task] = "none"
     \/ Tombstone(j)
     \/ WriteHours(j)
     \/ AttemptFails(j)

Fate(j) ==
  \/ job[j].pc = "free" /\ job'[j].pc \in {"free", "waiting"}
  \/ GoesWell(j)
  \/ EndsWell(j)

LEMMA StaysFate ==
  ASSUME NEW j \in Job, job'[j] = job[j]
  PROVE  Fate(j)
BY DEF Fate, GoesWell, Continues

LEMMA OtherFate ==
  ASSUME NEW j \in Job, NEW k \in Job, Moved(k), Fate(k)
  PROVE  Fate(j)
<1>1. CASE j = k
  BY <1>1
<1>2. CASE j # k
  BY <1>2, StaysFate DEF Moved
<1> QED BY <1>1, <1>2

LEMMA EndsFate ==
  ASSUME NEW j \in Job, NEW k \in Job, Ends(k),
         \/ Upsert(k) /\ job[k].kind = "sync"
         \/ Exists(k) /\ row[job[k].task] = "none"
         \/ Tombstone(k) \/ WriteHours(k) \/ AttemptFails(k)
  PROVE  Fate(j)
<1>1. Moved(k) /\ Fate(k)
  BY FreeFacts DEF Ends, Fate, EndsWell
<1> QED BY <1>1, OtherFate

LEMMA AddedFate ==
  ASSUME NEW j \in Job, NEW k \in Job, NEW kind \in Kind, NEW t \in Task, Added(k, kind, t)
  PROVE  Fate(j)
<1>1. Moved(k) /\ Fate(k)
  BY NewFacts DEF Added, Fate
<1> QED BY <1>1, OtherFate

LEMMA GoesOnFate ==
  ASSUME NEW j \in Job, NEW k \in Job, NEW pc, GoesOn(k, pc), job[k].pc # "free",
         pc = "tombstone" => Drop(k),
         pc \in HoursPC => job[k].pc \in HoursPC \/ row[job[k].task] # "none",
         pc # "upsert"
  PROVE  Fate(j)
<1>1. Moved(k) /\ Fate(k)
  BY DEF GoesOn, Fate, GoesWell, Continues
<1> QED BY <1>1, OtherFate

LEMMA JobFate ==
  ASSUME TypeInv, Next, NEW j \in Job
  PROVE  Fate(j)
<1>c. ASSUME UNCHANGED job PROVE Fate(j)
  BY <1>c, StaysFate
<1>1. ASSUME NEW u \in Task, Change(u) \/ Remove(u) PROVE Fate(j)
  <2>1. Aged(u)
    BY <1>1, OutOfDateAges DEF Change, Remove
  <2>2. CASE job[j].pc = "free"
    BY <2>1, <2>2 DEF Aged, Fate
  <2>3. CASE job[j].pc # "free" /\ job[j].task = u
    BY <1>1, <2>1, <2>3 DEF Aged, Fate, GoesWell, Continues, HoursPC
  <2>4. CASE job[j].pc # "free" /\ job[j].task # u
    <3>1. job'[j].stale = job[j].stale
      BY <2>1, <2>4 DEF Aged, TypeInv, TypeOK, JobRecord
    <3> QED BY <2>1, <2>4, <3>1 DEF Aged, Fate, GoesWell, Continues, HoursPC
  <2> QED BY <2>2, <2>3, <2>4
<1>2. ASSUME NEW u \in Task, Deliver(u) PROVE Fate(j)
  BY <1>2, DeliverAdds, AddedFate
<1>m. ASSUME NEW u \in Task, AdminSync(u) PROVE Fate(j)
  BY <1>m, AdminAdds, AddedFate
<1>3. ASSUME NEW k \in Job, Take(k) PROVE Fate(j)
  <2>1. /\ GoesOn(k, FirstStep(job[k].kind)) /\ job[k].pc = "waiting"
        /\ FirstStep(job[k].kind) \in {"drop", "ensure", "fetch"}
    BY <1>3, TakeMoves
  <2> QED BY <2>1, GoesOnFate DEF HoursPC
<1>4. ASSUME NEW k \in Job, Fetch(k) PROVE Fate(j)
  <2>1. job[k].pc = "fetch" /\ remote' = remote
    BY <1>4 DEF Fetch, source
  <2>2. CASE GoesOn(k, "upsert") /\ Live(job[k].task) /\ job'[k].stale = FALSE
    <3>1. Moved(k) /\ Fate(k)
      BY <2>1, <2>2 DEF GoesOn, Fate, GoesWell, Continues, HoursPC
    <3> QED BY <3>1, OtherFate
  <2>3. CASE GoesOn(k, AfterGone(job[k].kind))
    BY <2>1, <2>3, GoesOnFate DEF AfterGone, HoursPC
  <2> QED BY <1>4, <2>2, <2>3, FetchMoves
<1>5. ASSUME NEW k \in Job, Upsert(k) PROVE Fate(j)
  <2>1. job[k].pc = "upsert"
    BY <1>5 DEF Upsert
  <2> QED BY <1>5, <2>1, UpsertMoves, EndsFate, GoesOnFate DEF HoursPC
<1>6. ASSUME NEW k \in Job, UpsertSkipped(k) PROVE Fate(j)
  <2>1. job[k].pc = "upsert"
    BY <1>6 DEF UpsertSkipped
  <2> QED BY <1>6, <2>1, SkippedMoves, GoesOnFate DEF HoursPC
<1>7. ASSUME NEW k \in Job, Exists(k) PROVE Fate(j)
  <2>1. job[k].pc = "exists"
    BY <1>7 DEF Exists
  <2>2. CASE row[job[k].task] = "none" /\ Ends(k)
    BY <1>7, <2>2, EndsFate
  <2>3. CASE row[job[k].task] # "none" /\ GoesOn(k, "drop")
    BY <2>1, <2>3, GoesOnFate DEF HoursPC
  <2>4. CASE row[job[k].task] # "none" /\ GoesOn(k, "fetch_hours")
    BY <2>1, <2>4, GoesOnFate DEF HoursPC
  <2> QED BY <1>7, <2>2, <2>3, <2>4, ExistsMoves
<1>8. ASSUME NEW k \in Job, Drop(k) PROVE Fate(j)
  <2>1. job[k].pc = "drop"
    BY <1>8 DEF Drop
  <2> QED BY <1>8, <2>1, SimpleMoves, GoesOnFate DEF HoursPC
<1>9. ASSUME NEW k \in Job, Tombstone(k) \/ WriteHours(k) PROVE Fate(j)
  BY <1>9, SimpleMoves, EndsFate
<1>10. ASSUME NEW k \in Job, Ensure(k) PROVE Fate(j)
  <2>1. job[k].pc = "ensure"
    BY <1>10 DEF Ensure
  <2> QED BY <1>10, <2>1, SimpleMoves, GoesOnFate DEF HoursPC
<1>11. ASSUME NEW k \in Job, FetchHours(k) PROVE Fate(j)
  <2>1. job[k].pc = "fetch_hours"
    BY <1>11 DEF FetchHours
  <2> QED BY <1>11, <2>1, FetchHoursMoves, GoesOnFate DEF HoursPC
<1>12. ASSUME NEW k \in Job, AttemptFails(k) PROVE Fate(j)
  <2>1. CASE Retries(k)
    <3>1. Moved(k) /\ Fate(k)
      BY <1>12, <2>1 DEF AttemptFails, Retries, Fate, GoesWell, Continues, HoursPC
    <3> QED BY <3>1, OtherFate
  <2> QED BY <1>12, <2>1, FailMoves, EndsFate
<1>13. ASSUME NEW a \in Sweeper, SweepAdd(a) PROVE Fate(j)
  BY <1>13, SweepAdds, AddedFate DEF Kind
<1>14. ASSUME NEW a \in Sweeper, BeginSweep(a) \/ SweepDies(a) PROVE Fate(j)
  BY <1>14, <1>c DEF BeginSweep, SweepDies
<1>15. ASSUME NEW r \in Requester, Ask(r) \/ AddBackfill(r) \/ RequestDies(r) PROVE Fate(j)
  BY <1>15, <1>c DEF Ask, AddBackfill, RequestDies
<1>u. ASSUME ConnectBackfill \/ RetryBackfill PROVE Fate(j)
  BY <1>u, <1>c DEF ConnectBackfill, RetryBackfill, AddUnseen
<1>16. ASSUME NEW b \in Backfill, QueueHours(b) PROVE Fate(j)
  <2>1. PICK u \in backfill[b].queue, k \in Job : u \in Task /\ Added(k, "time", u)
    BY <1>16, HoursAdds
  <2> QED BY <2>1, AddedFate DEF Kind
<1>17. ASSUME NEW b \in Backfill,
              TakeBackfill(b) \/ FetchPage(b) \/ StoreTask(b) \/ FindMissing(b)
       PROVE  Fate(j)
  BY <1>17, <1>c DEF TakeBackfill, FetchPage, StoreTask, FindMissing
<1>18. ASSUME NEW b \in Backfill,
              FetchParent(b) \/ StoreParent(b) \/ FinishBackfill(b) \/ BackfillFails(b)
       PROVE  Fate(j)
  BY <1>18, <1>c DEF FetchParent, StoreParent, FinishBackfill, BackfillFails
<1> QED BY <1>1, <1>2, <1>3, <1>4, <1>5, <1>6, <1>7, <1>8, <1>9, <1>10, <1>11, <1>12, <1>13,
           <1>14, <1>15, <1>16, <1>17, <1>18, <1>u, <1>m DEF Next

-----------------------------------------------------------------------------
(* Tracked time is stored under a row and goes with the task.              *)

HoursInv ==
  /\ \A j \in Job : job[j].pc \in HoursPC => row[job[j].task] # "none"
  /\ \A t \in entries : row[t] # "none"
  /\ \A t \in entries : Dropped(t) => "late_hours" \in gap[t]

LEMMA RowStays ==
  ASSUME TypeInv, Next, NEW t \in Task, row[t] # "none"
  PROVE  row'[t] # "none"
BY RowOrigin DEF RowFrom, BuriedByJob, WrittenByJob, WrittenByScan, Buried, Wrote, DroppedByJob

LEMMA LateStays ==
  ASSUME TypeInv, Next, NEW t \in Task, "late_hours" \in gap[t]
  PROVE  "late_hours" \in gap'[t] \/ \E j \in Job : Drop(j) /\ job[j].task = t
<1>1. row[t] \in {"none", "fresh", "stale", "deleted"}
  BY DEF TypeInv, TypeOK
<1>2. \A stale : Wrote(t, stale) => "late_hours" \in gap'[t]
  BY <1>1 DEF Wrote
<1>3. Buried(t) => "late_hours" \in gap'[t]
  BY DEF Buried
<1> QED BY <1>2, <1>3, RowOrigin DEF RowFrom, BuriedByJob, WrittenByJob, WrittenByScan, DroppedByJob

LEMMA DropOrigin ==
  ASSUME TypeInv, Next, NEW t \in Task,
         row'[t] = "deleted" \/ \E k \in Job : job'[k].task = t /\ job'[k].pc = "tombstone"
  PROVE  Dropped(t) \/ \E j \in Job : Drop(j) /\ job[j].task = t
<1>1. CASE row'[t] = "deleted"
  <2>1. ~WrittenByJob(t) /\ ~WrittenByScan(t)
    BY <1>1 DEF WrittenByJob, WrittenByScan, Wrote
  <2>2. BuriedByJob(t) => Dropped(t)
    BY DEF BuriedByJob, Tombstone, Dropped
  <2> QED BY <1>1, <2>1, <2>2, RowOrigin DEF RowFrom, Dropped
<1>2. CASE \E k \in Job : job'[k].task = t /\ job'[k].pc = "tombstone"
  <2>1. PICK k \in Job : job'[k].task = t /\ job'[k].pc = "tombstone"
    BY <1>2
  <2>2. Fate(k)
    BY JobFate
  <2>3. job[k].task = t /\ (job[k].pc = "tombstone" \/ Drop(k))
    BY <2>1, <2>2 DEF Fate, GoesWell, EndsWell, Continues
  <2> QED BY <2>3 DEF Dropped
<1> QED BY <1>1, <1>2

LEMMA EntriesOrigin ==
  ASSUME TypeInv, Next, NEW t \in entries'
  PROVE  t \in entries \/ \E j \in Job : WriteHours(j) /\ job[j].task = t
<1> DEFINE Goal == t \in entries \/ \E j \in Job : WriteHours(j) /\ job[j].task = t
<1>c. ASSUME entries' = entries PROVE Goal
  BY <1>c
<1>1. ASSUME NEW u \in Task, Change(u) \/ Remove(u) \/ Deliver(u) \/ AdminSync(u) PROVE Goal
  BY <1>1, <1>c DEF Change, Remove, Deliver, AdminSync, copy
<1>2. ASSUME NEW j \in Job, Take(j) \/ Fetch(j) \/ Upsert(j) \/ UpsertSkipped(j) PROVE Goal
  BY <1>2, <1>c DEF Take, Fetch, Upsert, UpsertSkipped, copy
<1>3. ASSUME NEW j \in Job, Exists(j) \/ Tombstone(j) \/ Ensure(j) \/ FetchHours(j) PROVE Goal
  BY <1>3, <1>c DEF Exists, Tombstone, Ensure, FetchHours, copy
<1>4. ASSUME NEW j \in Job, Drop(j) PROVE Goal
  BY <1>4 DEF Drop
<1>5. ASSUME NEW j \in Job, WriteHours(j) PROVE Goal
  BY <1>5, HoursWritten
<1>6. ASSUME NEW j \in Job, AttemptFails(j) PROVE Goal
  BY <1>6, <1>c DEF AttemptFails, copy
<1>7. ASSUME NEW a \in Sweeper, BeginSweep(a) \/ SweepAdd(a) \/ SweepDies(a) PROVE Goal
  BY <1>7, <1>c DEF BeginSweep, SweepAdd, SweepDies, copy
<1>8. ASSUME NEW r \in Requester, Ask(r) \/ AddBackfill(r) \/ RequestDies(r) PROVE Goal
  BY <1>8, <1>c DEF Ask, AddBackfill, RequestDies, copy
<1>u. ASSUME ConnectBackfill \/ RetryBackfill PROVE Goal
  BY <1>u, <1>c DEF ConnectBackfill, RetryBackfill, AddUnseen, copy
<1>9. ASSUME NEW b \in Backfill, TakeBackfill(b) \/ FetchPage(b) \/ StoreTask(b) PROVE Goal
  BY <1>9, <1>c DEF TakeBackfill, FetchPage, StoreTask, copy
<1>10. ASSUME NEW b \in Backfill, QueueHours(b) \/ FindMissing(b) \/ FetchParent(b) PROVE Goal
  BY <1>10, <1>c DEF QueueHours, FindMissing, FetchParent, copy
<1>11. ASSUME NEW b \in Backfill, StoreParent(b) \/ FinishBackfill(b) \/ BackfillFails(b)
       PROVE  Goal
  BY <1>11, <1>c DEF StoreParent, FinishBackfill, BackfillFails, copy
<1> HIDE DEF Goal
<1>12. Goal
  BY <1>1, <1>2, <1>3, <1>4, <1>5, <1>6, <1>7, <1>8, <1>9, <1>10, <1>11, <1>u DEF Next
<1> QED BY <1>12 DEF Goal

LEMMA HoursStep ==
  ASSUME TypeInv, HoursInv, Next
  PROVE  HoursInv'
<1>1. ASSUME NEW j \in Job, job'[j].pc \in HoursPC PROVE row'[job'[j].task] # "none"
  <2>1. Fate(j)
    BY JobFate
  <2>2. job[j].pc # "free" /\ job'[j].task = job[j].task /\ row[job[j].task] # "none"
    BY <1>1, <2>1 DEF Fate, GoesWell, EndsWell, Continues, HoursInv, HoursPC
  <2>3. job[j].task \in Task
    BY <2>2 DEF TypeInv, JobsOK, GoodJob
  <2> QED BY <2>2, <2>3, RowStays
<1>2. ASSUME NEW t \in entries' PROVE t \in Task /\ row'[t] # "none"
  <2>1. t \in Task /\ row[t] # "none"
    <3>1. CASE t \in entries
      BY <3>1 DEF HoursInv, TypeInv, TypeOK
    <3>2. CASE \E j \in Job : WriteHours(j) /\ job[j].task = t
      BY <3>2, HoursWritten DEF HoursInv, HoursPC
    <3> QED BY <3>1, <3>2, EntriesOrigin
  <2> QED BY <2>1, RowStays
<1>3. ASSUME NEW t \in entries',
             row'[t] = "deleted" \/ \E k \in Job : job'[k].task = t /\ job'[k].pc = "tombstone"
      PROVE  "late_hours" \in gap'[t]
  <2>1. t \in Task
    BY <1>2
  <2>2. \A j \in Job : Drop(j) => job[j].task # t
    BY DEF Drop
  <2>3. Dropped(t)
    BY <1>3, <2>1, <2>2, DropOrigin
  <2>4. CASE t \in entries
    BY <2>1, <2>2, <2>3, <2>4, LateStays DEF HoursInv
  <2>5. CASE \E j \in Job : WriteHours(j) /\ job[j].task = t
    BY <2>3, <2>5, HoursWritten
  <2> QED BY <2>4, <2>5, EntriesOrigin
<1> QED BY <1>1, <1>2, <1>3 DEF HoursInv, Dropped

LEMMA HoursHold == Spec => []HoursInv
<1>1. Init => HoursInv
  BY FreeFacts DEF Init, HoursInv, HoursPC
<1>2. TypeInv /\ HoursInv /\ [Next]_vars => HoursInv'
  <2>1. ASSUME HoursInv, UNCHANGED vars PROVE HoursInv'
    BY <2>1 DEF vars, copy, queues, history, HoursInv, Dropped
  <2> QED BY <2>1, HoursStep
<1> QED BY <1>1, <1>2, TypeHolds, PTL DEF Spec

(* Tracked time is stored only under a task's row and goes with the task,  *)
(* unless it was fetched before the deletion and written after it, for any *)
(* number of jobs on any number of instances (deleteByTaskId,              *)
(* ensureTaskExists).                                                      *)
THEOREM HoursFollowTask == Spec => []HoursFollow
<1>1. HoursInv => HoursFollow
  BY DEF HoursInv, HoursFollow, Dropped
<1> QED BY <1>1, HoursHold, PTL

-----------------------------------------------------------------------------
(* A row is what ClickUp has, or work or a named window explains it.       *)

(* A copy that is not marked out of date is of a task ClickUp has.         *)
FreshInv ==
  /\ \A j \in Job : job[j].pc = "upsert" /\ ~job[j].stale => Live(job[j].task)
  /\ \A b \in Backfill : \A t \in backfill[b].fresh : Live(t)

LEMMA LiveStays ==
  ASSUME TypeInv, Next, NEW t \in Task, Live(t), remote'[t] # "live"
  PROVE  Remove(t)
BY RemoteStep DEF Becomes, Live

LEMMA FreshStep ==
  ASSUME TypeInv, FreshInv, Next
  PROVE  FreshInv'
<1>1. ASSUME NEW j \in Job, job'[j].pc = "upsert", ~job'[j].stale
      PROVE  remote'[job'[j].task] = "live"
  <2>1. Fate(j)
    BY JobFate
  <2>2. GoesWell(j)
    BY <1>1, <2>1 DEF Fate, EndsWell
  <2>3. job[j].pc # "free" /\ job'[j].task = job[j].task
    BY <2>2 DEF GoesWell, Continues
  <2>4. job[j].task \in Task
    BY <2>3 DEF TypeInv, JobsOK, GoodJob
  <2>5. (~Remove(job[j].task) /\ ~Change(job[j].task)) \/ job'[j].stale
    <3>1. ASSUME Remove(job[j].task) \/ Change(job[j].task) PROVE job'[j].stale
      BY <2>4, <3>1, OutOfDateAges DEF Remove, Change, Aged
    <3> QED BY <3>1
  <2>6. Live(job[j].task)
    BY <1>1, <2>2, <2>5 DEF GoesWell, FreshInv
  <2> QED BY <1>1, <2>3, <2>4, <2>5, <2>6, LiveStays
<1>2. ASSUME NEW b \in Backfill, NEW t \in backfill'[b].fresh
      PROVE  remote'[t] = "live"
  <2>1. t \in Task /\ Live(t)
    BY HoldOrigin DEF HoldsFrom, FreshInv, TypeInv, TypeOK, BackfillRecord
  <2>2. ~Remove(t)
    <3>1. ASSUME Remove(t) PROVE t \notin backfill'[b].fresh
      BY <2>1, <3>1, RemoveMoves DEF Dated
    <3> QED BY <3>1
  <2> QED BY <2>1, <2>2, LiveStays
<1> QED BY <1>1, <1>2 DEF FreshInv, Live

LEMMA FreshHolds == Spec => []FreshInv
<1>1. Init => FreshInv
  BY FreeFacts, FreeBackfillFacts DEF Init, FreshInv
<1>2. TypeInv /\ FreshInv /\ [Next]_vars => FreshInv'
  <2>1. ASSUME FreshInv, UNCHANGED vars PROVE FreshInv'
    BY <2>1 DEF vars, source, queues, FreshInv, Live
  <2> QED BY <2>1, FreshStep
<1> QED BY <1>1, <1>2, TypeHolds, PTL DEF Spec

(* The deletion of a task that never had a row is still to come.           *)
Explained(t) == gap[t] \ {"late_hours"} # {}
DeleteComing(t) ==
  \/ "delete" \in owed[t]
  \/ \E j \in Job : job[j].pc # "free" /\ job[j].task = t /\ job[j].kind = "delete"

MirrorInv ==
  /\ \A t \in Task : Current(t) \/ Explained(t) \/ Coming(t)
  /\ \A t \in Task : Gone(t) /\ row[t] = "none" => Explained(t) \/ DeleteComing(t)

(* What is owed stays owed until a job is queued for it.                   *)
LEMMA OwedStays ==
  ASSUME TypeInv, Next, NEW t \in Task, NEW kind \in owed[t]
  PROVE  kind \in owed'[t] \/ \E j \in Job : job'[j] = NewJob(kind, t)
<1> DEFINE Goal == kind \in owed'[t] \/ \E j \in Job : job'[j] = NewJob(kind, t)
<1>c. ASSUME UNCHANGED owed PROVE Goal
  BY <1>c
<1>1. ASSUME NEW u \in Task, Change(u) PROVE Goal
  BY <1>1, ChangeMoves DEF Informs
<1>2. ASSUME NEW u \in Task, Remove(u) PROVE Goal
  BY <1>2, RemoveMoves DEF Informs
<1>3. ASSUME NEW u \in Task, Deliver(u) PROVE Goal
  <2>1. PICK k \in owed[u] : Enqueue(k, u) /\ owed' = [owed EXCEPT ![u] = owed[u] \ {k}]
    BY <1>3 DEF Deliver
  <2>2. k \in Kind /\ job \in [Job -> JobRecord]
    BY DEF TypeInv, TypeOK, Kind
  <2>3. \E j \in Job : job'[j] = NewJob(k, u)
    BY <2>1, <2>2, EnqueueAdds DEF Added
  <2>4. kind \in owed'[t] \/ (t = u /\ kind = k)
    BY <2>1 DEF TypeInv, TypeOK
  <2> QED BY <2>3, <2>4
<1>m. ASSUME NEW u \in Task, AdminSync(u) PROVE Goal
  BY <1>m, <1>c DEF AdminSync
<1>4. ASSUME NEW j \in Job, Take(j) \/ Fetch(j) \/ Upsert(j) \/ UpsertSkipped(j) PROVE Goal
  BY <1>4, <1>c DEF Take, Fetch, Upsert, UpsertSkipped
<1>5. ASSUME NEW j \in Job, Exists(j) \/ Drop(j) \/ Tombstone(j) \/ Ensure(j) PROVE Goal
  BY <1>5, <1>c DEF Exists, Drop, Tombstone, Ensure
<1>6. ASSUME NEW j \in Job, FetchHours(j) \/ WriteHours(j) \/ AttemptFails(j) PROVE Goal
  BY <1>6, <1>c DEF FetchHours, WriteHours, AttemptFails
<1>7. ASSUME NEW a \in Sweeper, BeginSweep(a) \/ SweepAdd(a) \/ SweepDies(a) PROVE Goal
  BY <1>7, <1>c DEF BeginSweep, SweepAdd, SweepDies
<1>8. ASSUME NEW r \in Requester, Ask(r) \/ AddBackfill(r) \/ RequestDies(r) PROVE Goal
  BY <1>8, <1>c DEF Ask, AddBackfill, RequestDies
<1>u. ASSUME ConnectBackfill \/ RetryBackfill PROVE Goal
  BY <1>u, <1>c DEF ConnectBackfill, RetryBackfill, AddUnseen
<1>9. ASSUME NEW b \in Backfill, TakeBackfill(b) \/ FetchPage(b) \/ StoreTask(b) PROVE Goal
  BY <1>9, <1>c DEF TakeBackfill, FetchPage, StoreTask
<1>10. ASSUME NEW b \in Backfill, QueueHours(b) \/ FindMissing(b) \/ FetchParent(b) PROVE Goal
  BY <1>10, <1>c DEF QueueHours, FindMissing, FetchParent
<1>11. ASSUME NEW b \in Backfill, StoreParent(b) \/ FinishBackfill(b) \/ BackfillFails(b)
       PROVE  Goal
  BY <1>11, <1>c DEF StoreParent, FinishBackfill, BackfillFails
<1> HIDE DEF Goal
<1>12. Goal
  BY <1>1, <1>2, <1>3, <1>4, <1>5, <1>6, <1>7, <1>8, <1>9, <1>10, <1>11, <1>u, <1>m DEF Next
<1> QED BY <1>12 DEF Goal

(* The step after which a task's deletion is no longer to come.            *)
ComingAfter(t) ==
  \/ owed'[t] \cap {"sync", "delete"} # {}
  \/ \E j \in Job : /\ job'[j].task = t /\ job'[j].kind \in {"sync", "delete"}
                    /\ job'[j].pc = "upsert" => ~job'[j].stale
DeleteAfter(t) ==
  \/ "delete" \in owed'[t]
  \/ \E j \in Job : job'[j].pc # "free" /\ job'[j].task = t /\ job'[j].kind = "delete"
ExplainedAfter(t) == gap'[t] \ {"late_hours"} # {}

LEMMA FailureExplains ==
  ASSUME TypeInv, NEW j \in Job, AttemptFails(j), job[j].kind # "time", job'[j].pc = "free"
  PROVE  ExplainedAfter(job[j].task)
<1>1. ~Retries(j)
  BY DEF Retries
<1> QED BY <1>1, FailureNotes DEF ExplainedAfter

(* A job that ends has no task any more.                                   *)
LEMMA EndedFate ==
  ASSUME TypeInv, Next, NEW j \in Job, job'[j].pc = "free"
  PROVE  ~GoesWell(j)
<1>1. job'[j].task = NoTask
  BY JobsStep DEF JobsOK, GoodJob
<1>2. job[j].pc # "free" => job[j].task \in Task
  BY DEF TypeInv, JobsOK, GoodJob
<1> QED BY <1>1, <1>2, FreeFacts DEF GoesWell, Continues

LEMMA DeleteStays ==
  ASSUME TypeInv, Next, NEW t \in Task, DeleteComing(t)
  PROVE  DeleteAfter(t) \/ ExplainedAfter(t) \/ row'[t] = "deleted"
<1>1. CASE "delete" \in owed[t]
  <2>1. CASE "delete" \in owed'[t]
    BY <2>1 DEF DeleteAfter
  <2>2. ASSUME NEW j \in Job, job'[j] = NewJob("delete", t) PROVE DeleteAfter(t)
    <3>1. job'[j].pc = "waiting" /\ job'[j].task = t /\ job'[j].kind = "delete"
      BY <2>2, NewFacts DEF Kind
    <3> QED BY <3>1 DEF DeleteAfter
  <2> QED BY <1>1, <2>1, <2>2, OwedStays
<1>2. ASSUME NEW j \in Job, job[j].pc # "free", job[j].task = t, job[j].kind = "delete"
      PROVE  DeleteAfter(t) \/ ExplainedAfter(t) \/ row'[t] = "deleted"
  <2>1. CASE GoesWell(j) /\ job'[j].pc # "free"
    BY <1>2, <2>1 DEF GoesWell, Continues, DeleteAfter
  <2>2. job'[j].pc = "free" => EndsWell(j)
    BY <1>2, JobFate, EndedFate DEF Fate
  <2>3. CASE Tombstone(j)
    BY <1>2, <2>3, TombstoneBuries DEF Buried
  <2>4. CASE job'[j].pc = "free" /\ AttemptFails(j)
    BY <1>2, <2>4, FailureExplains
  <2>5. job[j].pc \notin {"upsert", "exists", "write_hours"}
    BY <1>2 DEF TypeInv, JobsOK, GoodJob
  <2>6. ~Upsert(j) /\ ~Exists(j) /\ ~WriteHours(j)
    BY <2>5 DEF Upsert, Exists, WriteHours
  <2> QED BY <1>2, <2>1, <2>2, <2>3, <2>4, <2>6, JobFate DEF Fate, EndsWell
<1> QED BY <1>1, <1>2 DEF DeleteComing

LEMMA ComingStays ==
  ASSUME TypeInv, GoneInv, FreshInv, Next, NEW t \in Task, Coming(t), ~Change(t), ~Remove(t)
  PROVE  \/ ComingAfter(t) \/ ExplainedAfter(t)
         \/ row'[t] = "deleted"
         \/ row'[t] = "fresh" /\ Live(t)
         \/ row[t] = "none" /\ Gone(t)
<1>1. CASE owed[t] \cap {"sync", "delete"} # {}
  <2>1. PICK kind \in owed[t] : kind \in {"sync", "delete"}
    BY <1>1
  <2>2. CASE kind \in owed'[t]
    BY <2>1, <2>2 DEF ComingAfter
  <2>3. ASSUME NEW j \in Job, job'[j] = NewJob(kind, t) PROVE ComingAfter(t)
    <3>1. job'[j].pc = "waiting" /\ job'[j].task = t /\ job'[j].kind = kind
      BY <2>1, <2>3, NewFacts DEF Kind
    <3> QED BY <2>1, <3>1 DEF ComingAfter
  <2> QED BY <2>2, <2>3, OwedStays
<1>2. ASSUME NEW j \in Job, job[j].task = t, job[j].kind \in {"sync", "delete"},
             job[j].pc = "upsert" => ~job[j].stale
      PROVE  \/ ComingAfter(t) \/ ExplainedAfter(t)
             \/ row'[t] = "deleted"
             \/ row'[t] = "fresh" /\ Live(t)
             \/ row[t] = "none" /\ Gone(t)
  <2>1. job[j].pc # "free"
    BY <1>2, FreeFacts DEF TypeInv, JobsOK, GoodJob
  <2>2. CASE GoesWell(j)
    BY <1>2, <2>2 DEF GoesWell, Continues, ComingAfter
  <2>3. CASE Upsert(j)
    <3>1. job[j].pc = "upsert" /\ ~job[j].stale
      BY <1>2, <2>3 DEF Upsert
    <3>2. row'[t] = "fresh"
      BY <1>2, <2>3, <3>1, UpsertWrote DEF Wrote
    <3> QED BY <1>2, <3>1, <3>2 DEF FreshInv
  <2>4. CASE Exists(j) /\ row[job[j].task] = "none"
    <3>1. Departing(job[j])
      BY <1>2, <2>4 DEF Exists, Departing
    <3> QED BY <1>2, <2>4, <3>1 DEF GoneInv
  <2>5. CASE Tombstone(j)
    BY <1>2, <2>5, TombstoneBuries DEF Buried
  <2>6. ~WriteHours(j)
    BY <1>2 DEF WriteHours, TypeInv, JobsOK, GoodJob
  <2>7. CASE AttemptFails(j) /\ job'[j].pc = "free"
    BY <1>2, <2>7, FailureExplains
  <2> QED BY <2>1, <2>2, <2>3, <2>4, <2>5, <2>6, <2>7, JobFate DEF Fate, EndsWell
<1> QED BY <1>1, <1>2 DEF Coming

(* Current(t) after the step.                                              *)
CurrentAfter(t) ==
  \/ remote'[t] = "unborn" /\ row'[t] = "none"
  \/ remote'[t] = "live" /\ row'[t] = "fresh"
  \/ remote'[t] = "gone" /\ row'[t] \in {"none", "deleted"}

LEMMA CurrentFacts ==
  ASSUME TypeInv, NEW t \in Task
  PROVE  Current(t) <=> \/ remote[t] = "unborn" /\ row[t] = "none"
                        \/ Live(t) /\ row[t] = "fresh"
                        \/ Gone(t) /\ row[t] \in {"none", "deleted"}
<1>1. remote[t] \in {"unborn", "live", "gone"}
  BY DEF TypeInv, TypeOK
<1>2. CASE remote[t] = "unborn"
  BY <1>2 DEF Current, Live, Gone
<1>3. CASE remote[t] = "live"
  BY <1>3 DEF Current, Live, Gone
<1>4. CASE remote[t] = "gone"
  BY <1>4 DEF Current, Live, Gone
<1> QED BY <1>1, <1>2, <1>3, <1>4

LEMMA CurrentNext ==
  ASSUME TypeInv', NEW t \in Task
  PROVE  CurrentAfter(t) <=> Current(t)'
<1>1. remote'[t] \in {"unborn", "live", "gone"}
  BY DEF TypeInv, TypeOK
<1>2. CASE remote'[t] = "unborn"
  BY <1>2 DEF Current, CurrentAfter
<1>3. CASE remote'[t] = "live"
  BY <1>3 DEF Current, CurrentAfter
<1>4. CASE remote'[t] = "gone"
  BY <1>4 DEF Current, CurrentAfter
<1> QED BY <1>1, <1>2, <1>3, <1>4

(* The change or the deletion of the task itself.                          *)
LEMMA OwnChange ==
  ASSUME TypeInv, NEW t \in Task, Change(t) \/ Remove(t)
  PROVE  ComingAfter(t) \/ ExplainedAfter(t)
<1>1. CASE owed'[t] = owed[t] \cup {"sync", "time"} \/ owed'[t] = owed[t] \cup {"delete"}
  BY <1>1 DEF ComingAfter
<1>2. CASE "undelivered" \in gap'[t]
  BY <1>2 DEF ExplainedAfter
<1> QED BY <1>1, <1>2, ChangeMoves, RemoveMoves DEF Informs

LEMMA OwnDelete ==
  ASSUME TypeInv, NEW t \in Task, Remove(t)
  PROVE  DeleteAfter(t) \/ ExplainedAfter(t)
<1>1. CASE owed'[t] = owed[t] \cup {"delete"}
  BY <1>1 DEF DeleteAfter
<1>2. CASE "undelivered" \in gap'[t]
  BY <1>2 DEF ExplainedAfter
<1> QED BY <1>1, <1>2, RemoveMoves DEF Informs

LEMMA SameRemote ==
  ASSUME TypeInv, Next, NEW t \in Task, ~Change(t), ~Remove(t)
  PROVE  remote'[t] = remote[t]
BY RemoteStep DEF Becomes

(* A stale copy is written.                                                *)
LEMMA StaleWrite ==
  ASSUME TypeInv, TypeInv', GoneInv, FreshInv, MirrorInv, Next, NEW t \in Task,
         ~Change(t), ~Remove(t), Born(t), Wrote(t, TRUE)
  PROVE  ComingAfter(t) \/ ExplainedAfter(t)
<1>1. row[t] \in {"none", "fresh", "stale", "deleted"} /\ gap[t] \subseteq GapKind
  BY DEF TypeInv, TypeOK
<1>2. CASE row[t] = "fresh"
  BY <1>2 DEF Wrote, ExplainedAfter
<1>3. CASE row[t] = "deleted"
  BY <1>3 DEF Wrote, ExplainedAfter
<1>4. CASE row[t] \in {"none", "stale"}
  <2>1. gap'[t] = gap[t] /\ row'[t] = "stale"
    BY <1>4 DEF Wrote
  <2>2. CASE Explained(t)
    BY <2>1, <2>2 DEF Explained, ExplainedAfter
  <2>3. CASE row[t] = "none" /\ Gone(t) /\ ~Explained(t)
    <3>1. DeleteAfter(t) \/ ExplainedAfter(t)
      BY <2>1, <2>3, DeleteStays DEF MirrorInv
    <3>2. \A j \in Job : job'[j].kind = "delete" => job'[j].pc # "upsert"
      BY DEF TypeInv, JobsOK, GoodJob
    <3>3. DeleteAfter(t) => ComingAfter(t)
      BY <3>2 DEF DeleteAfter, ComingAfter
    <3> QED BY <3>1, <3>3
  <2>4. CASE ~(row[t] = "none" /\ Gone(t)) /\ ~Explained(t)
    <3>1. ~Current(t)
      BY <1>4, <2>4, CurrentFacts DEF Born
    <3>2. Coming(t)
      BY <2>4, <3>1 DEF MirrorInv
    <3> QED BY <2>1, <2>4, <3>2, ComingStays
  <2> QED BY <2>2, <2>3, <2>4
<1> QED BY <1>1, <1>2, <1>3, <1>4

LEMMA MirrorStep ==
  ASSUME TypeInv, TypeInv', KnownInv, GoneInv, GoneInv', FreshInv, MirrorInv, Next
  PROVE  MirrorInv'
<1>1. ASSUME NEW t \in Task
      PROVE  CurrentAfter(t) \/ ExplainedAfter(t) \/ ComingAfter(t)
  <2>1. CASE Change(t) \/ Remove(t)
    BY <2>1, OwnChange
  <2>2. ASSUME ~Change(t), ~Remove(t)
        PROVE  CurrentAfter(t) \/ ExplainedAfter(t) \/ ComingAfter(t)
    <3>0. remote'[t] = remote[t]
      BY <2>2, SameRemote
    <3>1. row'[t] = "deleted" => CurrentAfter(t)
      BY DEF GoneInv, Gone, CurrentAfter
    <3>2. row'[t] = "fresh" /\ Live(t) => CurrentAfter(t)
      BY <3>0 DEF Live, CurrentAfter
    <3>3. CASE row'[t] = row[t] /\ gap[t] \ {"late_hours"} \subseteq gap'[t]
      <4>1. CASE Current(t)
        BY <3>0, <3>3, <4>1, CurrentFacts DEF CurrentAfter, Live, Gone
      <4>2. CASE Explained(t)
        BY <3>3, <4>2 DEF Explained, ExplainedAfter
      <4>3. row[t] = "none" /\ Gone(t) => CurrentAfter(t)
        BY <3>0, <3>3 DEF Gone, CurrentAfter
      <4>4. CASE Coming(t)
        BY <2>2, <3>1, <3>2, <4>3, <4>4, ComingStays
      <4> QED BY <4>1, <4>2, <4>4 DEF MirrorInv
    <3>4. CASE BuriedByJob(t)
      BY <3>1, <3>4 DEF BuriedByJob, Buried
    <3>5. CASE WrittenByJob(t)
      <4>1. PICK j \in Job : Upsert(j) /\ job[j].task = t /\ Wrote(t, job[j].stale)
        BY <3>5 DEF WrittenByJob
      <4>2. job[j].stale \in BOOLEAN /\ job[j].pc = "upsert"
        BY <4>1 DEF TypeInv, TypeOK, JobRecord, Upsert
      <4>3. Born(t)
        BY <4>1, <4>2 DEF KnownInv
      <4>4. CASE ~job[j].stale
        BY <3>2, <4>1, <4>2, <4>4 DEF FreshInv, Wrote
      <4>5. CASE job[j].stale = TRUE
        BY <2>2, <4>1, <4>3, <4>5, StaleWrite
      <4> QED BY <4>2, <4>4, <4>5
    <3>6. CASE WrittenByScan(t)
      <4>1. PICK b \in Backfill :
              /\ \/ backfill[b].pc = "store" /\ t \in backfill[b].batch
                 \/ backfill[b].pc = "store_parent" /\ t \in backfill[b].queue
              /\ Wrote(t, t \notin backfill[b].fresh)
        BY <3>6 DEF WrittenByScan
      <4>2. Born(t)
        BY <4>1 DEF KnownInv
      <4>3. CASE t \in backfill[b].fresh
        BY <3>2, <4>1, <4>3 DEF FreshInv, Wrote
      <4>4. CASE t \notin backfill[b].fresh
        <5>1. Wrote(t, TRUE)
          BY <4>1, <4>4 DEF Wrote
        <5> QED BY <2>2, <4>2, <5>1, StaleWrite
      <4> QED BY <4>3, <4>4
    <3>7. gap[t] \subseteq gap'[t] => gap[t] \ {"late_hours"} \subseteq gap'[t]
      OBVIOUS
    <3> QED BY <2>2, <3>3, <3>4, <3>5, <3>6, <3>7, RowOrigin DEF RowFrom
  <2> QED BY <2>1, <2>2
<1>2. ASSUME NEW t \in Task, remote'[t] = "gone", row'[t] = "none"
      PROVE  ExplainedAfter(t) \/ DeleteAfter(t)
  <2>1. CASE Remove(t)
    BY <2>1, OwnDelete
  <2>2. CASE ~Remove(t)
    <3>1. ~Change(t)
      BY <1>2, ChangeMoves DEF Becomes
    <3>2. Gone(t) /\ row[t] = "none"
      BY <1>2, <2>2, <3>1, SameRemote, RowStays DEF Gone
    <3>3. gap[t] \ {"late_hours"} \subseteq gap'[t]
      BY <1>2, RowOrigin DEF RowFrom, BuriedByJob, WrittenByJob, WrittenByScan, Buried, Wrote
    <3>4. CASE Explained(t)
      BY <3>3, <3>4 DEF Explained, ExplainedAfter
    <3>5. CASE DeleteComing(t)
      BY <1>2, <3>5, DeleteStays
    <3> QED BY <3>2, <3>4, <3>5 DEF MirrorInv
  <2> QED BY <2>1, <2>2
<1>3. \A t \in Task : Current(t)' \/ ExplainedAfter(t) \/ ComingAfter(t)
  BY <1>1, CurrentNext
<1> QED BY <1>2, <1>3 DEF MirrorInv, Explained, ExplainedAfter, Coming, ComingAfter,
                          DeleteComing, DeleteAfter, Gone

LEMMA InitMirror ==
  ASSUME Init
  PROVE  MirrorInv
<1>1. ASSUME NEW t \in Task
      PROVE  Current(t) \/ Explained(t)
  <2>1. CASE remote[t] = "live" /\ row[t] = "none"
    BY <2>1 DEF Init, Explained
  <2>2. CASE ~(remote[t] = "live" /\ row[t] = "none")
    <3>1. \/ remote[t] = "unborn" /\ row[t] = "none"
          \/ remote[t] = "live" /\ row[t] = "fresh"
      BY <2>2 DEF Init
    <3> QED BY <3>1, InitType, CurrentFacts DEF Live
  <2> QED BY <2>1, <2>2
<1>2. \A t \in Task : ~Gone(t)
  BY DEF Init, Gone
<1> QED BY <1>1, <1>2 DEF MirrorInv

(* A row is what ClickUp has, or a job or the pipeline will still make it  *)
(* so, or the task fell into one of the named windows since it was last    *)
(* right: over every interleaving of any number of syncs, deletions,       *)
(* sweeps, time syncs and backfills (syncTask, syncTasks, softDelete,      *)
(* reconcileTask, backfillSpace).                                          *)
THEOREM MirrorExplained == Spec => []Mirrored
<1>1. Init => MirrorInv
  BY InitMirror
<1>2. TypeInv /\ TypeInv' /\ KnownInv /\ GoneInv /\ GoneInv' /\ FreshInv /\ MirrorInv /\ [Next]_vars
        => MirrorInv'
  <2>1. ASSUME MirrorInv, UNCHANGED vars PROVE MirrorInv'
    <3>1. UNCHANGED <<remote, row, gap, owed, job>>
      BY <2>1 DEF vars, source, copy, queues, history
    <3>2. \A t \in Task : Current(t)' <=> Current(t)
      BY <3>1 DEF Current
    <3>3. \A t \in Task : Coming(t)' <=> Coming(t)
      BY <3>1 DEF Coming
    <3>4. \A t \in Task : DeleteComing(t)' <=> DeleteComing(t)
      BY <3>1 DEF DeleteComing
    <3>5. \A t \in Task : (Gone(t)' <=> Gone(t)) /\ (Explained(t)' <=> Explained(t))
      BY <3>1 DEF Gone, Explained
    <3> QED BY <2>1, <3>1, <3>2, <3>3, <3>4, <3>5 DEF MirrorInv
  <2> QED BY <2>1, MirrorStep
<1>3. MirrorInv => Mirrored
  BY DEF MirrorInv, Mirrored, Explained
<1> QED BY <1>1, <1>2, <1>3, TypeHolds, KnownHolds, GoneHolds, FreshHolds, PTL DEF Spec

-----------------------------------------------------------------------------
(* A backfill deals with every task it reads and with their parents.       *)

(* A task that has a row, or never will, or was passed over.               *)
Handled(p) == row[p] # "none" \/ Gone(p) \/ gap[p] \cap {"skipped", "unfetched"} # {}
HandledAfter(p) ==
  row'[p] # "none" \/ remote'[p] = "gone" \/ gap'[p] \cap {"skipped", "unfetched"} # {}

AtParents == {"fetch_parent", "store_parent"}
ReadPC == {"page", "queue", "missing", "done"} \cup AtParents

ParentsKnown == \A t, p \in Task : Parent[t] = p /\ Born(t) => Born(p)

ScanOK(b) ==
  /\ \A t \in backfill[b].seen : Born(t) /\ (Parent[t] # NoTask => Parent[t] \in backfill[b].refs)
  /\ \A p \in backfill[b].refs : Born(p)
  /\ backfill[b].pc \in AtParents => backfill[b].batch \subseteq backfill[b].refs
  /\ backfill[b].pc = "store" => \A t \in backfill[b].seen \ backfill[b].batch : Handled(t)
  /\ backfill[b].pc \in ReadPC => \A t \in backfill[b].seen : Handled(t)
  /\ backfill[b].pc \in AtParents => \A p \in backfill[b].refs \ backfill[b].batch : Handled(p)
  /\ backfill[b].pc = "done" => \A p \in backfill[b].refs : Handled(p)

(* The same of the state after a step.                                     *)
ScanAfter(b) ==
  /\ \A t \in backfill'[b].seen :
       remote'[t] # "unborn" /\ (Parent[t] # NoTask => Parent[t] \in backfill'[b].refs)
  /\ \A p \in backfill'[b].refs : remote'[p] # "unborn"
  /\ backfill'[b].pc \in AtParents => backfill'[b].batch \subseteq backfill'[b].refs
  /\ backfill'[b].pc = "store" => \A t \in backfill'[b].seen \ backfill'[b].batch : HandledAfter(t)
  /\ backfill'[b].pc \in ReadPC => \A t \in backfill'[b].seen : HandledAfter(t)
  /\ backfill'[b].pc \in AtParents =>
       \A p \in backfill'[b].refs \ backfill'[b].batch : HandledAfter(p)
  /\ backfill'[b].pc = "done" => \A p \in backfill'[b].refs : HandledAfter(p)

ParentsInv == ParentsKnown /\ \A b \in Backfill : ScanOK(b)

LEMMA HandledStays ==
  ASSUME TypeInv, Next, NEW p \in Task, Handled(p)
  PROVE  HandledAfter(p)
<1>1. CASE row[p] # "none"
  BY <1>1, RowStays DEF HandledAfter
<1>2. CASE Gone(p)
  BY <1>2, RemoteKeeps DEF HandledAfter
<1>3. CASE gap[p] \cap {"skipped", "unfetched"} # {} /\ row'[p] = "none"
  <2>1. gap[p] \ {"late_hours"} \subseteq gap'[p]
    BY <1>3, RowOrigin DEF RowFrom, BuriedByJob, WrittenByJob, WrittenByScan, Buried, Wrote
  <2> QED BY <1>3, <2>1 DEF HandledAfter
<1> QED BY <1>1, <1>2, <1>3 DEF Handled, HandledAfter

(* What the step leaves true of a scan it may have moved.                  *)
LEMMA ScanFacts ==
  ASSUME TypeInv, ParentsInv, Next, NEW b \in Backfill
  PROVE  /\ backfill[b].seen \subseteq Task /\ backfill[b].refs \subseteq Task
         /\ \A t \in backfill[b].seen : remote'[t] # "unborn"
         /\ \A p \in backfill[b].refs : remote'[p] # "unborn"
         /\ \A t \in Task : Handled(t) => HandledAfter(t)
<1>1. backfill[b].seen \subseteq Task /\ backfill[b].refs \subseteq Task
  BY DEF TypeInv, TypeOK, BackfillRecord
<1>2. \A t \in Task : Born(t) => remote'[t] # "unborn"
  BY RemoteKeeps
<1>3. \A t \in Task : Handled(t) => HandledAfter(t)
  BY HandledStays
<1>4. ScanOK(b)
  BY DEF ParentsInv
<1>5. \A t \in backfill[b].seen : remote'[t] # "unborn"
  BY <1>1, <1>2, <1>4 DEF ScanOK
<1>6. \A p \in backfill[b].refs : remote'[p] # "unborn"
  BY <1>1, <1>2, <1>4 DEF ScanOK
<1> QED BY <1>1, <1>3, <1>5, <1>6

LEMMA SameScan ==
  ASSUME TypeInv, ParentsInv, Next, NEW b \in Backfill,
         backfill'[b].pc = backfill[b].pc, backfill'[b].batch = backfill[b].batch,
         backfill'[b].seen = backfill[b].seen, backfill'[b].refs = backfill[b].refs
  PROVE  ScanAfter(b)
<1>1. ScanOK(b)
  BY DEF ParentsInv
<1> QED BY <1>1, ScanFacts DEF ScanOK, ScanAfter

LEMMA OtherScan ==
  ASSUME TypeInv, ParentsInv, Next, NEW b \in Backfill, NEW c \in Backfill, Shifts(c), ScanAfter(c)
  PROVE  ScanAfter(b)
<1>1. CASE b = c
  BY <1>1
<1>2. CASE b # c
  BY <1>2, SameScan DEF Shifts
<1> QED BY <1>1, <1>2

LEMMA BlankScan ==
  ASSUME TypeInv, ParentsInv, Next, NEW b \in Backfill, NEW c \in Backfill, NEW pc, Blank(c, pc)
  PROVE  ScanAfter(b)
<1>1. Shifts(c) /\ ScanAfter(c)
  BY DEF Blank, ScanAfter
<1> QED BY <1>1, OtherScan

LEMMA PageScan ==
  ASSUME TypeInv, ParentsInv, Next, NEW b \in Backfill, FetchPage(b)
  PROVE  Shifts(b) /\ ScanAfter(b)
<1>1. PICK new \in SUBSET Task : Paged(b, new)
  BY PageMoves
<1>2. backfill[b].pc = "page" /\ ScanOK(b) /\ remote' = remote
  BY DEF FetchPage, ParentsInv, source
<1>3. \A t \in new : t \in Task /\ Born(t)
  BY <1>1 DEF Paged, Listed, Live, Born
<1>4. \A t \in new : Parent[t] # NoTask => Parent[t] \in Task /\ Born(Parent[t])
  BY <1>3, ConstantAssumption DEF ParentsInv, ParentsKnown
<1>5. /\ backfill'[b].seen = backfill[b].seen \cup new
      /\ backfill'[b].refs = backfill[b].refs \cup ({Parent[t] : t \in new} \ {NoTask})
      /\ backfill'[b].batch = new
      /\ backfill'[b].pc = IF new = {} THEN AfterBatch(backfill'[b].more) ELSE "store"
  BY <1>1 DEF Paged
<1>6. \A t \in backfill'[b].seen :
        remote'[t] # "unborn" /\ (Parent[t] # NoTask => Parent[t] \in backfill'[b].refs)
  BY <1>2, <1>3, <1>5 DEF ScanOK, Born
<1>7. \A p \in backfill'[b].refs : remote'[p] # "unborn"
  BY <1>2, <1>4, <1>5 DEF ScanOK, Born
<1>8. \A t \in backfill[b].seen : HandledAfter(t)
  BY <1>2, ScanFacts DEF ScanOK, ReadPC
<1>9. /\ backfill'[b].pc \in {"store", "page", "missing"}
      /\ backfill'[b].pc # "store" => new = {}
  BY <1>5 DEF AfterBatch
<1>10. backfill'[b].pc \in ReadPC => \A t \in backfill'[b].seen : HandledAfter(t)
  BY <1>5, <1>8, <1>9 DEF ReadPC, AtParents
<1>11. \A t \in backfill'[b].seen \ backfill'[b].batch : HandledAfter(t)
  BY <1>5, <1>8
<1>12. backfill'[b].pc \notin AtParents /\ backfill'[b].pc # "done"
  BY <1>9 DEF AtParents
<1> QED BY <1>1, <1>6, <1>7, <1>10, <1>11, <1>12 DEF ScanAfter, Paged

(* A row written or passed over is handled.                                *)
LEMMA StoredHandled ==
  ASSUME TypeInv, NEW t \in Task, NEW kind \in {"skipped", "unfetched"}, NEW stale \in BOOLEAN,
         Write(t, stale) \/ (gap' = PassedOver(t, kind) /\ UNCHANGED row)
  PROVE  HandledAfter(t)
<1>1. RowType /\ kind \in GapKind
  BY DEF TypeInv, TypeOK, RowType, GapKind
<1>2. CASE Write(t, stale)
  BY <1>1, <1>2, WriteWrote DEF Wrote, HandledAfter
<1>3. CASE gap' = PassedOver(t, kind) /\ UNCHANGED row
  <2>1. Noted(t, kind)
    BY <1>1, <1>3, PassedNotes
  <2> QED BY <2>1 DEF Noted, HandledAfter
<1> QED BY <1>2, <1>3

LEMMA StoreScan ==
  ASSUME TypeInv, ParentsInv, Next, NEW b \in Backfill, StoreTask(b)
  PROVE  Shifts(b) /\ ScanAfter(b)
<1>1. PICK t \in backfill[b].batch :
        /\ t \in Task /\ StoredOne(b, t)
        /\ \/ Write(t, t \notin backfill[b].fresh)
           \/ gap' = PassedOver(t, "skipped") /\ UNCHANGED row
  BY StoreTaskMoves
<1>2. HandledAfter(t)
  BY <1>1, StoredHandled
<1>3. backfill[b].pc = "store" /\ ScanOK(b)
  BY DEF StoreTask, ParentsInv
<1>4. /\ backfill'[b].seen = backfill[b].seen /\ backfill'[b].refs = backfill[b].refs
      /\ backfill'[b].batch = backfill[b].batch \ {t}
      /\ backfill'[b].pc = IF backfill[b].batch = {t} THEN "queue" ELSE "store"
  BY <1>1 DEF StoredOne, KeepsScan
<1>5. \A u \in backfill[b].seen \ backfill'[b].batch : HandledAfter(u)
  BY <1>2, <1>3, <1>4, ScanFacts DEF ScanOK
<1>6. backfill'[b].pc = "queue" => backfill'[b].batch = {}
  BY <1>4
<1>7. /\ \A u \in backfill'[b].seen :
           remote'[u] # "unborn" /\ (Parent[u] # NoTask => Parent[u] \in backfill'[b].refs)
      /\ \A p \in backfill'[b].refs : remote'[p] # "unborn"
  BY <1>3, <1>4, ScanFacts DEF ScanOK
<1>8. backfill'[b].pc \notin AtParents /\ backfill'[b].pc # "done"
  BY <1>4 DEF AtParents
<1>9. backfill'[b].pc \in ReadPC => \A u \in backfill'[b].seen : HandledAfter(u)
  BY <1>4, <1>5, <1>6 DEF ReadPC, AtParents
<1> QED BY <1>1, <1>4, <1>5, <1>7, <1>8, <1>9 DEF ScanAfter, StoredOne

LEMMA QueueScan ==
  ASSUME TypeInv, ParentsInv, Next, NEW b \in Backfill, QueueHours(b)
  PROVE  Shifts(b) /\ ScanAfter(b)
<1>1. backfill[b].pc = "queue" /\ ScanOK(b) /\ \E t : QueuedOne(b, t)
  BY HoursAdds DEF ParentsInv
<1>2. PICK t : QueuedOne(b, t)
  BY <1>1
<1>3. /\ backfill'[b].seen = backfill[b].seen /\ backfill'[b].refs = backfill[b].refs
      /\ backfill'[b].pc \in {"queue", "page", "missing"}
  BY <1>2 DEF QueuedOne, KeepsScan, AfterBatch
<1>4. \A u \in backfill[b].seen : HandledAfter(u)
  BY <1>1, ScanFacts DEF ScanOK, ReadPC
<1>5. /\ \A u \in backfill'[b].seen :
           remote'[u] # "unborn" /\ (Parent[u] # NoTask => Parent[u] \in backfill'[b].refs)
      /\ \A p \in backfill'[b].refs : remote'[p] # "unborn"
  BY <1>1, <1>3, ScanFacts DEF ScanOK
<1>6. backfill'[b].pc \notin AtParents /\ backfill'[b].pc \notin {"done", "store"}
  BY <1>3 DEF AtParents
<1> QED BY <1>2, <1>3, <1>4, <1>5, <1>6 DEF ScanAfter, QueuedOne

LEMMA MissingScan ==
  ASSUME TypeInv, ParentsInv, Next, NEW b \in Backfill, FindMissing(b)
  PROVE  Shifts(b) /\ ScanAfter(b)
<1>1. backfill[b].pc = "missing" /\ ScanOK(b) /\ Searched(b)
  BY MissingMoves DEF ParentsInv
<1>2. /\ backfill'[b].seen = backfill[b].seen /\ backfill'[b].refs = backfill[b].refs
      /\ backfill'[b].batch = Missing(b)
      /\ backfill'[b].pc = IF Missing(b) = {} THEN "done" ELSE "fetch_parent"
  BY <1>1 DEF Searched, KeepsScan
<1>3. \A u \in backfill[b].seen : HandledAfter(u)
  BY <1>1, ScanFacts DEF ScanOK, ReadPC
<1>4. \A p \in backfill[b].refs \ Missing(b) : p \in backfill[b].seen \/ Handled(p)
  BY DEF Missing, Handled
<1>5. \A p \in backfill[b].refs \ Missing(b) : HandledAfter(p)
  BY <1>3, <1>4, ScanFacts
<1>6. /\ \A u \in backfill'[b].seen :
           remote'[u] # "unborn" /\ (Parent[u] # NoTask => Parent[u] \in backfill'[b].refs)
      /\ \A p \in backfill'[b].refs : remote'[p] # "unborn"
  BY <1>1, <1>2, ScanFacts DEF ScanOK
<1>7. Missing(b) \subseteq backfill[b].refs
  BY DEF Missing
<1>8. backfill'[b].pc # "store" /\ (backfill'[b].pc = "done" => Missing(b) = {})
  BY <1>2
<1>9. backfill'[b].pc = "done" => \A p \in backfill'[b].refs : HandledAfter(p)
  BY <1>2, <1>5, <1>8
<1> QED BY <1>1, <1>2, <1>3, <1>5, <1>6, <1>7, <1>8, <1>9 DEF ScanAfter, Searched

(* A parent is done with.                                                  *)
LEMMA PassedScan ==
  ASSUME TypeInv, ParentsInv, Next, NEW b \in Backfill, backfill[b].pc \in AtParents,
         NEW p \in Task, Passed(b, p), HandledAfter(p)
  PROVE  Shifts(b) /\ ScanAfter(b)
<1>1. ScanOK(b)
  BY DEF ParentsInv
<1>2. /\ backfill'[b].seen = backfill[b].seen /\ backfill'[b].refs = backfill[b].refs
      /\ backfill'[b].batch = backfill[b].batch \ {p}
      /\ backfill'[b].pc = IF backfill[b].batch = {p} THEN "done" ELSE "fetch_parent"
  BY DEF Passed, KeepsScan
<1>3. \A u \in backfill[b].seen : HandledAfter(u)
  BY <1>1, ScanFacts DEF ScanOK, ReadPC
<1>4. \A u \in backfill'[b].refs \ backfill'[b].batch : HandledAfter(u)
  BY <1>1, <1>2, ScanFacts DEF ScanOK
<1>5. /\ \A u \in backfill'[b].seen :
           remote'[u] # "unborn" /\ (Parent[u] # NoTask => Parent[u] \in backfill'[b].refs)
      /\ \A u \in backfill'[b].refs : remote'[u] # "unborn"
  BY <1>1, <1>2, ScanFacts DEF ScanOK
<1>6. backfill'[b].batch \subseteq backfill'[b].refs
  BY <1>1, <1>2 DEF ScanOK
<1>7. backfill'[b].pc # "store" /\ (backfill'[b].pc = "done" => backfill'[b].batch = {})
  BY <1>2
<1>8. backfill'[b].pc = "done" => \A u \in backfill'[b].refs : HandledAfter(u)
  BY <1>4, <1>7
<1> QED BY <1>2, <1>3, <1>4, <1>5, <1>6, <1>7, <1>8 DEF ScanAfter, Passed

LEMMA FetchParentScan ==
  ASSUME TypeInv, ParentsInv, Next, NEW b \in Backfill, FetchParent(b)
  PROVE  Shifts(b) /\ ScanAfter(b)
<1>1. PICK p \in backfill[b].batch :
        /\ p \in Task
        /\ \/ Live(p) /\ Fetched(b, p) /\ UNCHANGED gap
           \/ Passed(b, p) /\ gap' = IF Live(p) THEN PassedOver(p, "unfetched") ELSE gap
  BY FetchParentMoves
<1>2. /\ backfill[b].pc = "fetch_parent" /\ backfill[b].pc \in AtParents /\ ScanOK(b)
      /\ UNCHANGED <<row, remote>>
  BY DEF FetchParent, AtParents, ParentsInv, copy, source
<1>3. CASE Fetched(b, p)
  <2>1. /\ backfill'[b].seen = backfill[b].seen /\ backfill'[b].refs = backfill[b].refs
        /\ backfill'[b].batch = backfill[b].batch /\ backfill'[b].pc = "store_parent"
    BY <1>3 DEF Fetched, KeepsScan
  <2>2. \A u \in backfill[b].seen : HandledAfter(u)
    BY <1>2, ScanFacts DEF ScanOK, ReadPC
  <2>3. \A u \in backfill[b].refs \ backfill[b].batch : HandledAfter(u)
    BY <1>2, ScanFacts DEF ScanOK
  <2>4. /\ \A u \in backfill'[b].seen :
             remote'[u] # "unborn" /\ (Parent[u] # NoTask => Parent[u] \in backfill'[b].refs)
        /\ \A u \in backfill'[b].refs : remote'[u] # "unborn"
    BY <1>2, <2>1, ScanFacts DEF ScanOK
  <2>5. backfill'[b].batch \subseteq backfill'[b].refs
    BY <1>2, <2>1 DEF ScanOK
  <2> QED BY <1>3, <2>1, <2>2, <2>3, <2>4, <2>5 DEF ScanAfter, Fetched
<1>4. CASE Passed(b, p) /\ gap' = IF Live(p) THEN PassedOver(p, "unfetched") ELSE gap
  <2>1. CASE Live(p)
    <3>1. HandledAfter(p)
      BY <1>1, <1>2, <1>4, <2>1, StoredHandled
    <3> QED BY <1>1, <1>2, <1>4, <3>1, PassedScan
  <2>2. CASE ~Live(p)
    <3>1. Born(p) /\ remote[p] \in {"unborn", "live", "gone"}
      BY <1>1, <1>2 DEF ScanOK, TypeInv, TypeOK
    <3>2. HandledAfter(p)
      BY <1>2, <2>2, <3>1 DEF Born, Live, HandledAfter
    <3> QED BY <1>1, <1>2, <1>4, <3>2, PassedScan
  <2> QED BY <2>1, <2>2
<1> QED BY <1>1, <1>3, <1>4

LEMMA StoreParentScan ==
  ASSUME TypeInv, ParentsInv, Next, NEW b \in Backfill, StoreParent(b)
  PROVE  Shifts(b) /\ ScanAfter(b)
<1>1. PICK p \in backfill[b].queue :
        /\ p \in Task /\ Passed(b, p)
        /\ \/ Write(p, p \notin backfill[b].fresh)
           \/ gap' = PassedOver(p, "unfetched") /\ UNCHANGED row
  BY StoreParentMoves
<1>2. HandledAfter(p)
  BY <1>1, StoredHandled
<1>3. backfill[b].pc \in AtParents
  BY DEF StoreParent, AtParents
<1> QED BY <1>1, <1>2, <1>3, PassedScan

LEMMA ScanStep ==
  ASSUME TypeInv, ParentsInv, Next, NEW b \in Backfill
  PROVE  ScanAfter(b)
<1>c. ASSUME UNCHANGED backfill PROVE ScanAfter(b)
  BY <1>c, SameScan
<1>1. ASSUME NEW t \in Task, Change(t) \/ Remove(t) PROVE ScanAfter(b)
  <2>1. Dated(t)
    BY <1>1, OutOfDateDates DEF Change, Remove
  <2> QED BY <2>1, SameScan DEF Dated, KeepsScan
<1>2. ASSUME NEW t \in Task, Deliver(t) \/ AdminSync(t) PROVE ScanAfter(b)
  BY <1>2, <1>c DEF Deliver, AdminSync
<1>3. ASSUME NEW j \in Job, Take(j) \/ Fetch(j) \/ Upsert(j) \/ UpsertSkipped(j)
      PROVE  ScanAfter(b)
  BY <1>3, <1>c DEF Take, Fetch, Upsert, UpsertSkipped
<1>4. ASSUME NEW j \in Job, Exists(j) \/ Drop(j) \/ Tombstone(j) \/ Ensure(j)
      PROVE  ScanAfter(b)
  BY <1>4, <1>c DEF Exists, Drop, Tombstone, Ensure
<1>5. ASSUME NEW j \in Job, FetchHours(j) \/ WriteHours(j) \/ AttemptFails(j)
      PROVE  ScanAfter(b)
  BY <1>5, <1>c DEF FetchHours, WriteHours, AttemptFails
<1>6. ASSUME NEW a \in Sweeper, BeginSweep(a) \/ SweepAdd(a) \/ SweepDies(a)
      PROVE  ScanAfter(b)
  BY <1>6, <1>c DEF BeginSweep, SweepAdd, SweepDies
<1>7. ASSUME NEW r \in Requester, Ask(r) \/ RequestDies(r) PROVE ScanAfter(b)
  BY <1>7, <1>c DEF Ask, RequestDies
<1>8. ASSUME NEW r \in Requester, AddBackfill(r) PROVE ScanAfter(b)
  BY <1>8, AddBlanks, BlankScan DEF AddBackfill
<1>u. ASSUME ConnectBackfill \/ RetryBackfill PROVE ScanAfter(b)
  BY <1>u, AddBlanks, BlankScan DEF ConnectBackfill, RetryBackfill, AddUnseen
<1>9. ASSUME NEW c \in Backfill, TakeBackfill(c) PROVE ScanAfter(b)
  BY <1>9, TakeBlanks, BlankScan
<1>10. ASSUME NEW c \in Backfill, FinishBackfill(c) PROVE ScanAfter(b)
  BY <1>10, FinishBackfillBlanks, BlankScan
<1>11. ASSUME NEW c \in Backfill, BackfillFails(c) PROVE ScanAfter(b)
  BY <1>11, FailBlanks, BlankScan
<1>12. ASSUME NEW c \in Backfill, FetchPage(c) PROVE ScanAfter(b)
  BY <1>12, PageScan, OtherScan
<1>13. ASSUME NEW c \in Backfill, StoreTask(c) PROVE ScanAfter(b)
  BY <1>13, StoreScan, OtherScan
<1>14. ASSUME NEW c \in Backfill, QueueHours(c) PROVE ScanAfter(b)
  BY <1>14, QueueScan, OtherScan
<1>15. ASSUME NEW c \in Backfill, FindMissing(c) PROVE ScanAfter(b)
  BY <1>15, MissingScan, OtherScan
<1>16. ASSUME NEW c \in Backfill, FetchParent(c) PROVE ScanAfter(b)
  BY <1>16, FetchParentScan, OtherScan
<1>17. ASSUME NEW c \in Backfill, StoreParent(c) PROVE ScanAfter(b)
  BY <1>17, StoreParentScan, OtherScan
<1> QED BY <1>1, <1>2, <1>3, <1>4, <1>5, <1>6, <1>7, <1>8, <1>9, <1>10, <1>11, <1>12, <1>13,
           <1>14, <1>15, <1>16, <1>17, <1>u DEF Next

LEMMA ParentsStep ==
  ASSUME TypeInv, ParentsInv, Next
  PROVE  ParentsInv'
<1>1. ASSUME NEW t \in Task, NEW p \in Task, Parent[t] = p, remote'[t] # "unborn"
      PROVE  remote'[p] # "unborn"
  <2>1. CASE Change(t)
    <3>1. Born(p)
      BY <1>1, <2>1 DEF Change, Live, Born
    <3> QED BY <3>1, RemoteKeeps
  <2>2. CASE ~Change(t)
    <3>1. Born(t)
      BY <1>1, <2>2, RemoteStep DEF Becomes, Born, Remove, Live
    <3>2. Born(p)
      BY <1>1, <3>1 DEF ParentsInv, ParentsKnown
    <3> QED BY <3>2, RemoteKeeps
  <2> QED BY <2>1, <2>2
<1>2. ParentsKnown'
  BY <1>1 DEF ParentsKnown, Born
<1>3. \A b \in Backfill : ScanAfter(b)
  BY ScanStep
<1>4. \A b \in Backfill : ScanOK(b)'
  BY <1>3 DEF ScanAfter, ScanOK, HandledAfter, Handled, Born, Gone
<1> QED BY <1>2, <1>4 DEF ParentsInv

(* After a backfill no subtask it stored refers to a parent without a row, *)
(* unless that parent could not be fetched or written, or is gone: for any *)
(* page size, any number of backfills, and whatever changes meanwhile      *)
(* (syncMissingParents).                                                   *)
THEOREM ParentsFollow == Spec => []ParentsStored
<1>1. Init => ParentsInv
  <2> SUFFICES ASSUME Init PROVE ParentsInv
    OBVIOUS
  <2>1. ParentsKnown
    BY DEF Init, ParentsKnown, Born
  <2>2. ASSUME NEW b \in Backfill PROVE ScanOK(b)
    <3>1. backfill[b] = FreeBackfill
      BY DEF Init
    <3> QED BY <3>1, FreeBackfillFacts DEF ScanOK, AtParents, ReadPC
  <2> QED BY <2>1, <2>2 DEF ParentsInv
<1>2. TypeInv /\ ParentsInv /\ [Next]_vars => ParentsInv'
  <2>1. ASSUME ParentsInv, UNCHANGED vars PROVE ParentsInv'
    <3>1. UNCHANGED <<remote, row, gap, backfill>>
      BY <2>1 DEF vars, source, copy, queues, history
    <3>2. \A b \in Backfill : ScanOK(b)'
      BY <2>1, <3>1 DEF ParentsInv, ScanOK, Handled, Gone, Born
    <3>3. ParentsKnown'
      BY <2>1, <3>1 DEF ParentsInv, ParentsKnown, Born
    <3> QED BY <3>2, <3>3 DEF ParentsInv
  <2> QED BY <2>1, ParentsStep
<1>3. TypeInv /\ ParentsInv => ParentsStored
  <2> SUFFICES ASSUME TypeInv, ParentsInv, NEW b \in Backfill, backfill[b].pc = "done",
                      NEW t \in backfill[b].seen, Parent[t] # NoTask
               PROVE  \/ row[Parent[t]] # "none" \/ remote[Parent[t]] = "gone"
                      \/ gap[Parent[t]] \cap {"skipped", "unfetched"} # {}
    BY DEF ParentsStored
  <2>1. ScanOK(b)
    BY DEF ParentsInv
  <2>2. Parent[t] \in backfill[b].refs
    BY <2>1 DEF ScanOK
  <2>3. Handled(Parent[t])
    BY <2>1, <2>2 DEF ScanOK
  <2> QED BY <2>3 DEF Handled, Gone
<1> QED BY <1>1, <1>2, <1>3, TypeHolds, PTL DEF Spec

-----------------------------------------------------------------------------
(* The place of a task among those listed, and the pages cut from them.    *)

Place(S, t) == Cardinality({u \in S : Before(u, t)}) + 1

LEMMA OrderFacts ==
  /\ IsFiniteSet(Task)
  /\ \A t, u \in Task : t # u => Before(t, u) \/ Before(u, t)
  /\ \A t \in Task : ~Before(t, t)
  /\ \A t, u, v \in Task : Before(t, u) /\ Before(u, v) => Before(t, v)
<1>1. /\ Len(Order) \in Nat /\ DOMAIN Order = 1..Len(Order) /\ Order \in [1..Len(Order) -> Task]
      /\ \A k, l \in DOMAIN Order : Order[k] = Order[l] => k = l
  BY ConstantAssumption
<1>2. IsFiniteSet(1..Len(Order))
  BY <1>1, FS_Interval
<1>3. Order \in Surjection(1..Len(Order), Task)
  BY <1>1 DEF Task, Surjection
<1>4. IsFiniteSet(Task)
  BY <1>2, <1>3, FS_Surjection
<1>5. ASSUME NEW t \in Task, NEW u \in Task, t # u
      PROVE  Before(t, u) \/ Before(u, t)
  <2>1. PICK k, l \in DOMAIN Order : Order[k] = t /\ Order[l] = u
    BY DEF Task
  <2>2. k < l \/ l < k
    BY <1>1, <1>5, <2>1
  <2> QED BY <2>1, <2>2 DEF Before
<1>6. ASSUME NEW t \in Task PROVE ~Before(t, t)
  BY <1>1 DEF Before
<1>7. ASSUME NEW t \in Task, NEW u \in Task, NEW v \in Task, Before(t, u), Before(u, v)
      PROVE  Before(t, v)
  <2>1. PICK k, l \in DOMAIN Order : k < l /\ Order[k] = t /\ Order[l] = u
    BY <1>7 DEF Before
  <2>2. PICK m, n \in DOMAIN Order : m < n /\ Order[m] = u /\ Order[n] = v
    BY <1>7 DEF Before
  <2>3. k < n
    BY <1>1, <2>1, <2>2
  <2> QED BY <2>1, <2>2, <2>3 DEF Before
<1> QED BY <1>4, <1>5, <1>6, <1>7

LEMMA PlaceType ==
  ASSUME NEW S \in SUBSET Task, NEW t \in Task
  PROVE  /\ IsFiniteSet(S) /\ IsFiniteSet({u \in S : Before(u, t)})
         /\ Place(S, t) \in Nat /\ Place(S, t) >= 1
<1>1. IsFiniteSet(S)
  BY OrderFacts, FS_Subset
<1>2. IsFiniteSet({u \in S : Before(u, t)})
  BY <1>1, FS_Subset
<1>3. Cardinality({u \in S : Before(u, t)}) \in Nat
  BY <1>2, FS_CardinalityType
<1> QED BY <1>1, <1>2, <1>3 DEF Place

(* Places follow the order and do not exceed the number of tasks.          *)
LEMMA PlaceOrder ==
  ASSUME NEW S \in SUBSET Task, NEW u \in S, NEW t \in Task, Before(u, t)
  PROVE  Place(S, u) < Place(S, t)
<1> DEFINE A == {v \in S : Before(v, u)}
           B == {v \in S : Before(v, t)}
<1>1. IsFiniteSet(A) /\ IsFiniteSet(B)
  BY PlaceType
<1>2. u \notin A /\ A \cup {u} \subseteq B
  BY OrderFacts
<1>3. Place(S, u) = Cardinality(A) + 1 /\ Place(S, t) = Cardinality(B) + 1
  BY DEF Place
<1> HIDE DEF A, B
<1>4. Cardinality(A \cup {u}) = Cardinality(A) + 1
  BY <1>1, <1>2, FS_AddElement
<1>5. Cardinality(A \cup {u}) <= Cardinality(B)
  BY <1>1, <1>2, FS_Subset
<1>6. Cardinality(A) \in Nat /\ Cardinality(B) \in Nat
  BY <1>1, FS_CardinalityType
<1> QED BY <1>3, <1>4, <1>5, <1>6

LEMMA PlaceBound ==
  ASSUME NEW S \in SUBSET Task, NEW t \in S
  PROVE  Place(S, t) <= Cardinality(S)
<1> DEFINE A == {v \in S : Before(v, t)}
<1>1. IsFiniteSet(A) /\ IsFiniteSet(S)
  BY PlaceType
<1>2. t \notin A /\ A \cup {t} \subseteq S
  BY OrderFacts
<1>3. Place(S, t) = Cardinality(A) + 1
  BY DEF Place
<1> HIDE DEF A
<1>4. Cardinality(A \cup {t}) = Cardinality(A) + 1
  BY <1>1, <1>2, FS_AddElement
<1>5. Cardinality(A \cup {t}) <= Cardinality(S)
  BY <1>1, <1>2, FS_Subset
<1> QED BY <1>3, <1>4, <1>5

(* Every place up to the number of tasks is taken, by one task.            *)
LEMMA PlaceOnto ==
  ASSUME NEW S \in SUBSET Task
  PROVE  /\ Cardinality(S) \in Nat
         /\ [u \in S |-> Place(S, u)] \in Injection(S, 1..Cardinality(S))
         /\ [u \in S |-> Place(S, u)] \in Surjection(S, 1..Cardinality(S))
<1> DEFINE f == [u \in S |-> Place(S, u)]
           N == Cardinality(S)
<1>1. IsFiniteSet(S) /\ N \in Nat
  BY OrderFacts, FS_Subset, FS_CardinalityType
<1>2. ASSUME NEW u \in S PROVE Place(S, u) \in 1..N
  <2>1. Place(S, u) \in Nat /\ Place(S, u) >= 1
    BY PlaceType
  <2>2. Place(S, u) <= N
    BY PlaceBound
  <2> HIDE DEF N
  <2> QED BY <1>1, <2>1, <2>2
<1>3. ASSUME NEW u \in S, NEW v \in S, Place(S, u) = Place(S, v) PROVE u = v
  <2>1. Place(S, u) \in Nat
    BY PlaceType
  <2>2. ~Before(u, v) /\ ~Before(v, u)
    BY <1>3, <2>1, PlaceOrder
  <2> QED BY <2>2, OrderFacts
<1>4. f \in Injection(S, 1..N)
  BY <1>2, <1>3 DEF Injection, IsInjective
<1>5. IsFiniteSet(1..N) /\ Cardinality(1..N) = N
  BY <1>1, FS_Interval
<1> HIDE DEF f, N
<1>6. f \in Surjection(S, 1..N)
  BY <1>4, <1>5, FS_Injection DEF N
<1> QED BY <1>1, <1>4, <1>6 DEF f, N

(* A page that tasks follow is full.                                       *)
LEMMA PageFull ==
  ASSUME NEW S \in SUBSET Task, NEW first \in Nat, NEW size \in Nat, NEW t \in S,
         Place(S, t) > first + size
  PROVE  Cardinality({u \in S : Place(S, u) \in first + 1 .. first + size}) = size
<1> DEFINE N == Cardinality(S)
           A == {u \in S : Place(S, u) \in first + 1 .. first + size}
           g == [u \in A |-> Place(S, u)]
<1>1. N \in Nat /\ first + size <= N
  <2>1. t \in Task /\ N \in Nat
    BY PlaceOnto
  <2>2. Place(S, t) <= N
    BY PlaceBound
  <2>3. Place(S, t) \in Nat
    BY <2>1, PlaceType
  <2> HIDE DEF N
  <2> QED BY <2>1, <2>2, <2>3
<1>2. \A n \in first + 1 .. first + size : n \in 1..N
  BY <1>1
<1>3. \A n \in 1..N : \E u \in S : Place(S, u) = n
  BY PlaceOnto DEF Surjection
<1>4. \A u, v \in S : Place(S, u) = Place(S, v) => u = v
  BY PlaceOnto DEF Injection, IsInjective
<1>5. g \in Injection(A, first + 1 .. first + size)
  BY <1>4 DEF Injection, IsInjective
<1>6. \A n \in first + 1 .. first + size : \E u \in A : Place(S, u) = n
  BY <1>2, <1>3
<1>7. g \in Surjection(A, first + 1 .. first + size)
  BY <1>5, <1>6 DEF Injection, Surjection
<1>8. IsFiniteSet(A)
  BY PlaceType, FS_Subset
<1>9. Cardinality(first + 1 .. first + size) = size
  BY FS_Interval
<1> HIDE DEF A, g
<1>10. ExistsBijection(A, first + 1 .. first + size)
  BY <1>5, <1>7 DEF Bijection, ExistsBijection
<1>11. Cardinality(first + 1 .. first + size) = Cardinality(A)
  BY <1>8, <1>10, FS_Bijection
<1> QED BY <1>9, <1>11 DEF A

(* What a task that comes, or goes, does to the place of another.          *)
LEMMA PlaceComes ==
  ASSUME NEW S \in SUBSET Task, NEW T \in SUBSET Task, S \subseteq T, NEW t \in Task
  PROVE  Place(S, t) <= Place(T, t)
<1> DEFINE A == {v \in S : Before(v, t)}
           B == {v \in T : Before(v, t)}
<1>1. IsFiniteSet(A) /\ IsFiniteSet(B) /\ A \subseteq B
  BY PlaceType
<1>2. Place(S, t) = Cardinality(A) + 1 /\ Place(T, t) = Cardinality(B) + 1
  BY DEF Place
<1> HIDE DEF A, B
<1>3. Cardinality(A) <= Cardinality(B) /\ Cardinality(A) \in Nat /\ Cardinality(B) \in Nat
  BY <1>1, FS_Subset, FS_CardinalityType
<1> QED BY <1>2, <1>3

LEMMA PlaceGoes ==
  ASSUME NEW S \in SUBSET Task, NEW x \in Task, NEW t \in Task
  PROVE  \/ Place(S \ {x}, t) = Place(S, t)
         \/ x \in S /\ Before(x, t) /\ Place(S \ {x}, t) = Place(S, t) - 1
<1> DEFINE A == {v \in S : Before(v, t)}
           B == {v \in S \ {x} : Before(v, t)}
<1>1. IsFiniteSet(A) /\ B = A \ {x}
  BY PlaceType
<1>2. Place(S, t) = Cardinality(A) + 1 /\ Place(S \ {x}, t) = Cardinality(B) + 1
  BY DEF Place
<1>3. x \in A => x \in S /\ Before(x, t)
  OBVIOUS
<1> HIDE DEF A, B
<1>4. Cardinality(B) = IF x \in A THEN Cardinality(A) - 1 ELSE Cardinality(A)
  BY <1>1, FS_RemoveElement
<1>5. Cardinality(A) \in Nat
  BY <1>1, FS_CardinalityType
<1> QED BY <1>2, <1>3, <1>4, <1>5

-----------------------------------------------------------------------------
(* A backfill heals what it set out to.                                    *)

HealKinds == {"shifted", "skipped", "overtaken"}
Healed(t) == row[t] = "fresh" \/ gap[t] \cap HealKinds # {}
HealedAfter(t) == row'[t] = "fresh" \/ gap'[t] \cap HealKinds # {}

(* A task is about to be stored from a copy that is up to date, or is on a *)
(* page the scan will still read.                                          *)
InHand(q, t) == q.pc = "store" /\ t \in q.batch \cap q.fresh
Reading(q) == (q.pc = "page" /\ q.page = 0) \/ (q.more /\ q.pc \in {"page", "store", "queue"})
Ahead(q, place) == Reading(q) /\ place > q.page * PageSize

Scanning(q) == q.pc \notin {"free", "waiting"}

HealOK(b) ==
  LET q == backfill[b] IN
  Scanning(q) =>
    /\ q.due \subseteq Listed
    /\ ~q.truncated => \A t \in q.due :
         Healed(t) \/ InHand(q, t) \/ (t \notin q.seen /\ Ahead(q, Place(Listed, t)))

HealAfter(b) ==
  LET q == backfill'[b] IN
  Scanning(q) =>
    /\ q.due \subseteq Listed'
    /\ ~q.truncated => \A t \in q.due :
         HealedAfter(t) \/ InHand(q, t) \/ (t \notin q.seen /\ Ahead(q, Place(Listed', t)))

HealInv == \A b \in Backfill : HealOK(b)

LEMMA SourceStep ==
  ASSUME Next
  PROVE  UNCHANGED source \/ \E t \in Task : Change(t) \/ Remove(t)
<1>1. ASSUME NEW t \in Task, Deliver(t) \/ AdminSync(t) PROVE UNCHANGED source
  BY <1>1 DEF Deliver, AdminSync
<1>2. ASSUME NEW j \in Job, Take(j) \/ Fetch(j) \/ Upsert(j) \/ UpsertSkipped(j)
      PROVE  UNCHANGED source
  BY <1>2 DEF Take, Fetch, Upsert, UpsertSkipped
<1>3. ASSUME NEW j \in Job, Exists(j) \/ Drop(j) \/ Tombstone(j) \/ Ensure(j)
      PROVE  UNCHANGED source
  BY <1>3 DEF Exists, Drop, Tombstone, Ensure
<1>4. ASSUME NEW j \in Job, FetchHours(j) \/ WriteHours(j) \/ AttemptFails(j)
      PROVE  UNCHANGED source
  BY <1>4 DEF FetchHours, WriteHours, AttemptFails
<1>5. ASSUME NEW a \in Sweeper, BeginSweep(a) \/ SweepAdd(a) \/ SweepDies(a)
      PROVE  UNCHANGED source
  BY <1>5 DEF BeginSweep, SweepAdd, SweepDies
<1>6. ASSUME NEW r \in Requester, Ask(r) \/ AddBackfill(r) \/ RequestDies(r)
      PROVE  UNCHANGED source
  BY <1>6 DEF Ask, AddBackfill, RequestDies
<1>u. ASSUME ConnectBackfill \/ RetryBackfill PROVE UNCHANGED source
  BY <1>u DEF ConnectBackfill, RetryBackfill, AddUnseen
<1>7. ASSUME NEW b \in Backfill, TakeBackfill(b) \/ FetchPage(b) \/ StoreTask(b)
      PROVE  UNCHANGED source
  BY <1>7 DEF TakeBackfill, FetchPage, StoreTask
<1>8. ASSUME NEW b \in Backfill, QueueHours(b) \/ FindMissing(b) \/ FetchParent(b)
      PROVE  UNCHANGED source
  BY <1>8 DEF QueueHours, FindMissing, FetchParent
<1>9. ASSUME NEW b \in Backfill, StoreParent(b) \/ FinishBackfill(b) \/ BackfillFails(b)
      PROVE  UNCHANGED source
  BY <1>9 DEF StoreParent, FinishBackfill, BackfillFails
<1> QED BY <1>1, <1>2, <1>3, <1>4, <1>5, <1>6, <1>7, <1>8, <1>9, <1>u DEF Next

(* What a backfill may list after a step.                                  *)
LEMMA ListedStays ==
  ASSUME UNCHANGED source
  PROVE  Listed' = Listed
BY DEF source, Listed, Live

LEMMA ListedStep ==
  ASSUME TypeInv, Next
  PROVE  /\ Listed \in SUBSET Task /\ Listed' \in SUBSET Task
         /\ \/ Listed' = Listed
            \/ Listed \subseteq Listed'
            \/ \E t \in Task : Remove(t) /\ Listed' = Listed \ {t}
<1>1. Listed \in SUBSET Task
  BY DEF Listed, TypeInv, TypeOK
<1>2. ASSUME NEW t \in Task, Change(t) PROVE Listed \subseteq Listed' /\ Listed' \in SUBSET Task
  <2>1. Becomes(t, "live") /\ recent' = recent \cup {t}
    BY <1>2, ChangeMoves DEF Change
  <2>2. \A u \in Task : Live(u) => remote'[u] = "live"
    BY <2>1 DEF Becomes, Live
  <2> QED BY <1>1, <2>1, <2>2 DEF Listed, Live, TypeInv, TypeOK
<1>3. ASSUME NEW t \in Task, Remove(t) PROVE Listed' = Listed \ {t}
  <2>1. Becomes(t, "gone") /\ recent' = recent
    BY <1>3, RemoveMoves DEF Remove
  <2>2. \A u \in Task : remote'[u] = "live" <=> Live(u) /\ u # t
    BY <2>1 DEF Becomes, Live
  <2> QED BY <1>1, <2>1, <2>2 DEF Listed, Live, TypeInv, TypeOK
<1>4. UNCHANGED source => Listed' = Listed
  BY ListedStays
<1> QED BY <1>1, <1>2, <1>3, <1>4, SourceStep

(* A task that stays due is listed, and healed if it was.                  *)
LEMMA DueStays ==
  ASSUME TypeInv, GoneInv, HealInv, Next, NEW b \in Backfill, Scanning(backfill[b]),
         backfill'[b].due \subseteq backfill[b].due, NEW t \in backfill'[b].due
  PROVE  /\ t \in Task /\ t \in Listed /\ t \in Listed' /\ ~Remove(t)
         /\ Healed(t) => HealedAfter(t)
<1>1. t \in Task /\ t \in Listed /\ Live(t)
  <2>1. t \in Listed
    BY DEF HealInv, HealOK
  <2> QED BY <2>1 DEF Listed, TypeInv, TypeOK
<1>2. ~Change(t) /\ ~Remove(t)
  <2>1. ASSUME Change(t) \/ Remove(t) PROVE t \notin backfill'[b].due
    BY <1>1, <2>1, OutOfDateDates DEF Change, Remove, Dated
  <2> QED BY <2>1
<1>3. t \in Listed'
  BY <1>1, <1>2, ListedStep
<1>4. ASSUME Healed(t) PROVE HealedAfter(t)
  <2>1. RowFrom(t) /\ row[t] \in {"none", "fresh", "stale", "deleted"}
    BY <1>1, RowOrigin DEF TypeInv, TypeOK
  <2>2. ~BuriedByJob(t)
    BY <1>1 DEF BuriedByJob, Tombstone, GoneInv, Departing, Gone, Live
  <2>3. row[t] # "deleted"
    BY <1>1 DEF GoneInv, Gone, Live
  <2>4. ASSUME NEW stale \in BOOLEAN, Wrote(t, stale) PROVE HealedAfter(t)
    <3>1. CASE ~stale
      BY <2>4, <3>1 DEF Wrote, HealedAfter
    <3>2. CASE stale /\ row[t] = "fresh"
      BY <2>4, <3>2 DEF Wrote, HealedAfter, HealKinds
    <3>3. CASE stale /\ row[t] \in {"none", "stale"}
      BY <1>4, <2>4, <3>3 DEF Wrote, Healed, HealedAfter
    <3> QED BY <2>1, <2>3, <3>1, <3>2, <3>3
  <2>5. CASE WrittenByJob(t)
    BY <2>4, <2>5 DEF WrittenByJob, TypeInv, TypeOK, JobRecord
  <2>6. CASE WrittenByScan(t)
    BY <2>4, <2>6 DEF WrittenByScan
  <2>7. CASE row'[t] = row[t] /\ gap[t] \ {"late_hours"} \subseteq gap'[t]
    <3>1. "late_hours" \notin HealKinds
      BY DEF HealKinds
    <3> QED BY <1>4, <2>7, <3>1 DEF Healed, HealedAfter
  <2> QED BY <1>2, <2>1, <2>2, <2>5, <2>6, <2>7 DEF RowFrom
<1> QED BY <1>1, <1>2, <1>3, <1>4

LEMMA ShiftNoted ==
  ASSUME TypeInv, NEW x \in Task, Remove(x), NEW t \in Task, t \in Shifted(x)
  PROVE  "shifted" \in gap'[t]
<1> DEFINE moved == [u \in Task |-> IF u \in Shifted(x) THEN gap[u] \cup {"shifted"} ELSE gap[u]]
<1>1. "shifted" \in moved[t] /\ moved \in [Task -> {moved[u] : u \in Task}]
  OBVIOUS
<1>2. gap' = moved \/ gap' = [moved EXCEPT ![x] = moved[x] \cup {"undelivered"}]
  BY DEF Remove
<1> HIDE DEF moved
<1> QED BY <1>1, <1>2

(* A task on a page still to be read stays there, or has shifted.          *)
LEMMA AheadStays ==
  ASSUME TypeInv, Next, NEW b \in Backfill, NEW t \in Listed, ~Remove(t),
         t \notin backfill[b].seen, Ahead(backfill[b], Place(Listed, t))
  PROVE  Place(Listed', t) > backfill[b].page * PageSize \/ HealedAfter(t)
<1> DEFINE n == backfill[b].page * PageSize
<1>1. /\ backfill[b].page \in Nat /\ n \in Nat /\ (backfill[b].page = 0 => n = 0)
      /\ Listed \in SUBSET Task /\ Listed' \in SUBSET Task /\ t \in Task
  <2>1. backfill[b].page \in Nat /\ PageSize \in Nat
    BY ConstantAssumption DEF TypeInv, TypeOK, BackfillRecord
  <2>2. n \in Nat /\ (backfill[b].page = 0 => n = 0)
    BY <2>1
  <2>3. Listed \in SUBSET Task /\ Listed' \in SUBSET Task
    BY ListedStep
  <2> QED BY <2>1, <2>2, <2>3
<1>2. Place(Listed, t) \in Nat /\ Place(Listed', t) \in Nat /\ Place(Listed', t) >= 1
  BY <1>1, PlaceType
<1>3. Place(Listed, t) > n /\ Reading(backfill[b])
  BY DEF Ahead
<1>4. CASE Listed \subseteq Listed'
  <2>1. Place(Listed, t) <= Place(Listed', t)
    BY <1>1, <1>4, PlaceComes
  <2> HIDE DEF n
  <2>2. Place(Listed', t) > n
    BY <1>1, <1>2, <1>3, <2>1
  <2> QED BY <2>2 DEF n
<1>5. ASSUME NEW x \in Task, Remove(x), Listed' = Listed \ {x}, ~(Place(Listed', t) > n)
      PROVE  HealedAfter(t)
  <2>1. x \in Listed /\ Before(x, t) /\ Place(Listed', t) = Place(Listed, t) - 1
    <3>1. Place(Listed \ {x}, t) # Place(Listed, t)
      BY <1>3, <1>5
    <3> QED BY <1>1, <1>5, <3>1, PlaceGoes
  <2>2. Place(Listed, x) < Place(Listed, t) /\ Place(Listed, x) \in Nat
    BY <1>1, <2>1, PlaceOrder, PlaceType
  <2>3. Place(Listed, t) = n + 1 /\ Place(Listed, x) <= n /\ backfill[b].page # 0
    <3> HIDE DEF n
    <3> QED BY <1>1, <1>2, <1>3, <1>5, <2>1, <2>2
  <2>4. backfill[b].more
    BY <1>3, <2>3 DEF Reading
  <2>5. Position(t) = n + 1 /\ Position(x) <= n
    BY <2>3 DEF Position, Place
  <2>6. t \in Shifted(x)
    BY <2>1, <2>4, <2>5 DEF Shifted
  <2>7. "shifted" \in gap'[t]
    BY <1>1, <1>5, <2>6, ShiftNoted
  <2> QED BY <2>7 DEF HealedAfter, HealKinds
<1> QED BY <1>4, <1>5, ListedStep

(* A scan that stays where it is, or only loses what changed at ClickUp.   *)
LEMMA SameHeal ==
  ASSUME TypeInv, GoneInv, HealInv, Next, NEW b \in Backfill, KeepsScan(b),
         backfill'[b].pc = backfill[b].pc, backfill'[b].batch = backfill[b].batch,
         NEW D, backfill'[b].due = backfill[b].due \ D, backfill'[b].fresh = backfill[b].fresh \ D
  PROVE  HealAfter(b)
<1> SUFFICES ASSUME Scanning(backfill[b]), NEW t \in backfill'[b].due
             PROVE  /\ t \in Listed'
                    /\ ~backfill'[b].truncated =>
                         \/ HealedAfter(t) \/ InHand(backfill'[b], t)
                         \/ t \notin backfill'[b].seen /\ Ahead(backfill'[b], Place(Listed', t))
  BY DEF HealAfter, Scanning
<1>1. /\ t \in Listed /\ t \in Listed' /\ ~Remove(t) /\ (Healed(t) => HealedAfter(t))
      /\ t \in backfill[b].due /\ t \notin D
  BY DueStays
<1>2. /\ backfill'[b].truncated = backfill[b].truncated /\ backfill'[b].seen = backfill[b].seen
      /\ backfill'[b].page = backfill[b].page /\ Reading(backfill'[b]) = Reading(backfill[b])
  BY DEF KeepsScan, Reading
<1>3. ~backfill[b].truncated =>
        \/ Healed(t) \/ InHand(backfill[b], t)
        \/ t \notin backfill[b].seen /\ Ahead(backfill[b], Place(Listed, t))
  BY <1>1 DEF HealInv, HealOK
<1>4. CASE InHand(backfill[b], t)
  BY <1>1, <1>4 DEF InHand
<1>5. CASE t \notin backfill[b].seen /\ Ahead(backfill[b], Place(Listed, t))
  <2>1. Place(Listed', t) > backfill[b].page * PageSize \/ HealedAfter(t)
    BY <1>1, <1>5, AheadStays
  <2> QED BY <1>1, <1>2, <1>5, <2>1 DEF Ahead
<1> QED BY <1>1, <1>2, <1>3, <1>4, <1>5

LEMMA OtherHeal ==
  ASSUME TypeInv, GoneInv, HealInv, Next, NEW b \in Backfill, NEW c \in Backfill,
         Shifts(c), HealAfter(c)
  PROVE  HealAfter(b)
<1>1. CASE b = c
  BY <1>1
<1>2. CASE b # c
  <2>1. backfill'[b] = backfill[b]
    BY <1>2 DEF Shifts
  <2>2. /\ KeepsScan(b) /\ backfill'[b].due = backfill[b].due \ {}
        /\ backfill'[b].fresh = backfill[b].fresh \ {}
    BY <2>1 DEF KeepsScan
  <2> QED BY <2>1, <2>2, SameHeal
<1> QED BY <1>1, <1>2

LEMMA BlankHeal ==
  ASSUME TypeInv, GoneInv, HealInv, Next, NEW b \in Backfill, NEW c \in Backfill,
         NEW pc \in {"free", "waiting"}, Blank(c, pc)
  PROVE  HealAfter(b)
<1>1. Shifts(c) /\ HealAfter(c)
  BY DEF Blank, HealAfter, Scanning
<1> QED BY <1>1, OtherHeal

(* At its start everything due is ahead.                                   *)
LEMMA TakeHeal ==
  ASSUME TypeInv, Next, NEW b \in Backfill, TakeBackfill(b)
  PROVE  Shifts(b) /\ HealAfter(b)
<1>1. Blank(b, "page") /\ backfill'[b].due = Listed
  BY TakeBlanks
<1>2. Listed' = Listed /\ Listed \in SUBSET Task
  BY ListedStays, ListedStep DEF TakeBackfill
<1>3. ASSUME NEW t \in Listed
      PROVE  t \notin backfill'[b].seen /\ Ahead(backfill'[b], Place(Listed', t))
  <2>1. Place(Listed', t) \in Nat /\ Place(Listed', t) >= 1
    BY <1>2, PlaceType
  <2>2. /\ backfill'[b].seen = {} /\ backfill'[b].page = 0 /\ backfill'[b].pc = "page"
    BY <1>1 DEF Blank
  <2>3. 0 * PageSize = 0
    BY ConstantAssumption
  <2> QED BY <2>1, <2>2, <2>3 DEF Ahead, Reading
<1> QED BY <1>1, <1>2, <1>3 DEF HealAfter, Blank

(* A page read: a due task is on it, or on a later one because the page is *)
(* full.                                                                   *)
LEMMA PageHeal ==
  ASSUME TypeInv, GoneInv, HealInv, Next, NEW b \in Backfill, FetchPage(b)
  PROVE  Shifts(b) /\ HealAfter(b)
<1>1. PICK new \in SUBSET Task : Paged(b, new)
  BY PageMoves
<1>2. backfill[b].pc = "page" /\ Scanning(backfill[b]) /\ backfill'[b].due = backfill[b].due
  BY <1>1 DEF FetchPage, Scanning, Paged
<1>3. Listed' = Listed /\ Listed \in SUBSET Task
  BY ListedStays, ListedStep DEF FetchPage
<1> DEFINE q == backfill[b]
           r == backfill'[b]
           n == q.page * PageSize
<1>4. /\ q.page \in Nat /\ PageSize \in Nat /\ n \in Nat /\ (q.page + 1) * PageSize = n + PageSize
  <2>1. q.page \in Nat /\ PageSize \in Nat
    BY ConstantAssumption DEF TypeInv, TypeOK, BackfillRecord
  <2> QED BY <2>1
<1>5. /\ new = Page(q.page) \ q.seen /\ r.page = q.page + 1 /\ r.seen = q.seen \cup new
      /\ r.batch = new /\ r.fresh = new
      /\ Cardinality(Page(q.page)) = PageSize => r.more \/ r.truncated
      /\ r.pc = IF new = {} THEN AfterBatch(r.more) ELSE "store"
  BY <1>1 DEF Paged
<1>6. Page(q.page) = {t \in Listed : Place(Listed, t) \in n + 1 .. n + PageSize}
  BY <1>4 DEF Page, Position, Place
<1> HIDE DEF q, r, n
<1>7. ASSUME NEW t \in backfill'[b].due
      PROVE  /\ t \in Listed'
             /\ ~r.truncated => \/ HealedAfter(t) \/ InHand(r, t)
                                \/ t \notin r.seen /\ Ahead(r, Place(Listed', t))
  <2>1. t \in Listed' /\ t \in Listed /\ t \in Task /\ (Healed(t) => HealedAfter(t))
    BY <1>2, DueStays
  <2>2. Place(Listed, t) \in Nat
    BY <1>3, <2>1, PlaceType
  <2>3. ~InHand(q, t)
    BY <1>2 DEF InHand, q
  <2>4. Healed(t) \/ (t \notin q.seen /\ Place(Listed, t) > n)
    <3>1. ~q.truncated
      BY <1>2 DEF TypeInv, BackfillsOK, GoodBackfill, q
    <3> QED BY <1>2, <2>3, <3>1 DEF HealInv, HealOK, Ahead, q, n
  <2>5. CASE t \notin q.seen /\ Place(Listed, t) > n /\ Place(Listed, t) <= n + PageSize
    <3>1. t \in new
      BY <1>4, <1>5, <1>6, <2>1, <2>2, <2>5
    <3> QED BY <1>5, <2>1, <3>1 DEF InHand
  <2>6. CASE t \notin q.seen /\ Place(Listed, t) > n + PageSize /\ ~r.truncated
    <3>1. Cardinality(Page(q.page)) = PageSize
      BY <1>3, <1>4, <1>6, <2>1, <2>6, PageFull
    <3>2. t \notin new
      BY <1>4, <1>5, <1>6, <2>2, <2>6
    <3>3. r.more /\ r.pc \in {"page", "store"}
      BY <1>5, <2>6, <3>1 DEF AfterBatch
    <3> QED BY <1>3, <1>4, <1>5, <2>1, <2>6, <3>2, <3>3 DEF Ahead, Reading
  <2> QED BY <1>4, <2>1, <2>2, <2>4, <2>5, <2>6
<1> QED BY <1>1, <1>7 DEF HealAfter, Paged, r

LEMMA StoreHeal ==
  ASSUME TypeInv, GoneInv, HealInv, Next, NEW b \in Backfill, StoreTask(b)
  PROVE  Shifts(b) /\ HealAfter(b)
<1>1. PICK x \in backfill[b].batch :
        /\ x \in Task /\ StoredOne(b, x)
        /\ \/ Write(x, x \notin backfill[b].fresh)
           \/ gap' = PassedOver(x, "skipped") /\ UNCHANGED row
  BY StoreTaskMoves
<1>2. backfill[b].pc = "store" /\ Scanning(backfill[b])
  BY DEF StoreTask, Scanning
<1>3. /\ backfill'[b].due = backfill[b].due /\ backfill'[b].truncated = backfill[b].truncated
      /\ backfill'[b].page = backfill[b].page /\ backfill'[b].more = backfill[b].more
      /\ backfill'[b].seen = backfill[b].seen /\ backfill'[b].fresh = backfill[b].fresh
      /\ backfill'[b].batch = backfill[b].batch \ {x}
      /\ backfill'[b].pc = IF backfill[b].batch = {x} THEN "queue" ELSE "store"
  BY <1>1 DEF StoredOne, KeepsScan
<1>4. x \in backfill[b].fresh => HealedAfter(x)
  <2>1. RowType /\ "skipped" \in GapKind
    BY DEF TypeInv, TypeOK, RowType, GapKind
  <2>2. CASE Write(x, FALSE)
    <3>1. Wrote(x, FALSE)
      BY <1>1, <2>1, <2>2, WriteWrote
    <3> QED BY <3>1 DEF Wrote, HealedAfter
  <2>3. CASE gap' = PassedOver(x, "skipped") /\ UNCHANGED row
    <3>1. Noted(x, "skipped")
      BY <1>1, <2>1, <2>3, PassedNotes
    <3> QED BY <3>1 DEF Noted, HealedAfter, HealKinds
  <2>4. x \in backfill[b].fresh => (x \notin backfill[b].fresh) = FALSE
    OBVIOUS
  <2> QED BY <1>1, <2>2, <2>3, <2>4
<1>5. ASSUME NEW t \in backfill'[b].due
      PROVE  /\ t \in Listed'
             /\ ~backfill'[b].truncated =>
                  \/ HealedAfter(t) \/ InHand(backfill'[b], t)
                  \/ t \notin backfill'[b].seen /\ Ahead(backfill'[b], Place(Listed', t))
  <2>1. /\ t \in Listed' /\ t \in Listed /\ t \in backfill[b].due /\ ~Remove(t)
        /\ Healed(t) => HealedAfter(t)
    BY <1>2, <1>3, DueStays
  <2>2. ~backfill[b].truncated =>
          \/ Healed(t) \/ InHand(backfill[b], t)
          \/ t \notin backfill[b].seen /\ Ahead(backfill[b], Place(Listed, t))
    BY <1>2, <2>1 DEF HealInv, HealOK
  <2>3. CASE InHand(backfill[b], t)
    <3>1. CASE t = x
      BY <1>4, <2>1, <2>3, <3>1 DEF InHand
    <3>2. CASE t # x
      BY <1>3, <2>1, <2>3, <3>2 DEF InHand
    <3> QED BY <3>1, <3>2
  <2>4. CASE t \notin backfill[b].seen /\ Ahead(backfill[b], Place(Listed, t))
    <3>1. Place(Listed', t) > backfill[b].page * PageSize \/ HealedAfter(t)
      BY <2>1, <2>4, AheadStays
    <3>2. Reading(backfill'[b])
      BY <1>2, <1>3, <2>4 DEF Ahead, Reading
    <3> QED BY <1>3, <2>1, <2>4, <3>1, <3>2 DEF Ahead
  <2> QED BY <1>3, <2>1, <2>2, <2>3, <2>4
<1> QED BY <1>1, <1>5 DEF HealAfter, StoredOne

LEMMA QueueHeal ==
  ASSUME TypeInv, GoneInv, HealInv, Next, NEW b \in Backfill, QueueHours(b)
  PROVE  Shifts(b) /\ HealAfter(b)
<1>1. backfill[b].pc = "queue" /\ Scanning(backfill[b]) /\ \E t : QueuedOne(b, t)
  BY HoursAdds DEF Scanning
<1>2. PICK x : QueuedOne(b, x)
  BY <1>1
<1>3. /\ backfill'[b].due = backfill[b].due /\ backfill'[b].truncated = backfill[b].truncated
      /\ backfill'[b].page = backfill[b].page /\ backfill'[b].more = backfill[b].more
      /\ backfill'[b].seen = backfill[b].seen
      /\ backfill[b].more => backfill'[b].pc \in {"queue", "page"}
  BY <1>2 DEF QueuedOne, KeepsScan, AfterBatch
<1>4. ASSUME NEW t \in backfill'[b].due
      PROVE  /\ t \in Listed'
             /\ ~backfill'[b].truncated =>
                  \/ HealedAfter(t) \/ InHand(backfill'[b], t)
                  \/ t \notin backfill'[b].seen /\ Ahead(backfill'[b], Place(Listed', t))
  <2>1. /\ t \in Listed' /\ t \in Listed /\ t \in backfill[b].due /\ ~Remove(t)
        /\ Healed(t) => HealedAfter(t)
    BY <1>1, <1>3, DueStays
  <2>2. ~backfill[b].truncated =>
          Healed(t) \/ (t \notin backfill[b].seen /\ Ahead(backfill[b], Place(Listed, t)))
    BY <1>1, <2>1 DEF HealInv, HealOK, InHand
  <2>3. CASE t \notin backfill[b].seen /\ Ahead(backfill[b], Place(Listed, t))
    <3>1. Place(Listed', t) > backfill[b].page * PageSize \/ HealedAfter(t)
      BY <2>1, <2>3, AheadStays
    <3>2. Reading(backfill'[b])
      BY <1>1, <1>3, <2>3 DEF Ahead, Reading
    <3> QED BY <1>3, <2>1, <2>3, <3>1, <3>2 DEF Ahead
  <2> QED BY <1>3, <2>1, <2>2, <2>3
<1> QED BY <1>2, <1>4 DEF HealAfter, QueuedOne

(* Past the last page everything due is healed.                            *)
LEMMA LateHeal ==
  ASSUME TypeInv, GoneInv, HealInv, Next, NEW b \in Backfill,
         backfill[b].pc \in {"missing", "fetch_parent", "store_parent"},
         Shifts(b), KeepsScan(b), backfill'[b].due = backfill[b].due
  PROVE  Shifts(b) /\ HealAfter(b)
<1>1. Scanning(backfill[b]) /\ backfill'[b].truncated = backfill[b].truncated
  BY DEF Scanning, KeepsScan
<1>2. ASSUME NEW t \in backfill'[b].due
      PROVE  t \in Listed' /\ (~backfill'[b].truncated => HealedAfter(t))
  <2>1. t \in Listed' /\ t \in backfill[b].due /\ (Healed(t) => HealedAfter(t))
    BY <1>1, DueStays
  <2>2. ~backfill[b].truncated => Healed(t)
    BY <1>1, <2>1 DEF HealInv, HealOK, InHand, Ahead, Reading
  <2> QED BY <1>1, <2>1, <2>2
<1> QED BY <1>2 DEF HealAfter

LEMMA HealStep ==
  ASSUME TypeInv, GoneInv, HealInv, Next, NEW b \in Backfill
  PROVE  HealAfter(b)
<1>c. ASSUME UNCHANGED backfill PROVE HealAfter(b)
  <2>1. /\ KeepsScan(b) /\ backfill'[b].due = backfill[b].due \ {}
        /\ backfill'[b].fresh = backfill[b].fresh \ {}
    BY <1>c DEF KeepsScan
  <2> QED BY <1>c, <2>1, SameHeal
<1>1. ASSUME NEW t \in Task, Change(t) \/ Remove(t) PROVE HealAfter(b)
  <2>1. Dated(t)
    BY <1>1, OutOfDateDates DEF Change, Remove
  <2> QED BY <2>1, SameHeal DEF Dated
<1>2. ASSUME NEW t \in Task, Deliver(t) \/ AdminSync(t) PROVE HealAfter(b)
  BY <1>2, <1>c DEF Deliver, AdminSync
<1>3. ASSUME NEW j \in Job, Take(j) \/ Fetch(j) \/ Upsert(j) \/ UpsertSkipped(j)
      PROVE  HealAfter(b)
  BY <1>3, <1>c DEF Take, Fetch, Upsert, UpsertSkipped
<1>4. ASSUME NEW j \in Job, Exists(j) \/ Drop(j) \/ Tombstone(j) \/ Ensure(j)
      PROVE  HealAfter(b)
  BY <1>4, <1>c DEF Exists, Drop, Tombstone, Ensure
<1>5. ASSUME NEW j \in Job, FetchHours(j) \/ WriteHours(j) \/ AttemptFails(j)
      PROVE  HealAfter(b)
  BY <1>5, <1>c DEF FetchHours, WriteHours, AttemptFails
<1>6. ASSUME NEW a \in Sweeper, BeginSweep(a) \/ SweepAdd(a) \/ SweepDies(a)
      PROVE  HealAfter(b)
  BY <1>6, <1>c DEF BeginSweep, SweepAdd, SweepDies
<1>7. ASSUME NEW r \in Requester, Ask(r) \/ RequestDies(r) PROVE HealAfter(b)
  BY <1>7, <1>c DEF Ask, RequestDies
<1>8. ASSUME NEW r \in Requester, AddBackfill(r) PROVE HealAfter(b)
  BY <1>8, AddBlanks, BlankHeal DEF AddBackfill
<1>u. ASSUME ConnectBackfill \/ RetryBackfill PROVE HealAfter(b)
  BY <1>u, AddBlanks, BlankHeal DEF ConnectBackfill, RetryBackfill, AddUnseen
<1>9. ASSUME NEW c \in Backfill, TakeBackfill(c) PROVE HealAfter(b)
  BY <1>9, TakeHeal, OtherHeal
<1>10. ASSUME NEW c \in Backfill, FinishBackfill(c) PROVE HealAfter(b)
  BY <1>10, FinishBackfillBlanks, BlankHeal
<1>11. ASSUME NEW c \in Backfill, BackfillFails(c) PROVE HealAfter(b)
  BY <1>11, FailBlanks, BlankHeal
<1>12. ASSUME NEW c \in Backfill, FetchPage(c) PROVE HealAfter(b)
  BY <1>12, PageHeal, OtherHeal
<1>13. ASSUME NEW c \in Backfill, StoreTask(c) PROVE HealAfter(b)
  BY <1>13, StoreHeal, OtherHeal
<1>14. ASSUME NEW c \in Backfill, QueueHours(c) PROVE HealAfter(b)
  BY <1>14, QueueHeal, OtherHeal
<1>15. ASSUME NEW c \in Backfill, FindMissing(c) PROVE HealAfter(b)
  <2>1. Shifts(c) /\ HealAfter(c)
    BY <1>15, MissingMoves, LateHeal DEF Searched
  <2> QED BY <2>1, OtherHeal
<1>16. ASSUME NEW c \in Backfill, FetchParent(c) PROVE HealAfter(b)
  <2>1. Shifts(c) /\ HealAfter(c)
    BY <1>16, FetchParentMoves, LateHeal DEF Fetched, Passed
  <2> QED BY <2>1, OtherHeal
<1>17. ASSUME NEW c \in Backfill, StoreParent(c) PROVE HealAfter(b)
  <2>1. Shifts(c) /\ HealAfter(c)
    BY <1>17, StoreParentMoves, LateHeal DEF Passed
  <2> QED BY <2>1, OtherHeal
<1> QED BY <1>1, <1>2, <1>3, <1>4, <1>5, <1>6, <1>7, <1>8, <1>9, <1>10, <1>11, <1>12, <1>13,
           <1>14, <1>15, <1>16, <1>17, <1>u DEF Next

(* A backfill that reports success has brought every task in its scope up  *)
(* to date, unless a page shifted, a row could not be written, or an older *)
(* copy was written over it: for any number of tasks and backfills, any    *)
(* page size and page cap, and whatever comes, changes and goes meanwhile  *)
(* (backfillSpace, streamAllTasksBySpace).                                 *)
THEOREM BackfillsHeal == Spec => []BackfillHeals
<1>1. Init => HealInv
  BY FreeBackfillFacts DEF Init, HealInv, HealOK, Scanning
<1>2. TypeInv /\ GoneInv /\ HealInv /\ [Next]_vars => HealInv'
  <2>1. ASSUME HealInv, UNCHANGED vars PROVE HealInv'
    <3>1. UNCHANGED <<remote, recent, row, gap, backfill>>
      BY <2>1 DEF vars, source, copy, queues, history
    <3>2. Listed' = Listed
      BY <3>1 DEF Listed, Live
    <3>3. \A b \in Backfill : HealOK(b)'
      BY <2>1, <3>1, <3>2 DEF HealInv, HealOK, Healed, Place, InHand, Ahead, Reading, Scanning
    <3> QED BY <3>3 DEF HealInv
  <2>2. ASSUME TypeInv, GoneInv, HealInv, Next PROVE HealInv'
    <3>1. \A b \in Backfill : HealAfter(b)
      BY <2>2, HealStep
    <3>2. \A b \in Backfill : HealOK(b)'
      BY <3>1
      DEF HealAfter, HealOK, HealedAfter, Healed, Place, InHand, Ahead, Reading, Scanning
    <3> QED BY <3>2 DEF HealInv
  <2> QED BY <2>1, <2>2
<1>3. HealInv => BackfillHeals
  BY DEF HealInv, HealOK, BackfillHeals, Healed, HealKinds, InHand, Ahead, Reading, Scanning
<1> QED BY <1>1, <1>2, <1>3, TypeHolds, GoneHolds, PTL DEF Spec

-----------------------------------------------------------------------------
(* What a step may do to a row.                                            *)

(* An up-to-date row is of a task that ClickUp has.                        *)
FreshRows == \A t \in Task : row[t] = "fresh" => Live(t)

LEMMA FreshRowsStep ==
  ASSUME TypeInv, FreshInv, FreshRows, Next
  PROVE  FreshRows'
<1> SUFFICES ASSUME NEW t \in Task, row'[t] = "fresh"
             PROVE  remote'[t] = "live"
  BY DEF FreshRows, Live
<1>1. CASE Change(t)
  BY <1>1, ChangeMoves DEF Becomes
<1>2. ~Remove(t)
  BY RemoveMoves DEF Ages
<1>3. CASE ~Change(t)
  <2>1. remote'[t] = remote[t]
    BY <1>2, <1>3, SameRemote
  <2>2. CASE row[t] = "fresh"
    BY <2>1, <2>2 DEF FreshRows, Live
  <2>3. CASE WrittenByJob(t)
    <3>1. PICK j \in Job : Upsert(j) /\ job[j].task = t /\ Wrote(t, job[j].stale)
      BY <2>3 DEF WrittenByJob
    <3>2. job[j].pc = "upsert" /\ ~job[j].stale
      BY <3>1 DEF Wrote, Upsert
    <3> QED BY <2>1, <3>1, <3>2 DEF FreshInv, Live
  <2>4. CASE WrittenByScan(t)
    <3>1. PICK b \in Backfill : Wrote(t, t \notin backfill[b].fresh)
      BY <2>4 DEF WrittenByScan
    <3>2. t \in backfill[b].fresh
      BY <3>1 DEF Wrote
    <3> QED BY <2>1, <3>2 DEF FreshInv, Live
  <2> QED BY <2>2, <2>3, <2>4, RowOrigin DEF RowFrom, BuriedByJob, Buried
<1> QED BY <1>1, <1>3

LEMMA FreshRowsHold == Spec => []FreshRows
<1>1. Init => FreshRows
  BY DEF Init, FreshRows, Live
<1>2. TypeInv /\ FreshInv /\ FreshRows /\ [Next]_vars => FreshRows'
  <2>1. ASSUME FreshRows, UNCHANGED vars PROVE FreshRows'
    BY <2>1 DEF vars, source, copy, FreshRows, Live
  <2> QED BY <2>1, FreshRowsStep
<1> QED BY <1>1, <1>2, TypeHolds, FreshHolds, PTL DEF Spec

(* What may happen to the row of a task in one step: it is never erased,   *)
(* one that is up to date stays so until ClickUp changes the task or an    *)
(* older copy is written over it, and a tombstone stands until an older    *)
(* copy is.                                                                *)
RowMove(t) ==
  /\ row[t] # "none" => row'[t] # "none"
  /\ row[t] = "fresh" /\ row'[t] # "fresh" =>
       \/ Change(t) \/ Remove(t)
       \/ row'[t] = "stale" /\ "overtaken" \in gap'[t]
  /\ row[t] = "deleted" /\ row'[t] # "deleted" =>
       row'[t] = "stale" /\ "resurrected" \in gap'[t]

LEMMA RowMoves ==
  ASSUME TypeInv, GoneInv, GoneInv', FreshInv, FreshRows, Next, NEW t \in Task
  PROVE  RowMove(t)
<1>t. row[t] \in {"none", "fresh", "stale", "deleted"}
  BY DEF TypeInv, TypeOK
<1>1. CASE row'[t] = row[t]
  BY <1>1 DEF RowMove
<1>2. CASE (Change(t) \/ Remove(t)) /\ row[t] = "fresh" /\ row'[t] = "stale"
  BY <1>2 DEF RowMove
<1>3. CASE BuriedByJob(t)
  <2>1. row'[t] = "deleted"
    BY <1>3 DEF BuriedByJob, Buried
  <2>2. remote'[t] = "gone"
    BY <2>1 DEF GoneInv, Gone
  <2>3. row[t] = "fresh" => Change(t) \/ Remove(t)
    BY <2>2, SameRemote DEF FreshRows, Live
  <2> QED BY <2>1, <2>3 DEF RowMove
<1>4. ASSUME NEW stale \in BOOLEAN, Wrote(t, stale), ~stale => Live(t)
      PROVE  RowMove(t)
  <2>1. row[t] = "deleted" => stale
    BY <1>4 DEF GoneInv, Gone, Live
  <2> QED BY <1>4, <2>1 DEF Wrote, RowMove
<1>5. CASE WrittenByJob(t)
  <2>1. PICK j \in Job : Upsert(j) /\ job[j].task = t /\ Wrote(t, job[j].stale)
    BY <1>5 DEF WrittenByJob
  <2>2. job[j].stale \in BOOLEAN /\ job[j].pc = "upsert"
    BY <2>1 DEF TypeInv, TypeOK, JobRecord, Upsert
  <2> QED BY <1>4, <2>1, <2>2 DEF FreshInv
<1>6. CASE WrittenByScan(t)
  <2>1. PICK b \in Backfill : Wrote(t, t \notin backfill[b].fresh)
    BY <1>6 DEF WrittenByScan
  <2> QED BY <1>4, <2>1 DEF FreshInv
<1> QED BY <1>1, <1>2, <1>3, <1>5, <1>6, RowOrigin DEF RowFrom

(* No step erases a row, spoils an up-to-date one or lifts a tombstone     *)
(* except as RowMove says, in particular no failing call, no skipped row,  *)
(* no sweep and no backfill (upsert, softDelete, syncTasks), with any      *)
(* numbers of tasks, jobs, sweeps and backfills at work.                   *)
THEOREM RowsMove == Spec => [][\A t \in Task : RowMove(t)]_vars
<1>1. TypeInv /\ GoneInv /\ GoneInv' /\ FreshInv /\ FreshRows /\ [Next]_vars
        => [\A t \in Task : RowMove(t)]_vars
  BY RowMoves
<1> QED BY <1>1, TypeHolds, GoneHolds, FreshHolds, FreshRowsHold, PTL DEF Spec
=============================================================================
