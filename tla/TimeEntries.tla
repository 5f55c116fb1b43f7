----------------------------- MODULE TimeEntries -----------------------------
(***************************************************************************)
(* Tracked time: the local mirror of ClickUp's time entries, and the       *)
(* re-assignment of tagged entries.                                        *)
(*                                                                         *)
(* A sync job fetches a slice of ClickUp's entries, upserts what it got,   *)
(* prunes local rows of the slice that ClickUp did not return, and queues  *)
(* a replacement job for every tagged entry.  A replacement job creates a  *)
(* copy of the entry under the mapped user, records that in                *)
(* time_entry_replacements, deletes the original in ClickUp, and exchanges *)
(* the two local rows.  Every ClickUp call and every database round trip   *)
(* is a step of its own: sync jobs, replacement jobs, users of ClickUp and *)
(* administrators interleave between any two of them.                      *)
(***************************************************************************)
EXTENDS Naturals, FiniteSets

CONSTANTS
  Original,        \* entries that users log in ClickUp
  Copy,            \* ids ClickUp gives to entries the worker creates: a bound
  NoEntry,         \* "no entry"
  Tagged,          \* originals that carry the mapped tag
  Slices,          \* sets of entries one sync may ask for (task or space, users, window)
  Sync,            \* sync jobs at work at once
  Job,             \* slots of the clickup-assignee-replacement queue: a bound
  Attempts,        \* JOB_ATTEMPTS of defaultJobOptions
  Workers,         \* replacement jobs processed at once, over all instances
  MaxStalls,       \* BullMQ maxStalledCount
  PruneSafetyMax,  \* PRUNE_SAFETY_MAX_ENTRIES
  Faults           \* which failures the environment may produce

Entry == Original \cup Copy

FaultKind ==
  {"crash",        \* a worker process dies between two steps
   "call",         \* a ClickUp call or a database statement fails without effect
   "answer",       \* a ClickUp call takes effect but its answer is lost
   "letter",       \* the dead-letter insert fails
   "task",         \* an entry's task cannot be fetched from ClickUp for now
   "truncation"}   \* ClickUp returns a part of a large slice

ASSUME ConstantAssumption ==
  /\ NoEntry \notin Entry
  /\ Original \cap Copy = {}
  /\ Tagged \subseteq Original
  /\ Slices \subseteq SUBSET Entry
  /\ Attempts \in Nat \ {0} /\ Workers \in Nat \ {0}
  /\ MaxStalls \in Nat /\ PruneSafetyMax \in Nat \ {0}
  /\ Faults \subseteq FaultKind

VARIABLES
  remote,     \* entries ClickUp holds
  made,       \* the original each copy was created from
  local,      \* clickup_time_entries rows
  audit,      \* time_entry_replacements: the copy recorded for an original
  mapped,     \* whether tag_assignee_map has an active row for the tag
  job,        \* the clickup-assignee-replacement queue
  kept,       \* originals whose keyed job is kept in Redis, completed or failed
  dead,       \* originals with a dead-letter row
  sync,       \* sync jobs
  backfill,   \* originals the backfill-replacement request still has to queue
  logged,     \* history: entries that were ever logged by a user
  byUser,     \* history: entries a user deleted in ClickUp
  removed,    \* history: originals the worker deleted in ClickUp
  gap,        \* history: the windows an original fell into
  disturbed   \* history: syncs during which someone else changed remote or local

vars == <<remote, made, local, audit, mapped, job, kept, dead, sync, backfill,
          logged, byUser, removed, gap, disturbed>>

(* The windows in which the code loses track of a replacement.             *)
GapKind ==
  {"unrecorded",    \* a copy was created and the attempt failed before the audit row
   "parallel",      \* two jobs of the same original were processed at once
   "late_upsert",   \* a sync wrote the row of an entry that ClickUp no longer had
   "letter_lost",   \* attempts exhausted, dead-letter row not written
   "stalled_out"}   \* BullMQ failed the stalled job with attempts left

Phase ==
  {"free", "waiting", "lookup", "redelete", "redrop", "mapping", "create",
   "record", "delete", "upsert", "drop", "exhausted"}

JobRecord == [phase : Phase, orig : Original \cup {NoEntry}, keyed : BOOLEAN,
              copy : Copy \cup {NoEntry}, left : 0..Attempts, stalls : 0..MaxStalls]

SyncRecord == [pc : {"idle", "resolve", "persist", "map", "enqueue"}, slice : SUBSET Entry,
               got : SUBSET Entry, todo : SUBSET Entry, keep : SUBSET Entry,
               before : SUBSET Entry]

FreeJob  == [phase |-> "free", orig |-> NoEntry, keyed |-> TRUE, copy |-> NoEntry,
              left |-> 0, stalls |-> 0]
IdleSync == [pc |-> "idle", slice |-> {}, got |-> {}, todo |-> {}, keep |-> {}, before |-> {}]

TypeOK ==
  /\ remote \subseteq Entry
  /\ made \in [Copy -> Original \cup {NoEntry}]
  /\ local \subseteq Entry
  /\ audit \in [Original -> Copy \cup {NoEntry}]
  /\ mapped \in BOOLEAN
  /\ job \in [Job -> JobRecord]
  /\ kept \subseteq Original
  /\ dead \subseteq Original
  /\ sync \in [Sync -> SyncRecord]
  /\ backfill \subseteq Original
  /\ logged \subseteq Original
  /\ byUser \subseteq Entry
  /\ removed \subseteq Original
  /\ gap \in [Original -> SUBSET GapKind]
  /\ disturbed \subseteq Sync

Init ==
  /\ remote = {} /\ local = {} /\ logged = {} /\ byUser = {} /\ removed = {}
  /\ made = [c \in Copy |-> NoEntry]
  /\ audit = [o \in Original |-> NoEntry]
  /\ mapped \in BOOLEAN
  /\ job = [j \in Job |-> FreeJob]
  /\ kept = {} /\ dead = {} /\ backfill = {}
  /\ sync = [s \in Sync |-> IdleSync]
  /\ gap = [o \in Original |-> {}]
  /\ disturbed = {}

-----------------------------------------------------------------------------
(* Predicates and helpers.                                                 *)

Active(j)  == job[j].phase \notin {"free", "waiting", "exhausted"}
Working(j) == job[j].phase # "free"

(* Someone other than the syncs in self changes remote or local.           *)
Disturb(self) ==
  disturbed' = disturbed \cup {s \in Sync \ self : sync[s].pc # "idle"}

-----------------------------------------------------------------------------
(* Faulty variants of some definitions below, as plausible bugs would make *)
(* them.  The specification uses none of them.                             *)

(* The original goes before the audit row is written.                      *)
DeleteFirst(b, c) ==
  [phase |-> "delete", orig |-> b.orig, keyed |-> b.keyed, copy |-> c, left |-> b.left,
   stalls |-> b.stalls]

(* The retry gate never closes.                                            *)
EndlessAttempts(b) ==
  [phase |-> "waiting", orig |-> b.orig, keyed |-> b.keyed, copy |-> NoEntry,
   left |-> b.left - 1, stalls |-> b.stalls]

(* Only the mapping decides, not what was replaced already.                *)
LookupIgnoringAudit(j) ==
  /\ job[j].phase = "lookup"
  /\ job' = [job EXCEPT ![j] = [@ EXCEPT !.phase = "mapping"]]
  /\ UNCHANGED <<remote, made, local, audit, mapped, kept, dead, sync, backfill, logged, byUser,
                 removed, gap, disturbed>>

(* Every failure of the deletion counts as success.                        *)
DeleteSwallowed(j) ==
  /\ job[j].phase \in {"delete", "redelete"}
  /\ remote' \in {remote, remote \ {job[j].orig}}
  /\ removed' = removed \cup (remote \ remote')
  /\ job' = [job EXCEPT ![j] = [@ EXCEPT !.phase = IF @ = "delete" THEN "upsert" ELSE "redrop"]]
  /\ Disturb({})
  /\ UNCHANGED <<made, local, audit, mapped, kept, dead, sync, backfill, logged, byUser, gap>>

(* The last failure of a job is taken for one that will be retried.        *)
LetterForgotten(j) ==
  /\ job[j].phase = "exhausted"
  /\ job' = [job EXCEPT ![j] = FreeJob]
  /\ kept' = IF job[j].keyed THEN kept \cup {job[j].orig} ELSE kept
  /\ UNCHANGED <<remote, made, local, audit, mapped, dead, sync, backfill, logged, byUser, removed,
                 gap, disturbed>>

(* The audit row is replaced instead of inserted.                          *)
RecordOverwrites(j) ==
  /\ job[j].phase = "record"
  /\ audit' = [audit EXCEPT ![job[j].orig] = job[j].copy]
  /\ job' = [job EXCEPT ![j] = [@ EXCEPT !.phase = "delete"]]
  /\ UNCHANGED <<remote, made, local, mapped, kept, dead, sync, backfill, logged, byUser, removed,
                 gap, disturbed>>

(* A prune that trusts every response, and one that trusts no empty one.   *)
PrunedAlways(b) == b.slice \ b.keep
PrunedUnlessEmpty(b) ==
  IF b.got = {} \/ Cardinality(b.got) >= PruneSafetyMax THEN {} ELSE b.slice \ b.keep

-----------------------------------------------------------------------------
(* The queue.                                                              *)

AtPhase(b, p) ==
  [phase |-> p, orig |-> b.orig, keyed |-> b.keyed, copy |-> b.copy, left |-> b.left,
   stalls |-> b.stalls]

Holding(b, c) ==
  [phase |-> "record", orig |-> b.orig, keyed |-> b.keyed, copy |-> c, left |-> b.left,
   stalls |-> b.stalls]

NewJob(o, keyed) ==
  [phase |-> "waiting", orig |-> o, keyed |-> keyed, copy |-> NoEntry,
   left |-> Attempts, stalls |-> 0]

(* A failed attempt: back to the queue, or out of attempts.                *)
OneAttemptLess(b) ==
  [phase |-> IF b.left > 1 THEN "waiting" ELSE "exhausted", orig |-> b.orig,
   keyed |-> b.keyed, copy |-> NoEntry, left |-> b.left - 1, stalls |-> b.stalls]

Stalled(b) ==
  [phase |-> "waiting", orig |-> b.orig, keyed |-> b.keyed, copy |-> NoEntry,
   left |-> b.left, stalls |-> b.stalls + 1]

(* queue.add with the deterministic id replace-<entry>: BullMQ ignores it  *)
(* while it knows a job of that id, be it waiting, active or kept.         *)
Known(o) == o \in kept \/ \E j \in Job : Working(j) /\ job[j].keyed /\ job[j].orig = o

AddKeyed(o) ==
  IF Known(o) THEN UNCHANGED job
  ELSE \E j \in Job :
         /\ job[j].phase = "free"
         /\ job' = [job EXCEPT ![j] = NewJob(o, TRUE)]

(* The job ends; a keyed one stays behind under its id for a while.        *)
Retained(j) == IF job[j].keyed THEN kept \cup {job[j].orig} ELSE kept

Finish(j) ==
  /\ job' = [job EXCEPT ![j] = FreeJob]
  /\ kept' = Retained(j)

(* The attempt of job j ends without the audit row of the copy it made.    *)
Orphaned(j) ==
  IF job[j].phase = "record"
  THEN [gap EXCEPT ![job[j].orig] = @ \cup {"unrecorded"}] ELSE gap

-----------------------------------------------------------------------------
(* Users of ClickUp, administrators, and Redis.                            *)

LogEntry(o) ==
  /\ o \notin logged
  /\ remote' = remote \cup {o}
  /\ logged' = logged \cup {o}
  /\ Disturb({})
  /\ UNCHANGED <<made, local, audit, mapped, job, kept, dead, sync, backfill, byUser, removed, gap>>

UserDeletes(x) ==
  /\ x \in remote
  /\ remote' = remote \ {x}
  /\ byUser' = byUser \cup {x}
  /\ Disturb({})
  /\ UNCHANGED <<made, local, audit, mapped, job, kept, dead, sync, backfill, logged, removed, gap>>

ToggleMapping ==
  /\ mapped' = ~mapped
  /\ UNCHANGED <<remote, made, local, audit, job, kept, dead, sync, backfill, logged, byUser,
                 removed, gap, disturbed>>

(* POST time-entries/backfill-replacement: the scan, then one queue.add    *)
(* per entry; none is awaited, so each is on its own, and may fail.        *)
BackfillScan ==
  /\ backfill = {}
  /\ backfill' = {o \in local \cap Tagged : audit[o] = NoEntry}
  /\ UNCHANGED <<remote, made, local, audit, mapped, job, kept, dead, sync, logged, byUser,
                 removed, gap, disturbed>>

BackfillAdd(o) ==
  /\ o \in backfill
  /\ backfill' = backfill \ {o}
  /\ AddKeyed(o) \/ ("call" \in Faults /\ UNCHANGED job)
  /\ UNCHANGED <<remote, made, local, audit, mapped, kept, dead, sync, logged, byUser, removed,
                 gap, disturbed>>

(* A dead letter is requeued by its id, whatever its state, and under a    *)
(* job id that BullMQ makes up.                                            *)
DeadRetry(o) ==
  /\ o \in dead
  /\ \E j \in Job :
       /\ job[j].phase = "free"
       /\ job' = [job EXCEPT ![j] = NewJob(o, FALSE)]
  /\ UNCHANGED <<remote, made, local, audit, mapped, kept, dead, sync, backfill, logged, byUser,
                 removed, gap, disturbed>>

(* removeOnComplete and removeOnFail.                                      *)
Evict(o) ==
  /\ o \in kept
  /\ kept' = kept \ {o}
  /\ UNCHANGED <<remote, made, local, audit, mapped, job, dead, sync, backfill, logged, byUser,
                 removed, gap, disturbed>>

-----------------------------------------------------------------------------
(* The replacement worker: replaceEntry, one action per round trip.        *)

Take(j) ==
  /\ job[j].phase = "waiting"
  /\ Cardinality({k \in Job : Active(k)}) < Workers
  /\ job' = [job EXCEPT ![j] = AtPhase(@, "lookup")]
  /\ gap' = IF \E k \in Job : Active(k) /\ job[k].orig = job[j].orig
            THEN [gap EXCEPT ![job[j].orig] = @ \cup {"parallel"}] ELSE gap
  /\ UNCHANGED <<remote, made, local, audit, mapped, kept, dead, sync, backfill, logged, byUser,
                 removed, disturbed>>

(* The audit row proves that a copy exists: resume at the deletion.        *)
Lookup(j) ==
  /\ job[j].phase = "lookup"
  /\ job' = [job EXCEPT ![j] =
               AtPhase(@, IF audit[job[j].orig] # NoEntry THEN "redelete" ELSE "mapping")]
  /\ UNCHANGED <<remote, made, local, audit, mapped, kept, dead, sync, backfill, logged, byUser,
                 removed, gap, disturbed>>

CheckMapping(j) ==
  /\ job[j].phase = "mapping"
  /\ \/ /\ mapped
        /\ job' = [job EXCEPT ![j] = AtPhase(@, "create")]
        /\ UNCHANGED kept
     \/ /\ ~mapped
        /\ Finish(j)
  /\ UNCHANGED <<remote, made, local, audit, mapped, dead, sync, backfill, logged, byUser,
                 removed, gap, disturbed>>

(* ClickUp creates an entry under a new id, and answers unless that is     *)
(* lost: then the attempt fails and nobody knows the id.                   *)
Create(j) ==
  /\ job[j].phase = "create"
  /\ \E c \in Copy :
       /\ made[c] = NoEntry
       /\ remote' = remote \cup {c}
       /\ made' = [made EXCEPT ![c] = job[j].orig]
       /\ \/ /\ job' = [job EXCEPT ![j] = Holding(@, c)]
             /\ UNCHANGED gap
          \/ /\ "answer" \in Faults
             /\ job' = [job EXCEPT ![j] = OneAttemptLess(@)]
             /\ gap' = [gap EXCEPT ![job[j].orig] = @ \cup {"unrecorded"}]
  /\ Disturb({})
  /\ UNCHANGED <<local, audit, mapped, kept, dead, sync, backfill, logged, byUser, removed>>

(* original_entry_id is unique: a second insert fails, and the attempt.    *)
Record(j) ==
  /\ job[j].phase = "record"
  /\ \/ /\ audit[job[j].orig] = NoEntry
        /\ audit' = [audit EXCEPT ![job[j].orig] = job[j].copy]
        /\ job' = [job EXCEPT ![j] = AtPhase(@, "delete")]
        /\ UNCHANGED gap
     \/ /\ audit[job[j].orig] # NoEntry
        /\ job' = [job EXCEPT ![j] = OneAttemptLess(@)]
        /\ gap' = Orphaned(j)
        /\ UNCHANGED audit
  /\ UNCHANGED <<remote, made, local, mapped, kept, dead, sync, backfill, logged, byUser, removed,
                 disturbed>>

(* A 404 counts as success; any other failure is CallFails.                *)
AfterDelete(b) == AtPhase(b, IF b.phase = "delete" THEN "upsert" ELSE "redrop")

DeleteOriginal(j) ==
  /\ job[j].phase \in {"delete", "redelete"}
  /\ remote' = remote \ {job[j].orig}
  /\ removed' = removed \cup ({job[j].orig} \cap remote)
  /\ \/ job' = [job EXCEPT ![j] = AfterDelete(@)]
     \/ /\ "answer" \in Faults
        /\ job' = [job EXCEPT ![j] = OneAttemptLess(@)]
  /\ Disturb({})
  /\ UNCHANGED <<made, local, audit, mapped, kept, dead, sync, backfill, logged, byUser, gap>>

Upsert(j) ==
  /\ job[j].phase = "upsert"
  /\ local' = local \cup {job[j].copy}
  /\ job' = [job EXCEPT ![j] = AtPhase(@, "drop")]
  /\ Disturb({})
  /\ UNCHANGED <<remote, made, audit, mapped, kept, dead, sync, backfill, logged, byUser, removed,
                 gap>>

Drop(j) ==
  /\ job[j].phase \in {"drop", "redrop"}
  /\ local' = local \ {job[j].orig}
  /\ Finish(j)
  /\ Disturb({})
  /\ UNCHANGED <<remote, made, audit, mapped, dead, sync, backfill, logged, byUser, removed, gap>>

CallFails(j) ==
  /\ "call" \in Faults
  /\ Active(j)
  /\ job' = [job EXCEPT ![j] = OneAttemptLess(@)]
  /\ gap' = Orphaned(j)
  /\ UNCHANGED <<remote, made, local, audit, mapped, kept, dead, sync, backfill, logged, byUser,
                 removed, disturbed>>

(* The worker's process dies.  BullMQ puts the stalled job back; beyond    *)
(* MaxStalls it fails it for good, counting one attempt, and onFailed does *)
(* nothing when that leaves attempts.                                      *)
JobStalls(j) ==
  /\ "crash" \in Faults
  /\ Active(j)
  /\ \/ /\ job[j].stalls < MaxStalls
        /\ job' = [job EXCEPT ![j] = Stalled(@)]
        /\ gap' = Orphaned(j)
        /\ UNCHANGED kept
     \/ /\ job[j].stalls = MaxStalls
        /\ job[j].left > 1
        /\ Finish(j)
        /\ gap' = [Orphaned(j) EXCEPT ![job[j].orig] = @ \cup {"stalled_out"}]
     \/ /\ job[j].stalls = MaxStalls
        /\ job[j].left = 1
        /\ job' = [job EXCEPT ![j] = OneAttemptLess(@)]
        /\ gap' = Orphaned(j)
        /\ UNCHANGED kept
  /\ UNCHANGED <<remote, made, local, audit, mapped, dead, sync, backfill, logged, byUser, removed,
                 disturbed>>

(* onFailed of a job without attempts left.                                *)
WriteLetter(j) ==
  /\ job[j].phase = "exhausted"
  /\ \/ /\ dead' = dead \cup {job[j].orig}
        /\ UNCHANGED gap
     \/ /\ Faults \cap {"letter", "crash"} # {}
        /\ gap' = [gap EXCEPT ![job[j].orig] = @ \cup {"letter_lost"}]
        /\ UNCHANGED dead
  /\ Finish(j)
  /\ UNCHANGED <<remote, made, local, audit, mapped, sync, backfill, logged, byUser, removed,
                 disturbed>>

Process(j) ==
  \/ Lookup(j) \/ CheckMapping(j) \/ Create(j) \/ Record(j) \/ DeleteOriginal(j)
  \/ Upsert(j) \/ Drop(j) \/ WriteLetter(j)

-----------------------------------------------------------------------------
(* Sync jobs: syncTaskTimeEntries and reconcileWindow.                     *)

(* One call of ClickUp for the whole slice; a response of PruneSafetyMax   *)
(* entries or more may be cut short.                                       *)
Fetched(S, got) ==
  \/ got = remote \cap S
  \/ /\ "truncation" \in Faults
     /\ got \subseteq remote \cap S
     /\ Cardinality(got) >= PruneSafetyMax

SyncFetch(s) ==
  /\ sync[s].pc = "idle"
  /\ \E S \in Slices : \E got \in SUBSET S :
       /\ Fetched(S, got)
       /\ sync' = [sync EXCEPT ![s] = [pc |-> "resolve", slice |-> S, got |-> got, todo |-> {},
                                       keep |-> {}, before |-> remote]]
  /\ disturbed' = disturbed \ {s}
  /\ UNCHANGED <<remote, made, local, audit, mapped, job, kept, dead, backfill, logged, byUser,
                 removed, gap>>

(* ensureTaskExists for every task of the response.  The task of an entry  *)
(* with a local row is known; another may be out of reach for now.         *)
SyncResolve(s) ==
  /\ sync[s].pc = "resolve"
  /\ \E skip \in SUBSET (sync[s].got \ local) :
       /\ skip # {} => "task" \in Faults
       /\ sync' = [sync EXCEPT ![s] = [pc |-> "persist", slice |-> @.slice, got |-> @.got,
                       todo |-> @.got \ skip, keep |-> @.got \ skip, before |-> @.before]]
  /\ UNCHANGED <<remote, made, local, audit, mapped, job, kept, dead, backfill, logged, byUser,
                 removed, gap, disturbed>>

SyncUpsert(s) ==
  /\ sync[s].pc = "persist"
  /\ \E e \in sync[s].todo :
       /\ local' = local \cup {e}
       /\ sync' = [sync EXCEPT ![s].todo = @ \ {e}]
       /\ gap' = IF e \in Original \ remote
                 THEN [gap EXCEPT ![e] = @ \cup {"late_upsert"}] ELSE gap
  /\ Disturb({s})
  /\ UNCHANGED <<remote, made, audit, mapped, job, kept, dead, backfill, logged, byUser, removed>>

(* Only rows of the slice go, and none at all after a response that may    *)
(* have been cut short.                                                    *)
Pruned(b) == IF Cardinality(b.got) >= PruneSafetyMax THEN {} ELSE b.slice \ b.keep

SyncPrune(s) ==
  /\ sync[s].pc = "persist"
  /\ sync[s].todo = {}
  /\ local' = local \ Pruned(sync[s])
  /\ sync' = [sync EXCEPT ![s].pc = "map"]
  /\ Disturb({s})
  /\ UNCHANGED <<remote, made, audit, mapped, job, kept, dead, backfill, logged, byUser, removed,
                 gap>>

SyncTags(s) ==
  /\ sync[s].pc = "map"
  /\ sync' = [sync EXCEPT ![s].pc = "enqueue",
                            ![s].todo = IF mapped THEN sync[s].keep \cap Tagged ELSE {}]
  /\ UNCHANGED <<remote, made, local, audit, mapped, job, kept, dead, backfill, logged, byUser,
                 removed, gap, disturbed>>

SyncEnqueue(s) ==
  /\ sync[s].pc = "enqueue"
  /\ \E o \in sync[s].todo :
       /\ AddKeyed(o)
       /\ sync' = [sync EXCEPT ![s].todo = @ \ {o}]
  /\ UNCHANGED <<remote, made, local, audit, mapped, kept, dead, backfill, logged, byUser, removed,
                 gap, disturbed>>

SyncDone(s) ==
  /\ sync[s].pc = "enqueue"
  /\ sync[s].todo = {}
  /\ sync' = [sync EXCEPT ![s] = IdleSync]
  /\ UNCHANGED <<remote, made, local, audit, mapped, job, kept, dead, backfill, logged, byUser,
                 removed, gap, disturbed>>

(* A call fails or the process dies: a retry starts with a fetch again.    *)
SyncFails(s) ==
  /\ Faults \cap {"call", "crash"} # {}
  /\ sync[s].pc # "idle"
  /\ sync' = [sync EXCEPT ![s] = IdleSync]
  /\ UNCHANGED <<remote, made, local, audit, mapped, job, kept, dead, backfill, logged, byUser,
                 removed, gap, disturbed>>

-----------------------------------------------------------------------------
Next ==
  \/ \E o \in Original : LogEntry(o) \/ BackfillAdd(o) \/ DeadRetry(o) \/ Evict(o)
  \/ \E x \in Entry : UserDeletes(x)
  \/ ToggleMapping
  \/ BackfillScan
  \/ \E j \in Job :
       \/ Take(j)
       \/ Lookup(j) \/ CheckMapping(j) \/ Create(j) \/ Record(j) \/ DeleteOriginal(j)
       \/ Upsert(j) \/ Drop(j) \/ WriteLetter(j)
       \/ CallFails(j) \/ JobStalls(j)
  \/ \E s \in Sync :
       \/ SyncFetch(s) \/ SyncResolve(s) \/ SyncUpsert(s) \/ SyncPrune(s)
       \/ SyncTags(s) \/ SyncEnqueue(s) \/ SyncDone(s) \/ SyncFails(s)

Spec == Init /\ [][Next]_vars

(* A job that was taken is worked on, and a waiting job gets its turn      *)
(* again and again.  Nothing obliges a user, an administrator or the       *)
(* scheduler of syncs to act.                                              *)
FairSpec == Spec /\ \A j \in Job : SF_vars(Take(j)) /\ WF_vars(Process(j))

-----------------------------------------------------------------------------
(* Properties.                                                             *)

(* Tracked hours are never lost in ClickUp: whatever crashes, times out or *)
(* runs in parallel, the worker deletes an original only when a copy of    *)
(* that very entry is on record, and the copy is there unless a user       *)
(* deleted it (the order of steps 4 to 6 of replaceEntry).                 *)
HoursKept ==
  \A o \in removed :
    /\ audit[o] \in Copy
    /\ made[audit[o]] = o
    /\ audit[o] \in remote \cup byUser

Copies(o) == {c \in Copy : made[c] = o}
Windowed(o) == gap[o] \cap {"unrecorded", "parallel"} # {}

(* An entry is replaced by one copy, over every retry, stall, dead-letter  *)
(* retry, backfill and sync, unless an attempt ended between the creation  *)
(* of a copy and its audit row, or two jobs of the entry ran at once.      *)
OneCopy ==
  \A o \in Original :
    \A c, d \in Copies(o) : c = d \/ Windowed(o)

(* Seen from the people whose time is tracked, TimeEntries is Reassignment: *)
(* the row of time_entry_replacements is the moment at which the hours of  *)
(* an entry pass to the copy, in one step and for good, whatever is        *)
(* retried, stalled, queued twice or pruned; a step that creates a copy,   *)
(* deletes an entry in ClickUp or writes that row does nothing else.       *)
Stands ==
  [o \in Original |->
     IF audit[o] # NoEntry THEN audit[o] ELSE IF o \in logged THEN o ELSE NoEntry]
Drafts == [o \in Original |-> Copies(o) \ {audit[o]}]
Lapsed == {o \in Original : Windowed(o)}

Register == INSTANCE Reassignment WITH
              stands  <- Stands,
              drafts  <- Drafts,
              held    <- remote,
              lapsed  <- Lapsed

ReplacesAtomically == Register!Spec

(* Reports add up the local rows.  An entry and the copy on record for it  *)
(* are both there only while a job will still drop the original, or an     *)
(* administrator can see it in the dead letters, or in one of three        *)
(* windows.                                                                *)
CountedOnce ==
  \A o \in Original :
    o \in local /\ audit[o] \in local =>
      \/ \E j \in Job : Working(j) /\ job[j].orig = o
      \/ o \in dead
      \/ gap[o] \cap {"late_upsert", "letter_lost", "stalled_out"} # {}

Pruning(s) == sync[s].pc = "persist" /\ sync'[s].pc = "map"

(* A prune removes the row of no entry that ClickUp held when the sync     *)
(* asked and still holds, unless the sync could not reach the entry's      *)
(* task: not on a truncated response, and not beyond the slice it asked    *)
(* for (deletion-reconciliation of both sync paths).                       *)
PruneSparesLive ==
  [][\A s \in Sync : Pruning(s) =>
       \A e \in local \ local' :
         e \in remote \cap sync[s].before => e \in sync[s].got \ sync[s].keep]_vars

(* When nothing else changed meanwhile, a sync that reached every task and *)
(* stayed below the truncation bound leaves the slice exactly as ClickUp   *)
(* has it: new entries in, vanished entries out.                           *)
SyncExact ==
  [][\A s \in Sync :
       /\ Pruning(s) /\ s \notin disturbed
       /\ sync[s].keep = sync[s].got /\ Cardinality(sync[s].got) < PruneSafetyMax
       => local' \cap sync[s].slice = remote \cap sync[s].slice]_vars

(* Once a copy is on record the original goes away: the job carries on     *)
(* through every retry, or ends as a dead letter or in a window that       *)
(* leaves no dead letter (the resume branch of replaceEntry).              *)
OriginalRemoved ==
  \A o \in Original :
    audit[o] # NoEntry ~> \/ o \notin remote \/ o \in dead
                          \/ gap[o] \cap {"letter_lost", "stalled_out"} # {}

(* A job in use names an original, one that may still run has an attempt   *)
(* left, and one past the creation holds a copy; only originals are        *)
(* queued.  What TypeOK needs to be inductive.                             *)
GoodJob(b) ==
  /\ b.phase # "free" => b.orig \in Original
  /\ b.phase \notin {"free", "exhausted"} => b.left >= 1
  /\ b.phase \in {"record", "delete", "upsert", "drop"} => b.copy \in Copy

JobsOK == \A j \in Job : GoodJob(job[j])

SyncsOK == \A s \in Sync : sync[s].pc = "enqueue" => sync[s].todo \subseteq Original

(* What HoursKept needs: copies on record are copies of the right entry,   *)
(* so is the one a job is about to record, and a job deletes nothing       *)
(* before the record.                                                      *)
Present == remote \cup byUser

Recorded(b) ==
  /\ b.phase = "record" => made[b.copy] = b.orig /\ b.copy \in Present
  /\ b.phase \in {"redelete", "redrop", "delete", "upsert", "drop"} => audit[b.orig] # NoEntry

RecordOK ==
  /\ \A o \in Original : audit[o] # NoEntry => made[audit[o]] = o /\ audit[o] \in Present
  /\ \A o \in removed : audit[o] # NoEntry
  /\ \A j \in Job : Recorded(job[j])

(* What OneCopy needs: outside the two windows an entry has one active     *)
(* job, which creates only while there is no audit row, and every copy is  *)
(* on record or in the hands of that job.                                  *)
OwnedCopies(o) ==
  /\ \A i, j \in Job : Active(i) /\ Active(j) /\ job[i].orig = o /\ job[j].orig = o => i = j
  /\ \A j \in Job :
       job[j].phase \in {"mapping", "create", "record"} /\ job[j].orig = o => audit[o] = NoEntry
  /\ \A c \in Copies(o) :
       \/ c = audit[o]
       \/ \E j \in Job : job[j].phase = "record" /\ job[j].orig = o /\ job[j].copy = c

CopyOK == \A o \in Original : Windowed(o) \/ OwnedCopies(o)

(* What the comment on replacementJobId promises: no two jobs of an entry  *)
(* are processed at once.  Dead-letter retries break it.                   *)
OneJobPerEntry ==
  \A i, j \in Job : Active(i) /\ Active(j) /\ job[i].orig = job[j].orig => i = j

(* What the comment on the enqueue promises: over time, the audit row      *)
(* keeps an entry from being copied twice.  An attempt that ends before    *)
(* the audit row breaks it.                                                *)
OneCopyPerEntry == \A o \in Original : \A c, d \in Copies(o) : c = d

(* What the comment on keepIds promises: an id that ClickUp just returned  *)
(* survives the prune.  An entry that was skipped for its task, and that   *)
(* another sync stored meanwhile, does not.                                *)
ReturnedSurvive ==
  [][\A s \in Sync : Pruning(s) => (local \ local') \cap sync[s].got = {}]_vars

(* What the same comment promises of replacement entries: a prune leaves   *)
(* those that ClickUp holds alone.  A sync of all members breaks it.       *)
CopiesSurvive ==
  [][\A s \in Sync : Pruning(s) => (local \ local') \cap Copy \cap remote = {}]_vars

(* What step 8 of replaceEntry promises: once the original was dropped, it *)
(* is not counted next to its copy.  A sync that fetched it before writes  *)
(* it back after.                                                          *)
DroppedForGood ==
  [][\A o \in Original :
       o \in removed /\ o \notin local /\ audit[o] \in local => o \notin local']_vars

(* What the comments on the mapping promise: with the mapping active, a    *)
(* tagged entry that a sync queues gets a job.  A finished job that is     *)
(* kept under the entry's id stands in the way.                            *)
EnqueueTakesEffect ==
  [][\A s \in Sync : \A o \in sync[s].todo \ sync'[s].todo :
       sync[s].pc = "enqueue" /\ mapped /\ audit[o] = NoEntry =>
         \E j \in Job : job'[j].orig = o]_vars
=============================================================================
