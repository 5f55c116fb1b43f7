------------------------------- MODULE Costs -------------------------------
(***************************************************************************)
(* The costs of one assignee's time entries.  Each row stores the price it *)
(* got when it was last written.  Administrators edit the rate table, the  *)
(* exclusion list and the preferences that prices depend on, and queue a   *)
(* recalculation; task syncs move due dates; recalculation jobs and        *)
(* time-entry syncs read the rates, then write a row, one row at a time.   *)
(* Every database round trip is a step of its own.                         *)
(***************************************************************************)
EXTENDS RateSuccession, FiniteSets

CONSTANTS
  Entry,      \* time entries of the assignee
  NoEntry,    \* "no entry"
  Edition,    \* what ClickUp may say of an entry: its start, whether it is billable
  DueDay,     \* the due dates a task may have; NoDue: none
  Choice,     \* the preferences that administrators choose between
  Admin,      \* admin requests at work at once
  Sync,       \* time-entry syncs at work at once
  Job,        \* slots of the maintenance queue: a bound
  Attempts,   \* JOB_ATTEMPTS of defaultJobOptions
  MaxStalls,  \* BullMQ maxStalledCount
  Workers,    \* recalculations processed at once, over all instances
  MaxEdits,   \* admin requests in a behaviour: a bound
  Faults      \* which failures the environment may produce

NoDue == 0

Preferences == [auto : BOOLEAN, matching : {"start", "due"}, zero : BOOLEAN]

ASSUME CostAssumption ==
  /\ NoEntry \notin Entry
  /\ Edition # {} /\ Edition \subseteq [start : Day, billable : BOOLEAN]
  /\ DueDay \subseteq Day \cup {NoDue}
  /\ Choice # {} /\ Choice \subseteq Preferences
  /\ Attempts \in Nat \ {0} /\ Workers \in Nat \ {0}
  /\ MaxStalls \in Nat /\ MaxEdits \in Nat
  /\ Faults \subseteq {"crash",    \* a worker dies between two steps of a job
                       "call",     \* a database statement fails without effect
                       "queue"}    \* queue.add fails, or its caller dies first

VARIABLES
  rate,      \* assignee_rates of the assignee
  excluded,  \* whether the assignee is in cost.excludedAssignees
  pref,      \* cost.autoRecalcOnRateChange, rateMatching, nonBillableZero
  fact,      \* what the row of an entry and the row of its task say
  stored,    \* the price on each clickup_time_entries row; Unset: no row
  admin,     \* admin requests
  job,       \* the maintenance queue
  sync,      \* time-entry syncs
  edits,     \* bound: admin requests so far
  gap        \* history: why a stale price may be on nobody's list

vars == <<rate, excluded, pref, fact, stored, admin, job, sync, edits, gap>>

Price == [status : {"unset", "none", "excluded", "rated"},
          id : Rate \cup {NoRate}, cents : Nat]

Unset    == [status |-> "unset", id |-> NoRate, cents |-> 0]
Missing  == [status |-> "none", id |-> NoRate, cents |-> 0]
Excluded == [status |-> "excluded", id |-> NoRate, cents |-> 0]
Free     == [status |-> "rated", id |-> NoRate, cents |-> 0]

(* A row as a run listed it: a recalculation from the table, a sync from   *)
(* ClickUp and the table of tasks.                                         *)
Fact    == [start : Day, due : Day \cup {NoDue}, billable : BOOLEAN]
Listing == [entry : Entry, fact : Fact]

(* The windows in which the code leaves a stale price to nobody, until the *)
(* next recalculation is queued.                                           *)
GapKind ==
  {"auto_off",     \* a rate changed while the preference was off
   "unqueued",     \* queue.add failed after the change, or its caller died
   "unnoticed",    \* an exclusion changed without the request seeing it
   "exhausted",    \* a recalculation used up its attempts
   "stalled_out",  \* BullMQ failed the stalled recalculation
   "repriced",     \* the settings page changed what prices depend on
   "due_moved",    \* a task sync moved a due date that prices depend on
   "late_sync",    \* a sync wrote a price that it read before a change
   "late_recalc"}  \* a sync changed a row that a recalculation had listed

AdminRecord == [pc : {"idle", "commit", "exclude", "notify", "notify_excluded"},
                caps : SUBSET Rate, from : Nat, to : Nat, cents : Nat,
                prev : BOOLEAN, next : BOOLEAN]

IdleAdmin == [pc |-> "idle", caps |-> {}, from |-> 0, to |-> 0, cents |-> 0,
              prev |-> FALSE, next |-> FALSE]

At(pc) == [pc |-> pc, caps |-> {}, from |-> 0, to |-> 0, cents |-> 0,
           prev |-> FALSE, next |-> FALSE]

Cache == [Day -> Price]
Empty == [day \in Day |-> Unset]

JobRecord == [phase : {"free", "waiting", "working"}, todo : SUBSET Listing, cache : Cache,
              held : Entry \cup {NoEntry}, price : Price,
              left : 0..Attempts, stalls : 0..MaxStalls]

JobIn(phase, todo, left, stalls) ==
  [phase |-> phase, todo |-> todo, cache |-> Empty, held |-> NoEntry, price |-> Unset,
   left |-> left, stalls |-> stalls]

FreeJob == JobIn("free", {}, 0, 0)

(* With the entry that a sync priced last it holds what it was told of it. *)
SyncRecord == {run \in [todo : SUBSET Listing, cache : Cache, held : Entry \cup {NoEntry},
                        fact : Fact \cup {NoEntry}, price : Price] :
                 run.held # NoEntry => run.fact \in Fact}
SyncOf(batch) == [todo |-> batch, cache |-> Empty, held |-> NoEntry, fact |-> NoEntry,
                  price |-> Unset]
IdleSync == SyncOf({})

TypeOK ==
  /\ rate \in [Rate -> Row]
  /\ excluded \in BOOLEAN /\ pref \in Choice
  /\ fact \in [Entry -> Fact]
  /\ stored \in [Entry -> Price]
  /\ admin \in [Admin -> AdminRecord]
  /\ job \in [Job -> JobRecord]
  /\ sync \in [Sync -> SyncRecord]
  /\ edits \in 0..MaxEdits
  /\ gap \subseteq GapKind

(* Any table that the constraint admits, rows still to be synced.          *)
Rows == {Unused} \cup {NewRow(from, to, cents) : from \in Day, to \in Day \cup {Forever},
                                                cents \in Cents}

Init ==
  /\ rate \in [Rate -> Rows] /\ Exclusive(rate)
  /\ excluded = FALSE /\ pref \in Choice
  /\ \E first \in Edition :
       fact = [e \in Entry |-> [start |-> first.start, due |-> NoDue, billable |-> first.billable]]
  /\ stored = [e \in Entry |-> Unset]
  /\ admin = [a \in Admin |-> IdleAdmin]
  /\ job = [j \in Job |-> FreeJob]
  /\ sync = [s \in Sync |-> IdleSync]
  /\ edits = 0 /\ gap = {}

-----------------------------------------------------------------------------
(* calculate(): the exclusion list first, then entries that are not to be  *)
(* billed, then the cache of the run, then the rate table, for the day of  *)
(* the start or, if the preference says so and the task has one, the due   *)
(* date.                                                                   *)

FreeOfCharge(f) == pref.zero /\ ~f.billable

DayAt(f) == IF pref.matching = "due" /\ f.due # NoDue THEN f.due ELSE f.start

Rated(table, day) ==
  LET r == Resolve(table, day)
  IN  IF r = NoRate THEN Missing
      ELSE [status |-> "rated", id |-> r, cents |-> table[r].cents]

Calculate(cache, f) ==
  IF excluded THEN Excluded
  ELSE IF FreeOfCharge(f) THEN Free
  ELSE IF cache[DayAt(f)] # Unset THEN cache[DayAt(f)]
  ELSE Rated(rate, DayAt(f))

(* A faulty variant of Filled, used by nothing below: a cache that forgets *)
(* which day it answers for.                                               *)
FilledEveryDay(cache, f) ==
  IF excluded \/ FreeOfCharge(f) THEN cache ELSE [d \in Day |-> Calculate(cache, f)]

Filled(cache, f) ==
  IF excluded \/ FreeOfCharge(f) THEN cache
  ELSE [cache EXCEPT ![DayAt(f)] = Calculate(cache, f)]

(* What a calculation started now, with an empty cache, would store.       *)
Current(e) == Calculate(Empty, fact[e])

(* The foreign key rate_id: a price names a rate that still has its row.   *)
Writable(price) == price.id = NoRate \/ price.id \in LiveIn(rate)

(* The rows that a run has yet to price.                                   *)
RowsOf(run, e) == {row \in run.todo : row.entry = e}

(* A recalculation at work that will still write the current price of e,   *)
(* and one that will write another.                                        *)
WillPrice(j, e) ==
  /\ job[j].phase = "working"
  /\ \/ \E row \in RowsOf(job[j], e) : Calculate(job[j].cache, row.fact) = Current(e)
     \/ job[j].held = e /\ job[j].price = Current(e)

WillMisprice(j, e) ==
  /\ job[j].phase = "working"
  /\ \/ \E row \in RowsOf(job[j], e) : Calculate(job[j].cache, row.fact) # Current(e)
     \/ job[j].held = e /\ job[j].price # Current(e)

(* One that waits, or is about to be queued, reads everything anew.        *)
Notifying(a) == admin[a].pc \in {"notify", "notify_excluded"}

Elsewhere == (\E j \in Job : job[j].phase = "waiting") \/ (\E a \in Admin : Notifying(a))

Pending(e) == Elsewhere \/ \E j \in Job : WillPrice(j, e)

OneEdit == edits < MaxEdits /\ edits' = edits + 1

-----------------------------------------------------------------------------
(* Faulty variants of some definitions below, as plausible bugs would make *)
(* them.  The specification uses none of them.                             *)

(* Only an assignee who joins the exclusion list is recalculated.          *)
ExcludeWriteAdded(a) ==
  /\ admin[a].pc = "exclude"
  /\ excluded' = admin[a].next
  /\ admin' = [admin EXCEPT ![a] =
                 IF admin[a].prev \/ ~admin[a].next THEN IdleAdmin ELSE At("notify_excluded")]
  /\ gap' = IF admin[a].prev = admin[a].next /\ excluded # admin[a].next
            THEN gap \cup {"unnoticed"} ELSE gap
  /\ UNCHANGED <<rate, pref, fact, stored, job, sync, edits>>

(* An attempt that fails does not count.                                   *)
RetryForFree(j) == JobIn("waiting", {}, job[j].left, job[j].stalls)

(* The attempts are counted past the last one.                             *)
RetryOnceMore(j) == JobIn("waiting", {}, job[j].left + 1, job[j].stalls)

-----------------------------------------------------------------------------
(* POST /admin/rates: the transaction reads the rates and plans; a plan    *)
(* that is refused changes nothing.                                        *)

CreateRead(a) ==
  /\ admin[a].pc = "idle" /\ OneEdit
  /\ \E from \in Day, to \in Day \cup {Forever}, cents \in Cents :
       /\ PlanOk(rate, from, to)
       /\ admin' = [admin EXCEPT ![a] =
                      [pc |-> "commit", caps |-> Caps(rate, from, to), from |-> from,
                       to |-> to, cents |-> cents, prev |-> FALSE, next |-> FALSE]]
  /\ UNCHANGED <<rate, excluded, pref, fact, stored, job, sync, gap>>

(* Its writes take effect together.  They fail when a capped row is gone,  *)
(* or when the constraint refuses one of them (a cap that overlaps leaves  *)
(* an overlap at the end of the transaction too).                          *)
Committed(a, new) ==
  Succeed(rate, admin[a].caps, new, admin[a].from, admin[a].to, admin[a].cents)

CanCommit(a, new) ==
  /\ rate[new].state = "unused"
  /\ admin[a].caps \subseteq LiveIn(rate)
  /\ Exclusive(Committed(a, new))

CreateCommit(a) ==
  /\ admin[a].pc = "commit"
  /\ \E new \in Rate : CanCommit(a, new) /\ rate' = Committed(a, new)
  /\ admin' = [admin EXCEPT ![a] = At("notify")]
  /\ UNCHANGED <<excluded, pref, fact, stored, job, sync, edits, gap>>

CreateAborts(a) ==
  /\ admin[a].pc = "commit"
  /\ "call" \in Faults \/ \A new \in Rate : ~CanCommit(a, new)
  /\ admin' = [admin EXCEPT ![a] = IdleAdmin]
  /\ UNCHANGED <<rate, excluded, pref, fact, stored, job, sync, edits, gap>>

(* PATCH /admin/rates/:id: one statement, under the same constraint.       *)
UpdateRate(a) ==
  /\ admin[a].pc = "idle" /\ OneEdit
  /\ \E r \in LiveIn(rate), from \in Day, to \in Day \cup {Forever}, cents \in Cents :
       LET after == [rate EXCEPT ![r] = NewRow(from, to, cents)]
       IN  after # rate /\ Exclusive(after) /\ rate' = after
  /\ admin' = [admin EXCEPT ![a] = At("notify")]
  /\ UNCHANGED <<excluded, pref, fact, stored, job, sync, gap>>

(* DELETE /admin/rates/:id: rows of time entries that name the rate keep   *)
(* their cost and lose the reference (ON DELETE SET NULL).                 *)
Removed == [state |-> "removed", from |-> 0, to |-> 0, cents |-> 0]

Unlinked(price, r) ==
  IF price.id = r THEN [status |-> price.status, id |-> NoRate, cents |-> price.cents]
  ELSE price

RemoveRate(a) ==
  /\ admin[a].pc = "idle" /\ OneEdit
  /\ \E r \in LiveIn(rate) :
       /\ rate' = [rate EXCEPT ![r] = Removed]
       /\ stored' = [e \in Entry |-> Unlinked(stored[e], r)]
  /\ admin' = [admin EXCEPT ![a] = At("notify")]
  /\ UNCHANGED <<excluded, pref, fact, job, sync, gap>>

-----------------------------------------------------------------------------
(* PUT /admin/excluded-assignees: the previous list is read before the new *)
(* one is written and read back.                                           *)

ExcludeRead(a) ==
  /\ admin[a].pc = "idle" /\ OneEdit
  /\ \E next \in BOOLEAN :
       admin' = [admin EXCEPT ![a] =
                   [pc |-> "exclude", caps |-> {}, from |-> 0, to |-> 0, cents |-> 0,
                    prev |-> excluded, next |-> next]]
  /\ UNCHANGED <<rate, excluded, pref, fact, stored, job, sync, gap>>

ExcludeWrite(a) ==
  /\ admin[a].pc = "exclude"
  /\ excluded' = admin[a].next
  /\ admin' = [admin EXCEPT ![a] =
                 IF admin[a].prev = admin[a].next THEN IdleAdmin ELSE At("notify_excluded")]
  /\ gap' = IF admin[a].prev = admin[a].next /\ excluded # admin[a].next
            THEN gap \cup {"unnoticed"} ELSE gap
  /\ UNCHANGED <<rate, pref, fact, stored, job, sync, edits>>

(* PATCH of the preferences, through the settings page: any of them, the   *)
(* exclusion list too, and it queues nothing.                              *)
PatchPreferences(a) ==
  /\ admin[a].pc = "idle" /\ OneEdit
  /\ pref' \in Choice /\ excluded' \in BOOLEAN
  /\ gap' = IF <<pref'.matching, pref'.zero, excluded'>> = <<pref.matching, pref.zero, excluded>>
            THEN gap ELSE gap \cup {"repriced"}
  /\ UNCHANGED <<rate, fact, stored, admin, job, sync>>

-----------------------------------------------------------------------------
(* The upsert of a task with another due date: it queues nothing either.   *)
DueMoves(e) ==
  /\ OneEdit
  /\ \E due \in DueDay \ {fact[e].due} : fact' = [fact EXCEPT ![e].due = due]
  /\ gap' = IF pref.matching = "due" THEN gap \cup {"due_moved"} ELSE gap
  /\ UNCHANGED <<rate, excluded, pref, stored, admin, job, sync>>

-----------------------------------------------------------------------------
(* enqueueRecalc, after the change is committed, and the button.           *)

Enqueue ==
  \E j \in Job :
    /\ job[j].phase = "free"
    /\ job' = [job EXCEPT ![j] = JobIn("waiting", {}, Attempts, 0)]
    /\ gap' = {}

Notify(a) ==
  /\ Notifying(a)
  /\ pref.auto \/ admin[a].pc = "notify_excluded"
  /\ Enqueue
  /\ admin' = [admin EXCEPT ![a] = IdleAdmin]
  /\ UNCHANGED <<rate, excluded, pref, fact, stored, sync, edits>>

NotifySkipped(a) ==
  /\ admin[a].pc = "notify" /\ ~pref.auto
  /\ admin' = [admin EXCEPT ![a] = IdleAdmin]
  /\ gap' = gap \cup {"auto_off"}
  /\ UNCHANGED <<rate, excluded, pref, fact, stored, job, sync, edits>>

NotifyFails(a) ==
  /\ Notifying(a) /\ "queue" \in Faults
  /\ admin' = [admin EXCEPT ![a] = IdleAdmin]
  /\ gap' = gap \cup {"unqueued"}
  /\ UNCHANGED <<rate, excluded, pref, fact, stored, job, sync, edits>>

RecalculateCosts ==
  /\ OneEdit
  /\ Enqueue
  /\ UNCHANGED <<rate, excluded, pref, fact, stored, admin, sync>>

-----------------------------------------------------------------------------
(* recalculate(): an attempt lists the rows and starts with no cache; for  *)
(* each row it computes the price, then writes it.                         *)

TableRows == {[entry |-> e, fact |-> fact[e]] : e \in {x \in Entry : stored[x] # Unset}}

Take(j) ==
  /\ job[j].phase = "waiting"
  /\ Cardinality({i \in Job : job[i].phase = "working"}) < Workers
  /\ job' = [job EXCEPT ![j] =
               JobIn("working", TableRows, job[j].left, job[j].stalls)]
  /\ UNCHANGED <<rate, excluded, pref, fact, stored, admin, sync, edits, gap>>

RecalcPrice(j) ==
  /\ job[j].phase = "working" /\ job[j].held = NoEntry
  /\ \E row \in job[j].todo :
       job' = [job EXCEPT ![j] =
                 [phase |-> "working", todo |-> job[j].todo \ {row},
                  cache |-> Filled(job[j].cache, row.fact), held |-> row.entry,
                  price |-> Calculate(job[j].cache, row.fact),
                  left |-> job[j].left, stalls |-> job[j].stalls]]
  /\ UNCHANGED <<rate, excluded, pref, fact, stored, admin, sync, edits, gap>>

RecalcWrite(j) ==
  /\ job[j].phase = "working" /\ job[j].held # NoEntry
  /\ stored[job[j].held] # Unset /\ Writable(job[j].price)
  /\ stored' = [stored EXCEPT ![job[j].held] = job[j].price]
  /\ job' = [job EXCEPT ![j].held = NoEntry, ![j].price = Unset]
  /\ UNCHANGED <<rate, excluded, pref, fact, admin, sync, edits, gap>>

RecalcDone(j) ==
  /\ job[j].phase = "working" /\ job[j].held = NoEntry /\ job[j].todo = {}
  /\ job' = [job EXCEPT ![j] = FreeJob]
  /\ UNCHANGED <<rate, excluded, pref, fact, stored, admin, sync, edits, gap>>

(* The update finds no row (P2025) or breaks the foreign key, or a         *)
(* statement fails: the attempt ends.  The dead-letter row that follows    *)
(* the last one is what gap records here.                                  *)
Retry(j) == JobIn("waiting", {}, job[j].left - 1, job[j].stalls)

RecalcFails(j) ==
  /\ job[j].phase = "working"
  /\ \/ "call" \in Faults
     \/ /\ job[j].held # NoEntry
        /\ stored[job[j].held] = Unset \/ ~Writable(job[j].price)
  /\ job' = [job EXCEPT ![j] = IF job[j].left > 1 THEN Retry(j) ELSE FreeJob]
  /\ gap' = IF job[j].left > 1 THEN gap ELSE gap \cup {"exhausted"}
  /\ UNCHANGED <<rate, excluded, pref, fact, stored, admin, sync, edits>>

JobStalls(j) ==
  /\ job[j].phase = "working" /\ "crash" \in Faults
  /\ job' = [job EXCEPT ![j] =
               IF job[j].stalls < MaxStalls
               THEN JobIn("waiting", {}, job[j].left, job[j].stalls + 1) ELSE FreeJob]
  /\ gap' = IF job[j].stalls < MaxStalls THEN gap ELSE gap \cup {"stalled_out"}
  /\ UNCHANGED <<rate, excluded, pref, fact, stored, admin, sync, edits>>

-----------------------------------------------------------------------------
(* persistEntries(): a sync prices and upserts what it fetched, with a     *)
(* cache of its own, and with rows that may be new.  It reads the due      *)
(* dates first, and only if they are what prices depend on then.           *)

Fetched(e, said) ==
  [entry |-> e,
   fact |-> [start |-> said.start, billable |-> said.billable,
             due |-> IF pref.matching = "due" THEN fact[e].due ELSE NoDue]]

SyncBegin(s) ==
  /\ sync[s] = IdleSync
  /\ \E batch \in SUBSET Entry \ {{}} : \E said \in [batch -> Edition] :
       sync' = [sync EXCEPT ![s] = SyncOf({Fetched(e, said[e]) : e \in batch})]
  /\ UNCHANGED <<rate, excluded, pref, fact, stored, admin, job, edits, gap>>

SyncPrice(s) ==
  /\ sync[s].held = NoEntry
  /\ \E row \in sync[s].todo :
       sync' = [sync EXCEPT ![s] =
                  [todo |-> sync[s].todo \ {row}, cache |-> Filled(sync[s].cache, row.fact),
                   held |-> row.entry, fact |-> row.fact,
                   price |-> Calculate(sync[s].cache, row.fact)]]
  /\ UNCHANGED <<rate, excluded, pref, fact, stored, admin, job, edits, gap>>

(* The upsert writes the start, whether it is billable, and the price.     *)
Late(e) ==
  {w \in {"late_sync"} : stored[e] # Current(e) /\ ~Pending(e)}
    \cup {w \in {"late_recalc"} : (\E j \in Job : WillMisprice(j, e)) /\ ~Elsewhere}

SyncWrite(s) ==
  \E e \in Entry :
    /\ sync[s].held = e /\ Writable(sync[s].price)
    /\ stored' = [stored EXCEPT ![e] = sync[s].price]
    /\ fact' = [fact EXCEPT ![e].start = sync[s].fact.start,
                            ![e].billable = sync[s].fact.billable]
    /\ sync' = [sync EXCEPT ![s] =
                  IF sync[s].todo = {} THEN IdleSync
                  ELSE [todo |-> sync[s].todo, cache |-> sync[s].cache,
                        held |-> NoEntry, fact |-> NoEntry, price |-> Unset]]
    /\ UNCHANGED <<rate, excluded, pref, admin, job, edits>>
    /\ gap' = gap \cup Late(e)'

SyncFails(s) ==
  /\ sync[s] # IdleSync
  /\ "call" \in Faults \/ ~Writable(sync[s].price)
  /\ sync' = [sync EXCEPT ![s] = IdleSync]
  /\ UNCHANGED <<rate, excluded, pref, fact, stored, admin, job, edits, gap>>

(* A prune or a replacement deletes a row.                                 *)
RowVanishes(e) ==
  /\ stored[e] # Unset
  /\ stored' = [stored EXCEPT ![e] = Unset]
  /\ UNCHANGED <<rate, excluded, pref, fact, admin, job, sync, edits, gap>>

-----------------------------------------------------------------------------
Next ==
  \/ \E a \in Admin :
       \/ CreateRead(a) \/ CreateCommit(a) \/ CreateAborts(a) \/ UpdateRate(a)
       \/ RemoveRate(a) \/ ExcludeRead(a) \/ ExcludeWrite(a)
       \/ Notify(a) \/ NotifySkipped(a) \/ NotifyFails(a) \/ PatchPreferences(a)
  \/ RecalculateCosts
  \/ \E j \in Job :
       \/ Take(j) \/ RecalcPrice(j) \/ RecalcWrite(j) \/ RecalcDone(j)
       \/ RecalcFails(j) \/ JobStalls(j)
  \/ \E s \in Sync : SyncBegin(s) \/ SyncPrice(s) \/ SyncWrite(s) \/ SyncFails(s)
  \/ \E e \in Entry : RowVanishes(e) \/ DueMoves(e)

Spec == Init /\ [][Next]_vars

(* Requests, jobs and syncs that started run on; a queue serves its jobs   *)
(* in order, so a waiting job gets its turn.  A request waits for a slot   *)
(* of the model's queue only because the model bounds it.                  *)
Fairness ==
  /\ \A a \in Admin :
       /\ WF_vars(CreateCommit(a) \/ CreateAborts(a)) /\ WF_vars(ExcludeWrite(a))
       /\ SF_vars(Notify(a) \/ NotifySkipped(a))
  /\ \A j \in Job :
       /\ SF_vars(Take(j))
       /\ WF_vars(RecalcPrice(j) \/ RecalcWrite(j) \/ RecalcDone(j) \/ RecalcFails(j))

FairSpec == Spec /\ Fairness

-----------------------------------------------------------------------------
(* Properties.                                                             *)

(* In every rate table the program can reach, and for every new rate that  *)
(* planRateSuccession accepts, carrying the plan out leaves no overlap,    *)
(* re-prices no day before the new rate and prices every day of it.        *)
PlanExact ==
  \A new \in Rate, from \in Day, to \in Day \cup {Forever} :
    \A cents \in Cents :
      /\ rate[new].state = "unused" /\ from <= to /\ PlanOk(rate, from, to)
      => SuccessionExact(rate, new, from, to, cents)

(* A stored price that is not what a calculation would give now is on      *)
(* somebody's list: a request that is about to queue a recalculation, a    *)
(* recalculation that waits, or one at work that will write the current    *)
(* price.  The only exceptions are the windows of GapKind.  It is what     *)
(* RatesService, the exclusion request and CostRecalculationService        *)
(* promise together, with one recalculation at work at a time.             *)
StaleIsPending ==
  \A e \in Entry :
    stored[e] # Unset /\ stored[e] # Current(e) /\ gap = {} => Pending(e)

(* A stale price is corrected in the end, or falls into a window.          *)
CostsSettle ==
  \A e \in Entry :
    stored[e] # Unset /\ stored[e] # Current(e)
      ~> stored[e] = Unset \/ stored[e] = Current(e) \/ gap # {}

(* What StaleIsPending needs to be inductive: unless somebody else is yet  *)
(* to recalculate, the one recalculation at work has read what a           *)
(* calculation would read now.                                             *)
FreshReads ==
  \A j \in Job, e \in Entry : gap = {} /\ ~Elsewhere => ~WillMisprice(j, e)

OneAtWork ==
  \A i, j \in Job : job[i].phase = "working" /\ job[j].phase = "working" => i = j
-----------------------------------------------------------------------------
(* What the costs promise, without rates, ids, jobs and syncs: PriceBook.  *)
(* The list says for each day what the rate in force on it costs; the      *)
(* calculations at work hold the days in their caches, and the price of    *)
(* the row that each is about to write.                                    *)
Amount(p) == [status |-> p.status, cents |-> p.cents]
Prices == [day \in Day |-> Amount(Rated(rate, day))]
Shown == [e \in Entry |-> Amount(stored[e])]

Runs == {job[j] : j \in Job} \cup {sync[s] : s \in Sync}

Quotes(run) ==
  {<<day, Amount(run.cache[day])>> : day \in {d \in Day : run.cache[d] # Unset}}
Quoted == UNION {Quotes(run) : run \in Runs}

Offers(run) == {<<e, Amount(run.price)>> : e \in {run.held} \ {NoEntry}}
Offered == UNION {Offers(run) : run \in Runs}

(* The days of a row: as the tables have them, as runs have listed it, and *)
(* as a sync is about to write it.                                         *)
DaysIn(f) == {f.start, f.due} \ {NoDue}

FactsOf(e) ==
  {fact[e]} \cup {row.fact : row \in UNION {RowsOf(run, e) : run \in Runs}}
    \cup {sync[s].fact : s \in {t \in Sync : sync[t].held = e}}

Dated == [e \in Entry |-> UNION {DaysIn(f) : f \in FactsOf(e)}]

Book == INSTANCE PriceBook WITH
  price <- Prices, shown <- Shown, quoted <- Quoted, offered <- Offered, dated <- Dated,
  free <- pref.zero,
  Money <- [status : {"unset", "none", "excluded", "rated"}, cents : Nat],
  NoPrice <- Amount(Missing), OutPrice <- Amount(Excluded), FreePrice <- Amount(Free),
  NoRow <- Amount(Unset)

(* A price gets onto a row only for a day at which the calculation found   *)
(* the row dated, and only after a recalculation or a sync read it off the *)
(* table as it then was, whatever its cache held; a rate that is created,  *)
(* moved or deleted re-prices its own days and no others, except that a    *)
(* succession planned on an old reading may price days that somebody ended *)
(* meanwhile.                                                              *)
KeepsBook == Book!Spec
=============================================================================
