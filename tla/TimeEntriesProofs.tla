-------------------------- MODULE TimeEntriesProofs --------------------------
(***************************************************************************)
(* Theorems about TimeEntries, for any set of entries, copies, slices,     *)
(* jobs and syncs, any number of attempts and workers and any faults.      *)
(***************************************************************************)
EXTENDS TimeEntries, FiniteSetTheorems, TLAPS

JobsGood == job \in [Job -> JobRecord] /\ JobsOK

LEMMA FreeJobGood == FreeJob \in JobRecord /\ GoodJob(FreeJob)
<1>1. 0 \in 0..Attempts /\ 0 \in 0..MaxStalls
  BY ConstantAssumption
<1> QED BY <1>1 DEF FreeJob, JobRecord, Phase, GoodJob

LEMMA NewJobGood ==
  ASSUME NEW o \in Original, NEW keyed \in BOOLEAN
  PROVE  NewJob(o, keyed) \in JobRecord /\ GoodJob(NewJob(o, keyed))
<1>1. Attempts \in 0..Attempts /\ Attempts >= 1 /\ 0 \in 0..MaxStalls
  BY ConstantAssumption
<1> QED BY <1>1 DEF NewJob, JobRecord, Phase, GoodJob

(* A job on the move keeps its original and its attempts; it may reach a   *)
(* phase past the creation only with a copy in hand.                       *)
LEMMA AtPhaseGood ==
  ASSUME NEW b \in JobRecord, GoodJob(b), b.phase \notin {"free", "exhausted"}, NEW p \in Phase,
         p \in {"record", "delete", "upsert", "drop"} =>
           b.phase \in {"record", "delete", "upsert", "drop"}
  PROVE  AtPhase(b, p) \in JobRecord /\ GoodJob(AtPhase(b, p))
BY DEF AtPhase, JobRecord, GoodJob

LEMMA HoldingGood ==
  ASSUME NEW b \in JobRecord, GoodJob(b), b.phase \notin {"free", "exhausted"}, NEW c \in Copy
  PROVE  Holding(b, c) \in JobRecord /\ GoodJob(Holding(b, c))
BY DEF Holding, JobRecord, Phase, GoodJob

LEMMA OneAttemptLessGood ==
  ASSUME NEW b \in JobRecord, GoodJob(b), b.phase \notin {"free", "exhausted"}
  PROVE  OneAttemptLess(b) \in JobRecord /\ GoodJob(OneAttemptLess(b))
<1>1. Attempts \in Nat
  BY ConstantAssumption
<1> QED BY <1>1 DEF OneAttemptLess, JobRecord, Phase, GoodJob

LEMMA StalledGood ==
  ASSUME NEW b \in JobRecord, GoodJob(b), b.phase \notin {"free", "exhausted"},
         b.stalls < MaxStalls
  PROVE  Stalled(b) \in JobRecord /\ GoodJob(Stalled(b))
<1>1. MaxStalls \in Nat
  BY ConstantAssumption
<1> QED BY <1>1 DEF Stalled, JobRecord, Phase, GoodJob

LEMMA JobUpdate ==
  ASSUME JobsGood, NEW j \in Job, NEW b, b \in JobRecord /\ GoodJob(b),
         job' = [job EXCEPT ![j] = b]
  PROVE  JobsGood'
<1>1. \A k \in Job : job'[k] = IF k = j THEN b ELSE job[k]
  BY DEF JobsGood
<1>2. job' \in [Job -> JobRecord]
  BY DEF JobsGood
<1> QED BY <1>1, <1>2 DEF JobsGood, JobsOK

LEMMA AddKeyedGood ==
  ASSUME JobsGood, NEW o \in Original, AddKeyed(o)
  PROVE  JobsGood'
<1>1. CASE UNCHANGED job
  BY <1>1 DEF JobsGood, JobsOK
<1>2. ASSUME NEW j \in Job, job' = [job EXCEPT ![j] = NewJob(o, TRUE)]
      PROVE  JobsGood'
  BY <1>2, NewJobGood, JobUpdate
<1> QED BY <1>1, <1>2 DEF AddKeyed

LEMMA FinishGood ==
  ASSUME JobsGood, NEW j \in Job, Finish(j)
  PROVE  JobsGood'
BY FreeJobGood, JobUpdate DEF Finish

(* The job queue stays well formed under every step.                       *)
LEMMA JobStep ==
  ASSUME TypeOK, JobsOK, SyncsOK, [Next]_vars
  PROVE  JobsGood'
<1> USE DEF Active
<1>a. JobsGood
  BY DEF TypeOK, JobsGood
<1>u. CASE UNCHANGED job
  BY <1>u, <1>a DEF JobsGood, JobsOK
<1>1. ASSUME NEW o \in Original, BackfillAdd(o)
      PROVE  JobsGood'
  BY <1>1, <1>a, <1>u, AddKeyedGood DEF BackfillAdd
<1>2. ASSUME NEW o \in Original, DeadRetry(o)
      PROVE  JobsGood'
  <2>1. PICK j \in Job : job' = [job EXCEPT ![j] = NewJob(o, FALSE)]
    BY <1>2 DEF DeadRetry
  <2> QED BY <2>1, <1>a, NewJobGood, JobUpdate
<1>3. ASSUME NEW j \in Job,
             \/ Take(j) \/ Lookup(j) \/ CheckMapping(j) \/ Create(j) \/ Record(j)
             \/ DeleteOriginal(j) \/ Upsert(j) \/ Drop(j) \/ WriteLetter(j)
             \/ CallFails(j) \/ JobStalls(j)
      PROVE  JobsGood'
  <2>a. job[j] \in JobRecord /\ GoodJob(job[j])
    BY <1>a DEF JobsGood, JobsOK
  <2>f. CASE Finish(j)
    BY <2>f, <1>a, FinishGood
  <2>l. ASSUME job[j].phase \notin {"free", "exhausted"},
               job' = [job EXCEPT ![j] = OneAttemptLess(job[j])]
        PROVE  JobsGood'
    BY <2>l, <2>a, <1>a, OneAttemptLessGood, JobUpdate
  <2>p. ASSUME NEW p \in Phase, job[j].phase \notin {"free", "exhausted"},
               p \in {"record", "delete", "upsert", "drop"} =>
                 job[j].phase \in {"record", "delete", "upsert", "drop"},
               job' = [job EXCEPT ![j] = AtPhase(job[j], p)]
        PROVE  JobsGood'
    BY <2>p, <2>a, <1>a, AtPhaseGood, JobUpdate
  <2>1. CASE Take(j)
    BY <2>1, <2>p DEF Take, Phase
  <2>2. CASE Lookup(j)
    BY <2>2, <2>p DEF Lookup, Phase
  <2>3. CASE CheckMapping(j)
    BY <2>3, <2>p, <2>f DEF CheckMapping, Phase
  <2>4. CASE Create(j)
    <3>1. PICK c \in Copy : \/ job' = [job EXCEPT ![j] = Holding(job[j], c)]
                            \/ job' = [job EXCEPT ![j] = OneAttemptLess(job[j])]
      BY <2>4 DEF Create
    <3>2. Holding(job[j], c) \in JobRecord /\ GoodJob(Holding(job[j], c))
      BY <2>4, <2>a, HoldingGood DEF Create
    <3>3. CASE job' = [job EXCEPT ![j] = Holding(job[j], c)]
      BY <3>2, <3>3, <1>a, JobUpdate
    <3> QED BY <3>1, <3>3, <2>4, <2>l DEF Create
  <2>5. CASE Record(j)
    BY <2>5, <2>p, <2>l DEF Record, Phase
  <2>6. CASE DeleteOriginal(j)
    BY <2>6, <2>p, <2>l DEF DeleteOriginal, AfterDelete, Phase
  <2>7. CASE Upsert(j)
    BY <2>7, <2>p DEF Upsert, Phase
  <2>8. CASE Drop(j)
    BY <2>8, <2>f DEF Drop
  <2>9. CASE WriteLetter(j)
    BY <2>9, <2>f DEF WriteLetter
  <2>10. CASE CallFails(j)
    BY <2>10, <2>l DEF CallFails
  <2>11. CASE JobStalls(j)
    <3>1. ASSUME job[j].stalls < MaxStalls, job' = [job EXCEPT ![j] = Stalled(job[j])]
          PROVE  JobsGood'
      BY <3>1, <2>11, <2>a, <1>a, StalledGood, JobUpdate DEF JobStalls
    <3> QED BY <3>1, <2>11, <2>f, <2>l DEF JobStalls
  <2> QED BY <1>3, <2>1, <2>2, <2>3, <2>4, <2>5, <2>6, <2>7, <2>8, <2>9, <2>10, <2>11
<1>4. ASSUME NEW s \in Sync, SyncEnqueue(s)
      PROVE  JobsGood'
  <2>1. PICK o \in Original : AddKeyed(o)
    BY <1>4 DEF SyncEnqueue, SyncsOK
  <2> QED BY <2>1, <1>a, AddKeyedGood
<1> QED
  BY <1>u, <1>1, <1>2, <1>3, <1>4
  DEF Next, vars, LogEntry, Evict, UserDeletes, ToggleMapping, BackfillScan, SyncFetch,
      SyncResolve, SyncUpsert, SyncPrune, SyncTags, SyncDone, SyncFails

(* So do the syncs: what a sync got, keeps and still has to do are entries *)
(* of ClickUp, and what it queues are originals.                           *)
LEMMA SyncStep ==
  ASSUME TypeOK, SyncsOK, [Next]_vars
  PROVE  sync' \in [Sync -> SyncRecord] /\ SyncsOK'
<1> DEFINE Good(b) == b \in SyncRecord /\ (b.pc = "enqueue" => b.todo \subseteq Original)
<1>a. sync \in [Sync -> SyncRecord] /\ \A s \in Sync : Good(sync[s])
  BY DEF TypeOK, SyncsOK
<1>u. CASE UNCHANGED sync
  BY <1>u, <1>a DEF SyncsOK
<1>g. ASSUME NEW s \in Sync, NEW b, Good(b), sync' = [sync EXCEPT ![s] = b]
      PROVE  sync' \in [Sync -> SyncRecord] /\ SyncsOK'
  <2>1. \A q \in Sync : sync'[q] = IF q = s THEN b ELSE sync[q]
    BY <1>a, <1>g
  <2>2. sync' \in [Sync -> SyncRecord]
    BY <1>a, <1>g
  <2> QED BY <1>a, <1>g, <2>1, <2>2 DEF SyncsOK
<1>i. Good(IdleSync)
  BY DEF IdleSync, SyncRecord
<1>1. ASSUME NEW s \in Sync, SyncFetch(s)
      PROVE  sync' \in [Sync -> SyncRecord] /\ SyncsOK'
  <2>0. PICK S \in Slices : \E got \in SUBSET S :
          sync' = [sync EXCEPT ![s] = [pc |-> "resolve", slice |-> S, got |-> got, todo |-> {},
                                       keep |-> {}, before |-> remote]]
    BY <1>1 DEF SyncFetch
  <2>1. PICK got \in SUBSET S :
          sync' = [sync EXCEPT ![s] = [pc |-> "resolve", slice |-> S, got |-> got, todo |-> {},
                                       keep |-> {}, before |-> remote]]
    BY <2>0
  <2> DEFINE b == [pc |-> "resolve", slice |-> S, got |-> got, todo |-> {}, keep |-> {},
                   before |-> remote]
  <2>2. S \subseteq Entry /\ got \subseteq Entry /\ remote \subseteq Entry
    BY ConstantAssumption DEF TypeOK
  <2>3. Good(b)
    BY <2>2 DEF SyncRecord
  <2> QED BY <1>g, <2>1, <2>3
<1>2. ASSUME NEW s \in Sync, SyncResolve(s)
      PROVE  sync' \in [Sync -> SyncRecord] /\ SyncsOK'
  <2>1. PICK skip \in SUBSET (sync[s].got \ local) :
          sync' = [sync EXCEPT ![s] = [pc |-> "persist", slice |-> @.slice, got |-> @.got,
                       todo |-> @.got \ skip, keep |-> @.got \ skip, before |-> @.before]]
    BY <1>2 DEF SyncResolve
  <2> DEFINE b == [pc |-> "persist", slice |-> sync[s].slice, got |-> sync[s].got,
                   todo |-> sync[s].got \ skip, keep |-> sync[s].got \ skip,
                   before |-> sync[s].before]
  <2>2. Good(b)
    BY <1>a DEF SyncRecord
  <2>3. sync' = [sync EXCEPT ![s] = b]
    BY <2>1
  <2> QED BY <1>g, <2>2, <2>3
<1>3. ASSUME NEW s \in Sync, NEW e, sync[s].pc \in {"persist", "enqueue"},
             sync' = [sync EXCEPT ![s].todo = @ \ {e}]
      PROVE  sync' \in [Sync -> SyncRecord] /\ SyncsOK'
  <2> DEFINE b == [sync[s] EXCEPT !.todo = sync[s].todo \ {e}]
  <2>1. Good(b)
    BY <1>a DEF SyncRecord
  <2>2. sync' = [sync EXCEPT ![s] = b]
    BY <1>3, <1>a
  <2> HIDE DEF b
  <2> QED BY <1>g, <2>1, <2>2
<1>4. ASSUME NEW s \in Sync, SyncPrune(s)
      PROVE  sync' \in [Sync -> SyncRecord] /\ SyncsOK'
  <2>1. Good([sync[s] EXCEPT !.pc = "map"])
    BY <1>a DEF SyncRecord
  <2> QED BY <1>g, <1>4, <2>1 DEF SyncPrune
<1>5. ASSUME NEW s \in Sync, SyncTags(s)
      PROVE  sync' \in [Sync -> SyncRecord] /\ SyncsOK'
  <2> DEFINE t == IF mapped THEN sync[s].keep \cap Tagged ELSE {}
  <2>1. t \subseteq Original /\ t \subseteq Entry
    BY ConstantAssumption DEF Entry
  <2> HIDE DEF t
  <2>2. Good([sync[s] EXCEPT !.pc = "enqueue", !.todo = t])
    BY <1>a, <2>1 DEF SyncRecord
  <2>3. sync' = [sync EXCEPT ![s] = [sync[s] EXCEPT !.pc = "enqueue", !.todo = t]]
    BY <1>5 DEF SyncTags, t
  <2> QED BY <1>g, <2>2, <2>3
<1>6. ASSUME NEW s \in Sync, SyncDone(s) \/ SyncFails(s)
      PROVE  sync' \in [Sync -> SyncRecord] /\ SyncsOK'
  BY <1>g, <1>i, <1>6 DEF SyncDone, SyncFails
<1>7. ASSUME NEW s \in Sync, SyncUpsert(s) \/ SyncEnqueue(s)
      PROVE  sync' \in [Sync -> SyncRecord] /\ SyncsOK'
  BY <1>3, <1>7 DEF SyncUpsert, SyncEnqueue
<1> QED
  BY <1>u, <1>1, <1>2, <1>4, <1>5, <1>6, <1>7
  DEF Next, vars, LogEntry, BackfillAdd, DeadRetry, Evict, UserDeletes, ToggleMapping,
      BackfillScan, Take, Lookup, CheckMapping, Create, Record, DeleteOriginal, Upsert, Drop,
      WriteLetter, CallFails, JobStalls

RestOK ==
  /\ remote \subseteq Entry
  /\ made \in [Copy -> Original \cup {NoEntry}]
  /\ local \subseteq Entry
  /\ audit \in [Original -> Copy \cup {NoEntry}]
  /\ mapped \in BOOLEAN
  /\ kept \subseteq Original
  /\ dead \subseteq Original
  /\ backfill \subseteq Original
  /\ logged \subseteq Original
  /\ byUser \subseteq Entry
  /\ removed \subseteq Original
  /\ gap \in [Original -> SUBSET GapKind]
  /\ disturbed \subseteq Sync

LEMMA TypeParts ==
  TypeOK <=> RestOK /\ job \in [Job -> JobRecord] /\ sync \in [Sync -> SyncRecord]
BY DEF TypeOK, RestOK

(* Adding a window to what an original fell into.                          *)
LEMMA GapUpdate ==
  ASSUME NEW g \in [Original -> SUBSET GapKind], NEW o \in Original, NEW k \in GapKind
  PROVE  [g EXCEPT ![o] = @ \cup {k}] \in [Original -> SUBSET GapKind]
OBVIOUS

LEMMA OrphanedType ==
  ASSUME TypeOK, NEW j \in Job, job[j].orig \in Original
  PROVE  Orphaned(j) \in [Original -> SUBSET GapKind]
<1>1. "unrecorded" \in GapKind
  BY DEF GapKind
<1> QED BY <1>1, GapUpdate DEF Orphaned, TypeOK

(* Every other variable keeps its type.                                    *)
LEMMA RestStep ==
  ASSUME TypeOK, JobsOK, [Next]_vars
  PROVE  RestOK'
<1> USE DEF Active
<1>a. RestOK
  BY TypeParts
<1>d. ASSUME NEW self, Disturb(self)
      PROVE  disturbed' \subseteq Sync
  BY <1>d, <1>a DEF Disturb, RestOK
<1>w. {"unrecorded", "parallel", "late_upsert", "letter_lost", "stalled_out"} \subseteq GapKind
  BY DEF GapKind
<1>u. CASE UNCHANGED vars
  BY <1>u, <1>a DEF vars, RestOK
<1>1. ASSUME NEW o \in Original, LogEntry(o) \/ BackfillAdd(o) \/ DeadRetry(o) \/ Evict(o)
      PROVE  RestOK'
  <2>1. CASE LogEntry(o)
    BY <2>1, <1>a, <1>d DEF LogEntry, RestOK, Entry
  <2>2. CASE BackfillAdd(o) \/ DeadRetry(o) \/ Evict(o)
    BY <2>2, <1>a DEF BackfillAdd, DeadRetry, Evict, RestOK
  <2> QED BY <1>1, <2>1, <2>2
<1>2. ASSUME NEW x \in Entry, UserDeletes(x)
      PROVE  RestOK'
  BY <1>2, <1>a, <1>d DEF UserDeletes, RestOK
<1>3. CASE ToggleMapping \/ BackfillScan
  BY <1>3, <1>a, ConstantAssumption DEF ToggleMapping, BackfillScan, RestOK
<1>4. ASSUME NEW j \in Job,
             \/ Take(j) \/ Lookup(j) \/ CheckMapping(j) \/ Create(j) \/ Record(j)
             \/ DeleteOriginal(j) \/ Upsert(j) \/ Drop(j) \/ WriteLetter(j)
             \/ CallFails(j) \/ JobStalls(j)
      PROVE  RestOK'
  <2>a. job[j] \in JobRecord /\ GoodJob(job[j]) /\ job[j].phase # "free"
    BY <1>4 DEF TypeOK, JobsOK, Take, Lookup, CheckMapping, Create, Record, DeleteOriginal,
      Upsert, Drop, WriteLetter, CallFails, JobStalls
  <2>o. job[j].orig \in Original
    BY <2>a DEF GoodJob
  <2>g. /\ Orphaned(j) \in [Original -> SUBSET GapKind]
        /\ \A k \in GapKind : [gap EXCEPT ![job[j].orig] = @ \cup {k}] \in
                                [Original -> SUBSET GapKind]
        /\ [Orphaned(j) EXCEPT ![job[j].orig] = @ \cup {"stalled_out"}] \in
              [Original -> SUBSET GapKind]
    BY <1>a, <1>w, <2>o, OrphanedType, GapUpdate DEF RestOK
  <2>k. Retained(j) \subseteq Original
    BY <1>a, <2>o DEF Retained, RestOK
  <2>1. CASE Take(j)
    BY <2>1, <1>a, <1>w, <2>g DEF Take, RestOK
  <2>2. CASE Lookup(j)
    BY <2>2, <1>a DEF Lookup, RestOK
  <2>3. CASE CheckMapping(j)
    BY <2>3, <1>a, <2>k DEF CheckMapping, Finish, RestOK
  <2>4. CASE Create(j)
    <3>1. PICK c \in Copy : remote' = remote \cup {c} /\ made' = [made EXCEPT ![c] = job[j].orig]
      BY <2>4 DEF Create
    <3>2. remote' \subseteq Entry /\ made' \in [Copy -> Original \cup {NoEntry}]
      BY <3>1, <1>a, <2>o DEF RestOK, Entry
    <3>3. gap' \in [Original -> SUBSET GapKind]
      BY <2>4, <1>a, <1>w, <2>g DEF Create, RestOK
    <3> QED BY <2>4, <1>a, <1>d, <3>2, <3>3 DEF Create, RestOK
  <2>5. CASE Record(j)
    <3>1. audit' \in [Original -> Copy \cup {NoEntry}]
      BY <2>5, <1>a, <2>a, <2>o DEF Record, RestOK, GoodJob
    <3> QED BY <2>5, <1>a, <2>g, <3>1 DEF Record, RestOK
  <2>6. CASE DeleteOriginal(j)
    BY <2>6, <1>a, <1>d, <2>o DEF DeleteOriginal, RestOK
  <2>7. CASE Upsert(j)
    <3>1. job[j].copy \in Entry
      BY <2>7, <2>a DEF Upsert, GoodJob, Entry
    <3> QED BY <2>7, <1>a, <1>d, <3>1 DEF Upsert, RestOK
  <2>8. CASE Drop(j)
    BY <2>8, <1>a, <1>d, <2>k DEF Drop, Finish, RestOK
  <2>9. CASE WriteLetter(j)
    BY <2>9, <1>a, <1>w, <2>o, <2>g, <2>k DEF WriteLetter, Finish, RestOK
  <2>10. CASE CallFails(j)
    BY <2>10, <1>a, <2>g DEF CallFails, RestOK
  <2>11. CASE JobStalls(j)
    BY <2>11, <1>a, <2>g, <2>k DEF JobStalls, Finish, RestOK
  <2> QED BY <1>4, <2>1, <2>2, <2>3, <2>4, <2>5, <2>6, <2>7, <2>8, <2>9, <2>10, <2>11
<1>5. ASSUME NEW s \in Sync, SyncUpsert(s)
      PROVE  RestOK'
  <2>1. PICK e \in sync[s].todo :
          /\ local' = local \cup {e}
          /\ gap' = IF e \in Original \ remote
                    THEN [gap EXCEPT ![e] = @ \cup {"late_upsert"}] ELSE gap
    BY <1>5 DEF SyncUpsert
  <2>2. e \in Entry
    BY DEF TypeOK, SyncRecord
  <2>3. gap' \in [Original -> SUBSET GapKind]
    BY <1>a, <1>w, <2>1, GapUpdate DEF RestOK
  <2> QED BY <1>5, <1>a, <1>d, <2>1, <2>2, <2>3 DEF SyncUpsert, RestOK
<1>6. ASSUME NEW s \in Sync, SyncPrune(s)
      PROVE  RestOK'
  BY <1>6, <1>a, <1>d DEF SyncPrune, RestOK
<1>7. ASSUME NEW s \in Sync,
             \/ SyncFetch(s) \/ SyncResolve(s) \/ SyncTags(s) \/ SyncEnqueue(s)
             \/ SyncDone(s) \/ SyncFails(s)
      PROVE  RestOK'
  BY <1>7, <1>a DEF SyncFetch, SyncResolve, SyncTags, SyncEnqueue, SyncDone, SyncFails, RestOK
<1> QED
  BY <1>u, <1>1, <1>2, <1>3, <1>4, <1>5, <1>6, <1>7 DEF Next

LEMMA TypeStep == TypeOK /\ JobsOK /\ SyncsOK /\ [Next]_vars => (TypeOK /\ JobsOK /\ SyncsOK)'
BY JobStep, SyncStep, RestStep DEF TypeOK, RestOK, JobsGood

LEMMA TypeInit == Init => TypeOK /\ JobsOK /\ SyncsOK
<1> SUFFICES ASSUME Init PROVE TypeOK /\ JobsOK /\ SyncsOK
  OBVIOUS
<1>1. job \in [Job -> JobRecord] /\ JobsOK
  BY FreeJobGood DEF Init, JobsOK
<1>2. sync \in [Sync -> SyncRecord] /\ SyncsOK
  BY DEF Init, SyncsOK, IdleSync, SyncRecord
<1> QED BY <1>1, <1>2 DEF Init, TypeOK

(* Every reachable state is well typed: in particular no job runs without  *)
(* an attempt left, and none is past the creation without a copy.          *)
THEOREM TypeCorrect == Spec => []TypeOK
<1>1. TypeOK /\ JobsOK /\ SyncsOK /\ [Next]_vars => (TypeOK /\ JobsOK /\ SyncsOK)'
  BY TypeStep
<1> QED BY <1>1, TypeInit, PTL DEF Spec

(* Copies never leave ClickUp but by a user's hand.                        *)
LEMMA CopiesStay ==
  ASSUME TypeOK, JobsOK, [Next]_vars
  PROVE  Present \cap Copy \subseteq Present'
<1>1. ASSUME NEW j \in Job, DeleteOriginal(j)
      PROVE  Present \cap Copy \subseteq Present'
  <2>1. job[j].orig \in Original
    BY <1>1 DEF DeleteOriginal, JobsOK, GoodJob
  <2> QED BY <1>1, <2>1, ConstantAssumption DEF DeleteOriginal, Present
<1>2. CASE remote \subseteq remote' /\ byUser \subseteq byUser'
  BY <1>2 DEF Present
<1>3. ASSUME NEW x \in Entry, UserDeletes(x)
      PROVE  Present \cap Copy \subseteq Present'
  BY <1>3 DEF UserDeletes, Present
<1> QED
  BY <1>1, <1>2, <1>3
  DEF Next, vars, LogEntry, BackfillAdd, DeadRetry, Evict, ToggleMapping, BackfillScan, Take,
      Lookup, CheckMapping, Create, Record, Upsert, Drop, WriteLetter, CallFails, JobStalls,
      SyncFetch, SyncResolve, SyncUpsert, SyncPrune, SyncTags, SyncEnqueue, SyncDone, SyncFails

(* What a copy was made from, and an audit row, are written once.          *)
LEMMA WrittenOnce ==
  ASSUME TypeOK, JobsOK, [Next]_vars
  PROVE  /\ \A c \in Copy : made[c] # NoEntry => made'[c] = made[c]
         /\ \A o \in Original : audit[o] # NoEntry => audit'[o] = audit[o]
<1>1. ASSUME NEW j \in Job, Create(j)
      PROVE  \A c \in Copy : made[c] # NoEntry => made'[c] = made[c]
  <2>1. PICK c \in Copy : made[c] = NoEntry /\ made' = [made EXCEPT ![c] = job[j].orig]
    BY <1>1 DEF Create
  <2> QED BY <2>1 DEF TypeOK
<1>2. ASSUME NEW j \in Job, Record(j)
      PROVE  \A o \in Original : audit[o] # NoEntry => audit'[o] = audit[o]
  BY <1>2 DEF Record, TypeOK
<1>3. (\A j \in Job : ~Create(j)) => made' = made
  BY DEF Next, vars, LogEntry, BackfillAdd, DeadRetry, Evict, UserDeletes, ToggleMapping,
      BackfillScan, Take, Lookup, CheckMapping, Record, DeleteOriginal, Upsert, Drop,
      WriteLetter, CallFails, JobStalls, SyncFetch, SyncResolve, SyncUpsert, SyncPrune,
      SyncTags, SyncEnqueue, SyncDone, SyncFails
<1>4. (\A j \in Job : ~Record(j)) => audit' = audit
  BY DEF Next, vars, LogEntry, BackfillAdd, DeadRetry, Evict, UserDeletes, ToggleMapping,
      BackfillScan, Take, Lookup, CheckMapping, Create, DeleteOriginal, Upsert, Drop,
      WriteLetter, CallFails, JobStalls, SyncFetch, SyncResolve, SyncUpsert, SyncPrune,
      SyncTags, SyncEnqueue, SyncDone, SyncFails
<1> QED BY <1>1, <1>2, <1>3, <1>4

(* Recorded, as a record b stands to the state after the step.             *)
RecordedNext(b) ==
  /\ b.phase = "record" => made'[b.copy] = b.orig /\ b.copy \in Present'
  /\ b.phase \in {"redelete", "redrop", "delete", "upsert", "drop"} => audit'[b.orig] # NoEntry

(* So a job that was in step with the records stays in step.               *)
LEMMA StillRecorded ==
  ASSUME TypeOK, JobsOK, [Next]_vars, NEW b \in JobRecord, GoodJob(b), Recorded(b)
  PROVE  RecordedNext(b)
<1>1. CASE b.phase = "record"
  <2>1. b.copy \in Copy /\ made[b.copy] = b.orig /\ b.orig # NoEntry /\ b.copy \in Present
    BY <1>1, ConstantAssumption DEF GoodJob, Recorded, Entry
  <2>2. made'[b.copy] = b.orig /\ b.copy \in Present'
    BY <2>1, WrittenOnce, CopiesStay
  <2> QED BY <1>1, <2>2 DEF RecordedNext
<1>2. CASE b.phase \in {"redelete", "redrop", "delete", "upsert", "drop"}
  <2>1. b.orig \in Original /\ audit[b.orig] # NoEntry
    BY <1>2 DEF GoodJob, Recorded
  <2> QED BY <1>2, <2>1, WrittenOnce DEF RecordedNext
<1> QED BY <1>1, <1>2 DEF RecordedNext

(* The two relations between jobs and records that need no record yet.     *)
LEMMA PlainRecorded ==
  ASSUME NEW b, b.phase \in {"free", "waiting", "lookup", "mapping", "create", "exhausted"}
  PROVE  RecordedNext(b)
BY DEF RecordedNext

LEMMA PlainSlots ==
  /\ FreeJob.phase = "free"
  /\ \A o, keyed : NewJob(o, keyed).phase = "waiting"
  /\ \A b : OneAttemptLess(b).phase \in {"waiting", "exhausted"} /\ Stalled(b).phase = "waiting"
  /\ \A b, p : AtPhase(b, p).phase = p
BY DEF FreeJob, NewJob, OneAttemptLess, Stalled, AtPhase

(* Each phase a worker moves to is in step with the records.               *)
LEMMA MoverRecorded ==
  ASSUME TypeOK, JobsOK, RecordOK, [Next]_vars, NEW j \in Job,
         \/ Take(j) \/ Lookup(j) \/ CheckMapping(j) \/ Create(j) \/ Record(j)
         \/ DeleteOriginal(j) \/ Upsert(j) \/ Drop(j) \/ WriteLetter(j)
         \/ CallFails(j) \/ JobStalls(j)
  PROVE  RecordedNext(job'[j]) /\ \A k \in Job \ {j} : job'[k] = job[k]
<1>a. /\ job \in [Job -> JobRecord] /\ job[j] \in JobRecord /\ GoodJob(job[j])
      /\ Recorded(job[j]) /\ RecordedNext(job[j])
  BY StillRecorded DEF TypeOK, JobsOK, RecordOK
<1>f. ASSUME Finish(j)
      PROVE  RecordedNext(job'[j]) /\ \A k \in Job \ {j} : job'[k] = job[k]
  BY <1>f, <1>a, PlainRecorded, PlainSlots DEF Finish
<1>l. ASSUME NEW b, job' = [job EXCEPT ![j] = b], RecordedNext(b)
      PROVE  RecordedNext(job'[j]) /\ \A k \in Job \ {j} : job'[k] = job[k]
  BY <1>l, <1>a
<1>p. ASSUME NEW b, job' = [job EXCEPT ![j] = b],
             b.phase \in {"free", "waiting", "lookup", "mapping", "create", "exhausted"}
      PROVE  RecordedNext(job'[j]) /\ \A k \in Job \ {j} : job'[k] = job[k]
  <2>1. RecordedNext(b)
    BY <1>p, PlainRecorded
  <2> QED BY <1>p, <2>1, <1>l
<1>o. CASE job' = [job EXCEPT ![j] = OneAttemptLess(job[j])]
  BY <1>o, <1>p, PlainSlots
<1>1. CASE Take(j)
  <2>1. job' = [job EXCEPT ![j] = AtPhase(job[j], "lookup")]
    BY <1>1 DEF Take
  <2>2. AtPhase(job[j], "lookup").phase = "lookup"
    BY PlainSlots
  <2> QED BY <2>1, <2>2, <1>p
<1>2. CASE Lookup(j)
  <2>1. CASE audit[job[j].orig] # NoEntry
    <3>1. job' = [job EXCEPT ![j] = AtPhase(job[j], "redelete")] /\ audit' = audit
      BY <1>2, <2>1 DEF Lookup
    <3>2. RecordedNext(AtPhase(job[j], "redelete"))
      BY <2>1, <3>1 DEF RecordedNext, AtPhase
    <3> QED BY <3>1, <3>2, <1>l
  <2>2. CASE audit[job[j].orig] = NoEntry
    <3>1. job' = [job EXCEPT ![j] = AtPhase(job[j], "mapping")]
      BY <1>2, <2>2 DEF Lookup
    <3>2. AtPhase(job[j], "mapping").phase = "mapping"
      BY PlainSlots
    <3> QED BY <3>1, <3>2, <1>p
  <2> QED BY <2>1, <2>2
<1>3. CASE CheckMapping(j)
  BY <1>3, <1>f, <1>p, PlainSlots DEF CheckMapping
<1>4. CASE Create(j)
  <2>1. PICK c \in Copy :
          /\ remote' = remote \cup {c}
          /\ made' = [made EXCEPT ![c] = job[j].orig]
          /\ \/ job' = [job EXCEPT ![j] = Holding(job[j], c)]
             \/ job' = [job EXCEPT ![j] = OneAttemptLess(job[j])]
    BY <1>4 DEF Create
  <2>2. CASE job' = [job EXCEPT ![j] = Holding(job[j], c)]
    <3>1. made'[c] = job[j].orig /\ c \in Present'
      BY <2>1 DEF TypeOK, Present
    <3>2. RecordedNext(Holding(job[j], c))
      BY <3>1 DEF RecordedNext, Holding
    <3> QED BY <2>2, <3>2, <1>l
  <2> QED BY <2>1, <2>2, <1>o
<1>5. CASE Record(j)
  <2>1. CASE audit[job[j].orig] = NoEntry
    <3>1. /\ job' = [job EXCEPT ![j] = AtPhase(job[j], "delete")]
          /\ audit' = [audit EXCEPT ![job[j].orig] = job[j].copy]
      BY <1>5, <2>1 DEF Record
    <3>2. job[j].orig \in Original /\ job[j].copy \in Copy
      BY <1>5, <1>a DEF Record, GoodJob
    <3>3. audit'[job[j].orig] # NoEntry
      BY <3>1, <3>2, ConstantAssumption DEF TypeOK, Entry
    <3>4. RecordedNext(AtPhase(job[j], "delete"))
      BY <3>3 DEF RecordedNext, AtPhase
    <3> QED BY <3>1, <3>4, <1>l
  <2>2. CASE audit[job[j].orig] # NoEntry
    BY <1>5, <2>2, <1>o DEF Record
  <2> QED BY <2>1, <2>2
<1>6. CASE DeleteOriginal(j)
  <2>1. RecordedNext(AfterDelete(job[j]))
    BY <1>6, <1>a DEF DeleteOriginal, AfterDelete, AtPhase, Recorded, RecordedNext
  <2> QED BY <1>6, <2>1, <1>l, <1>o DEF DeleteOriginal
<1>7. CASE Upsert(j)
  <2>1. RecordedNext(AtPhase(job[j], "drop"))
    BY <1>7, <1>a DEF Upsert, AtPhase, Recorded, RecordedNext
  <2> QED BY <1>7, <2>1, <1>l DEF Upsert
<1>8. CASE Drop(j)
  BY <1>8, <1>f DEF Drop
<1>9. CASE WriteLetter(j)
  BY <1>9, <1>f DEF WriteLetter
<1>10. CASE CallFails(j)
  BY <1>10, <1>o DEF CallFails
<1>11. CASE JobStalls(j)
  <2>1. CASE job' = [job EXCEPT ![j] = Stalled(job[j])]
    BY <2>1, <1>p, PlainSlots
  <2> QED BY <1>11, <2>1, <1>f, <1>o DEF JobStalls
<1> QED BY <1>1, <1>2, <1>3, <1>4, <1>5, <1>6, <1>7, <1>8, <1>9, <1>10, <1>11

(* A new job is in step, having done nothing.                              *)
LEMMA NewRecorded ==
  ASSUME TypeOK, JobsOK, RecordOK, [Next]_vars, NEW j \in Job, NEW o, NEW keyed,
         job' = [job EXCEPT ![j] = NewJob(o, keyed)]
  PROVE  \A k \in Job : RecordedNext(job'[k])
<1>1. \A k \in Job : RecordedNext(job[k])
  BY StillRecorded DEF TypeOK, JobsOK, RecordOK
<1>2. \A k \in Job : job'[k] = IF k = j THEN NewJob(o, keyed) ELSE job[k]
  BY DEF TypeOK
<1>3. NewJob(o, keyed).phase = "waiting"
  BY PlainSlots
<1>4. RecordedNext(NewJob(o, keyed))
  BY <1>3, PlainRecorded
<1> QED BY <1>1, <1>2, <1>4

(* All jobs are in step with the records after any step.                   *)
LEMMA JobsRecorded ==
  ASSUME TypeOK, JobsOK, RecordOK, [Next]_vars
  PROVE  \A k \in Job : RecordedNext(job'[k])
<1>1. CASE UNCHANGED job
  BY <1>1, StillRecorded DEF TypeOK, JobsOK, RecordOK
<1>2. ASSUME NEW j \in Job,
             \/ Take(j) \/ Lookup(j) \/ CheckMapping(j) \/ Create(j) \/ Record(j)
             \/ DeleteOriginal(j) \/ Upsert(j) \/ Drop(j) \/ WriteLetter(j)
             \/ CallFails(j) \/ JobStalls(j)
      PROVE  \A k \in Job : RecordedNext(job'[k])
  <2>1. RecordedNext(job'[j]) /\ \A k \in Job \ {j} : job'[k] = job[k]
    BY <1>2, MoverRecorded
  <2>2. \A k \in Job : RecordedNext(job[k])
    BY StillRecorded DEF TypeOK, JobsOK, RecordOK
  <2> QED BY <2>1, <2>2
<1>3. ASSUME NEW j \in Job, NEW o, NEW keyed, job' = [job EXCEPT ![j] = NewJob(o, keyed)]
      PROVE  \A k \in Job : RecordedNext(job'[k])
  BY <1>3, NewRecorded
<1>4. ASSUME NEW o, BackfillAdd(o) \/ DeadRetry(o)
      PROVE  \A k \in Job : RecordedNext(job'[k])
  <2>1. \/ UNCHANGED job
        \/ \E j \in Job : job' = [job EXCEPT ![j] = NewJob(o, TRUE)]
        \/ \E j \in Job : job' = [job EXCEPT ![j] = NewJob(o, FALSE)]
    BY <1>4 DEF BackfillAdd, DeadRetry, AddKeyed
  <2> QED BY <2>1, <1>1, <1>3
<1>5. ASSUME NEW s \in Sync, SyncEnqueue(s)
      PROVE  \A k \in Job : RecordedNext(job'[k])
  <2>1. \/ UNCHANGED job
        \/ \E j \in Job, o \in sync[s].todo : job' = [job EXCEPT ![j] = NewJob(o, TRUE)]
    BY <1>5 DEF SyncEnqueue, AddKeyed
  <2> QED BY <2>1, <1>1, <1>3
<1> QED
  BY <1>1, <1>2, <1>4, <1>5
  DEF Next, vars, LogEntry, Evict, UserDeletes, ToggleMapping, BackfillScan, SyncFetch,
      SyncResolve, SyncUpsert, SyncPrune, SyncTags, SyncDone, SyncFails

LEMMA RecordStep == TypeOK /\ JobsOK /\ RecordOK /\ [Next]_vars => RecordOK'
<1> SUFFICES ASSUME TypeOK, JobsOK, RecordOK, [Next]_vars PROVE RecordOK'
  OBVIOUS
<1>1. \A o \in Original : audit'[o] # NoEntry => made'[audit'[o]] = o /\ audit'[o] \in Present'
  <2>1. ASSUME NEW o \in Original, audit[o] # NoEntry
        PROVE  made'[audit'[o]] = o /\ audit'[o] \in Present'
    <3>1. /\ audit[o] \in Copy /\ made[audit[o]] = o /\ o # NoEntry
          /\ audit[o] \in Present /\ audit'[o] = audit[o]
      BY <2>1, WrittenOnce, ConstantAssumption DEF TypeOK, RecordOK, Entry
    <3> QED BY <3>1, WrittenOnce, CopiesStay
  <2>2. ASSUME NEW o \in Original, audit[o] = NoEntry, audit'[o] # NoEntry
        PROVE  made'[audit'[o]] = o /\ audit'[o] \in Present'
    <3>1. PICK j \in Job : Record(j)
      BY <2>2
      DEF Next, vars, LogEntry, BackfillAdd, DeadRetry, Evict, UserDeletes, ToggleMapping,
          BackfillScan, Take, Lookup, CheckMapping, Create, DeleteOriginal, Upsert, Drop,
          WriteLetter, CallFails, JobStalls, SyncFetch, SyncResolve, SyncUpsert, SyncPrune,
          SyncTags, SyncEnqueue, SyncDone, SyncFails
    <3>2. /\ job[j].phase = "record" /\ made' = made /\ remote' = remote /\ byUser' = byUser
          /\ audit' = [audit EXCEPT ![job[j].orig] = job[j].copy]
      BY <2>2, <3>1 DEF Record
    <3>3. o = job[j].orig /\ audit'[o] = job[j].copy
      BY <2>2, <3>2 DEF TypeOK
    <3>4. made[job[j].copy] = job[j].orig /\ job[j].copy \in Present
      BY <3>2 DEF RecordOK, Recorded
    <3> QED BY <3>2, <3>3, <3>4 DEF Present
  <2> QED BY <2>1, <2>2
<1>2. \A o \in removed' : audit'[o] # NoEntry
  <2>1. \A o \in removed : audit'[o] # NoEntry
    BY WrittenOnce DEF RecordOK, TypeOK
  <2>2. ASSUME NEW j \in Job, DeleteOriginal(j)
        PROVE  \A o \in removed' : audit'[o] # NoEntry
    <3>1. removed' \subseteq removed \cup {job[j].orig} /\ audit' = audit
      BY <2>2 DEF DeleteOriginal
    <3>2. audit[job[j].orig] # NoEntry
      BY <2>2 DEF DeleteOriginal, RecordOK, Recorded
    <3> QED BY <2>1, <3>1, <3>2
  <2>3. (\A j \in Job : ~DeleteOriginal(j)) => removed' = removed
    BY DEF Next, vars, LogEntry, BackfillAdd, DeadRetry, Evict, UserDeletes, ToggleMapping,
        BackfillScan, Take, Lookup, CheckMapping, Create, Record, Upsert, Drop, WriteLetter,
        CallFails, JobStalls, SyncFetch, SyncResolve, SyncUpsert, SyncPrune, SyncTags,
        SyncEnqueue, SyncDone, SyncFails
  <2> QED BY <2>1, <2>2, <2>3
<1>3. \A k \in Job : Recorded(job[k])'
  BY JobsRecorded DEF Recorded, RecordedNext
<1> QED BY <1>1, <1>2, <1>3 DEF RecordOK

LEMMA RecordInit == Init => RecordOK
BY DEF Init, RecordOK, Recorded, FreeJob

(* Whatever fails and however many jobs, syncs and users take part, the    *)
(* worker deletes an original only after a copy of that entry is on        *)
(* record, and only a user can remove that copy from ClickUp.              *)
THEOREM HoursNeverLost == Spec => []HoursKept
<1>1. Init => TypeOK /\ JobsOK /\ SyncsOK /\ RecordOK
  BY TypeInit, RecordInit
<1>2. TypeOK /\ JobsOK /\ SyncsOK /\ RecordOK /\ [Next]_vars
        => (TypeOK /\ JobsOK /\ SyncsOK /\ RecordOK)'
  BY TypeStep, RecordStep
<1>3. TypeOK /\ RecordOK => HoursKept
  BY DEF TypeOK, RecordOK, HoursKept, Present
<1> QED BY <1>1, <1>2, <1>3, PTL DEF Spec

(* An entry that fell into a window stays marked.                          *)
LEMMA GapGrows ==
  ASSUME TypeOK, JobsOK, [Next]_vars, NEW o \in Original
  PROVE  gap[o] \subseteq gap'[o]
<1>g. ASSUME NEW p \in Original, NEW k, gap' = [gap EXCEPT ![p] = @ \cup {k}]
      PROVE  gap[o] \subseteq gap'[o]
  BY <1>g DEF TypeOK
<1>u. CASE UNCHANGED gap
  BY <1>u
<1>1. ASSUME NEW j \in Job, job[j].phase # "free",
             \/ gap' = gap \/ gap' = Orphaned(j)
             \/ \E k : gap' = [gap EXCEPT ![job[j].orig] = @ \cup {k}]
             \/ gap' = [Orphaned(j) EXCEPT ![job[j].orig] = @ \cup {"stalled_out"}]
      PROVE  gap[o] \subseteq gap'[o]
  <2>1. job[j].orig \in Original
    BY <1>1 DEF JobsOK, GoodJob
  <2>2. Orphaned(j) \in [Original -> SUBSET GapKind] /\ gap[o] \subseteq Orphaned(j)[o]
    BY <2>1, OrphanedType DEF Orphaned, TypeOK
  <2> QED BY <1>1, <1>g, <2>1, <2>2
<1>2. ASSUME NEW j \in Job, Take(j) \/ Create(j) \/ Record(j) \/ WriteLetter(j)
                            \/ CallFails(j) \/ JobStalls(j)
      PROVE  gap[o] \subseteq gap'[o]
  <2>1. job[j].phase # "free"
    BY <1>2 DEF Take, Create, Record, WriteLetter, CallFails, JobStalls, Active
  <2>2. CASE Take(j) \/ Create(j) \/ WriteLetter(j)
    BY <2>1, <2>2, <1>1 DEF Take, Create, WriteLetter
  <2>3. CASE Record(j) \/ CallFails(j) \/ JobStalls(j)
    BY <2>1, <2>3, <1>1 DEF Record, CallFails, JobStalls
  <2> QED BY <1>2, <2>2, <2>3
<1>3. ASSUME NEW s \in Sync, SyncUpsert(s)
      PROVE  gap[o] \subseteq gap'[o]
  <2>1. PICK e : gap' = IF e \in Original \ remote
                        THEN [gap EXCEPT ![e] = @ \cup {"late_upsert"}] ELSE gap
    BY <1>3 DEF SyncUpsert
  <2> QED BY <2>1, <1>g
<1> QED
  BY <1>u, <1>2, <1>3
  DEF Next, vars, LogEntry, BackfillAdd, DeadRetry, Evict, UserDeletes, ToggleMapping,
      BackfillScan, Lookup, CheckMapping, DeleteOriginal, Upsert, Drop, SyncFetch, SyncResolve,
      SyncPrune, SyncTags, SyncEnqueue, SyncDone, SyncFails

LEMMA WindowsStay ==
  ASSUME TypeOK, JobsOK, [Next]_vars, NEW o \in Original, Windowed(o)
  PROVE  Windowed(o)'
BY GapGrows DEF Windowed

(* A step of one job that neither takes nor leaves the phase "record".     *)
LEMMA QuietStep ==
  ASSUME TypeOK, NEW o \in Original, OwnedCopies(o), made' = made, audit' = audit,
         NEW j \in Job, NEW b, job' = [job EXCEPT ![j] = b],
         ~(job[j].phase = "record" /\ job[j].orig = o),
         \/ b.phase \in {"free", "waiting", "exhausted"}
         \/ /\ Active(j) /\ b.orig = job[j].orig /\ b.phase # "record"
            /\ b.phase \in {"mapping", "create"} /\ b.orig = o => audit[o] = NoEntry
  PROVE  OwnedCopies(o)'
<1>1. \A k \in Job : job'[k] = IF k = j THEN b ELSE job[k]
  BY DEF TypeOK
<1>2. (\A i, k \in Job : Active(i) /\ Active(k) /\ job[i].orig = o /\ job[k].orig = o => i = k)'
  BY <1>1 DEF OwnedCopies, Active
<1>3. (\A k \in Job : job[k].phase \in {"mapping", "create", "record"} /\ job[k].orig = o
                        => audit[o] = NoEntry)'
  BY <1>1 DEF OwnedCopies
<1>4. ASSUME NEW c \in Copy, made'[c] = o
      PROVE  \/ c = audit'[o]
             \/ \E k \in Job : job'[k].phase = "record" /\ job'[k].orig = o /\ job'[k].copy = c
  <2>1. CASE c = audit[o]
    BY <2>1
  <2>2. ASSUME NEW k \in Job, job[k].phase = "record" /\ job[k].orig = o /\ job[k].copy = c
        PROVE  job'[k].phase = "record" /\ job'[k].orig = o /\ job'[k].copy = c
    BY <2>2, <1>1
  <2> QED BY <1>4, <2>1, <2>2 DEF OwnedCopies, Copies
<1> QED BY <1>2, <1>3, <1>4 DEF OwnedCopies, Copies

(* Jobs, copies and audit rows stay as they are.                           *)
LEMMA IdleStep ==
  ASSUME NEW o \in Original, OwnedCopies(o), UNCHANGED <<job, made, audit>>
  PROVE  OwnedCopies(o)'
BY DEF OwnedCopies, Copies, Active

(* A copy is created by the only active job of its entry, and only when    *)
(* there is none.                                                          *)
LEMMA CreateOwned ==
  ASSUME TypeOK, JobsOK, NEW o \in Original, OwnedCopies(o), NEW j \in Job, Create(j),
         ~Windowed(o)'
  PROVE  OwnedCopies(o)'
<1>1. PICK c \in Copy :
        /\ made[c] = NoEntry
        /\ made' = [made EXCEPT ![c] = job[j].orig]
        /\ \/ job' = [job EXCEPT ![j] = Holding(job[j], c)]
           \/ /\ job' = [job EXCEPT ![j] = OneAttemptLess(job[j])]
              /\ gap' = [gap EXCEPT ![job[j].orig] = @ \cup {"unrecorded"}]
  BY DEF Create
<1>2. job[j].phase = "create" /\ audit' = audit /\ job[j].orig \in Original
  BY DEF Create, JobsOK, GoodJob
<1>3. \A d \in Copy : made'[d] = IF d = c THEN job[j].orig ELSE made[d]
  BY <1>1 DEF TypeOK
<1>4. CASE job[j].orig # o
  <2>1. Copies(o)' = Copies(o)
    BY <1>1, <1>3, <1>4, ConstantAssumption DEF Copies, Entry
  <2>2. PICK b : /\ job' = [job EXCEPT ![j] = b]
                 /\ b = Holding(job[j], c) \/ b = OneAttemptLess(job[j])
    BY <1>1
  <2>3. b.orig # o
    BY <1>4, <2>2 DEF Holding, OneAttemptLess
  <2>4. \A k \in Job : job'[k] = IF k = j THEN b ELSE job[k]
    BY <2>2 DEF TypeOK
  <2>5. /\ \A k \in Job : job'[k].orig = o => job'[k] = job[k]
        /\ \A k \in Job : job[k].orig = o => job'[k] = job[k]
    BY <1>4, <2>3, <2>4
  <2>6. (\A i, k \in Job : Active(i) /\ Active(k) /\ job[i].orig = o /\ job[k].orig = o => i = k)'
    BY <2>5 DEF OwnedCopies, Active
  <2>7. (\A k \in Job : job[k].phase \in {"mapping", "create", "record"} /\ job[k].orig = o
                          => audit[o] = NoEntry)'
    BY <1>2, <2>5 DEF OwnedCopies
  <2>8. ASSUME NEW d \in Copies(o), d # audit[o]
        PROVE  \E k \in Job : job'[k].phase = "record" /\ job'[k].orig = o /\ job'[k].copy = d
    <3>1. PICK k \in Job : job[k].phase = "record" /\ job[k].orig = o /\ job[k].copy = d
      BY <2>8 DEF OwnedCopies
    <3> QED BY <3>1, <2>5
  <2> QED BY <1>2, <2>1, <2>6, <2>7, <2>8 DEF OwnedCopies
<1>5. CASE job[j].orig = o
  <2>1. job' = [job EXCEPT ![j] = Holding(job[j], c)]
    BY <1>1, <1>5 DEF Windowed, TypeOK
  <2>2. \A k \in Job : job'[k] = IF k = j THEN Holding(job[j], c) ELSE job[k]
    BY <2>1 DEF TypeOK
  <2>3. /\ Holding(job[j], c).orig = o /\ Holding(job[j], c).phase = "record"
        /\ Holding(job[j], c).copy = c
    BY <1>5 DEF Holding
  <2>4. Active(j) /\ audit[o] = NoEntry
    BY <1>2, <1>5 DEF Active, OwnedCopies
  <2>5. Copies(o) = {}
    <3>1. ASSUME NEW d \in Copies(o)
          PROVE  FALSE
      <4>1. d # NoEntry
        BY ConstantAssumption DEF Copies, Entry
      <4>2. PICK k \in Job : job[k].phase = "record" /\ job[k].orig = o
        BY <2>4, <4>1 DEF OwnedCopies
      <4>3. k = j
        BY <1>5, <2>4, <4>2 DEF OwnedCopies, Active
      <4> QED BY <1>2, <4>2, <4>3
    <3> QED BY <3>1
  <2>6. Copies(o)' = {c}
    BY <1>3, <1>5, <2>5 DEF Copies
  <2>7. (\A i, k \in Job : Active(i) /\ Active(k) /\ job[i].orig = o /\ job[k].orig = o => i = k)'
    BY <1>5, <2>2, <2>4 DEF OwnedCopies, Active
  <2> QED BY <1>2, <2>2, <2>3, <2>4, <2>6, <2>7 DEF OwnedCopies
<1> QED BY <1>4, <1>5

(* The record of a copy is made by the only active job of its entry.       *)
LEMMA RecordOwned ==
  ASSUME TypeOK, JobsOK, NEW o \in Original, OwnedCopies(o), NEW j \in Job, Record(j),
         ~Windowed(o)'
  PROVE  OwnedCopies(o)'
<1>1. job[j].phase = "record" /\ made' = made /\ job[j].orig \in Original /\ Active(j)
  BY DEF Record, JobsOK, GoodJob, Active
<1>2. CASE job[j].orig = o
  <2>1. audit[o] = NoEntry
    BY <1>1, <1>2 DEF OwnedCopies
  <2>2. audit'[o] = job[j].copy /\ job' = [job EXCEPT ![j] = AtPhase(job[j], "delete")]
    BY <1>2, <2>1 DEF Record, TypeOK
  <2>3. \A k \in Job : job'[k] = IF k = j THEN AtPhase(job[j], "delete") ELSE job[k]
    BY <2>2 DEF TypeOK
  <2>4. AtPhase(job[j], "delete").phase = "delete"
    BY DEF AtPhase
  <2>5. (\A i, k \in Job : Active(i) /\ Active(k) /\ job[i].orig = o /\ job[k].orig = o => i = k)'
    BY <1>1, <1>2, <2>3 DEF OwnedCopies, Active
  <2>6. \A k \in Job : ~(job'[k].phase \in {"mapping", "create", "record"} /\ job'[k].orig = o)
    BY <1>1, <1>2, <2>3, <2>4 DEF OwnedCopies, Active
  <2>7. ASSUME NEW c \in Copies(o)
        PROVE  c = audit'[o]
    <3>1. c # NoEntry
      BY ConstantAssumption DEF Copies, Entry
    <3>2. PICK k \in Job : job[k].phase = "record" /\ job[k].orig = o /\ job[k].copy = c
      BY <2>1, <3>1 DEF OwnedCopies
    <3>3. k = j
      BY <1>1, <1>2, <3>2 DEF OwnedCopies, Active
    <3> QED BY <2>2, <3>2, <3>3
  <2>8. Copies(o)' = Copies(o)
    BY <1>1 DEF Copies
  <2> QED BY <2>5, <2>6, <2>7, <2>8 DEF OwnedCopies
<1>3. CASE job[j].orig # o
  <2>1. audit'[o] = audit[o]
    BY <1>1, <1>3 DEF Record, TypeOK
  <2>2. PICK b : /\ job' = [job EXCEPT ![j] = b]
                 /\ b = AtPhase(job[j], "delete") \/ b = OneAttemptLess(job[j])
    BY DEF Record
  <2>3. b.orig # o
    BY <1>3, <2>2 DEF AtPhase, OneAttemptLess
  <2>4. \A k \in Job : job'[k] = IF k = j THEN b ELSE job[k]
    BY <2>2 DEF TypeOK
  <2>5. /\ \A k \in Job : job'[k].orig = o => job'[k] = job[k]
        /\ \A k \in Job : job[k].orig = o => job'[k] = job[k]
    BY <1>3, <2>3, <2>4
  <2>6. (\A i, k \in Job : Active(i) /\ Active(k) /\ job[i].orig = o /\ job[k].orig = o => i = k)'
    BY <2>5 DEF OwnedCopies, Active
  <2>7. (\A k \in Job : job[k].phase \in {"mapping", "create", "record"} /\ job[k].orig = o
                          => audit[o] = NoEntry)'
    BY <2>1, <2>5 DEF OwnedCopies
  <2>8. ASSUME NEW d \in Copies(o), d # audit[o]
        PROVE  \E k \in Job : job'[k].phase = "record" /\ job'[k].orig = o /\ job'[k].copy = d
    <3>1. PICK k \in Job : job[k].phase = "record" /\ job[k].orig = o /\ job[k].copy = d
      BY <2>8 DEF OwnedCopies
    <3> QED BY <3>1, <2>5
  <2>9. Copies(o)' = Copies(o)
    BY <1>1 DEF Copies
  <2> QED BY <2>1, <2>6, <2>7, <2>8, <2>9 DEF OwnedCopies
<1> QED BY <1>2, <1>3

(* Taking a job while another of its entry is active opens a window.       *)
LEMMA TakeOwned ==
  ASSUME TypeOK, JobsOK, NEW o \in Original, OwnedCopies(o), NEW j \in Job, Take(j),
         ~Windowed(o)'
  PROVE  OwnedCopies(o)'
<1>1. /\ job[j].phase = "waiting" /\ made' = made /\ audit' = audit
      /\ job' = [job EXCEPT ![j] = AtPhase(job[j], "lookup")] /\ job[j].orig \in Original
  BY DEF Take, JobsOK, GoodJob
<1>2. \A k \in Job : job'[k] = IF k = j THEN AtPhase(job[j], "lookup") ELSE job[k]
  BY <1>1 DEF TypeOK
<1>3. AtPhase(job[j], "lookup").phase = "lookup" /\ AtPhase(job[j], "lookup").orig = job[j].orig
  BY DEF AtPhase
<1>4. job[j].orig = o => \A k \in Job : ~(Active(k) /\ job[k].orig = o)
  BY DEF Take, Windowed, TypeOK
<1>5. (\A i, k \in Job : Active(i) /\ Active(k) /\ job[i].orig = o /\ job[k].orig = o => i = k)'
  BY <1>2, <1>3, <1>4 DEF OwnedCopies, Active
<1>6. (\A k \in Job : job[k].phase \in {"mapping", "create", "record"} /\ job[k].orig = o
                        => audit[o] = NoEntry)'
  BY <1>1, <1>2, <1>3 DEF OwnedCopies
<1>7. ASSUME NEW d \in Copies(o), d # audit[o]
      PROVE  \E k \in Job : job'[k].phase = "record" /\ job'[k].orig = o /\ job'[k].copy = d
  <2>1. PICK k \in Job : job[k].phase = "record" /\ job[k].orig = o /\ job[k].copy = d
    BY <1>7 DEF OwnedCopies
  <2> QED BY <1>1, <1>2, <2>1
<1>8. Copies(o)' = Copies(o)
  BY <1>1 DEF Copies
<1> QED BY <1>1, <1>5, <1>6, <1>7, <1>8 DEF OwnedCopies

LEMMA CopyStep ==
  TypeOK /\ JobsOK /\ CopyOK /\ [Next]_vars => CopyOK'
<1> SUFFICES ASSUME TypeOK, JobsOK, CopyOK, [Next]_vars,
                    NEW o \in Original, ~Windowed(o)'
             PROVE  OwnedCopies(o)'
  BY DEF CopyOK
<1>o. OwnedCopies(o)
  BY WindowsStay DEF CopyOK
<1>u. CASE UNCHANGED <<job, made, audit>>
  BY <1>u, <1>o, IdleStep
<1>q. ASSUME NEW j \in Job, NEW b, job' = [job EXCEPT ![j] = b], made' = made, audit' = audit,
             ~(job[j].phase = "record" /\ job[j].orig = o),
             \/ b.phase \in {"free", "waiting", "exhausted"}
             \/ /\ Active(j) /\ b.orig = job[j].orig /\ b.phase # "record"
                /\ b.phase \in {"mapping", "create"} /\ b.orig = o => audit[o] = NoEntry
      PROVE  OwnedCopies(o)'
  BY <1>q, <1>o, QuietStep
<1>n. ASSUME NEW j \in Job, NEW p, NEW keyed, job' = [job EXCEPT ![j] = NewJob(p, keyed)],
             job[j].phase = "free", made' = made, audit' = audit
      PROVE  OwnedCopies(o)'
  <2>1. NewJob(p, keyed).phase = "waiting"
    BY PlainSlots
  <2> QED BY <1>n, <2>1, <1>q
<1>1. ASSUME NEW p \in Original, BackfillAdd(p) \/ DeadRetry(p)
      PROVE  OwnedCopies(o)'
  <2>1. /\ made' = made /\ audit' = audit
        /\ \/ UNCHANGED job
           \/ \E j \in Job : job[j].phase = "free" /\ job' = [job EXCEPT ![j] = NewJob(p, TRUE)]
           \/ \E j \in Job : job[j].phase = "free" /\ job' = [job EXCEPT ![j] = NewJob(p, FALSE)]
    BY <1>1 DEF BackfillAdd, DeadRetry, AddKeyed
  <2> QED BY <2>1, <1>u, <1>n
<1>2. ASSUME NEW s \in Sync, SyncEnqueue(s)
      PROVE  OwnedCopies(o)'
  <2>1. /\ made' = made /\ audit' = audit
        /\ \/ UNCHANGED job
           \/ \E j \in Job, p \in sync[s].todo :
                job[j].phase = "free" /\ job' = [job EXCEPT ![j] = NewJob(p, TRUE)]
    BY <1>2 DEF SyncEnqueue, AddKeyed
  <2> QED BY <2>1, <1>u, <1>n
<1>3. ASSUME NEW j \in Job, Take(j) \/ Create(j) \/ Record(j)
      PROVE  OwnedCopies(o)'
  BY <1>3, <1>o, TakeOwned, CreateOwned, RecordOwned
<1>4. ASSUME NEW j \in Job, Lookup(j) \/ CheckMapping(j)
      PROVE  OwnedCopies(o)'
  <2>1. /\ job[j].phase \in {"lookup", "mapping"} /\ Active(j) /\ made' = made /\ audit' = audit
        /\ job[j].phase = "mapping" /\ job[j].orig = o => audit[o] = NoEntry
    BY <1>4, <1>o DEF Lookup, CheckMapping, Active, OwnedCopies
  <2>2. PICK b : /\ job' = [job EXCEPT ![j] = b]
                 /\ \/ b = FreeJob
                    \/ b = AtPhase(job[j], "redelete")
                    \/ b = AtPhase(job[j], "mapping") /\ audit[job[j].orig] = NoEntry
                    \/ b = AtPhase(job[j], "create") /\ job[j].phase = "mapping"
    BY <1>4 DEF Lookup, CheckMapping, Finish
  <2>3. \/ b.phase = "free"
        \/ b.phase \in {"redelete", "mapping", "create"} /\ b.orig = job[j].orig
    BY <2>2 DEF AtPhase, FreeJob
  <2>4. b.phase \in {"mapping", "create"} /\ b.orig = o => audit[o] = NoEntry
    BY <2>1, <2>2 DEF AtPhase, FreeJob
  <2> QED BY <2>1, <2>2, <2>3, <2>4, <1>q
<1>5. ASSUME NEW j \in Job, DeleteOriginal(j) \/ Upsert(j) \/ Drop(j) \/ WriteLetter(j)
      PROVE  OwnedCopies(o)'
  <2>1. /\ job[j].phase \in {"delete", "redelete", "upsert", "drop", "redrop", "exhausted"}
        /\ made' = made /\ audit' = audit
    BY <1>5 DEF DeleteOriginal, Upsert, Drop, WriteLetter
  <2>2. PICK b : /\ job' = [job EXCEPT ![j] = b]
                 /\ \/ b = FreeJob \/ b = OneAttemptLess(job[j])
                    \/ Active(j) /\ \E p \in {"upsert", "redrop", "drop"} : b = AtPhase(job[j], p)
    BY <1>5 DEF DeleteOriginal, AfterDelete, Upsert, Drop, WriteLetter, Finish, Active
  <2>3. \/ b.phase \in {"free", "waiting", "exhausted"}
        \/ Active(j) /\ b.orig = job[j].orig /\ b.phase \in {"upsert", "redrop", "drop"}
    BY <2>2 DEF AtPhase, FreeJob, OneAttemptLess
  <2> QED BY <2>1, <2>2, <2>3, <1>q
<1>6. ASSUME NEW j \in Job, CallFails(j) \/ JobStalls(j)
      PROVE  OwnedCopies(o)'
  <2>1. /\ made' = made /\ audit' = audit /\ job[j].orig \in Original
        /\ gap' = Orphaned(j) \/ gap' = [Orphaned(j) EXCEPT ![job[j].orig] = @ \cup {"stalled_out"}]
    BY <1>6 DEF CallFails, JobStalls, Active, JobsOK, GoodJob
  <2>2. ~(job[j].phase = "record" /\ job[j].orig = o)
    <3>1. SUFFICES ASSUME job[j].phase = "record", job[j].orig = o
                   PROVE  "unrecorded" \in gap'[o]
      BY DEF Windowed
    <3>2. Orphaned(j) \in [Original -> SUBSET GapKind] /\ "unrecorded" \in Orphaned(j)[o]
      BY <2>1, <3>1, OrphanedType DEF Orphaned, TypeOK
    <3> QED BY <2>1, <3>2
  <2>3. PICK b : /\ job' = [job EXCEPT ![j] = b]
                 /\ b = FreeJob \/ b = OneAttemptLess(job[j]) \/ b = Stalled(job[j])
    BY <1>6 DEF CallFails, JobStalls, Finish
  <2>4. b.phase \in {"free", "waiting", "exhausted"}
    BY <2>3 DEF FreeJob, OneAttemptLess, Stalled
  <2> QED BY <2>1, <2>2, <2>3, <2>4, <1>q
<1> QED
  BY <1>u, <1>1, <1>2, <1>3, <1>4, <1>5, <1>6
  DEF Next, vars, LogEntry, Evict, UserDeletes, ToggleMapping, BackfillScan, SyncFetch,
      SyncResolve, SyncUpsert, SyncPrune, SyncTags, SyncDone, SyncFails

LEMMA CopyInit == Init => CopyOK
<1> SUFFICES ASSUME Init PROVE CopyOK
  OBVIOUS
<1>1. \A j \in Job : job[j].phase = "free"
  BY DEF Init, FreeJob
<1>2. \A o \in Original : Copies(o) = {}
  BY ConstantAssumption DEF Init, Copies, Entry
<1> QED BY <1>1, <1>2 DEF CopyOK, OwnedCopies, Active

(* An entry is replaced by one copy, unless it fell into one of the two    *)
(* windows that OneCopy names: for any number of jobs, workers and syncs.  *)
THEOREM ReplacedOnce == Spec => []OneCopy
<1>1. Init => TypeOK /\ JobsOK /\ SyncsOK /\ CopyOK
  BY TypeInit, CopyInit
<1>2. TypeOK /\ JobsOK /\ SyncsOK /\ CopyOK /\ [Next]_vars
        => (TypeOK /\ JobsOK /\ SyncsOK /\ CopyOK)'
  BY TypeStep, CopyStep
<1>3. CopyOK => OneCopy
  <2> SUFFICES ASSUME CopyOK, NEW o \in Original, ~Windowed(o),
                      NEW c \in Copies(o), NEW d \in Copies(o)
               PROVE  c = d
    BY DEF OneCopy, Windowed
  <2>1. c # NoEntry /\ d # NoEntry
    BY ConstantAssumption DEF Copies, Entry
  <2>2. OwnedCopies(o)
    BY DEF CopyOK
  <2>3. CASE audit[o] = NoEntry
    <3>1. PICK i \in Job : job[i].phase = "record" /\ job[i].orig = o /\ job[i].copy = c
      BY <2>1, <2>2, <2>3 DEF OwnedCopies
    <3>2. PICK k \in Job : job[k].phase = "record" /\ job[k].orig = o /\ job[k].copy = d
      BY <2>1, <2>2, <2>3 DEF OwnedCopies
    <3> QED BY <2>2, <3>1, <3>2 DEF OwnedCopies, Active
  <2>4. CASE audit[o] # NoEntry
    BY <2>2, <2>4 DEF OwnedCopies
  <2> QED BY <2>3, <2>4
<1> QED BY <1>1, <1>2, <1>3, PTL DEF Spec

-----------------------------------------------------------------------------
(* What a sync knows until it has pruned: it got what ClickUp had when it  *)
(* asked, or so much that it will prune nothing; it keeps of that what it  *)
(* could resolve; and while nobody else changed anything, ClickUp is as it *)
(* was and all it is done with is stored.                                  *)
Unpruned(s) == sync[s].pc \in {"resolve", "persist"}

Answer(b) ==
  /\ b.got = b.before \cap b.slice \/ Cardinality(b.got) >= PruneSafetyMax
  /\ b.pc = "persist" => b.todo \subseteq b.keep /\ b.keep \subseteq b.got

Alone(s) ==
  s \notin disturbed =>
    /\ remote = sync[s].before
    /\ sync[s].pc = "persist" => sync[s].keep \ sync[s].todo \subseteq local

PruneInv == \A s \in Sync : Unpruned(s) => Answer(sync[s]) /\ Alone(s)

(* A step of somebody else disturbs a sync, or changes nothing it sees.    *)
LEMMA SyncWaits ==
  ASSUME NEW s \in Sync, Unpruned(s) => Answer(sync[s]) /\ Alone(s), sync'[s] = sync[s],
         Unpruned(s) => s \in disturbed' \/ (s \notin disturbed /\ UNCHANGED <<remote, local>>)
  PROVE  (Unpruned(s) => Answer(sync[s]) /\ Alone(s))'
BY DEF Unpruned, Answer, Alone

LEMMA PruneStep == TypeOK /\ PruneInv /\ [Next]_vars => PruneInv'
<1> SUFFICES ASSUME TypeOK, PruneInv, [Next]_vars, NEW s \in Sync
             PROVE  (Unpruned(s) => Answer(sync[s]) /\ Alone(s))'
  BY DEF PruneInv
<1>a. /\ sync \in [Sync -> SyncRecord] /\ sync[s] \in SyncRecord
      /\ Unpruned(s) => Answer(sync[s]) /\ Alone(s)
  BY DEF TypeOK, PruneInv
<1>1. CASE UNCHANGED <<sync, remote, local, disturbed>>
  <2>1. (s \in disturbed) <=> (s \in disturbed')
    BY <1>1
  <2>2. sync'[s] = sync[s] /\ UNCHANGED <<remote, local>>
    BY <1>1
  <2> QED BY <1>a, <2>1, <2>2, SyncWaits
<1>2. CASE UNCHANGED sync /\ Disturb({})
  <2>1. Unpruned(s) => s \in disturbed'
    BY <1>2 DEF Disturb, Unpruned
  <2> QED BY <1>a, <1>2, <2>1, SyncWaits
<1>3. ASSUME NEW q \in Sync, q # s, SyncUpsert(q) \/ SyncPrune(q)
      PROVE  (Unpruned(s) => Answer(sync[s]) /\ Alone(s))'
  <2>1. sync'[s] = sync[s] /\ Disturb({q})
    BY <1>3, <1>a DEF SyncUpsert, SyncPrune
  <2>2. Unpruned(s) => s \in disturbed'
    BY <1>3, <2>1 DEF Disturb, Unpruned
  <2> QED BY <1>a, <2>1, <2>2, SyncWaits
<1>4. ASSUME NEW q \in Sync, q # s,
             \/ SyncFetch(q) \/ SyncResolve(q) \/ SyncTags(q) \/ SyncEnqueue(q)
             \/ SyncDone(q) \/ SyncFails(q)
      PROVE  (Unpruned(s) => Answer(sync[s]) /\ Alone(s))'
  <2>1. sync'[s] = sync[s] /\ UNCHANGED <<remote, local>>
    BY <1>4, <1>a DEF SyncFetch, SyncResolve, SyncTags, SyncEnqueue, SyncDone, SyncFails
  <2>2. s \in disturbed \/ s \notin disturbed'
    BY <1>4 DEF SyncFetch, SyncResolve, SyncTags, SyncEnqueue, SyncDone, SyncFails
  <2>3. s \in disturbed => s \in disturbed'
    BY <1>4 DEF SyncFetch, SyncResolve, SyncTags, SyncEnqueue, SyncDone, SyncFails
  <2> QED BY <1>a, <2>1, <2>2, <2>3, SyncWaits
<1>5. CASE SyncFetch(s)
  <2>1. PICK S \in Slices : \E got \in SUBSET S :
          /\ Fetched(S, got)
          /\ sync' = [sync EXCEPT ![s] = [pc |-> "resolve", slice |-> S, got |-> got, todo |-> {},
                                          keep |-> {}, before |-> remote]]
    BY <1>5 DEF SyncFetch
  <2>2. PICK got \in SUBSET S :
          /\ Fetched(S, got)
          /\ sync' = [sync EXCEPT ![s] = [pc |-> "resolve", slice |-> S, got |-> got, todo |-> {},
                                          keep |-> {}, before |-> remote]]
    BY <2>1
  <2>3. sync'[s] = [pc |-> "resolve", slice |-> S, got |-> got, todo |-> {}, keep |-> {},
                    before |-> remote]
    BY <2>2, <1>a
  <2>4. got = remote \cap S \/ Cardinality(got) >= PruneSafetyMax
    BY <2>2 DEF Fetched
  <2>5. remote' = remote
    BY <1>5 DEF SyncFetch
  <2> QED BY <2>3, <2>4, <2>5 DEF Unpruned, Answer, Alone
<1>6. CASE SyncResolve(s)
  <2>1. PICK skip \in SUBSET (sync[s].got \ local) :
          sync' = [sync EXCEPT ![s] = [pc |-> "persist", slice |-> @.slice, got |-> @.got,
                       todo |-> @.got \ skip, keep |-> @.got \ skip, before |-> @.before]]
    BY <1>6 DEF SyncResolve
  <2>2. sync'[s] = [pc |-> "persist", slice |-> sync[s].slice, got |-> sync[s].got,
                    todo |-> sync[s].got \ skip, keep |-> sync[s].got \ skip,
                    before |-> sync[s].before]
    BY <2>1, <1>a
  <2>3. Answer(sync[s]) /\ Alone(s) /\ UNCHANGED <<remote, disturbed>>
    BY <1>6, <1>a DEF SyncResolve, Unpruned
  <2> QED BY <2>2, <2>3 DEF Unpruned, Answer, Alone
<1>7. CASE SyncUpsert(s)
  <2>1. PICK e \in sync[s].todo :
          /\ local' = local \cup {e}
          /\ sync' = [sync EXCEPT ![s].todo = @ \ {e}]
    BY <1>7 DEF SyncUpsert
  <2>2. sync'[s] = [sync[s] EXCEPT !.todo = sync[s].todo \ {e}]
    BY <2>1, <1>a
  <2>3. /\ sync'[s].pc = sync[s].pc /\ sync'[s].got = sync[s].got /\ sync'[s].keep = sync[s].keep
        /\ sync'[s].slice = sync[s].slice /\ sync'[s].before = sync[s].before
        /\ sync'[s].todo = sync[s].todo \ {e}
    BY <2>2, <1>a DEF SyncRecord
  <2>4. sync[s].pc = "persist" /\ Answer(sync[s]) /\ Alone(s) /\ remote' = remote
    BY <1>7, <1>a DEF SyncUpsert, Unpruned
  <2>5. s \notin disturbed' => s \notin disturbed
    BY <1>7 DEF SyncUpsert, Disturb
  <2> QED BY <2>1, <2>3, <2>4, <2>5 DEF Unpruned, Answer, Alone
<1>8. CASE SyncPrune(s) \/ SyncTags(s) \/ SyncEnqueue(s) \/ SyncDone(s) \/ SyncFails(s)
  <2>1. CASE SyncPrune(s)
    BY <1>a, <2>1 DEF SyncPrune, Unpruned, SyncRecord
  <2>2. CASE SyncTags(s)
    BY <1>a, <2>2 DEF SyncTags, Unpruned, SyncRecord
  <2>3. CASE SyncEnqueue(s)
    BY <1>a, <2>3 DEF SyncEnqueue, Unpruned, SyncRecord
  <2>4. CASE SyncDone(s) \/ SyncFails(s)
    BY <1>a, <2>4 DEF SyncDone, SyncFails, Unpruned, IdleSync
  <2> QED BY <1>8, <2>1, <2>2, <2>3, <2>4
<1>9. ASSUME NEW q \in Sync,
             \/ SyncFetch(q) \/ SyncResolve(q) \/ SyncUpsert(q) \/ SyncPrune(q)
             \/ SyncTags(q) \/ SyncEnqueue(q) \/ SyncDone(q) \/ SyncFails(q)
      PROVE  (Unpruned(s) => Answer(sync[s]) /\ Alone(s))'
  BY <1>3, <1>4, <1>5, <1>6, <1>7, <1>8, <1>9
<1> QED
  BY <1>1, <1>2, <1>9
  DEF Next, vars, LogEntry, BackfillAdd, DeadRetry, Evict, UserDeletes, ToggleMapping,
      BackfillScan, Take, Lookup, CheckMapping, Create, Record, DeleteOriginal, Upsert, Drop,
      WriteLetter, CallFails, JobStalls

LEMMA PruneInit == Init => PruneInv
BY DEF Init, PruneInv, Unpruned, IdleSync

(* ClickUp holds finitely many entries at any time, and so does an answer. *)
FiniteInv == IsFiniteSet(remote) /\ \A s \in Sync : IsFiniteSet(sync[s].got)

LEMMA RemoteGrows ==
  ASSUME [Next]_vars
  PROVE  remote' \subseteq remote \/ \E x : remote' = remote \cup {x}
<1>1. ASSUME NEW o \in Original, LogEntry(o)
      PROVE  \E x : remote' = remote \cup {x}
  BY <1>1 DEF LogEntry
<1>2. ASSUME NEW j \in Job, Create(j)
      PROVE  \E x : remote' = remote \cup {x}
  BY <1>2 DEF Create
<1>3. ASSUME NEW j \in Job, DeleteOriginal(j)
      PROVE  remote' \subseteq remote
  BY <1>3 DEF DeleteOriginal
<1>4. ASSUME NEW x \in Entry, UserDeletes(x)
      PROVE  remote' \subseteq remote
  BY <1>4 DEF UserDeletes
<1> QED
  BY <1>1, <1>2, <1>3, <1>4
  DEF Next, vars, BackfillAdd, DeadRetry, Evict, ToggleMapping, BackfillScan, Take, Lookup,
      CheckMapping, Record, Upsert, Drop, WriteLetter, CallFails, JobStalls, SyncFetch,
      SyncResolve, SyncUpsert, SyncPrune, SyncTags, SyncEnqueue, SyncDone, SyncFails

LEMMA FiniteStep == TypeOK /\ FiniteInv /\ [Next]_vars => FiniteInv'
<1> SUFFICES ASSUME TypeOK, FiniteInv, [Next]_vars PROVE FiniteInv'
  OBVIOUS
<1>a. sync \in [Sync -> SyncRecord]
  BY DEF TypeOK
<1>1. IsFiniteSet(remote')
  <2>1. ASSUME NEW x, remote' = remote \cup {x}
        PROVE  IsFiniteSet(remote')
    BY <2>1, FS_AddElement DEF FiniteInv
  <2>2. CASE remote' \subseteq remote
    BY <2>2, FS_Subset DEF FiniteInv
  <2> QED BY <2>1, <2>2, RemoteGrows
<1>2. ASSUME NEW s \in Sync
      PROVE  IsFiniteSet(sync'[s].got)
  <2>f. IsFiniteSet(sync[s].got) /\ IsFiniteSet({})
    BY FS_EmptySet DEF FiniteInv
  <2>1. sync'[s].got \in {sync[s].got, {}} \/ sync'[s].got \subseteq remote
    <3>1. ASSUME NEW q \in Sync, SyncFetch(q)
          PROVE  sync'[s].got = sync[s].got \/ sync'[s].got \subseteq remote
      <4>1. PICK S, got :
              /\ Fetched(S, got)
              /\ sync' = [sync EXCEPT ![q] = [pc |-> "resolve", slice |-> S, got |-> got,
                                              todo |-> {}, keep |-> {}, before |-> remote]]
        BY <3>1 DEF SyncFetch
      <4>2. got \subseteq remote
        BY <4>1 DEF Fetched
      <4> QED BY <1>a, <4>1, <4>2
    <3>2. ASSUME NEW q \in Sync, SyncResolve(q)
          PROVE  sync'[s].got = sync[s].got
      <4>1. PICK skip :
              sync' = [sync EXCEPT ![q] = [pc |-> "persist", slice |-> @.slice, got |-> @.got,
                         todo |-> @.got \ skip, keep |-> @.got \ skip, before |-> @.before]]
        BY <3>2 DEF SyncResolve
      <4> QED BY <1>a, <4>1
    <3>3. ASSUME NEW q \in Sync, SyncUpsert(q) \/ SyncPrune(q) \/ SyncTags(q) \/ SyncEnqueue(q)
          PROVE  sync'[s].got = sync[s].got
      BY <1>a, <3>3 DEF SyncUpsert, SyncPrune, SyncTags, SyncEnqueue, SyncRecord
    <3>4. ASSUME NEW q \in Sync, SyncDone(q) \/ SyncFails(q)
          PROVE  sync'[s].got \in {sync[s].got, {}}
      BY <1>a, <3>4 DEF SyncDone, SyncFails, IdleSync
    <3>5. UNCHANGED sync => sync'[s].got = sync[s].got
      OBVIOUS
    <3> QED
      BY <3>1, <3>2, <3>3, <3>4, <3>5
      DEF Next, vars, LogEntry, BackfillAdd, DeadRetry, Evict, UserDeletes, ToggleMapping,
          BackfillScan, Take, Lookup, CheckMapping, Create, Record, DeleteOriginal, Upsert,
          Drop, WriteLetter, CallFails, JobStalls
  <2> QED BY <2>f, <2>1, FS_Subset DEF FiniteInv
<1> QED BY <1>1, <1>2 DEF FiniteInv

LEMMA FiniteInit == Init => FiniteInv
<1> SUFFICES ASSUME Init PROVE FiniteInv
  OBVIOUS
<1>1. remote = {}
  BY DEF Init
<1>2. \A s \in Sync : sync[s].got = {}
  BY DEF Init, IdleSync
<1>3. IsFiniteSet({})
  BY FS_EmptySet
<1> QED BY <1>1, <1>2, <1>3 DEF FiniteInv

LEMMA OnlyPrunePrunes ==
  ASSUME TypeOK, [Next]_vars, NEW s \in Sync, Pruning(s)
  PROVE  SyncPrune(s)
<1>a. sync \in [Sync -> SyncRecord] /\ sync[s].pc = "persist" /\ sync'[s].pc = "map"
  BY DEF TypeOK, Pruning
<1>1. ASSUME NEW q \in Sync, SyncFetch(q) \/ SyncResolve(q) \/ SyncDone(q) \/ SyncFails(q)
      PROVE  FALSE
  BY <1>1, <1>a DEF SyncFetch, SyncResolve, SyncDone, SyncFails, IdleSync
<1>2. ASSUME NEW q \in Sync, SyncUpsert(q) \/ SyncTags(q) \/ SyncEnqueue(q)
      PROVE  FALSE
  BY <1>2, <1>a DEF SyncUpsert, SyncTags, SyncEnqueue, SyncRecord
<1>3. ASSUME NEW q \in Sync, SyncPrune(q)
      PROVE  q = s
  BY <1>3, <1>a DEF SyncPrune
<1>4. sync' # sync
  BY <1>a
<1> QED
  BY <1>1, <1>2, <1>3, <1>4
  DEF Next, vars, LogEntry, BackfillAdd, DeadRetry, Evict, UserDeletes, ToggleMapping,
      BackfillScan, Take, Lookup, CheckMapping, Create, Record, DeleteOriginal, Upsert, Drop,
      WriteLetter, CallFails, JobStalls

(* A prune works on what the sync asked for and got.                       *)
LEMMA PruneKnows ==
  ASSUME TypeOK, PruneInv, [Next]_vars, NEW s \in Sync, Pruning(s)
  PROVE  /\ local' = local \ Pruned(sync[s]) /\ remote' = remote
         /\ sync[s].todo = {} /\ sync[s].pc = "persist"
         /\ Answer(sync[s]) /\ Alone(s)
<1>1. SyncPrune(s)
  BY OnlyPrunePrunes
<1> QED BY <1>1 DEF SyncPrune, PruneInv, Unpruned

LEMMA SparesStep ==
  ASSUME TypeOK, PruneInv, [Next]_vars, NEW s \in Sync, Pruning(s), NEW e \in local \ local',
         e \in remote \cap sync[s].before
  PROVE  e \in sync[s].got \ sync[s].keep
<1>1. e \in Pruned(sync[s]) /\ Answer(sync[s])
  BY PruneKnows
<1>2. sync[s].got = sync[s].before \cap sync[s].slice /\ e \in sync[s].slice \ sync[s].keep
  BY <1>1 DEF Pruned, Answer
<1> QED BY <1>2

LEMMA ExactStep ==
  ASSUME TypeOK, FiniteInv, PruneInv, [Next]_vars, NEW s \in Sync, Pruning(s), s \notin disturbed,
         sync[s].keep = sync[s].got, Cardinality(sync[s].got) < PruneSafetyMax
  PROVE  local' \cap sync[s].slice = remote \cap sync[s].slice
<1>1. /\ local' = local \ Pruned(sync[s]) /\ sync[s].todo = {} /\ sync[s].pc = "persist"
      /\ Answer(sync[s]) /\ Alone(s)
  BY PruneKnows
<1>2. Cardinality(sync[s].got) \in Nat /\ PruneSafetyMax \in Nat
  BY FS_CardinalityType, ConstantAssumption DEF FiniteInv
<1>3. ~(Cardinality(sync[s].got) >= PruneSafetyMax)
  BY <1>2
<1>4. sync[s].got = sync[s].before \cap sync[s].slice /\ remote = sync[s].before
  BY <1>1, <1>3 DEF Answer, Alone
<1>5. local' = local \ (sync[s].slice \ sync[s].keep)
  BY <1>1, <1>3 DEF Pruned
<1>6. sync[s].keep \subseteq local
  BY <1>1 DEF Alone
<1> QED BY <1>4, <1>5, <1>6

(* Whatever users, jobs and other syncs do meanwhile, a prune removes the  *)
(* row of no entry that ClickUp held when the sync asked and still holds,  *)
(* but for entries whose task was out of reach.                            *)
THEOREM PrunesSpareLive == Spec => PruneSparesLive
<1>1. Init => TypeOK /\ JobsOK /\ SyncsOK /\ PruneInv
  BY TypeInit, PruneInit
<1>2. TypeOK /\ JobsOK /\ SyncsOK /\ PruneInv /\ [Next]_vars
        => (TypeOK /\ JobsOK /\ SyncsOK /\ PruneInv)'
  BY TypeStep, PruneStep
<1>3. TypeOK /\ PruneInv /\ [Next]_vars
        => [\A s \in Sync : Pruning(s) =>
              \A e \in local \ local' :
                e \in remote \cap sync[s].before => e \in sync[s].got \ sync[s].keep]_vars
  BY SparesStep
<1> QED BY <1>1, <1>2, <1>3, PTL DEF Spec, PruneSparesLive

(* A sync that nobody disturbed, that reached every task and got a whole   *)
(* answer leaves its slice as ClickUp has it.                              *)
THEOREM SyncsAreExact == Spec => SyncExact
<1>1. Init => TypeOK /\ JobsOK /\ SyncsOK /\ FiniteInv /\ PruneInv
  BY TypeInit, FiniteInit, PruneInit
<1>2. TypeOK /\ JobsOK /\ SyncsOK /\ FiniteInv /\ PruneInv /\ [Next]_vars
        => (TypeOK /\ JobsOK /\ SyncsOK /\ FiniteInv /\ PruneInv)'
  BY TypeStep, FiniteStep, PruneStep
<1>3. TypeOK /\ FiniteInv /\ PruneInv /\ [Next]_vars
        => [\A s \in Sync :
              /\ Pruning(s) /\ s \notin disturbed
              /\ sync[s].keep = sync[s].got /\ Cardinality(sync[s].got) < PruneSafetyMax
              => local' \cap sync[s].slice = remote \cap sync[s].slice]_vars
  BY ExactStep
<1> QED BY <1>1, <1>2, <1>3, PTL DEF Spec, SyncExact

-----------------------------------------------------------------------------
(* Every original that is stored, queued, on record or in the hands of a   *)
(* sync was logged by a user before.                                       *)
Noted(E) == E \cap Original \subseteq logged

LoggedInv ==
  /\ Noted(remote) /\ Noted(local)
  /\ dead \subseteq logged /\ backfill \subseteq logged
  /\ \A o \in Original : audit[o] # NoEntry => o \in logged
  /\ \A j \in Job : job[j].phase # "free" => job[j].orig \in logged
  /\ \A s \in Sync : Noted(sync[s].got) /\ Noted(sync[s].todo) /\ Noted(sync[s].keep)

(* What a job is after a step: as it was, at an end, new, or at work for   *)
(* the same original.                                                      *)
SameWork(j) == job[j].phase # "free" /\ job'[j].orig = job[j].orig

LEMMA JobBecomes ==
  ASSUME TypeOK, JobsOK, SyncsOK, LoggedInv, [Next]_vars, NEW k \in Job
  PROVE  \/ job'[k] = job[k] \/ job'[k].phase = "free" \/ SameWork(k)
         \/ job[k].phase = "free" /\ job'[k].phase = "waiting" /\ job'[k].orig \in logged
<1> DEFINE Goal == \/ job'[k] = job[k] \/ job'[k].phase = "free" \/ SameWork(k)
                   \/ job[k].phase = "free" /\ job'[k].phase = "waiting" /\ job'[k].orig \in logged
<1>a. job \in [Job -> JobRecord]
  BY DEF TypeOK
<1>u. CASE UNCHANGED job
  BY <1>u
<1>w. ASSUME NEW j \in Job, NEW b, job' = [job EXCEPT ![j] = b],
             b.phase = "free" \/ (job[j].phase # "free" /\ b.orig = job[j].orig)
      PROVE  Goal
  BY <1>a, <1>w DEF SameWork
<1>n. ASSUME NEW o \in logged, NEW keyed, NEW j \in Job, job[j].phase = "free",
             job' = [job EXCEPT ![j] = NewJob(o, keyed)]
      PROVE  Goal
  BY <1>a, <1>n DEF NewJob
<1>k. ASSUME NEW o \in logged, AddKeyed(o)
      PROVE  Goal
  BY <1>k, <1>u, <1>n DEF AddKeyed
<1>1. ASSUME NEW o \in Original, BackfillAdd(o)
      PROVE  Goal
  <2>1. o \in logged
    BY <1>1 DEF BackfillAdd, LoggedInv
  <2> QED BY <1>1, <2>1, <1>k, <1>u DEF BackfillAdd
<1>2. ASSUME NEW o \in Original, DeadRetry(o)
      PROVE  Goal
  <2>1. o \in logged
    BY <1>2 DEF DeadRetry, LoggedInv
  <2> QED BY <1>2, <2>1, <1>n DEF DeadRetry
<1>3. ASSUME NEW s \in Sync, SyncEnqueue(s)
      PROVE  Goal
  <2>1. PICK o \in sync[s].todo : AddKeyed(o)
    BY <1>3 DEF SyncEnqueue
  <2>2. o \in logged
    BY <1>3, <2>1 DEF SyncEnqueue, SyncsOK, LoggedInv, Noted
  <2> QED BY <2>1, <2>2, <1>k
<1>4. ASSUME NEW j \in Job,
             \/ Take(j) \/ Lookup(j) \/ CheckMapping(j) \/ Create(j) \/ Record(j)
             \/ DeleteOriginal(j) \/ Upsert(j) \/ Drop(j) \/ WriteLetter(j)
             \/ CallFails(j) \/ JobStalls(j)
      PROVE  Goal
  <2>1. job[j].phase # "free"
    BY <1>4 DEF Take, Lookup, CheckMapping, Create, Record, DeleteOriginal, Upsert, Drop,
      WriteLetter, CallFails, JobStalls, Active
  <2>2. \E b : job' = [job EXCEPT ![j] = b] /\ (b.phase = "free" \/ b.orig = job[j].orig)
    <3>1. FreeJob.phase = "free" /\ OneAttemptLess(job[j]).orig = job[j].orig
      BY DEF FreeJob, OneAttemptLess
    <3>2. /\ Stalled(job[j]).orig = job[j].orig
          /\ \A p : AtPhase(job[j], p).orig = job[j].orig
          /\ \A c : Holding(job[j], c).orig = job[j].orig
      BY DEF Stalled, AtPhase, Holding
    <3>3. CASE Take(j) \/ Lookup(j) \/ CheckMapping(j) \/ Create(j)
      BY <3>1, <3>2, <3>3 DEF Take, Lookup, CheckMapping, Create, Finish
    <3>4. CASE Record(j) \/ DeleteOriginal(j) \/ Upsert(j) \/ Drop(j)
      BY <3>1, <3>2, <3>4 DEF Record, DeleteOriginal, AfterDelete, Upsert, Drop, Finish
    <3>5. CASE WriteLetter(j) \/ CallFails(j) \/ JobStalls(j)
      BY <3>1, <3>2, <3>5 DEF WriteLetter, CallFails, JobStalls, Finish
    <3> QED BY <1>4, <3>3, <3>4, <3>5
  <2> QED BY <1>w, <2>1, <2>2
<1> QED
  BY <1>u, <1>1, <1>2, <1>3, <1>4
  DEF Next, vars, LogEntry, Evict, UserDeletes, ToggleMapping, BackfillScan, SyncFetch,
      SyncResolve, SyncUpsert, SyncPrune, SyncTags, SyncDone, SyncFails

(* An original enters ClickUp only when it is logged, and the local rows   *)
(* only from a sync.                                                       *)
LEMMA RemoteGains ==
  ASSUME TypeOK, [Next]_vars, NEW o \in Original, o \in remote' \ remote
  PROVE  LogEntry(o)
<1>1. ASSUME NEW j \in Job, Create(j)
      PROVE  FALSE
  BY <1>1, ConstantAssumption DEF Create
<1>2. ASSUME NEW j \in Job, DeleteOriginal(j)
      PROVE  FALSE
  BY <1>2 DEF DeleteOriginal
<1>3. ASSUME NEW p \in Original, LogEntry(p)
      PROVE  p = o
  BY <1>3 DEF LogEntry
<1>4. ASSUME NEW x \in Entry, UserDeletes(x)
      PROVE  FALSE
  BY <1>4 DEF UserDeletes
<1> QED
  BY <1>1, <1>2, <1>3, <1>4
  DEF Next, vars, BackfillAdd, DeadRetry, Evict, ToggleMapping, BackfillScan, Take, Lookup,
      CheckMapping, Record, Upsert, Drop, WriteLetter, CallFails, JobStalls, SyncFetch,
      SyncResolve, SyncUpsert, SyncPrune, SyncTags, SyncEnqueue, SyncDone, SyncFails

Arrives(s, o) ==
  /\ SyncUpsert(s) /\ o \in sync[s].todo
  /\ o \in remote \/ "late_upsert" \in gap'[o]

LEMMA LocalGains ==
  ASSUME TypeOK, JobsOK, [Next]_vars, NEW o \in Original, o \in local' \ local
  PROVE  \E s \in Sync : Arrives(s, o)
<1>1. ASSUME NEW j \in Job, Upsert(j)
      PROVE  FALSE
  <2>1. job[j].copy \in Copy
    BY <1>1 DEF Upsert, JobsOK, GoodJob
  <2> QED BY <1>1, <2>1, ConstantAssumption DEF Upsert
<1>2. ASSUME NEW j \in Job, Drop(j)
      PROVE  FALSE
  BY <1>2 DEF Drop
<1>3. ASSUME NEW s \in Sync, SyncPrune(s)
      PROVE  FALSE
  BY <1>3 DEF SyncPrune
<1>4. ASSUME NEW s \in Sync, SyncUpsert(s)
      PROVE  Arrives(s, o)
  <2>1. PICK e \in sync[s].todo :
          /\ local' = local \cup {e}
          /\ gap' = IF e \in Original \ remote
                    THEN [gap EXCEPT ![e] = @ \cup {"late_upsert"}] ELSE gap
    BY <1>4 DEF SyncUpsert
  <2>2. e = o
    BY <2>1
  <2> QED BY <1>4, <2>1, <2>2 DEF Arrives, TypeOK
<1> QED
  BY <1>1, <1>2, <1>3, <1>4
  DEF Next, vars, LogEntry, BackfillAdd, DeadRetry, Evict, UserDeletes, ToggleMapping,
      BackfillScan, Take, Lookup, CheckMapping, Create, Record, DeleteOriginal, WriteLetter,
      CallFails, JobStalls, SyncFetch, SyncResolve, SyncTags, SyncEnqueue, SyncDone, SyncFails

LEMMA AuditGains ==
  ASSUME TypeOK, [Next]_vars, NEW o \in Original, audit[o] = NoEntry, audit'[o] # NoEntry
  PROVE  \E j \in Job : /\ job[j].phase = "record" /\ job[j].orig = o
                        /\ job'[j] = AtPhase(job[j], "delete")
<1>1. PICK j \in Job : Record(j)
  BY DEF Next, vars, LogEntry, BackfillAdd, DeadRetry, Evict, UserDeletes, ToggleMapping,
    BackfillScan, Take, Lookup, CheckMapping, Create, DeleteOriginal, Upsert, Drop,
    WriteLetter, CallFails, JobStalls, SyncFetch, SyncResolve, SyncUpsert, SyncPrune,
    SyncTags, SyncEnqueue, SyncDone, SyncFails
<1>2. /\ audit' = [audit EXCEPT ![job[j].orig] = job[j].copy]
      /\ job' = [job EXCEPT ![j] = AtPhase(job[j], "delete")] /\ job[j].phase = "record"
  BY <1>1 DEF Record
<1>3. job[j].orig = o /\ job'[j] = AtPhase(job[j], "delete")
  BY <1>2 DEF TypeOK
<1> QED BY <1>2, <1>3

(* What a sync holds it got from ClickUp.                                  *)
LEMMA SyncsNoted ==
  ASSUME TypeOK, LoggedInv, [Next]_vars, NEW s \in Sync
  PROVE  Noted(sync'[s].got) /\ Noted(sync'[s].todo) /\ Noted(sync'[s].keep)
<1> DEFINE Goal == Noted(sync'[s].got) /\ Noted(sync'[s].todo) /\ Noted(sync'[s].keep)
<1>a. /\ sync \in [Sync -> SyncRecord] /\ sync[s] \in SyncRecord
      /\ Noted(sync[s].got) /\ Noted(sync[s].todo) /\ Noted(sync[s].keep)
  BY DEF TypeOK, LoggedInv
<1>u. CASE sync'[s] = sync[s]
  BY <1>u, <1>a
<1>1. CASE SyncFetch(s)
  <2>1. PICK S, got :
          /\ Fetched(S, got)
          /\ sync' = [sync EXCEPT ![s] = [pc |-> "resolve", slice |-> S, got |-> got, todo |-> {},
                                          keep |-> {}, before |-> remote]]
    BY <1>1 DEF SyncFetch
  <2>2. got \subseteq remote
    BY <2>1 DEF Fetched
  <2>3. sync'[s].got = got /\ sync'[s].todo = {} /\ sync'[s].keep = {}
    BY <1>a, <2>1
  <2> QED BY <2>2, <2>3 DEF LoggedInv, Noted
<1>2. CASE SyncResolve(s)
  <2>1. PICK skip :
          sync' = [sync EXCEPT ![s] = [pc |-> "persist", slice |-> @.slice, got |-> @.got,
                     todo |-> @.got \ skip, keep |-> @.got \ skip, before |-> @.before]]
    BY <1>2 DEF SyncResolve
  <2>2. /\ sync'[s].got = sync[s].got /\ sync'[s].todo \subseteq sync[s].got
        /\ sync'[s].keep \subseteq sync[s].got
    BY <1>a, <2>1
  <2> QED BY <1>a, <2>2 DEF Noted
<1>3. CASE SyncUpsert(s) \/ SyncEnqueue(s)
  <2>1. PICK e : sync' = [sync EXCEPT ![s].todo = @ \ {e}]
    BY <1>3 DEF SyncUpsert, SyncEnqueue
  <2>2. sync'[s] = [sync[s] EXCEPT !.todo = sync[s].todo \ {e}]
    BY <1>a, <2>1
  <2>3. /\ sync'[s].got = sync[s].got /\ sync'[s].todo \subseteq sync[s].todo
        /\ sync'[s].keep = sync[s].keep
    BY <1>a, <2>2 DEF SyncRecord
  <2> QED BY <1>a, <2>3 DEF Noted
<1>4. CASE SyncPrune(s)
  <2>1. /\ sync'[s].got = sync[s].got /\ sync'[s].todo = sync[s].todo
        /\ sync'[s].keep = sync[s].keep
    BY <1>4, <1>a DEF SyncPrune, SyncRecord
  <2> QED BY <1>a, <2>1
<1>5. CASE SyncTags(s)
  <2> DEFINE t == IF mapped THEN sync[s].keep \cap Tagged ELSE {}
  <2>0. t \subseteq sync[s].keep
    OBVIOUS
  <2> HIDE DEF t
  <2>1. sync'[s] = [sync[s] EXCEPT !.pc = "enqueue", !.todo = t]
    BY <1>5, <1>a DEF SyncTags, t
  <2>2. sync'[s].got = sync[s].got /\ sync'[s].todo = t /\ sync'[s].keep = sync[s].keep
    BY <2>1, <1>a DEF SyncRecord
  <2> QED BY <1>a, <2>0, <2>2 DEF Noted
<1>6. CASE SyncDone(s) \/ SyncFails(s)
  <2>1. sync'[s] = IdleSync
    BY <1>6, <1>a DEF SyncDone, SyncFails
  <2> QED BY <2>1 DEF IdleSync, Noted
<1>7. ASSUME NEW q \in Sync, q # s,
             \/ SyncFetch(q) \/ SyncResolve(q) \/ SyncUpsert(q) \/ SyncPrune(q)
             \/ SyncTags(q) \/ SyncEnqueue(q) \/ SyncDone(q) \/ SyncFails(q)
      PROVE  sync'[s] = sync[s]
  <2>1. CASE SyncFetch(q) \/ SyncResolve(q) \/ SyncDone(q) \/ SyncFails(q)
    BY <1>7, <1>a, <2>1 DEF SyncFetch, SyncResolve, SyncDone, SyncFails
  <2>2. CASE SyncUpsert(q) \/ SyncPrune(q) \/ SyncTags(q) \/ SyncEnqueue(q)
    BY <1>7, <1>a, <2>2 DEF SyncUpsert, SyncPrune, SyncTags, SyncEnqueue
  <2> QED BY <1>7, <2>1, <2>2
<1>8. UNCHANGED sync => sync'[s] = sync[s]
  OBVIOUS
<1>9. ASSUME NEW q \in Sync,
             \/ SyncFetch(q) \/ SyncResolve(q) \/ SyncUpsert(q) \/ SyncPrune(q)
             \/ SyncTags(q) \/ SyncEnqueue(q) \/ SyncDone(q) \/ SyncFails(q)
      PROVE  Goal
  BY <1>9, <1>u, <1>1, <1>2, <1>3, <1>4, <1>5, <1>6, <1>7
<1> QED
  BY <1>u, <1>8, <1>9
  DEF Next, vars, LogEntry, BackfillAdd, DeadRetry, Evict, UserDeletes, ToggleMapping,
      BackfillScan, Take, Lookup, CheckMapping, Create, Record, DeleteOriginal, Upsert, Drop,
      WriteLetter, CallFails, JobStalls

LEMMA LoggedGrows ==
  ASSUME [Next]_vars
  PROVE  logged \subseteq logged'
BY DEF Next, vars, LogEntry, BackfillAdd, DeadRetry, Evict, UserDeletes, ToggleMapping,
    BackfillScan, Take, Lookup, CheckMapping, Create, Record, DeleteOriginal, Upsert, Drop,
    WriteLetter, CallFails, JobStalls, SyncFetch, SyncResolve, SyncUpsert, SyncPrune,
    SyncTags, SyncEnqueue, SyncDone, SyncFails

LEMMA ListsGain ==
  ASSUME TypeOK, JobsOK, LoggedInv, [Next]_vars
  PROVE  dead \subseteq dead' /\ dead' \subseteq logged /\ backfill' \subseteq logged
<1>1. ASSUME NEW j \in Job, WriteLetter(j)
      PROVE  /\ dead \subseteq dead' /\ dead' \subseteq logged /\ backfill' \subseteq logged
  <2>1. job[j].orig \in logged
    BY <1>1 DEF WriteLetter, LoggedInv
  <2> QED BY <1>1, <2>1 DEF WriteLetter, LoggedInv
<1>2. CASE BackfillScan
  BY <1>2, ConstantAssumption DEF BackfillScan, LoggedInv, Noted
<1>3. ASSUME NEW o \in Original, BackfillAdd(o)
      PROVE  /\ dead \subseteq dead' /\ dead' \subseteq logged /\ backfill' \subseteq logged
  BY <1>3 DEF BackfillAdd, LoggedInv
<1>4. CASE UNCHANGED <<dead, backfill>>
  BY <1>4 DEF LoggedInv
<1> QED
  BY <1>1, <1>2, <1>3, <1>4
  DEF Next, vars, LogEntry, DeadRetry, Evict, UserDeletes, ToggleMapping, Take, Lookup,
      CheckMapping, Create, Record, DeleteOriginal, Upsert, Drop, CallFails, JobStalls,
      SyncFetch, SyncResolve, SyncUpsert, SyncPrune, SyncTags, SyncEnqueue, SyncDone, SyncFails

LEMMA LoggedStep == TypeOK /\ JobsOK /\ SyncsOK /\ LoggedInv /\ [Next]_vars => LoggedInv'
<1> SUFFICES ASSUME TypeOK, JobsOK, SyncsOK, LoggedInv, [Next]_vars PROVE LoggedInv'
  OBVIOUS
<1>l. logged \subseteq logged'
  BY LoggedGrows
<1>1. Noted(remote)'
  <2>1. ASSUME NEW o \in Original, o \in remote'
        PROVE  o \in logged'
    <3>1. CASE o \in remote
      BY <3>1, <1>l DEF LoggedInv, Noted
    <3>2. CASE o \notin remote
      BY <2>1, <3>2, RemoteGains DEF LogEntry
    <3> QED BY <3>1, <3>2
  <2> QED BY <2>1 DEF Noted
<1>2. Noted(local)'
  <2>1. ASSUME NEW o \in Original, o \in local'
        PROVE  o \in logged'
    <3>1. CASE o \in local
      BY <3>1, <1>l DEF LoggedInv, Noted
    <3>2. CASE o \notin local
      <4>1. PICK s \in Sync : o \in sync[s].todo
        BY <2>1, <3>2, LocalGains DEF Arrives
      <4> QED BY <4>1, <1>l DEF LoggedInv, Noted
    <3> QED BY <3>1, <3>2
  <2> QED BY <2>1 DEF Noted
<1>3. dead' \subseteq logged' /\ backfill' \subseteq logged'
  BY <1>l, ListsGain
<1>4. ASSUME NEW o \in Original, audit'[o] # NoEntry
      PROVE  o \in logged'
  <2>1. CASE audit[o] # NoEntry
    BY <2>1, <1>l DEF LoggedInv
  <2>2. CASE audit[o] = NoEntry
    <3>1. PICK j \in Job : job[j].phase = "record" /\ job[j].orig = o
      BY <1>4, <2>2, AuditGains
    <3> QED BY <3>1, <1>l DEF LoggedInv
  <2> QED BY <2>1, <2>2
<1>5. ASSUME NEW j \in Job, job'[j].phase # "free"
      PROVE  job'[j].orig \in logged'
  BY <1>5, <1>l, JobBecomes DEF SameWork, LoggedInv
<1>6. ASSUME NEW s \in Sync
      PROVE  Noted(sync[s].got)' /\ Noted(sync[s].todo)' /\ Noted(sync[s].keep)'
  <2>1. Noted(sync'[s].got) /\ Noted(sync'[s].todo) /\ Noted(sync'[s].keep)
    BY SyncsNoted
  <2> QED BY <2>1, <1>l DEF Noted
<1> QED BY <1>1, <1>2, <1>3, <1>4, <1>5, <1>6 DEF LoggedInv

LEMMA LoggedInit == Init => LoggedInv
BY DEF Init, LoggedInv, Noted, FreeJob, IdleSync

-----------------------------------------------------------------------------
(* Past the deletion the original is no longer in ClickUp, for good.       *)
DeletedPhase == {"upsert", "drop", "redrop"}

DeletedInv == \A j \in Job : job[j].phase \in DeletedPhase => job[j].orig \notin remote

LEMMA DeletedFrom ==
  ASSUME TypeOK, JobsOK, [Next]_vars, NEW k \in Job, job'[k].phase \in DeletedPhase
  PROVE  /\ job'[k].orig = job[k].orig
         /\ job[k].phase \in DeletedPhase \/ DeleteOriginal(k)
<1> DEFINE Goal == /\ job'[k].orig = job[k].orig
                   /\ job[k].phase \in DeletedPhase \/ DeleteOriginal(k)
<1>a. job \in [Job -> JobRecord]
  BY DEF TypeOK
<1>u. CASE job'[k] = job[k]
  BY <1>u
<1>p. ASSUME NEW j \in Job, NEW b, job' = [job EXCEPT ![j] = b], b.phase \notin DeletedPhase
      PROVE  Goal
  <2>1. k # j
    BY <1>a, <1>p
  <2> QED BY <1>a, <1>p, <2>1
<1>s. /\ FreeJob.phase \notin DeletedPhase /\ OneAttemptLess(job[k]).phase \notin DeletedPhase
      /\ \A o, keyed : NewJob(o, keyed).phase \notin DeletedPhase
      /\ \A b : OneAttemptLess(b).phase \notin DeletedPhase /\ Stalled(b).phase \notin DeletedPhase
      /\ \A b, c : Holding(b, c).phase \notin DeletedPhase
      /\ \A b, p : AtPhase(b, p).phase = p
  BY DEF FreeJob, NewJob, OneAttemptLess, Stalled, Holding, AtPhase, DeletedPhase
<1>t. {"lookup", "redelete", "mapping", "create", "delete"} \cap DeletedPhase = {}
  BY DEF DeletedPhase
<1>k. ASSUME NEW o, AddKeyed(o) \/ \E j \in Job : job' = [job EXCEPT ![j] = NewJob(o, FALSE)]
      PROVE  Goal
  <2>1. ASSUME NEW j \in Job, NEW keyed, job' = [job EXCEPT ![j] = NewJob(o, keyed)]
        PROVE  Goal
    <3> DEFINE B == NewJob(o, keyed)
    <3>1. B.phase \notin DeletedPhase
      BY <1>s
    <3>2. job' = [job EXCEPT ![j] = B]
      BY <2>1
    <3> HIDE DEF B, Goal
    <3> QED BY <1>p, <3>1, <3>2
  <2>2. CASE job' = job
    BY <2>2, <1>u
  <2>3. \/ job' = job
        \/ \E j \in Job : job' = [job EXCEPT ![j] = NewJob(o, TRUE)]
        \/ \E j \in Job : job' = [job EXCEPT ![j] = NewJob(o, FALSE)]
    BY <1>k DEF AddKeyed
  <2> HIDE DEF Goal
  <2> QED BY <2>1, <2>2, <2>3
<1>1. ASSUME NEW o \in Original, BackfillAdd(o) \/ DeadRetry(o)
      PROVE  Goal
  BY <1>1, <1>k, <1>u DEF BackfillAdd, DeadRetry
<1>2. ASSUME NEW s \in Sync, SyncEnqueue(s)
      PROVE  Goal
  BY <1>2, <1>k DEF SyncEnqueue
<1>3. ASSUME NEW j \in Job, Take(j) \/ Lookup(j) \/ CheckMapping(j) \/ Create(j) \/ Record(j)
      PROVE  Goal
  <2>1. CASE Take(j)
    BY <2>1, <1>p, <1>s, <1>t DEF Take
  <2>2. CASE Lookup(j)
    BY <2>2, <1>p, <1>s, <1>t DEF Lookup
  <2>3. CASE CheckMapping(j)
    BY <2>3, <1>p, <1>s, <1>t DEF CheckMapping, Finish
  <2>4. CASE Create(j)
    BY <2>4, <1>p, <1>s DEF Create
  <2>5. CASE Record(j)
    BY <2>5, <1>p, <1>s, <1>t DEF Record
  <2> QED BY <1>3, <2>1, <2>2, <2>3, <2>4, <2>5
<1>4. ASSUME NEW j \in Job, DeleteOriginal(j)
      PROVE  Goal
  <2>1. CASE j # k
    BY <1>4, <2>1, <1>a, <1>u DEF DeleteOriginal
  <2>2. CASE j = k
    <3>1. job'[k] = AfterDelete(job[k]) \/ job'[k] = OneAttemptLess(job[k])
      BY <1>4, <2>2, <1>a DEF DeleteOriginal
    <3>2. job'[k] = AfterDelete(job[k])
      BY <3>1, <1>s
    <3> QED BY <1>4, <2>2, <3>2 DEF AfterDelete, AtPhase
  <2> QED BY <2>1, <2>2
<1>5. ASSUME NEW j \in Job, Upsert(j)
      PROVE  Goal
  <2>1. CASE j # k
    BY <1>5, <2>1, <1>a, <1>u DEF Upsert
  <2>2. CASE j = k
    <3>1. job'[k] = AtPhase(job[k], "drop") /\ job[k].phase = "upsert"
      BY <1>5, <2>2, <1>a DEF Upsert
    <3> QED BY <3>1 DEF AtPhase, DeletedPhase
  <2> QED BY <2>1, <2>2
<1>6. ASSUME NEW j \in Job, Drop(j) \/ WriteLetter(j) \/ CallFails(j) \/ JobStalls(j)
      PROVE  Goal
  BY <1>6, <1>p, <1>s DEF Drop, WriteLetter, CallFails, JobStalls, Finish
<1> QED
  BY <1>u, <1>1, <1>2, <1>3, <1>4, <1>5, <1>6
  DEF Next, vars, LogEntry, Evict, UserDeletes, ToggleMapping, BackfillScan, SyncFetch,
      SyncResolve, SyncUpsert, SyncPrune, SyncTags, SyncDone, SyncFails

LEMMA DeletedStep ==
  TypeOK /\ JobsOK /\ LoggedInv /\ DeletedInv /\ [Next]_vars => DeletedInv'
<1> SUFFICES ASSUME TypeOK, JobsOK, LoggedInv, DeletedInv, [Next]_vars,
                    NEW k \in Job, job'[k].phase \in DeletedPhase, job'[k].orig \in remote'
             PROVE  FALSE
  BY DEF DeletedInv
<1>1. /\ job'[k].orig = job[k].orig
      /\ job[k].phase \in DeletedPhase \/ DeleteOriginal(k)
  BY DeletedFrom
<1>2. CASE DeleteOriginal(k)
  BY <1>1, <1>2 DEF DeleteOriginal
<1>3. CASE job[k].phase \in DeletedPhase
  <2>1. /\ job[k].orig \in Original /\ job[k].orig \notin remote /\ job[k].orig \in logged
    BY <1>3 DEF JobsOK, GoodJob, DeletedInv, LoggedInv, DeletedPhase
  <2>2. LogEntry(job[k].orig)
    BY <1>1, <2>1, RemoteGains
  <2> QED BY <2>1, <2>2 DEF LogEntry
<1> QED BY <1>1, <1>2, <1>3

LEMMA DeletedInit == Init => DeletedInv
BY DEF Init, DeletedInv, DeletedPhase, FreeJob

-----------------------------------------------------------------------------
(* Once a copy is on record, and while the original is in ClickUp or in a  *)
(* row, a job carries the replacement on or it is excused.                 *)
Carries(b, o) ==
  /\ b.orig = o
  /\ b.phase \in {"waiting", "lookup", "redelete", "redrop", "delete", "upsert", "drop", "exhausted"}

Excused(o) == o \in dead \/ gap[o] \cap {"late_upsert", "letter_lost", "stalled_out"} # {}

CarriedInv ==
  \A o \in Original :
    audit[o] # NoEntry /\ o \in remote \cup local => Excused(o) \/ \E j \in Job : Carries(job[j], o)

LEMMA ExcusedStays ==
  ASSUME TypeOK, JobsOK, LoggedInv, [Next]_vars, NEW o \in Original, Excused(o)
  PROVE  Excused(o)'
BY GapGrows, ListsGain DEF Excused

(* A job that carries on does so until it dropped the row, or leaves a     *)
(* dead letter or a window.                                                *)
LEMMA CarrierFate ==
  ASSUME TypeOK, JobsOK, [Next]_vars, NEW o \in Original, NEW k \in Job,
         Carries(job[k], o), audit[o] # NoEntry
  PROVE  Carries(job'[k], o) \/ Excused(o)' \/ Drop(k)
<1> DEFINE Goal == Carries(job'[k], o) \/ Excused(o)' \/ Drop(k)
<1>a. job \in [Job -> JobRecord] /\ gap \in [Original -> SUBSET GapKind] /\ job[k].orig = o
  BY DEF TypeOK, Carries
<1>u. CASE job'[k] = job[k]
  BY <1>u
<1>f. job[k].phase \notin {"free", "mapping", "create", "record"}
  BY DEF Carries
<1>p. ASSUME NEW p, p \in {"lookup", "redelete", "redrop", "delete", "upsert", "drop"},
             job'[k] = AtPhase(job[k], p)
      PROVE  Goal
  BY <1>a, <1>p DEF AtPhase, Carries
<1>o. CASE job'[k] = OneAttemptLess(job[k]) \/ job'[k] = Stalled(job[k])
  BY <1>a, <1>o DEF OneAttemptLess, Stalled, Carries
<1>n. ASSUME NEW q, AddKeyed(q) \/ \E j \in Job : /\ job[j].phase = "free"
                                                 /\ job' = [job EXCEPT ![j] = NewJob(q, FALSE)]
      PROVE  job'[k] = job[k]
  BY <1>n, <1>a, <1>f DEF AddKeyed
<1>1. ASSUME NEW q \in Original, BackfillAdd(q) \/ DeadRetry(q)
      PROVE  Goal
  BY <1>1, <1>n, <1>u DEF BackfillAdd, DeadRetry
<1>2. ASSUME NEW s \in Sync, SyncEnqueue(s)
      PROVE  Goal
  BY <1>2, <1>n, <1>u DEF SyncEnqueue
<1>3. ASSUME NEW j \in Job, j # k,
             \/ Take(j) \/ Lookup(j) \/ CheckMapping(j) \/ Create(j) \/ Record(j)
             \/ DeleteOriginal(j) \/ Upsert(j) \/ Drop(j) \/ WriteLetter(j)
             \/ CallFails(j) \/ JobStalls(j)
      PROVE  job'[k] = job[k]
  <2>1. CASE Take(j) \/ Lookup(j) \/ CheckMapping(j) \/ Create(j) \/ Record(j)
    BY <1>3, <1>a, <2>1 DEF Take, Lookup, CheckMapping, Create, Record, Finish
  <2>2. CASE \/ DeleteOriginal(j) \/ Upsert(j) \/ Drop(j) \/ WriteLetter(j)
             \/ CallFails(j) \/ JobStalls(j)
    BY <1>3, <1>a, <2>2 DEF DeleteOriginal, Upsert, Drop, WriteLetter, CallFails, JobStalls, Finish
  <2> QED BY <1>3, <2>1, <2>2
<1>4. CASE Take(k)
  BY <1>4, <1>a, <1>p DEF Take
<1>5. CASE Lookup(k)
  <2>1. job'[k] = AtPhase(job[k], "redelete")
    BY <1>5, <1>a DEF Lookup
  <2> QED BY <1>p, <2>1
<1>6. CASE CheckMapping(k) \/ Create(k) \/ Record(k)
  BY <1>6, <1>f DEF CheckMapping, Create, Record
<1>7. CASE DeleteOriginal(k)
  <2>1. job'[k] = AfterDelete(job[k]) \/ job'[k] = OneAttemptLess(job[k])
    BY <1>7, <1>a DEF DeleteOriginal
  <2> QED BY <2>1, <1>o, <1>p DEF AfterDelete
<1>8. CASE Upsert(k)
  BY <1>8, <1>a, <1>p DEF Upsert
<1>9. CASE WriteLetter(k)
  <2>1. o \in dead' \/ gap' = [gap EXCEPT ![o] = @ \cup {"letter_lost"}]
    BY <1>9, <1>a DEF WriteLetter
  <2> QED BY <2>1, <1>a DEF Excused
<1>10. CASE CallFails(k)
  BY <1>10, <1>a, <1>o DEF CallFails
<1>11. CASE JobStalls(k)
  <2>1. \/ job'[k] = Stalled(job[k]) \/ job'[k] = OneAttemptLess(job[k])
        \/ gap' = [Orphaned(k) EXCEPT ![o] = @ \cup {"stalled_out"}]
    BY <1>11, <1>a DEF JobStalls
  <2>2. Orphaned(k) \in [Original -> SUBSET GapKind]
    BY <1>a, OrphanedType
  <2>3. CASE gap' = [Orphaned(k) EXCEPT ![o] = @ \cup {"stalled_out"}]
    BY <2>2, <2>3 DEF Excused
  <2> QED BY <2>1, <2>3, <1>o
<1>12. ASSUME NEW j \in Job,
              \/ Take(j) \/ Lookup(j) \/ CheckMapping(j) \/ Create(j) \/ Record(j)
              \/ DeleteOriginal(j) \/ Upsert(j) \/ Drop(j) \/ WriteLetter(j)
              \/ CallFails(j) \/ JobStalls(j)
       PROVE  Goal
  <2>1. CASE j # k
    BY <1>12, <2>1, <1>3, <1>u
  <2>2. CASE j = k
    BY <1>12, <2>2, <1>4, <1>5, <1>6, <1>7, <1>8, <1>9, <1>10, <1>11
  <2> QED BY <2>1, <2>2
<1> QED
  BY <1>u, <1>1, <1>2, <1>12
  DEF Next, vars, LogEntry, Evict, UserDeletes, ToggleMapping, BackfillScan, SyncFetch,
      SyncResolve, SyncUpsert, SyncPrune, SyncTags, SyncDone, SyncFails

LEMMA CarriedStep ==
  TypeOK /\ JobsOK /\ LoggedInv /\ DeletedInv /\ CarriedInv /\ [Next]_vars => CarriedInv'
<1> SUFFICES ASSUME TypeOK, JobsOK, LoggedInv, DeletedInv, CarriedInv, [Next]_vars,
                    NEW o \in Original, audit'[o] # NoEntry, o \in remote' \cup local'
             PROVE  Excused(o)' \/ \E j \in Job : Carries(job'[j], o)
  BY DEF CarriedInv, Carries
<1>1. CASE audit[o] = NoEntry
  <2>1. PICK j \in Job : job[j].orig = o /\ job'[j] = AtPhase(job[j], "delete")
    BY <1>1, AuditGains
  <2>2. Carries(job'[j], o)
    BY <2>1 DEF Carries, AtPhase
  <2> QED BY <2>2
<1>2. CASE audit[o] # NoEntry
  <2>1. o \in remote \cup local \/ Excused(o)'
    <3>1. CASE o \in remote' \ remote
      <4>1. LogEntry(o)
        BY <3>1, RemoteGains
      <4> QED BY <1>2, <4>1 DEF LogEntry, LoggedInv
    <3>2. CASE o \in local' \ local
      <4>1. o \in remote \/ "late_upsert" \in gap'[o]
        BY <3>2, LocalGains DEF Arrives
      <4> QED BY <4>1 DEF Excused
    <3> QED BY <3>1, <3>2
  <2>2. CASE Excused(o) \/ Excused(o)'
    BY <2>2, ExcusedStays
  <2>3. ASSUME NEW k \in Job, Carries(job[k], o)
        PROVE  Excused(o)' \/ Carries(job'[k], o)
    <3>1. CASE Drop(k)
      <4>1. job[k].orig = o /\ job[k].orig \notin remote
        BY <2>3, <3>1 DEF Carries, Drop, DeletedInv, DeletedPhase
      <4> QED BY <3>1, <4>1 DEF Drop
    <3> QED BY <1>2, <2>3, <3>1, CarrierFate
  <2> QED BY <1>2, <2>1, <2>2, <2>3 DEF CarriedInv
<1> QED BY <1>1, <1>2

LEMMA CarriedInit == Init => CarriedInv
BY DEF Init, CarriedInv

(* An entry and its copy are both counted only while a job or a dead       *)
(* letter will see to it, or in one of the three windows: for any number   *)
(* of jobs, syncs, workers and attempts and any faults.                    *)
THEOREM NeverCountedTwice == Spec => []CountedOnce
<1> DEFINE Inv == /\ TypeOK /\ JobsOK /\ SyncsOK
                  /\ LoggedInv /\ DeletedInv /\ CarriedInv
<1>1. Init => Inv
  BY TypeInit, LoggedInit, DeletedInit, CarriedInit
<1>2. Inv /\ [Next]_vars => Inv'
  BY TypeStep, LoggedStep, DeletedStep, CarriedStep
<1>3. Inv => CountedOnce
  <2> SUFFICES ASSUME TypeOK, CarriedInv, NEW o \in Original, o \in local, audit[o] \in local
               PROVE  \/ \E j \in Job : Working(j) /\ job[j].orig = o
                      \/ o \in dead
                      \/ gap[o] \cap {"late_upsert", "letter_lost", "stalled_out"} # {}
    BY DEF CountedOnce
  <2>1. audit[o] # NoEntry
    BY ConstantAssumption DEF TypeOK
  <2> QED BY <2>1 DEF CarriedInv, Carries, Excused, Working
<1> QED BY <1>1, <1>2, <1>3, PTL DEF Spec

-----------------------------------------------------------------------------
(* TimeEntries implements Reassignment.                                    *)

LEMMA RegisterInit == Init => Register!Init
<1> SUFFICES ASSUME Init PROVE Register!Init
  OBVIOUS
<1>1. \A o \in Original : Stands[o] = NoEntry
  BY DEF Init, Stands
<1>2. \A o \in Original : Copies(o) = {} /\ Drafts[o] = {} /\ ~Windowed(o)
  BY ConstantAssumption DEF Init, Drafts, Copies, Entry, Windowed
<1>3. Lapsed = {}
  BY <1>2 DEF Lapsed
<1> QED
  BY <1>1, <1>2, <1>3 DEF Init, Register!Init, Stands, Drafts

(* What a step leaves alone when it touches neither the copies made, nor   *)
(* the audit rows, nor the log.                                            *)
LEMMA SameView ==
  ASSUME UNCHANGED <<made, audit, logged>>
  PROVE  UNCHANGED <<Stands, Drafts>>
BY DEF Stands, Drafts, Copies

LEMMA SameLapsed ==
  ASSUME \A o \in Original : Windowed(o)' <=> Windowed(o)
  PROVE  Lapsed' = Lapsed
BY DEF Lapsed

(* A window of one entry concerns that entry.                              *)
LEMMA OneLapsed ==
  ASSUME NEW o \in Original, gap[o] \subseteq gap'[o],
         \A p \in Original \ {o} : gap'[p] = gap[p]
  PROVE  Lapsed' \in {Lapsed, Lapsed \cup {o}}
<1>1. \A p \in Original \ {o} : Windowed(p)' <=> Windowed(p)
  BY DEF Windowed
<1>2. Windowed(o) => Windowed(o)'
  BY DEF Windowed
<1> QED BY <1>1, <1>2 DEF Lapsed

(* The gap after a step of job j: that of its entry may grow.              *)
LEMMA JobLapses ==
  ASSUME TypeOK, JobsOK, [Next]_vars, NEW j \in Job, job[j].phase # "free",
         \/ gap' = gap \/ gap' = Orphaned(j)
         \/ \E k : gap' = [gap EXCEPT ![job[j].orig] = @ \cup {k}]
         \/ gap' = [Orphaned(j) EXCEPT ![job[j].orig] = @ \cup {"stalled_out"}]
  PROVE  Lapsed' \in {Lapsed, Lapsed \cup {job[j].orig}}
<1>1. PICK o \in Original : o = job[j].orig
  BY DEF JobsOK, GoodJob
<1>2. gap \in [Original -> SUBSET GapKind]
  BY DEF TypeOK
<1>3. \A p \in Original \ {o} : Orphaned(j)[p] = gap[p]
  BY <1>1, <1>2 DEF Orphaned
<1>4. Orphaned(j) \in [Original -> SUBSET GapKind]
  BY <1>1, OrphanedType DEF TypeOK
<1>5. \A p \in Original \ {o} : gap'[p] = gap[p]
  BY <1>1, <1>2, <1>3, <1>4
<1>6. gap[o] \subseteq gap'[o]
  BY GapGrows
<1> QED BY <1>1, <1>5, <1>6, OneLapsed

LEMMA LogRefines ==
  ASSUME TypeOK, LoggedInv, NEW o \in Original, LogEntry(o)
  PROVE  Register!Log(o)
<1>1. audit[o] = NoEntry /\ o \notin logged /\ logged' = logged \cup {o}
      /\ UNCHANGED <<made, audit, byUser, gap>> /\ remote' = remote \cup {o}
  BY DEF LogEntry, LoggedInv
<1>2. Stands[o] = NoEntry
  BY <1>1 DEF Stands
<1>3. Stands' = [Stands EXCEPT ![o] = o]
  <2>1. \A p \in Original : Stands'[p] = IF p = o THEN o ELSE Stands[p]
    BY <1>1 DEF Stands
  <2> QED BY <2>1 DEF Stands
<1>4. UNCHANGED <<Drafts, Lapsed>>
  BY <1>1 DEF Drafts, Copies, Lapsed, Windowed
<1> QED BY <1>1, <1>2, <1>3, <1>4 DEF Register!Log

LEMMA CreateRefines ==
  ASSUME TypeOK, JobsOK, RecordOK, LoggedInv, CopyOK, [Next]_vars, NEW j \in Job, Create(j)
  PROVE  \E c \in Copy : Register!Draft(job[j].orig, c)
<1> DEFINE o == job[j].orig
<1>1. job[j].phase = "create" /\ o \in Original /\ o \in logged
  BY DEF Create, JobsOK, GoodJob, LoggedInv
<1> HIDE DEF o
<1>2. PICK c \in Copy :
        /\ made[c] = NoEntry
        /\ remote' = remote \cup {c}
        /\ made' = [made EXCEPT ![c] = o]
        /\ gap' = gap \/ gap' = [gap EXCEPT ![o] = @ \cup {"unrecorded"}]
        /\ UNCHANGED <<audit, logged, byUser>>
  BY DEF Create, o
<1>3. \A d \in Copy : made'[d] = IF d = c THEN o ELSE made[d]
  BY <1>2 DEF TypeOK
<1>4. NoEntry \notin Original /\ NoEntry \notin Copy /\ Original \cap Copy = {}
  BY ConstantAssumption DEF Entry
<1>5. \A p \in Original : audit[p] # c
  BY <1>2, <1>4 DEF RecordOK
<1>6. Register!Fresh(c)
  <2>1. ASSUME NEW p \in Original PROVE c # Stands[p] /\ c \notin Drafts[p]
    BY <1>2, <1>4, <1>5 DEF Stands, Drafts, Copies
  <2> QED BY <2>1 DEF Register!Fresh
<1>7. Stands[o] # NoEntry
  BY <1>1, <1>4 DEF Stands
<1>8. Lapsed' \in {Lapsed, Lapsed \cup {o}}
  <2>1. job[j].phase # "free" /\ o = job[j].orig
    BY <1>1 DEF o
  <2> QED BY <1>2, <2>1, JobLapses
<1>9. (Stands[o] = o /\ Drafts[o] = {}) \/ o \in Lapsed
  <2>1. CASE Windowed(o)
    BY <1>1, <2>1 DEF Lapsed
  <2>2. CASE OwnedCopies(o)
    <3>1. audit[o] = NoEntry
      BY <1>1, <2>2 DEF OwnedCopies, o
    <3>2. \A d \in Copies(o) : FALSE
      <4>1. ASSUME NEW d \in Copies(o) PROVE FALSE
        <5>1. PICK k \in Job : job[k].phase = "record" /\ job[k].orig = o
          BY <1>4, <2>2, <3>1 DEF OwnedCopies, Copies
        <5>2. k = j
          BY <1>1, <2>2, <5>1 DEF OwnedCopies, Active, o
        <5> QED BY <1>1, <5>1, <5>2
      <4> QED BY <4>1
    <3> QED BY <1>1, <3>1, <3>2 DEF Stands, Drafts
  <2> QED BY <1>1, <2>1, <2>2 DEF CopyOK
<1>10. Drafts' = [Drafts EXCEPT ![o] = @ \cup {c}]
  <2>1. \A p \in Original : Copies(p)' = IF p = o THEN Copies(p) \cup {c} ELSE Copies(p)
    BY <1>2, <1>3, <1>4 DEF Copies
  <2>2. \A p \in Original : Drafts'[p] = IF p = o THEN Drafts[p] \cup {c} ELSE Drafts[p]
    BY <1>2, <1>5, <2>1 DEF Drafts
  <2> QED BY <1>1, <2>2 DEF Drafts
<1>11. Stands' = Stands
  BY <1>2 DEF Stands
<1> QED
  BY <1>2, <1>6, <1>7, <1>8, <1>9, <1>10, <1>11
  DEF Register!Draft, Register!Lapsing, o

LEMMA RecordRefines ==
  ASSUME TypeOK, JobsOK, RecordOK, LoggedInv, [Next]_vars, NEW j \in Job, Record(j)
  PROVE  (\E c \in Copy : Register!Replace(job[j].orig, c)) \/ Register!Lapse(job[j].orig)
<1>1. /\ job[j].phase = "record" /\ job[j].orig \in Original /\ job[j].orig \in logged
      /\ job[j].copy \in Copy /\ made[job[j].copy] = job[j].orig
  BY DEF Record, JobsOK, GoodJob, LoggedInv, RecordOK, Recorded
<1>2. PICK o \in Original, c \in Copy : o = job[j].orig /\ c = job[j].copy
  BY <1>1
<1>3. NoEntry \notin Original /\ NoEntry \notin Copy /\ Original \cap Copy = {}
  BY ConstantAssumption DEF Entry
<1>4. UNCHANGED <<remote, made, logged, byUser>>
  BY DEF Record
<1>5. CASE audit[o] = NoEntry /\ audit' = [audit EXCEPT ![o] = c] /\ gap' = gap
  <2>1. \A p \in Original : audit'[p] = IF p = o THEN c ELSE audit[p]
    BY <1>5 DEF TypeOK
  <2>2. Stands[o] = o /\ c \in Drafts[o]
    BY <1>1, <1>2, <1>3, <1>5 DEF Stands, Drafts, Copies
  <2>3. Stands' = [Stands EXCEPT ![o] = c]
    <3>1. \A p \in Original : Stands'[p] = IF p = o THEN c ELSE Stands[p]
      BY <1>3, <1>4, <2>1 DEF Stands
    <3> QED BY <3>1 DEF Stands
  <2>4. Drafts' = [Drafts EXCEPT ![o] = @ \ {c}]
    <3>1. \A p \in Original : Drafts'[p] = IF p = o THEN Drafts[p] \ {c} ELSE Drafts[p]
      BY <1>3, <1>4, <1>5, <2>1 DEF Drafts, Copies
    <3> QED BY <3>1 DEF Drafts
  <2>5. Lapsed' = Lapsed
    BY <1>5 DEF Lapsed, Windowed
  <2> QED BY <1>2, <1>4, <2>2, <2>3, <2>4, <2>5 DEF Register!Replace
<1>6. CASE audit' = audit /\ gap' = Orphaned(j)
  <2>1. Lapsed' \in {Lapsed, Lapsed \cup {o}}
    BY <1>1, <1>2, <1>6, JobLapses
  <2>2. Stands[o] # NoEntry
    BY <1>1, <1>2, <1>3 DEF Stands
  <2> QED BY <1>2, <1>4, <1>6, <2>1, <2>2, SameView DEF Register!Lapse, Register!Lapsing
<1> QED BY <1>2, <1>5, <1>6 DEF Record

LEMMA DeleteRefines ==
  ASSUME TypeOK, JobsOK, RecordOK, NEW j \in Job, DeleteOriginal(j)
  PROVE  Register!Withdraw(job[j].orig)
<1>1. /\ job[j].phase \in {"delete", "redelete"} /\ job[j].orig \in Original
      /\ audit[job[j].orig] # NoEntry /\ remote' = remote \ {job[j].orig}
      /\ UNCHANGED <<made, audit, logged, byUser, gap>>
  BY DEF DeleteOriginal, JobsOK, GoodJob, RecordOK, Recorded
<1>2. Stands[job[j].orig] \in Copy
  BY <1>1 DEF Stands, TypeOK
<1>3. Lapsed' = Lapsed
  BY <1>1 DEF Lapsed, Windowed
<1> QED BY <1>1, <1>2, <1>3, SameView DEF Register!Withdraw

(* Steps that only open a window, or none at all.                          *)
LEMMA LapseRefines ==
  ASSUME TypeOK, JobsOK, LoggedInv, [Next]_vars, NEW j \in Job,
         Take(j) \/ WriteLetter(j) \/ CallFails(j) \/ JobStalls(j)
  PROVE  Register!Lapse(job[j].orig)
<1>1. /\ job[j].phase # "free"
      /\ UNCHANGED <<remote, made, audit, logged, byUser>>
  BY DEF Take, WriteLetter, CallFails, JobStalls, Active
<1>2. job[j].orig \in Original /\ job[j].orig \in logged
  BY <1>1 DEF JobsOK, GoodJob, LoggedInv
<1>3. \/ gap' = gap \/ gap' = Orphaned(j)
      \/ \E k : gap' = [gap EXCEPT ![job[j].orig] = @ \cup {k}]
      \/ gap' = [Orphaned(j) EXCEPT ![job[j].orig] = @ \cup {"stalled_out"}]
  BY DEF Take, WriteLetter, CallFails, JobStalls
<1>4. Lapsed' \in {Lapsed, Lapsed \cup {job[j].orig}}
  BY <1>1, <1>3, JobLapses
<1>5. Stands[job[j].orig] # NoEntry
  BY <1>2, ConstantAssumption DEF Stands, Entry
<1> QED BY <1>1, <1>4, <1>5, SameView DEF Register!Lapse, Register!Lapsing

(* The row of an entry that ClickUp no longer has is written: no window of *)
(* the replacement.                                                        *)
LEMMA LateUpsertKeeps ==
  ASSUME TypeOK, NEW s \in Sync, SyncUpsert(s)
  PROVE  Lapsed' = Lapsed
<1>1. PICK e : gap' = IF e \in Original \ remote
                      THEN [gap EXCEPT ![e] = @ \cup {"late_upsert"}] ELSE gap
  BY DEF SyncUpsert
<1>2. \A o \in Original : Windowed(o)' <=> Windowed(o)
  BY <1>1 DEF Windowed, TypeOK
<1> QED BY <1>2, SameLapsed

LEMMA RegisterStep ==
  TypeOK /\ JobsOK /\ LoggedInv /\ RecordOK /\ CopyOK /\ [Next]_vars
    => [Register!Next]_(Register!vars)
<1> SUFFICES ASSUME TypeOK, JobsOK, LoggedInv, RecordOK, CopyOK, [Next]_vars
             PROVE  Register!Next \/ UNCHANGED <<Stands, Drafts, remote, byUser, Lapsed>>
  BY DEF Register!vars
<1>q. ASSUME UNCHANGED <<remote, made, audit, logged, byUser>>, Lapsed' = Lapsed
      PROVE  UNCHANGED <<Stands, Drafts, remote, byUser, Lapsed>>
  BY <1>q, SameView
<1>g. gap' = gap => Lapsed' = Lapsed
  BY DEF Lapsed, Windowed
<1>1. ASSUME NEW o \in Original, LogEntry(o) PROVE Register!Next
  BY <1>1, LogRefines DEF Register!Next
<1>2. ASSUME NEW x \in Entry, UserDeletes(x) PROVE Register!Next
  <2>1. Register!UserDeletes(x)
    BY <1>2, <1>g, SameView DEF UserDeletes, Register!UserDeletes
  <2> QED BY <2>1 DEF Register!Next, Entry
<1>3. ASSUME NEW j \in Job, Create(j) PROVE Register!Next
  <2>1. job[j].orig \in Original
    BY <1>3 DEF Create, JobsOK, GoodJob
  <2> QED BY <1>3, <2>1, CreateRefines DEF Register!Next
<1>4. ASSUME NEW j \in Job, Record(j) PROVE Register!Next
  <2>1. job[j].orig \in Original
    BY <1>4 DEF Record, JobsOK, GoodJob
  <2> QED BY <1>4, <2>1, RecordRefines DEF Register!Next
<1>5. ASSUME NEW j \in Job, DeleteOriginal(j) PROVE Register!Next
  <2>1. job[j].orig \in Original
    BY <1>5 DEF DeleteOriginal, JobsOK, GoodJob
  <2> QED BY <1>5, <2>1, DeleteRefines DEF Register!Next
<1>6. ASSUME NEW j \in Job, Take(j) \/ WriteLetter(j) \/ CallFails(j) \/ JobStalls(j)
      PROVE  Register!Next
  <2>1. job[j].orig \in Original
    BY <1>6 DEF Take, WriteLetter, CallFails, JobStalls, Active, JobsOK, GoodJob
  <2> QED BY <1>6, <2>1, LapseRefines DEF Register!Next
<1>7. ASSUME NEW s \in Sync, SyncUpsert(s)
      PROVE  UNCHANGED <<Stands, Drafts, remote, byUser, Lapsed>>
  BY <1>7, <1>q, LateUpsertKeeps DEF SyncUpsert
<1>8. CASE UNCHANGED <<remote, made, audit, logged, byUser, gap>>
  BY <1>8, <1>q, <1>g
<1> QED
  BY <1>1, <1>2, <1>3, <1>4, <1>5, <1>6, <1>7, <1>8
  DEF Next, vars, BackfillAdd, DeadRetry, Evict, ToggleMapping, BackfillScan, Lookup,
      CheckMapping, Upsert, Drop, SyncFetch, SyncResolve, SyncPrune, SyncTags, SyncEnqueue,
      SyncDone, SyncFails

LEMMA RegisterInv ==
  Spec => [](TypeOK /\ JobsOK /\ LoggedInv /\ RecordOK /\ CopyOK)
<1>1. Init => TypeOK /\ JobsOK /\ SyncsOK /\ LoggedInv /\ RecordOK /\ CopyOK
  BY TypeInit, LoggedInit, RecordInit, CopyInit
<1>2. TypeOK /\ JobsOK /\ SyncsOK /\ LoggedInv /\ RecordOK /\ CopyOK /\ [Next]_vars
        => (TypeOK /\ JobsOK /\ SyncsOK /\ LoggedInv /\ RecordOK /\ CopyOK)'
  BY TypeStep, LoggedStep, RecordStep, CopyStep
<1> QED BY <1>1, <1>2, PTL DEF Spec

(* TimeEntries, with all its jobs, retries, stalls, dead letters, syncs    *)
(* and prunes, is an implementation of Reassignment.                       *)
THEOREM ImplementsReassignment == Spec => ReplacesAtomically
<1>1. Init => Register!Init BY RegisterInit
<1>2. TypeOK /\ JobsOK /\ LoggedInv /\ RecordOK /\ CopyOK /\ [Next]_vars
        => [Register!Next]_(Register!vars)
  BY RegisterStep
<1> QED BY <1>1, <1>2, RegisterInv, PTL DEF Spec, ReplacesAtomically, Register!Spec

(* The same, as an instance of the module that proves what follows.        *)
Book == INSTANCE ReassignmentProofs WITH
          stands <- Stands,
          drafts <- Drafts,
          held   <- remote,
          lapsed <- Lapsed

LEMMA BookIsRegister == Register!Spec => Book!Spec
<1>1. Register!Init => Book!Init
  BY DEF Register!Init, Book!Init
<1>2. [Register!Next]_(Register!vars) => [Book!Next]_(Book!vars)
  BY DEF Register!Next, Register!vars, Register!Log, Register!Draft, Register!Fresh,
      Register!Lapsing, Register!Replace, Register!Withdraw, Register!UserDeletes,
      Register!Lapse, Book!Next, Book!vars, Book!Log, Book!Draft, Book!Fresh, Book!Lapsing,
      Book!Replace, Book!Withdraw, Book!UserDeletes, Book!Lapse
<1> QED BY <1>1, <1>2, PTL DEF Register!Spec, Book!Spec

(* In every reachable state of TimeEntries the hours of a logged entry     *)
(* stand in ClickUp under the original or under the copy on record, until  *)
(* a user deletes that very entry; and no copy stands for two entries.     *)
(* It follows from Reassignment alone.                                     *)
THEOREM HoursStandInClickUp == Spec => []Register!HoursStand
<1>1. Book!EntryAssumption
  BY ConstantAssumption DEF Book!EntryAssumption, Entry
<1>2. Book!Spec => []Book!HoursStand
  BY <1>1, Book!HoursAlwaysStand
<1>3. Book!HoursStand => Register!HoursStand
  BY DEF Book!HoursStand, Register!HoursStand
<1> QED
  BY <1>2, <1>3, BookIsRegister, ImplementsReassignment, PTL DEF ReplacesAtomically

-----------------------------------------------------------------------------
(* Which window takes what.  One worker processes one job at a time, and   *)
(* what that job has looked up in the audit still holds when it records    *)
(* its copy; beyond that, each window takes the fault it is named for.     *)

ExposedTo ==
  (IF "crash" \in Faults THEN {"unrecorded", "stalled_out", "letter_lost"} ELSE {})
    \cup (IF {"call", "answer"} \cap Faults # {} THEN {"unrecorded"} ELSE {})
    \cup (IF "letter" \in Faults THEN {"letter_lost"} ELSE {})
    \cup (IF Workers # 1 THEN {"parallel", "unrecorded"} ELSE {})
    \cup (IF Sync # {} THEN {"late_upsert"} ELSE {})

Unrecorded == {"mapping", "create", "record"}

SoloInv ==
  /\ \A i, k \in Job : Active(i) /\ Active(k) => i = k
  /\ \A k \in Job : job[k].phase \in Unrecorded => audit[job[k].orig] = NoEntry

ExposedInv == (Workers = 1 => SoloInv) /\ \A o \in Original : gap[o] \subseteq ExposedTo

(* The step of one job that was active already, or is not now.             *)
LEMMA SoloJob ==
  ASSUME TypeOK, SoloInv, audit' = audit, NEW j \in Job, NEW b, job' = [job EXCEPT ![j] = b],
         \/ b.phase \in {"free", "waiting", "exhausted"}
         \/ Active(j) /\ (b.phase \in Unrecorded => audit[b.orig] = NoEntry)
  PROVE  SoloInv'
<1>1. \A k \in Job : job'[k] = IF k = j THEN b ELSE job[k]
  BY DEF TypeOK
<1>2. \A k \in Job : Active(k)' => Active(k) BY <1>1 DEF Active
<1>3. \A k \in Job : job'[k].phase \in Unrecorded => audit'[job'[k].orig] = NoEntry
  BY <1>1 DEF SoloInv, Unrecorded
<1> QED BY <1>2, <1>3 DEF SoloInv

(* A slot of the queue is filled, or nothing of it changes.                *)
LEMMA SoloAdds ==
  ASSUME TypeOK, SoloInv, audit' = audit,
         \/ job' = job
         \/ \E j \in Job : \E o, keyed : job' = [job EXCEPT ![j] = NewJob(o, keyed)]
  PROVE  SoloInv'
<1>1. ASSUME NEW j \in Job, NEW o, NEW keyed, job' = [job EXCEPT ![j] = NewJob(o, keyed)]
      PROVE  SoloInv'
  <2>1. NewJob(o, keyed).phase = "waiting" BY DEF NewJob
  <2> QED BY <1>1, <2>1, SoloJob
<1>2. CASE job' = job BY <1>2 DEF SoloInv, Active
<1> QED BY <1>1, <1>2

(* With one worker nothing is taken up while a job is at work.             *)
LEMMA TakenAlone ==
  ASSUME Workers = 1, TypeOK, SoloInv, NEW j \in Job, Take(j)
  PROVE  \A k \in Job : ~Active(k)
<1> SUFFICES ASSUME NEW k \in Job, Active(k) PROVE FALSE OBVIOUS
<1> DEFINE A == {i \in Job : Active(i)}
<1>1. A = {k} BY DEF SoloInv
<1>2. Cardinality(A) < Workers BY DEF Take
<1> HIDE DEF A
<1>3. Cardinality(A) = 1 BY <1>1, FS_Singleton
<1> QED BY <1>2, <1>3

LEMMA SoloStep ==
  ASSUME Workers = 1, TypeOK, JobsOK, SoloInv, [Next]_vars PROVE SoloInv'
<1>j. \A k \in Job : job[k].phase \in Unrecorded => audit[job[k].orig] = NoEntry BY DEF SoloInv
<1>1. ASSUME NEW o \in Original, BackfillAdd(o) \/ DeadRetry(o) PROVE SoloInv'
  <2>1. audit' = audit BY <1>1 DEF BackfillAdd, DeadRetry
  <2>2. job' = job \/ \E j \in Job : \E p, keyed : job' = [job EXCEPT ![j] = NewJob(p, keyed)]
    <3>1. CASE BackfillAdd(o) BY <3>1 DEF BackfillAdd, AddKeyed
    <3>2. CASE DeadRetry(o) BY <3>2 DEF DeadRetry
    <3> QED BY <1>1, <3>1, <3>2
  <2> QED BY <2>1, <2>2, SoloAdds
<1>2. ASSUME NEW s \in Sync, SyncEnqueue(s) PROVE SoloInv'
  <2>1. audit' = audit BY <1>2 DEF SyncEnqueue
  <2>2. job' = job \/ \E j \in Job : \E p, keyed : job' = [job EXCEPT ![j] = NewJob(p, keyed)]
    <3>1. PICK o \in sync[s].todo : AddKeyed(o) BY <1>2 DEF SyncEnqueue
    <3> QED BY <3>1 DEF AddKeyed
  <2> QED BY <2>1, <2>2, SoloAdds
<1>3. ASSUME NEW j \in Job, Take(j) PROVE SoloInv'
  <2>1. job' = [job EXCEPT ![j] = AtPhase(job[j], "lookup")] /\ audit' = audit
    BY <1>3 DEF Take, TypeOK
  <2>2. \A k \in Job : job'[k] = IF k = j THEN AtPhase(job[j], "lookup") ELSE job[k]
    BY <2>1 DEF TypeOK
  <2>3. \A k \in Job : ~Active(k) BY <1>3, TakenAlone
  <2>4. \A k \in Job : Active(k)' => k = j BY <2>2, <2>3 DEF Active
  <2>5. \A k \in Job : job'[k].phase \notin Unrecorded
    BY <2>2, <2>3 DEF Active, AtPhase, Unrecorded
  <2> QED BY <2>4, <2>5 DEF SoloInv
<1>4. ASSUME NEW j \in Job, Lookup(j) \/ CheckMapping(j) \/ Create(j) PROVE SoloInv'
  <2>1. Active(j) /\ audit' = audit BY <1>4 DEF Lookup, CheckMapping, Create, Active
  <2>2. job[j].phase \in {"mapping", "create"} => audit[job[j].orig] = NoEntry
    BY <1>j DEF Unrecorded
  <2>3. PICK b : /\ job' = [job EXCEPT ![j] = b]
                 /\ \/ b = FreeJob \/ b = OneAttemptLess(job[j])
                    \/ b = AtPhase(job[j], "redelete")
                    \/ b = AtPhase(job[j], "mapping") /\ audit[job[j].orig] = NoEntry
                    \/ b = AtPhase(job[j], "create") /\ job[j].phase = "mapping"
                    \/ \E c : b = Holding(job[j], c) /\ job[j].phase = "create"
    <3>1. CASE Lookup(j) BY <3>1 DEF Lookup
    <3>2. CASE CheckMapping(j) BY <3>2 DEF CheckMapping, Finish
    <3>3. CASE Create(j) BY <3>3 DEF Create
    <3> QED BY <1>4, <3>1, <3>2, <3>3
  <2>4. \/ b.phase \in {"free", "waiting", "exhausted", "redelete"}
        \/ b.orig = job[j].orig /\ audit[job[j].orig] = NoEntry
    <3>1. /\ FreeJob.phase = "free" /\ OneAttemptLess(job[j]).phase \in {"waiting", "exhausted"}
          /\ \A p : AtPhase(job[j], p).phase = p /\ AtPhase(job[j], p).orig = job[j].orig
          /\ \A c : Holding(job[j], c).orig = job[j].orig
      BY DEF FreeJob, OneAttemptLess, AtPhase, Holding
    <3> QED BY <2>2, <2>3, <3>1
  <2> QED BY <2>1, <2>3, <2>4, SoloJob DEF Unrecorded
<1>5. ASSUME NEW j \in Job, Record(j) PROVE SoloInv'
  <2>1. Active(j) /\ audit[job[j].orig] = NoEntry
    BY <1>5, <1>j DEF Record, Active, Unrecorded
  <2>2. job' = [job EXCEPT ![j] = AtPhase(job[j], "delete")] BY <1>5, <2>1 DEF Record
  <2>3. \A k \in Job : job'[k] = IF k = j THEN AtPhase(job[j], "delete") ELSE job[k]
    BY <2>2 DEF TypeOK
  <2>4. \A k \in Job : Active(k) => k = j BY <2>1 DEF SoloInv
  <2>5. \A k \in Job : Active(k)' => k = j BY <2>3, <2>4 DEF Active
  <2>6. \A k \in Job : job'[k].phase \notin Unrecorded
    BY <2>3, <2>4 DEF Active, AtPhase, Unrecorded
  <2> QED BY <2>5, <2>6 DEF SoloInv
<1>6. ASSUME NEW j \in Job,
             DeleteOriginal(j) \/ Upsert(j) \/ Drop(j) \/ WriteLetter(j)
             \/ CallFails(j) \/ JobStalls(j)
      PROVE  SoloInv'
  <2>1. audit' = audit
    BY <1>6 DEF DeleteOriginal, Upsert, Drop, WriteLetter, CallFails, JobStalls
  <2>2. PICK b : /\ job' = [job EXCEPT ![j] = b]
                 /\ \/ b = FreeJob \/ b = OneAttemptLess(job[j]) \/ b = Stalled(job[j])
                    \/ Active(j) /\ \E p \in {"upsert", "redrop", "drop"} : b = AtPhase(job[j], p)
    <3>1. CASE DeleteOriginal(j) \/ Upsert(j) \/ Drop(j)
      BY <3>1 DEF DeleteOriginal, AfterDelete, Upsert, Drop, Finish, Active
    <3>2. CASE WriteLetter(j) \/ CallFails(j) \/ JobStalls(j)
      BY <3>2 DEF WriteLetter, CallFails, JobStalls, Finish
    <3> QED BY <1>6, <3>1, <3>2
  <2>3. \/ b.phase \in {"free", "waiting", "exhausted"}
        \/ Active(j) /\ b.phase \notin Unrecorded
    BY <2>2 DEF FreeJob, OneAttemptLess, Stalled, AtPhase, Unrecorded
  <2> QED BY <2>1, <2>2, <2>3, SoloJob
<1>u. CASE UNCHANGED <<job, audit>> BY <1>u, SoloAdds
<1> QED
  BY <1>u, <1>1, <1>2, <1>3, <1>4, <1>5, <1>6
  DEF Next, vars, LogEntry, Evict, UserDeletes, ToggleMapping, BackfillScan, SyncFetch,
      SyncResolve, SyncUpsert, SyncPrune, SyncTags, SyncDone, SyncFails

(* A window opens, or an attempt ends with a copy in hand.                 *)
LEMMA Widens ==
  ASSUME TypeOK, \A o \in Original : gap[o] \subseteq ExposedTo,
         NEW p, NEW w \in ExposedTo, gap' = [gap EXCEPT ![p] = @ \cup {w}]
  PROVE  \A o \in Original : gap'[o] \subseteq ExposedTo
BY DEF TypeOK

LEMMA OrphanExposed ==
  ASSUME TypeOK, JobsOK, \A o \in Original : gap[o] \subseteq ExposedTo,
         NEW j \in Job, Active(j), "unrecorded" \in ExposedTo
  PROVE  /\ Orphaned(j) \in [Original -> SUBSET GapKind] /\ job[j].orig \in Original
         /\ \A o \in Original : Orphaned(j)[o] \subseteq ExposedTo
<1>1. job[j].orig \in Original BY DEF JobsOK, GoodJob, Active
<1>2. Orphaned(j) \in [Original -> SUBSET GapKind] BY <1>1, OrphanedType
<1>3. gap \in [Original -> SUBSET GapKind] BY DEF TypeOK
<1>4. \A o \in Original : Orphaned(j)[o] \subseteq ExposedTo BY <1>3 DEF Orphaned
<1> QED BY <1>1, <1>2, <1>4

LEMMA ExposedStep == TypeOK /\ JobsOK /\ ExposedInv /\ [Next]_vars => ExposedInv'
<1> SUFFICES ASSUME TypeOK, JobsOK, ExposedInv, [Next]_vars
             PROVE  \A o \in Original : gap'[o] \subseteq ExposedTo
  BY SoloStep DEF ExposedInv
<1> DEFINE Goal == \A o \in Original : gap'[o] \subseteq ExposedTo
<1>g. \A o \in Original : gap[o] \subseteq ExposedTo BY DEF ExposedInv
<1>s. Workers = 1 => SoloInv BY DEF ExposedInv
<1>u. CASE gap' = gap BY <1>u, <1>g
<1>w. ASSUME NEW p, NEW w \in ExposedTo, gap' = [gap EXCEPT ![p] = @ \cup {w}] PROVE Goal
  BY <1>w, <1>g, Widens
<1>1. ASSUME NEW j \in Job, Take(j) PROVE Goal
  <2>1. CASE Workers = 1
    <3>1. gap' = gap BY <1>1, <2>1, <1>s, TakenAlone DEF Take
    <3> QED BY <3>1, <1>u
  <2>2. CASE Workers # 1
    <3>1. "parallel" \in ExposedTo BY <2>2 DEF ExposedTo
    <3>2. gap' = gap \/ \E p : gap' = [gap EXCEPT ![p] = @ \cup {"parallel"}] BY <1>1 DEF Take
    <3> QED BY <3>1, <3>2, <1>u, <1>w
  <2> QED BY <2>1, <2>2
<1>2. ASSUME NEW j \in Job, Create(j) PROVE Goal
  <2>1. "answer" \in Faults => "unrecorded" \in ExposedTo BY DEF ExposedTo
  <2>2. \/ gap' = gap
        \/ "answer" \in Faults /\ \E p : gap' = [gap EXCEPT ![p] = @ \cup {"unrecorded"}]
    BY <1>2 DEF Create
  <2> QED BY <2>1, <2>2, <1>u, <1>w
<1>3. ASSUME NEW j \in Job, Record(j) PROVE Goal
  <2>1. CASE Workers = 1
    <3>1. audit[job[j].orig] = NoEntry BY <1>3, <2>1, <1>s DEF SoloInv, Record, Unrecorded
    <3>2. gap' = gap BY <1>3, <3>1 DEF Record
    <3> QED BY <3>2, <1>u
  <2>2. CASE Workers # 1
    <3>1. "unrecorded" \in ExposedTo BY <2>2 DEF ExposedTo
    <3>2. gap' = gap \/ \E p : gap' = [gap EXCEPT ![p] = @ \cup {"unrecorded"}]
      BY <1>3 DEF Record, Orphaned
    <3> QED BY <3>1, <3>2, <1>u, <1>w
  <2> QED BY <2>1, <2>2
<1>4. ASSUME NEW j \in Job, CallFails(j) PROVE Goal
  <2>1. "unrecorded" \in ExposedTo BY <1>4 DEF ExposedTo, CallFails
  <2> QED BY <1>4, <2>1, <1>g, OrphanExposed DEF CallFails
<1>5. ASSUME NEW j \in Job, JobStalls(j) PROVE Goal
  <2>1. {"unrecorded", "stalled_out"} \subseteq ExposedTo BY <1>5 DEF ExposedTo, JobStalls
  <2>2. /\ Orphaned(j) \in [Original -> SUBSET GapKind] /\ job[j].orig \in Original
        /\ \A o \in Original : Orphaned(j)[o] \subseteq ExposedTo
    BY <1>5, <2>1, <1>g, OrphanExposed DEF JobStalls
  <2>3. \/ gap' = Orphaned(j)
        \/ gap' = [Orphaned(j) EXCEPT ![job[j].orig] = @ \cup {"stalled_out"}]
    BY <1>5 DEF JobStalls
  <2> HIDE DEF Goal
  <2>4. \A o \in Original : gap'[o] \subseteq Orphaned(j)[o] \cup {"stalled_out"}
    BY <2>2, <2>3
  <2> QED BY <2>1, <2>2, <2>4 DEF Goal
<1>6. ASSUME NEW j \in Job, WriteLetter(j) PROVE Goal
  <2>1. Faults \cap {"letter", "crash"} # {} => "letter_lost" \in ExposedTo BY DEF ExposedTo
  <2>2. \/ gap' = gap
        \/ /\ Faults \cap {"letter", "crash"} # {}
           /\ \E p : gap' = [gap EXCEPT ![p] = @ \cup {"letter_lost"}]
    BY <1>6 DEF WriteLetter
  <2> QED BY <2>1, <2>2, <1>u, <1>w
<1>7. ASSUME NEW s \in Sync, SyncUpsert(s) PROVE Goal
  <2>1. "late_upsert" \in ExposedTo BY DEF ExposedTo
  <2>2. gap' = gap \/ \E p : gap' = [gap EXCEPT ![p] = @ \cup {"late_upsert"}]
    BY <1>7 DEF SyncUpsert
  <2> QED BY <2>1, <2>2, <1>u, <1>w
<1> QED
  BY <1>u, <1>1, <1>2, <1>3, <1>4, <1>5, <1>6, <1>7
  DEF Next, vars, LogEntry, BackfillAdd, DeadRetry, Evict, UserDeletes, ToggleMapping,
      BackfillScan, Lookup, CheckMapping, DeleteOriginal, Upsert, Drop, SyncFetch, SyncResolve,
      SyncPrune, SyncTags, SyncEnqueue, SyncDone, SyncFails

(* Each window of OneCopy, CountedOnce and OriginalRemoved is the work of  *)
(* what it is named for and of nothing else that the worker, the syncs or  *)
(* an administrator do, in whatever order, through every dead letter that  *)
(* is retried and every job that is queued twice.                          *)
THEOREM WindowsNeedFaults == Spec => [](\A o \in Original : gap[o] \subseteq ExposedTo)
<1>1. Init => ExposedInv
  <2> SUFFICES ASSUME Init PROVE ExposedInv OBVIOUS
  <2>1. \A j \in Job : job[j].phase = "free" BY DEF Init, FreeJob
  <2>2. \A o \in Original : gap[o] = {} BY DEF Init
  <2> QED BY <2>1, <2>2 DEF ExposedInv, SoloInv, Active, Unrecorded
<1>2. TypeOK /\ JobsOK /\ SyncsOK /\ ExposedInv /\ [Next]_vars
        => (TypeOK /\ JobsOK /\ SyncsOK /\ ExposedInv)'
  BY TypeStep, ExposedStep
<1>3. ExposedInv => \A o \in Original : gap[o] \subseteq ExposedTo BY DEF ExposedInv
<1> QED BY <1>1, <1>2, <1>3, TypeInit, PTL DEF Spec

(* What the comment on the enqueue promises, with what it takes: with one  *)
(* worker, no crash, no failing call and no lost answer, an entry never    *)
(* has two copies, however often it is queued, retried from a dead letter  *)
(* or evicted from Redis, and with syncs, users and administrators as they *)
(* please.  That a job runs alone is not enough: the answer is needed too. *)
THEOREM OneCopyUnexposed ==
  ASSUME Workers = 1, Faults \subseteq {"letter", "task", "truncation"}
  PROVE  Spec => []OneCopyPerEntry
<1>1. {"unrecorded", "parallel"} \cap ExposedTo = {} BY DEF ExposedTo
<1>2. OneCopy /\ (\A o \in Original : gap[o] \subseteq ExposedTo) => OneCopyPerEntry
  BY <1>1 DEF OneCopy, OneCopyPerEntry, Windowed
<1> QED BY <1>2, ReplacedOnce, WindowsNeedFaults, PTL
=============================================================================
