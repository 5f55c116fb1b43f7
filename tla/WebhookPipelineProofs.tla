------------------------ MODULE WebhookPipelineProofs ------------------------
(***************************************************************************)
(* Theorems about WebhookPipeline, for any set of events, deliveries, jobs *)
(* and admin requests, any number of attempts and any faults.              *)
(***************************************************************************)
EXTENDS WebhookPipeline, TLAPS

(* What the records written into a job slot look like.                     *)
LEMMA NewJobGood ==
  ASSUME NEW e \in Event, NEW keyed \in BOOLEAN, NEW n \in {WebhookAttempts, JobAttempts}
  PROVE  NewJob(e, keyed, n) \in JobRecord /\ GoodJob(NewJob(e, keyed, n))
<1>1. n \in 0..MaxAttempts /\ n >= 1
  BY ConstantAssumption DEF MaxAttempts
<1>2. 0 \in 0..MaxStalls
  BY ConstantAssumption
<1> QED BY <1>1, <1>2 DEF NewJob, JobRecord, Phase, GoodJob

LEMMA EmptySlots ==
  /\ FreeJob \in JobRecord /\ GoodJob(FreeJob)
  /\ IdleReq \in ReqRecord /\ IdleReq.pc = "idle"
  /\ NoLetter \in LetterRecord /\ NoLetter.ev = NoEvent
<1>1. 0 \in 0..MaxStalls /\ 0 \in 0..MaxAttempts
  BY ConstantAssumption DEF MaxAttempts
<1> QED
  BY <1>1 DEF FreeJob, IdleReq, NoLetter, JobRecord, ReqRecord, LetterRecord, Phase, GoodJob

LEMMA AtPhaseGood ==
  ASSUME NEW b \in JobRecord, NEW p \in Phase, b.ev \in Event,
         b.left >= 1 \/ p = "lettered"
  PROVE  AtPhase(b, p) \in JobRecord /\ GoodJob(AtPhase(b, p))
BY DEF AtPhase, JobRecord, GoodJob

LEMMA OneAttemptLessGood ==
  ASSUME NEW b \in JobRecord, b.ev \in Event, b.left >= 1
  PROVE  OneAttemptLess(b) \in JobRecord /\ GoodJob(OneAttemptLess(b))
<1>1. MaxAttempts \in Nat
  BY ConstantAssumption DEF MaxAttempts
<1> QED BY <1>1 DEF OneAttemptLess, JobRecord, Phase, GoodJob

LEMMA StalledGood ==
  ASSUME NEW b \in JobRecord, b.ev \in Event, b.left >= 1, b.stalls < MaxStalls
  PROVE  Stalled(b) \in JobRecord /\ GoodJob(Stalled(b))
<1>1. MaxStalls \in Nat
  BY ConstantAssumption
<1> QED BY <1>1 DEF Stalled, JobRecord, Phase, GoodJob

(* Writing a good record into one slot keeps all slots good.               *)
LEMMA JobUpdate ==
  ASSUME job \in [Job -> JobRecord], \A k \in Job : GoodJob(job[k]),
         NEW j \in Job, NEW b, b \in JobRecord /\ GoodJob(b),
         job' = [job EXCEPT ![j] = b]
  PROVE  job' \in [Job -> JobRecord] /\ \A k \in Job : GoodJob(job'[k])
<1>1. \A k \in Job : job'[k] = IF k = j THEN b ELSE job[k]
  OBVIOUS
<1>2. job' \in [Job -> JobRecord]
  OBVIOUS
<1> QED BY <1>1, <1>2

LEMMA RecordFields ==
  /\ \A x \in ReqRecord : /\ x.ev \in Event \cup {NoEvent}
                          /\ [pc |-> "mark_failed", ev |-> x.ev] \in ReqRecord
  /\ \A e \in Event : [pc |-> "enqueue", ev |-> e] \in ReqRecord
  /\ \A x \in LetterRecord : x.ev \in Event \cup {NoEvent} /\ x.keyed \in BOOLEAN
  /\ \A b \in JobRecord :
       [ev |-> b.ev, keyed |-> b.keyed, retried |-> FALSE, resolved |-> FALSE] \in LetterRecord
BY DEF ReqRecord, LetterRecord, JobRecord

LEMMA LetterRecordSteps ==
  ASSUME NEW x \in LetterRecord
  PROVE  /\ Retried(x) \in LetterRecord /\ Retried(x).ev = x.ev /\ Retried(x).retried
         /\ Resolved(x) \in LetterRecord /\ Resolved(x).ev = x.ev
         /\ Resolved(x).retried = x.retried
BY DEF Retried, Resolved, LetterRecord

(* The phases a job moves through are phases, and none of them is "free".  *)
LEMMA NextPhases ==
  ASSUME NEW e
  PROVE  /\ FirstPhase(e) \in Phase /\ AfterHistory(e) \in Phase /\ AfterTask(e) \in Phase
         /\ FirstPhase(e) \notin {"free", "waiting", "exhausted", "lettered"}
         /\ AfterHistory(e) \notin {"free", "waiting", "exhausted", "lettered"}
         /\ AfterTask(e) \notin {"free", "waiting", "exhausted", "lettered"}
         /\ TaskFollowUp(e) \in FollowUp
BY DEF FirstPhase, AfterHistory, AfterTask, TaskFollowUp, FollowUp, Phase

LEMMA CountUp ==
  ASSUME NEW f \in [Event -> Nat], NEW e \in Event
  PROVE  [f EXCEPT ![e] = @ + 1] \in [Event -> Nat]
OBVIOUS

(* TypeOK and SlotsOK together are inductive.                              *)
LEMMA TypeStep == TypeOK /\ SlotsOK /\ [Next]_vars => TypeOK' /\ SlotsOK'
<1> SUFFICES ASSUME TypeOK, SlotsOK, [Next]_vars PROVE TypeOK' /\ SlotsOK'
  OBVIOUS
<1> USE ConstantAssumption
<1> DEFINE JobsGood == job \in [Job -> JobRecord] /\ \A k \in Job : GoodJob(job[k])
<1>a. JobsGood
  BY DEF TypeOK, SlotsOK
<1>1. CASE UNCHANGED vars
  BY <1>1 DEF TypeOK, SlotsOK, vars
<1>2. ASSUME NEW r \in Request, NEW e \in Event, ReceiveSave(r, e)
      PROVE  TypeOK' /\ SlotsOK'
  <2>t. TypeOK'
    BY <1>2, RecordFields DEF ReceiveSave, TypeOK, SlotsOK, Status
  <2>s. SlotsOK'
    BY <1>2, RecordFields DEF ReceiveSave, TypeOK, SlotsOK
  <2> QED BY <2>t, <2>s
<1>3. ASSUME NEW r \in Request, ReceiveEnqueue(r)
      PROVE  TypeOK' /\ SlotsOK'
  <2>1. req[r].ev \in Event
    BY <1>3 DEF ReceiveEnqueue, SlotsOK
  <2>2. PICK j \in Job : job' = [job EXCEPT ![j] = NewJob(req[r].ev, TRUE, WebhookAttempts)]
    BY <1>3 DEF ReceiveEnqueue
  <2>j. JobsGood'
    BY <1>a, <2>1, <2>2, NewJobGood, JobUpdate
  <2>t. TypeOK'
    <3>1. admitted' \in [Event -> Nat]
      BY <1>3, <2>1, CountUp DEF ReceiveEnqueue, TypeOK
    <3>2. req' \in [Request -> ReqRecord]
      BY <1>3, EmptySlots DEF ReceiveEnqueue, TypeOK
    <3> QED BY <1>3, <2>j, <3>1, <3>2 DEF ReceiveEnqueue, TypeOK
  <2>s. SlotsOK'
    BY <1>3, <2>j, EmptySlots DEF ReceiveEnqueue, TypeOK, SlotsOK
  <2> QED BY <2>t, <2>s
<1>4. ASSUME NEW r \in Request, ReceiveEnqueueFails(r)
      PROVE  TypeOK' /\ SlotsOK'
  <2>1. req[r].ev \in Event
    BY <1>4 DEF ReceiveEnqueueFails, SlotsOK
  <2>2. ASSUME NEW j \in Job,
               job' = [job EXCEPT ![j] = NewJob(req[r].ev, TRUE, WebhookAttempts)]
        PROVE  JobsGood'
    BY <1>a, <2>1, <2>2, NewJobGood, JobUpdate
  <2>j. JobsGood'
    BY <1>4, <1>a, <2>2 DEF ReceiveEnqueueFails
  <2>t. TypeOK'
    <3>1. req' \in [Request -> ReqRecord]
      BY <1>4, RecordFields DEF ReceiveEnqueueFails, TypeOK
    <3>2. admitted' \in [Event -> Nat]
      <4>1. \/ admitted' = admitted
            \/ admitted' = [admitted EXCEPT ![req[r].ev] = @ + 1]
        BY <1>4 DEF ReceiveEnqueueFails
      <4> QED BY <4>1, <2>1, CountUp DEF TypeOK
    <3> QED BY <1>4, <2>j, <3>1, <3>2 DEF ReceiveEnqueueFails, TypeOK
  <2>s. SlotsOK'
    BY <1>4, <2>j, RecordFields DEF ReceiveEnqueueFails, TypeOK, SlotsOK
  <2> QED BY <2>t, <2>s
<1>5. ASSUME NEW r \in Request, ReceiveMarkFailed(r)
      PROVE  TypeOK' /\ SlotsOK'
  <2>t. TypeOK'
    <3>1. req' \in [Request -> ReqRecord]
      BY <1>5, EmptySlots DEF ReceiveMarkFailed, TypeOK
    <3>2. row' \in [Event -> Status] /\ gap' \in [Event -> SUBSET GapKind]
      BY <1>5 DEF ReceiveMarkFailed, TypeOK, Status, GapKind
    <3> QED BY <1>5, <3>1, <3>2 DEF ReceiveMarkFailed, TypeOK
  <2>s. SlotsOK'
    BY <1>5, EmptySlots DEF ReceiveMarkFailed, TypeOK, SlotsOK
  <2> QED BY <2>t, <2>s
<1>6. ASSUME NEW r \in Request, ReceiveCrash(r)
      PROVE  TypeOK' /\ SlotsOK'
  <2>t. TypeOK'
    BY <1>6, EmptySlots DEF ReceiveCrash, TypeOK, SlotsOK, GapKind
  <2>s. SlotsOK'
    BY <1>6, EmptySlots DEF ReceiveCrash, TypeOK, SlotsOK
  <2> QED BY <2>t, <2>s
<1>7. ASSUME NEW j \in Job, Take(j)
      PROVE  TypeOK' /\ SlotsOK'
  <2>1. job[j] \in JobRecord /\ job[j].ev \in Event /\ job[j].left >= 1
    BY <1>7, <1>a DEF Take, GoodJob
  <2>2. job' = [job EXCEPT ![j] = AtPhase(job[j], FirstPhase(job[j].ev))]
    BY <1>7 DEF Take
  <2>j. JobsGood'
    BY <1>a, <2>1, <2>2, AtPhaseGood, NextPhases, JobUpdate DEF Phase
  <2>t. TypeOK'
    BY <1>7, <2>j DEF Take, TypeOK, SlotsOK
  <2>s. SlotsOK'
    BY <1>7, <2>j DEF Take, TypeOK, SlotsOK
  <2> QED BY <2>t, <2>s
<1>8. ASSUME NEW j \in Job, PersistHistory(j)
      PROVE  TypeOK' /\ SlotsOK'
  <2>1. job[j] \in JobRecord /\ job[j].ev \in Event /\ job[j].left >= 1
    BY <1>8, <1>a DEF PersistHistory, GoodJob
  <2>2. job' = [job EXCEPT ![j] = AtPhase(job[j], AfterHistory(job[j].ev))]
    BY <1>8 DEF PersistHistory
  <2>j. JobsGood'
    BY <1>a, <2>1, <2>2, AtPhaseGood, NextPhases, JobUpdate DEF Phase
  <2>t. TypeOK'
    BY <1>8, <2>j DEF PersistHistory, TypeOK, SlotsOK
  <2>s. SlotsOK'
    BY <1>8, <2>j DEF PersistHistory, TypeOK, SlotsOK
  <2> QED BY <2>t, <2>s
<1>9. ASSUME NEW j \in Job, QueueTask(j)
      PROVE  TypeOK' /\ SlotsOK'
  <2>1. job[j] \in JobRecord /\ job[j].ev \in Event /\ job[j].left >= 1
    BY <1>9, <1>a DEF QueueTask, GoodJob
  <2>2. job' = [job EXCEPT ![j] = AtPhase(job[j], AfterTask(job[j].ev))]
    BY <1>9 DEF QueueTask
  <2>j. JobsGood'
    BY <1>a, <2>1, <2>2, AtPhaseGood, NextPhases, JobUpdate DEF Phase
  <2>t. TypeOK'
    <3>1. TaskFollowUp(job[j].ev) \in FollowUp
      BY NextPhases
    <3> QED BY <1>9, <2>j, <3>1 DEF QueueTask, TypeOK
  <2>s. SlotsOK'
    BY <1>9, <2>j DEF QueueTask, TypeOK, SlotsOK
  <2> QED BY <2>t, <2>s
<1>10. ASSUME NEW j \in Job, QueueTime(j)
      PROVE  TypeOK' /\ SlotsOK'
  <2>1. job[j] \in JobRecord /\ job[j].ev \in Event /\ job[j].left >= 1
    BY <1>10, <1>a DEF QueueTime, GoodJob
  <2>2. job' = [job EXCEPT ![j] = AtPhase(job[j], "mark")]
    BY <1>10 DEF QueueTime
  <2>j. JobsGood'
    BY <1>a, <2>1, <2>2, AtPhaseGood, NextPhases, JobUpdate DEF Phase
  <2>t. TypeOK'
    BY <1>10, <2>j DEF QueueTime, TypeOK, SlotsOK, FollowUp
  <2>s. SlotsOK'
    BY <1>10, <2>j DEF QueueTime, TypeOK, SlotsOK
  <2> QED BY <2>t, <2>s
<1>11. ASSUME NEW j \in Job, AttemptFails(j)
      PROVE  TypeOK' /\ SlotsOK'
  <2>1. job[j] \in JobRecord /\ job[j].ev \in Event /\ job[j].left >= 1
    BY <1>11, <1>a DEF AttemptFails, GoodJob
  <2>2. job' = [job EXCEPT ![j] = OneAttemptLess(job[j])]
    BY <1>11 DEF AttemptFails
  <2>j. JobsGood'
    BY <1>a, <2>1, <2>2, OneAttemptLessGood, JobUpdate
  <2>t. TypeOK'
    BY <1>11, <2>j DEF AttemptFails, TypeOK, SlotsOK
  <2>s. SlotsOK'
    BY <1>11, <2>j DEF AttemptFails, TypeOK, SlotsOK
  <2> QED BY <2>t, <2>s
<1>12. ASSUME NEW j \in Job, MarkProcessed(j)
      PROVE  TypeOK' /\ SlotsOK'
  <2>j. JobsGood'
    BY <1>12, <1>a, EmptySlots, JobUpdate DEF MarkProcessed
  <2>t. TypeOK'
    BY <1>12, <2>j DEF MarkProcessed, TypeOK, SlotsOK, Status, GapKind
  <2>s. SlotsOK'
    BY <1>12, <2>j DEF MarkProcessed, TypeOK, SlotsOK
  <2> QED BY <2>t, <2>s
<1>13. ASSUME NEW j \in Job, WriteLetter(j)
      PROVE  TypeOK' /\ SlotsOK'
  <2>1. job[j] \in JobRecord /\ job[j].ev \in Event
    BY <1>13, <1>a DEF WriteLetter, GoodJob
  <2>2. ASSUME job' = [job EXCEPT ![j] = AtPhase(job[j], "lettered")]
        PROVE  JobsGood'
    BY <1>a, <2>1, <2>2, AtPhaseGood, JobUpdate DEF Phase
  <2>3. ASSUME job' = [job EXCEPT ![j] = FreeJob]
        PROVE  JobsGood'
    BY <1>a, <2>3, EmptySlots, JobUpdate
  <2>j. JobsGood'
    BY <1>13, <2>2, <2>3 DEF WriteLetter
  <2>t. TypeOK'
    BY <1>13, <2>j, <2>1, RecordFields DEF WriteLetter, TypeOK, SlotsOK, GapKind
  <2>s. SlotsOK'
    BY <1>13, <2>j, <2>1, RecordFields DEF WriteLetter, TypeOK, SlotsOK
  <2> QED BY <2>t, <2>s
<1>14. ASSUME NEW j \in Job, MarkExhausted(j)
      PROVE  TypeOK' /\ SlotsOK'
  <2>j. JobsGood'
    BY <1>14, <1>a, EmptySlots, JobUpdate DEF MarkExhausted
  <2>t. TypeOK'
    BY <1>14, <2>j DEF MarkExhausted, TypeOK, SlotsOK, Status
  <2>s. SlotsOK'
    BY <1>14, <2>j DEF MarkExhausted, TypeOK, SlotsOK
  <2> QED BY <2>t, <2>s
<1>15. ASSUME NEW j \in Job, JobStalls(j)
      PROVE  TypeOK' /\ SlotsOK'
  <2>1. job[j] \in JobRecord /\ job[j].ev \in Event /\ job[j].left >= 1
    BY <1>15, <1>a DEF JobStalls, Active, GoodJob
  <2>2. ASSUME job[j].stalls < MaxStalls /\ job' = [job EXCEPT ![j] = Stalled(job[j])]
        PROVE  JobsGood'
    BY <1>a, <2>1, <2>2, StalledGood, JobUpdate
  <2>3. ASSUME job' = [job EXCEPT ![j] = FreeJob]
        PROVE  JobsGood'
    BY <1>a, <2>3, EmptySlots, JobUpdate
  <2>4. ASSUME job' = [job EXCEPT ![j] = OneAttemptLess(job[j])]
        PROVE  JobsGood'
    BY <1>a, <2>1, <2>4, OneAttemptLessGood, JobUpdate
  <2>j. JobsGood'
    BY <1>15, <2>2, <2>3, <2>4 DEF JobStalls
  <2>t. TypeOK'
    BY <1>15, <2>j DEF JobStalls, TypeOK, SlotsOK, GapKind
  <2>s. SlotsOK'
    BY <1>15, <2>j DEF JobStalls, TypeOK, SlotsOK
  <2> QED BY <2>t, <2>s
<1>16. ASSUME NEW j \in Job, HookCrash(j)
      PROVE  TypeOK' /\ SlotsOK'
  <2>j. JobsGood'
    BY <1>16, <1>a, EmptySlots, JobUpdate DEF HookCrash
  <2>t. TypeOK'
    BY <1>16, <2>j DEF HookCrash, TypeOK, SlotsOK, GapKind
  <2>s. SlotsOK'
    BY <1>16, <2>j DEF HookCrash, TypeOK, SlotsOK
  <2> QED BY <2>t, <2>s
<1>17. ASSUME NEW a \in RetryAdmin, RetryScan(a)
      PROVE  TypeOK' /\ SlotsOK'
  <2>t. TypeOK'
    BY <1>17 DEF RetryScan, TypeOK, SlotsOK
  <2>s. SlotsOK'
    BY <1>17 DEF RetryScan, TypeOK, SlotsOK
  <2> QED BY <2>t, <2>s
<1>18. ASSUME NEW a \in RetryAdmin, RetryEnqueue(a)
      PROVE  TypeOK' /\ SlotsOK'
  <2>1. PICK e \in retry[a].todo, j \in Job :
          job' = [job EXCEPT ![j] = NewJob(e, e \notin Unstable, WebhookAttempts)]
    BY <1>18 DEF RetryEnqueue
  <2>2. e \in Event
    BY DEF TypeOK
  <2>j. JobsGood'
    BY <1>a, <2>1, <2>2, NewJobGood, JobUpdate
  <2>t. TypeOK'
    BY <1>18, <2>j DEF RetryEnqueue, TypeOK, SlotsOK
  <2>s. SlotsOK'
    BY <1>18, <2>j DEF RetryEnqueue, TypeOK, SlotsOK
  <2> QED BY <2>t, <2>s
<1>19. ASSUME NEW a \in RetryAdmin, RetryAborts(a)
      PROVE  TypeOK' /\ SlotsOK'
  <2>t. TypeOK'
    BY <1>19 DEF RetryAborts, TypeOK, SlotsOK
  <2>s. SlotsOK'
    BY <1>19 DEF RetryAborts, TypeOK, SlotsOK
  <2> QED BY <2>t, <2>s
<1>20. ASSUME NEW a \in RetryAdmin, RetryMark(a)
      PROVE  TypeOK' /\ SlotsOK'
  <2>t. TypeOK'
    BY <1>20 DEF RetryMark, TypeOK, SlotsOK, Status, GapKind
  <2>s. SlotsOK'
    BY <1>20 DEF RetryMark, TypeOK, SlotsOK
  <2> QED BY <2>t, <2>s
<1>21. ASSUME NEW a \in RetryAdmin, RetryCrash(a)
      PROVE  TypeOK' /\ SlotsOK'
  <2>t. TypeOK'
    BY <1>21 DEF RetryCrash, TypeOK, SlotsOK
  <2>s. SlotsOK'
    BY <1>21 DEF RetryCrash, TypeOK, SlotsOK
  <2> QED BY <2>t, <2>s
<1>22. ASSUME NEW a \in LetterAdmin, LetterPick(a)
      PROVE  TypeOK' /\ SlotsOK'
  <2>t. TypeOK'
    BY <1>22, RecordFields DEF LetterPick, TypeOK, SlotsOK, Pending
  <2>s. SlotsOK'
    BY <1>22, RecordFields DEF LetterPick, TypeOK, SlotsOK, Pending
  <2> QED BY <2>t, <2>s
<1>23. ASSUME NEW a \in LetterAdmin, LetterEnqueue(a)
      PROVE  TypeOK' /\ SlotsOK'
  <2>1. PICK l \in redeliver[a].todo, j \in Job :
          job' = [job EXCEPT ![j] = NewJob(letter[l].ev, letter[l].keyed, JobAttempts)]
    BY <1>23 DEF LetterEnqueue
  <2>2. letter[l].ev \in Event /\ letter[l].keyed \in BOOLEAN
    BY RecordFields DEF TypeOK, SlotsOK
  <2>j. JobsGood'
    BY <1>a, <2>1, <2>2, NewJobGood, JobUpdate
  <2>t. TypeOK'
    BY <1>23, <2>j DEF LetterEnqueue, TypeOK, SlotsOK
  <2>s. SlotsOK'
    BY <1>23, <2>j DEF LetterEnqueue, TypeOK, SlotsOK
  <2> QED BY <2>t, <2>s
<1>24. ASSUME NEW a \in LetterAdmin, LetterSkipped(a)
      PROVE  TypeOK' /\ SlotsOK'
  <2>t. TypeOK'
    BY <1>24 DEF LetterSkipped, TypeOK, SlotsOK
  <2>s. SlotsOK'
    BY <1>24 DEF LetterSkipped, TypeOK, SlotsOK
  <2> QED BY <2>t, <2>s
<1>25. ASSUME NEW a \in LetterAdmin, LetterMark(a)
      PROVE  TypeOK' /\ SlotsOK'
  <2>t. TypeOK'
    <3>1. letter' \in [Letter -> LetterRecord]
      BY <1>25, LetterRecordSteps DEF LetterMark, TypeOK
    <3> QED BY <1>25, <3>1 DEF LetterMark, TypeOK
  <2>s. SlotsOK'
    <3>1. \A l \in Letter : letter'[l].ev = letter[l].ev
      BY <1>25, LetterRecordSteps DEF LetterMark, TypeOK
    <3>2. \A b \in LetterAdmin : /\ redeliver'[b].todo = redeliver[b].todo
                                 /\ redeliver'[b].marking \subseteq redeliver[b].marking
      BY <1>25 DEF LetterMark, TypeOK
    <3> QED BY <1>25, <3>1, <3>2 DEF LetterMark, SlotsOK
  <2> QED BY <2>t, <2>s
<1>26. ASSUME NEW a \in LetterAdmin, LetterCrash(a)
      PROVE  TypeOK' /\ SlotsOK'
  <2>t. TypeOK'
    BY <1>26 DEF LetterCrash, TypeOK, SlotsOK
  <2>s. SlotsOK'
    BY <1>26 DEF LetterCrash, TypeOK, SlotsOK
  <2> QED BY <2>t, <2>s
<1>27. ASSUME NEW l \in Letter, LetterResolve(l)
      PROVE  TypeOK' /\ SlotsOK'
  <2>t. TypeOK'
    BY <1>27, LetterRecordSteps DEF LetterResolve, TypeOK, SlotsOK
  <2>s. SlotsOK'
    BY <1>27, LetterRecordSteps DEF LetterResolve, TypeOK, SlotsOK
  <2> QED BY <2>t, <2>s
<1> QED
  BY <1>1, <1>2, <1>3, <1>4, <1>5, <1>6, <1>7, <1>8, <1>9, <1>10, <1>11,
     <1>12, <1>13, <1>14, <1>15, <1>16, <1>17, <1>18, <1>19, <1>20, <1>21,
     <1>22, <1>23, <1>24, <1>25, <1>26, <1>27 DEF Next

LEMMA TypeInit == Init => TypeOK /\ SlotsOK
BY EmptySlots, ConstantAssumption DEF Init, TypeOK, SlotsOK, Status

(* Every variable of the pipeline keeps its type, and every used slot      *)
(* holds a real event, in every behaviour.                                 *)
THEOREM TypeCorrect == Spec => [](TypeOK /\ SlotsOK)
<1>1. Init => TypeOK /\ SlotsOK BY TypeInit
<1>2. TypeOK /\ SlotsOK /\ [Next]_vars => (TypeOK /\ SlotsOK)' BY TypeStep
<1> QED BY <1>1, <1>2, PTL DEF Spec

-----------------------------------------------------------------------------
(* Recoverable is inductive relative to the types.                         *)

LEMMA PhaseOfSteps ==
  ASSUME NEW b \in JobRecord
  PROVE  /\ \A p \in Phase : AtPhase(b, p).phase = p /\ AtPhase(b, p).ev = b.ev
         /\ OneAttemptLess(b).phase \in {"waiting", "exhausted"}
         /\ OneAttemptLess(b).ev = b.ev
         /\ Stalled(b).phase = "waiting" /\ Stalled(b).ev = b.ev
BY DEF AtPhase, OneAttemptLess, Stalled, JobRecord

(* A step that writes slot j and leaves the work of slot j for event e, if *)
(* there was any, keeps e alive.                                           *)
LEMMA LiveUpdate ==
  ASSUME TypeOK, NEW e \in Event, NEW j \in Job, NEW b,
         job' = [job EXCEPT ![j] = b],
         Working(j) /\ job[j].ev = e =>
           b.ev = e /\ b.phase \in {"history", "task", "time", "mark", "waiting", "exhausted"}
  PROVE  Live(e) => Live(e)'
BY DEF TypeOK, Live, Working, Active

(* A job put on the queue for event e makes e alive, and takes nothing     *)
(* from the events that were.                                              *)
LEMMA LiveNewJob ==
  ASSUME TypeOK, NEW j \in Job, job[j].phase = "free", NEW e, NEW keyed, NEW n,
         job' = [job EXCEPT ![j] = NewJob(e, keyed, n)]
  PROVE  Live(e)' /\ \A f \in Event : Live(f) => Live(f)'
BY DEF TypeOK, Live, Working, Active, NewJob

LEMMA RecoverableStep ==
  TypeOK /\ SlotsOK /\ Recoverable /\ [Next]_vars => Recoverable'
<1> SUFFICES ASSUME TypeOK, SlotsOK, Recoverable, [Next]_vars,
                    NEW e \in Event, row'[e] = "received", gap'[e] = {}
             PROVE  Support(e)'
  BY DEF Recoverable
<1>r. ASSUME row[e] = "received", gap[e] = {} PROVE Support(e)
  BY <1>r DEF Recoverable
<1>1. CASE UNCHANGED vars
  BY <1>1, <1>r DEF vars, Support, Live, Working, Active, Handling, OnRecord, BeingMarked
<1>2. ASSUME NEW r \in Request, NEW f \in Event, ReceiveSave(r, f)
      PROVE  Support(e)'
  <2>1. CASE e = f
    BY <1>2, <2>1 DEF ReceiveSave, TypeOK, Support, Handling
  <2>2. CASE e # f
    <3>1. Handling(e) => Handling(e)'
      BY <1>2 DEF ReceiveSave, TypeOK, Handling
    <3> QED BY <1>2, <1>r, <2>2, <3>1
            DEF ReceiveSave, TypeOK, Support, Live, Working, Active, OnRecord, BeingMarked
  <2> QED BY <2>1, <2>2
<1>3. ASSUME NEW r \in Request, ReceiveEnqueue(r)
      PROVE  Support(e)'
  <2>0. PICK f \in Event : f = req[r].ev
    BY <1>3 DEF ReceiveEnqueue, SlotsOK
  <2>1. PICK j \in Job : /\ job[j].phase = "free"
                         /\ job' = [job EXCEPT ![j] = NewJob(f, TRUE, WebhookAttempts)]
    BY <1>3, <2>0 DEF ReceiveEnqueue
  <2>2. Live(f)' /\ (Live(e) => Live(e)')
    BY <2>1, LiveNewJob
  <2>3. f # e => (Handling(e) => Handling(e)')
    BY <1>3, <2>0 DEF ReceiveEnqueue, TypeOK, Handling
  <2>4. OnRecord(e) => OnRecord(e)'
    BY <1>3 DEF ReceiveEnqueue, OnRecord, BeingMarked
  <2> QED BY <1>3, <1>r, <2>2, <2>3, <2>4 DEF ReceiveEnqueue, Support
<1>4. ASSUME NEW r \in Request, ReceiveEnqueueFails(r)
      PROVE  Support(e)'
  <2>1. Live(e) => Live(e)'
    <3>1. CASE UNCHANGED job
      BY <3>1 DEF Live, Working, Active
    <3>2. ASSUME NEW j \in Job, job[j].phase = "free",
                 job' = [job EXCEPT ![j] = NewJob(req[r].ev, TRUE, WebhookAttempts)]
          PROVE  Live(e) => Live(e)'
      BY <3>2, LiveNewJob
    <3> QED BY <1>4, <3>1, <3>2 DEF ReceiveEnqueueFails
  <2>2. Handling(e) => Handling(e)'
    BY <1>4 DEF ReceiveEnqueueFails, TypeOK, Handling
  <2>3. OnRecord(e) => OnRecord(e)'
    BY <1>4 DEF ReceiveEnqueueFails, OnRecord, BeingMarked
  <2> QED BY <1>4, <1>r, <2>1, <2>2, <2>3 DEF ReceiveEnqueueFails, Support
<1>5. ASSUME NEW r \in Request, ReceiveMarkFailed(r) \/ ReceiveCrash(r)
      PROVE  Support(e)'
  <2>0. req[r].ev \in Event
    BY <1>5 DEF ReceiveMarkFailed, ReceiveCrash, SlotsOK
  <2>1. req[r].ev # e
    <3>1. \/ row' = [row EXCEPT ![req[r].ev] = "failed"]
          \/ \E g \in GapKind : gap' = [gap EXCEPT ![req[r].ev] = @ \cup {g}]
      BY <1>5 DEF ReceiveMarkFailed, ReceiveCrash, GapKind
    <3>2. ASSUME NEW g \in GapKind, gap' = [gap EXCEPT ![req[r].ev] = @ \cup {g}]
          PROVE  g \in gap'[req[r].ev]
      BY <2>0, <3>2 DEF TypeOK
    <3>3. row' = [row EXCEPT ![req[r].ev] = "failed"] => row'[req[r].ev] = "failed"
      BY <2>0 DEF TypeOK
    <3> QED BY <3>1, <3>2, <3>3
  <2>2. row'[e] = row[e] /\ gap'[e] = gap[e]
    BY <1>5, <2>0, <2>1 DEF ReceiveMarkFailed, ReceiveCrash, TypeOK
  <2>3. Handling(e) => Handling(e)'
    BY <1>5, <2>1 DEF ReceiveMarkFailed, ReceiveCrash, TypeOK, Handling
  <2> QED BY <1>5, <1>r, <2>2, <2>3
          DEF ReceiveMarkFailed, ReceiveCrash, Support, Live, Working, Active, OnRecord,
              BeingMarked
<1>6. ASSUME NEW j \in Job,
             Take(j) \/ PersistHistory(j) \/ QueueTask(j) \/ QueueTime(j) \/ AttemptFails(j)
      PROVE  Support(e)'
  <2>1. PICK b : /\ job' = [job EXCEPT ![j] = b]
                 /\ b.ev = job[j].ev
                 /\ b.phase \in {"history", "task", "time", "mark", "waiting", "exhausted"}
    <3>1. job[j] \in JobRecord
      BY DEF TypeOK
    <3> QED BY <1>6, <3>1, PhaseOfSteps, NextPhases
            DEF Take, PersistHistory, QueueTask, QueueTime, AttemptFails, Phase
  <2>2. Live(e) => Live(e)'
    BY <2>1, LiveUpdate
  <2> QED BY <1>6, <1>r, <2>2
          DEF Take, PersistHistory, QueueTask, QueueTime, AttemptFails, Support, Handling,
              OnRecord, BeingMarked
<1>7. ASSUME NEW j \in Job, MarkProcessed(j)
      PROVE  Support(e)'
  <2>0. job[j].ev \in Event
    BY <1>7 DEF MarkProcessed, SlotsOK, GoodJob
  <2>1. job[j].ev # e
    <3>1. SUFFICES ASSUME job[j].ev = e
                   PROVE  FALSE
      OBVIOUS
    <3>2. CASE row' = [row EXCEPT ![e] = "processed"]
      BY <2>0, <3>1, <3>2 DEF TypeOK
    <3>3. CASE gap' = [gap EXCEPT ![e] = @ \cup {"processed_mark_lost"}]
      BY <2>0, <3>1, <3>3 DEF TypeOK
    <3> QED BY <1>7, <3>1, <3>2, <3>3 DEF MarkProcessed
  <2>2. Live(e) => Live(e)'
    BY <1>7, <2>1, LiveUpdate DEF MarkProcessed
  <2>3. row[e] = "received" /\ gap[e] = {}
    BY <1>7, <2>0, <2>1 DEF MarkProcessed, TypeOK
  <2> QED BY <1>7, <1>r, <2>2, <2>3 DEF MarkProcessed, Support, Handling, OnRecord, BeingMarked
<1>8. ASSUME NEW j \in Job, WriteLetter(j)
      PROVE  Support(e)'
  <2>0. job[j].ev \in Event
    BY <1>8 DEF WriteLetter, SlotsOK, GoodJob
  <2>1. row[e] = "received" /\ gap[e] = {}
    BY <1>8, <2>0 DEF WriteLetter, TypeOK
  <2>2. CASE \E l \in Letter :
          /\ letter[l].ev = NoEvent
          /\ letter' = [letter EXCEPT ![l] =
               [ev |-> job[j].ev, keyed |-> job[j].keyed, retried |-> FALSE, resolved |-> FALSE]]
          /\ job' = [job EXCEPT ![j] = AtPhase(@, "lettered")]
    <3>1. PICK l \in Letter :
          /\ letter[l].ev = NoEvent
          /\ letter' = [letter EXCEPT ![l] =
               [ev |-> job[j].ev, keyed |-> job[j].keyed, retried |-> FALSE, resolved |-> FALSE]]
          /\ job' = [job EXCEPT ![j] = AtPhase(@, "lettered")]
      BY <2>2
    <3>2. ~BeingMarked(l) /\ UNCHANGED redeliver
      BY <1>8, <3>1, ConstantAssumption DEF WriteLetter, BeingMarked, SlotsOK
    <3>3. job[j].ev = e => OnRecord(e)'
      BY <3>1, <3>2 DEF OnRecord, BeingMarked, TypeOK
    <3>4. OnRecord(e) => OnRecord(e)'
      BY <3>1, <3>2, ConstantAssumption DEF OnRecord, BeingMarked, TypeOK
    <3>5. job[j].ev # e => (Live(e) => Live(e)')
      BY <3>1, LiveUpdate
    <3> QED BY <1>8, <1>r, <2>1, <3>3, <3>4, <3>5 DEF WriteLetter, Support, Handling
  <2>3. CASE /\ gap' = [gap EXCEPT ![job[j].ev] = @ \cup {"letter_lost"}]
             /\ job' = [job EXCEPT ![j] = FreeJob]
             /\ UNCHANGED letter
    <3>1. job[j].ev # e
      BY <2>3, <2>0 DEF TypeOK
    <3>2. Live(e) => Live(e)'
      BY <2>3, <3>1, LiveUpdate
    <3> QED BY <1>8, <1>r, <2>1, <2>3, <3>2
            DEF WriteLetter, Support, Handling, OnRecord, BeingMarked
  <2> QED BY <1>8, <2>2, <2>3 DEF WriteLetter
<1>9. ASSUME NEW j \in Job, MarkExhausted(j)
      PROVE  Support(e)'
  <2>1. Live(e) => Live(e)'
    BY <1>9, LiveUpdate DEF MarkExhausted, Working, Active
  <2>2. row[e] = "received" /\ gap[e] = {}
    BY <1>9 DEF MarkExhausted, TypeOK
  <2> QED BY <1>9, <1>r, <2>1, <2>2 DEF MarkExhausted, Support, Handling, OnRecord, BeingMarked
<1>10. ASSUME NEW j \in Job, JobStalls(j)
       PROVE  Support(e)'
  <2>0. job[j].ev \in Event /\ job[j] \in JobRecord
    BY <1>10 DEF JobStalls, Active, SlotsOK, GoodJob, TypeOK
  <2>1. Live(e) => Live(e)'
    <3>1. ASSUME job' = [job EXCEPT ![j] = Stalled(job[j])] PROVE Live(e) => Live(e)'
      BY <2>0, <3>1, PhaseOfSteps, LiveUpdate
    <3>2. ASSUME job' = [job EXCEPT ![j] = OneAttemptLess(job[j])] PROVE Live(e) => Live(e)'
      BY <2>0, <3>2, PhaseOfSteps, LiveUpdate
    <3>3. ASSUME job' = [job EXCEPT ![j] = FreeJob],
                 gap' = [gap EXCEPT ![job[j].ev] = @ \cup {"stalled_out"}]
          PROVE Live(e) => Live(e)'
      <4>1. job[j].ev # e
        BY <2>0, <3>3 DEF TypeOK
      <4> QED BY <3>3, <4>1, LiveUpdate
    <3> QED BY <1>10, <3>1, <3>2, <3>3 DEF JobStalls
  <2>2. row[e] = "received" /\ gap[e] = {}
    BY <1>10, <2>0 DEF JobStalls, TypeOK
  <2> QED BY <1>10, <1>r, <2>1, <2>2 DEF JobStalls, Support, Handling, OnRecord, BeingMarked
<1>11. ASSUME NEW j \in Job, HookCrash(j)
       PROVE  Support(e)'
  <2>0. job[j].ev \in Event
    BY <1>11 DEF HookCrash, SlotsOK, GoodJob
  <2>1. row[e] = "received" /\ gap[e] = {}
    BY <1>11, <2>0 DEF HookCrash, TypeOK
  <2>2. job[j].phase = "exhausted" => job[j].ev # e
    BY <1>11, <2>0 DEF HookCrash, TypeOK
  <2>3. Live(e) => Live(e)'
    BY <1>11, <2>2, LiveUpdate DEF HookCrash, Working, Active
  <2> QED BY <1>11, <1>r, <2>1, <2>3 DEF HookCrash, Support, Handling, OnRecord, BeingMarked
<1>12. ASSUME NEW a \in RetryAdmin, RetryScan(a) \/ RetryAborts(a) \/ RetryCrash(a)
       PROVE  Support(e)'
  BY <1>12, <1>r DEF RetryScan, RetryAborts, RetryCrash, Support, Live, Working, Active,
                     Handling, OnRecord, BeingMarked
<1>13. ASSUME NEW a \in RetryAdmin, RetryEnqueue(a)
       PROVE  Support(e)'
  <2>1. PICK f \in retry[a].todo, j \in Job :
          /\ job[j].phase = "free"
          /\ job' = [job EXCEPT ![j] = NewJob(f, f \notin Unstable, WebhookAttempts)]
    BY <1>13 DEF RetryEnqueue
  <2>2. Live(e) => Live(e)'
    BY <2>1, LiveNewJob
  <2> QED BY <1>13, <1>r, <2>2 DEF RetryEnqueue, Support, Handling, OnRecord, BeingMarked
<1>14. ASSUME NEW a \in RetryAdmin, RetryMark(a)
       PROVE  Support(e)'
  <2>1. PICK f \in retry[a].marking :
          \/ /\ row' = [row EXCEPT ![f] = "received"]
             /\ gap' = [gap EXCEPT ![f] = IF Live(f) THEN @ ELSE @ \cup {"requeue_late"}]
          \/ UNCHANGED <<row, gap>>
    BY <1>14 DEF RetryMark
  <2>2. f \in Event
    BY DEF TypeOK
  <2>3. Live(e) => Support(e)'
    BY <1>14 DEF RetryMark, Support, Live, Working, Active
  <2>4. CASE e = f /\ ~Live(e)
    <3>1. UNCHANGED <<row, gap>>
      <4>1. ASSUME gap' = [gap EXCEPT ![f] = @ \cup {"requeue_late"}] PROVE FALSE
        <5>1. "requeue_late" \in gap'[f]
          BY <2>2, <4>1 DEF TypeOK
        <5> QED BY <2>4, <5>1
      <4> QED BY <2>1, <2>4, <4>1
    <3> QED BY <1>r, <3>1, <1>14
            DEF RetryMark, Support, Live, Working, Active, Handling, OnRecord, BeingMarked
  <2>5. CASE e # f
    BY <1>r, <2>1, <2>2, <2>5, <1>14
       DEF RetryMark, TypeOK, Support, Live, Working, Active, Handling, OnRecord, BeingMarked
  <2> QED BY <2>3, <2>4, <2>5
<1>15. ASSUME NEW a \in LetterAdmin,
              LetterPick(a) \/ LetterSkipped(a) \/ LetterCrash(a)
       PROVE  Support(e)'
  <2>1. \A l \in Letter : BeingMarked(l)' => BeingMarked(l)
    BY <1>15 DEF LetterPick, LetterSkipped, LetterCrash, BeingMarked, TypeOK
  <2> QED BY <1>15, <1>r, <2>1
          DEF LetterPick, LetterSkipped, LetterCrash, Support, Live, Working, Active, Handling,
              OnRecord
<1>16. ASSUME NEW a \in LetterAdmin, LetterEnqueue(a)
       PROVE  Support(e)'
  <2>1. PICK l \in redeliver[a].todo, j \in Job :
          /\ job[j].phase = "free"
          /\ job' = [job EXCEPT ![j] = NewJob(letter[l].ev, letter[l].keyed, JobAttempts)]
          /\ redeliver' = [redeliver EXCEPT ![a] = [todo |-> @.todo \ {l}, marking |-> {l}]]
    BY <1>16 DEF LetterEnqueue
  <2>0. PICK f \in Event : f = letter[l].ev
    BY <2>1 DEF SlotsOK, TypeOK
  <2>2. Live(f)' /\ (Live(e) => Live(e)')
    BY <2>0, <2>1, LiveNewJob
  <2>3. \A m \in Letter : m # l /\ BeingMarked(m)' => BeingMarked(m)
    BY <2>1 DEF BeingMarked, TypeOK
  <2>4. f # e => (OnRecord(e) => OnRecord(e)')
    BY <1>16, <2>0, <2>3 DEF LetterEnqueue, OnRecord
  <2> QED BY <1>16, <1>r, <2>2, <2>4 DEF LetterEnqueue, Support, Handling
<1>17. ASSUME NEW a \in LetterAdmin, LetterMark(a)
       PROVE  Support(e)'
  <2>1. PICK l \in redeliver[a].marking :
          \/ letter' = [letter EXCEPT ![l] = Retried(@)]
          \/ UNCHANGED letter
    BY <1>17 DEF LetterMark
  <2>2. l \in Letter /\ BeingMarked(l)
    BY <2>1 DEF TypeOK, BeingMarked
  <2>3. \A m \in Letter : BeingMarked(m)' => BeingMarked(m)
    BY <1>17 DEF LetterMark, BeingMarked, TypeOK
  <2>4. \A m \in Letter : m # l => letter'[m] = letter[m]
    BY <2>1 DEF TypeOK
  <2>5. OnRecord(e) => OnRecord(e)'
    BY <2>2, <2>3, <2>4 DEF OnRecord
  <2> QED BY <1>17, <1>r, <2>5 DEF LetterMark, Support, Live, Working, Active, Handling
<1>18. ASSUME NEW l \in Letter, LetterResolve(l)
       PROVE  Support(e)'
  <2>1. \A m \in Letter : letter'[m].ev = letter[m].ev /\ letter'[m].retried = letter[m].retried
    BY <1>18, LetterRecordSteps DEF LetterResolve, TypeOK
  <2> QED BY <1>18, <1>r, <2>1
          DEF LetterResolve, Support, Live, Working, Active, Handling, OnRecord, BeingMarked
<1> QED
  BY <1>1, <1>2, <1>3, <1>4, <1>5, <1>6, <1>7, <1>8, <1>9, <1>10, <1>11, <1>12, <1>13,
     <1>14, <1>15, <1>16, <1>17, <1>18 DEF Next

(* An event whose row says "received" is never forgotten, outside the      *)
(* windows of GapKind: whatever the number of deliveries, jobs, admin      *)
(* requests, attempts and workers, and whatever faults are allowed.        *)
THEOREM NeverForgotten == Spec => []Recoverable
<1>1. Init => Recoverable
  BY DEF Init, Recoverable
<1>2. TypeOK /\ SlotsOK /\ Recoverable /\ [Next]_vars => Recoverable'
  BY RecoverableStep
<1> QED BY <1>1, <1>2, TypeCorrect, PTL DEF Spec

-----------------------------------------------------------------------------
(* Admission: the receive handler queues an event at most once.            *)

(* Steps that leave the handlers and the count alone and store no event.   *)
LEMMA AdmissionFrame ==
  ASSUME TypeOK, AdmissionInv, UNCHANGED <<req, admitted>>,
         \A e \in Event : row'[e] = "none" => row[e] = "none"
  PROVE  AdmissionInv'
BY DEF AdmissionInv, AdmittedOnce, Handling

LEMMA AdmissionStep == TypeOK /\ SlotsOK /\ AdmissionInv /\ [Next]_vars => AdmissionInv'
<1> SUFFICES ASSUME TypeOK, SlotsOK, AdmissionInv, [Next]_vars
             PROVE  AdmissionInv'
  OBVIOUS
<1>1. CASE UNCHANGED vars
  BY <1>1, AdmissionFrame DEF vars
<1>2. ASSUME NEW r \in Request, NEW e \in Event, ReceiveSave(r, e)
      PROVE  AdmissionInv'
  <2>1. /\ row' = [row EXCEPT ![e] = "received"] /\ row[e] = "none"
        /\ req' = [req EXCEPT ![r] = [pc |-> "enqueue", ev |-> e]]
        /\ UNCHANGED admitted
    BY <1>2 DEF ReceiveSave
  <2>2. admitted[e] = 0 /\ \A q \in Request : req[q].pc # "idle" => req[q].ev # e
    BY <2>1 DEF AdmissionInv, Handling
  <2>3. \A q \in Request : req'[q] = IF q = r THEN [pc |-> "enqueue", ev |-> e] ELSE req[q]
    BY <2>1 DEF TypeOK
  <2>4. \A f \in Event : row'[f] = "none" => f # e /\ row[f] = "none"
    BY <2>1 DEF TypeOK
  <2> QED BY <2>1, <2>2, <2>3, <2>4 DEF AdmissionInv, AdmittedOnce, Handling
<1>3. ASSUME NEW r \in Request, ReceiveEnqueue(r) \/ ReceiveEnqueueFails(r)
      PROVE  AdmissionInv'
  <2>1. PICK e \in Event : e = req[r].ev
    BY <1>3 DEF ReceiveEnqueue, ReceiveEnqueueFails, SlotsOK
  <2>2. /\ UNCHANGED row /\ admitted[e] = 0
        /\ \/ admitted' = admitted
           \/ admitted' = [admitted EXCEPT ![e] = @ + 1]
    BY <1>3, <2>1 DEF ReceiveEnqueue, ReceiveEnqueueFails, AdmissionInv
  <2>3. \E x \in {IdleReq, [pc |-> "mark_failed", ev |-> e]} : req' = [req EXCEPT ![r] = x]
    BY <1>3, <2>1 DEF ReceiveEnqueue, ReceiveEnqueueFails, TypeOK
  <2>4. \A q \in Request :
          /\ q # r => req'[q] = req[q]
          /\ q = r => req'[q].pc \in {"idle", "mark_failed"}
          /\ req'[q].pc # "idle" => req'[q].ev = req[q].ev /\ req[q].pc # "idle"
    <3>1. PICK x \in {IdleReq, [pc |-> "mark_failed", ev |-> e]} : req' = [req EXCEPT ![r] = x]
      BY <2>3
    <3>2. x.pc \in {"idle", "mark_failed"} /\ (x.pc # "idle" => x.ev = e)
      BY DEF IdleReq
    <3>3. req[r].pc = "enqueue"
      BY <1>3 DEF ReceiveEnqueue, ReceiveEnqueueFails
    <3> QED BY <2>1, <3>1, <3>2, <3>3 DEF TypeOK
  <2>5. /\ admitted'[e] <= 1
        /\ \A f \in Event : f # e => admitted'[f] = admitted[f]
    BY <2>2 DEF TypeOK
  <2>6. AdmittedOnce'
    BY <2>5 DEF AdmissionInv, AdmittedOnce
  <2>7. row[e] # "none"
    BY <1>3, <2>1 DEF ReceiveEnqueue, ReceiveEnqueueFails, AdmissionInv, Handling
  <2>8. \A f \in Event : row'[f] = "none" => admitted'[f] = 0 /\ ~Handling(f)'
    BY <2>2, <2>4, <2>5, <2>7 DEF AdmissionInv, Handling
  <2>9. \A q \in Request : req'[q].pc = "enqueue" => admitted'[req'[q].ev] = 0
    <3> SUFFICES ASSUME NEW q \in Request, req'[q].pc = "enqueue"
                 PROVE  admitted'[req'[q].ev] = 0
      OBVIOUS
    <3>1. q # r /\ req'[q] = req[q] /\ req[q].pc = "enqueue"
      BY <2>4
    <3>2. req[q].ev # e /\ req[q].ev \in Event
      BY <1>3, <2>1, <3>1 DEF ReceiveEnqueue, ReceiveEnqueueFails, AdmissionInv, SlotsOK
    <3> QED BY <2>5, <3>1, <3>2 DEF AdmissionInv
  <2>10. \A p, q \in Request :
           req'[p].pc # "idle" /\ req'[q].pc # "idle" /\ req'[p].ev = req'[q].ev => p = q
    BY <2>4 DEF AdmissionInv
  <2> QED BY <2>6, <2>8, <2>9, <2>10 DEF AdmissionInv
<1>4. ASSUME NEW r \in Request, ReceiveMarkFailed(r) \/ ReceiveCrash(r)
      PROVE  AdmissionInv'
  <2>1. UNCHANGED admitted /\ req' = [req EXCEPT ![r] = IdleReq]
    BY <1>4 DEF ReceiveMarkFailed, ReceiveCrash
  <2>2. \A f \in Event : row'[f] = "none" => row[f] = "none"
    BY <1>4 DEF ReceiveMarkFailed, ReceiveCrash, TypeOK
  <2>3. \A q \in Request : req'[q].pc # "idle" => req'[q] = req[q]
    BY <2>1 DEF TypeOK, IdleReq
  <2> QED BY <2>1, <2>2, <2>3 DEF AdmissionInv, AdmittedOnce, Handling
<1>5. ASSUME NEW j \in Job,
             \/ Take(j) \/ PersistHistory(j) \/ QueueTask(j) \/ QueueTime(j)
             \/ AttemptFails(j) \/ MarkProcessed(j) \/ WriteLetter(j) \/ MarkExhausted(j)
             \/ JobStalls(j) \/ HookCrash(j)
      PROVE  AdmissionInv'
  <2>1. \A f \in Event : row'[f] = "none" => row[f] = "none"
    BY <1>5 DEF Take, PersistHistory, QueueTask, QueueTime, AttemptFails, MarkProcessed,
                WriteLetter, MarkExhausted, JobStalls, HookCrash, TypeOK
  <2> QED BY <1>5, <2>1, AdmissionFrame
          DEF Take, PersistHistory, QueueTask, QueueTime, AttemptFails, MarkProcessed,
              WriteLetter, MarkExhausted, JobStalls, HookCrash
<1>6. ASSUME NEW a \in RetryAdmin,
             RetryScan(a) \/ RetryEnqueue(a) \/ RetryAborts(a) \/ RetryMark(a) \/ RetryCrash(a)
      PROVE  AdmissionInv'
  <2>1. \A f \in Event : row'[f] = "none" => row[f] = "none"
    BY <1>6 DEF RetryScan, RetryEnqueue, RetryAborts, RetryMark, RetryCrash, TypeOK
  <2> QED BY <1>6, <2>1, AdmissionFrame
          DEF RetryScan, RetryEnqueue, RetryAborts, RetryMark, RetryCrash
<1>7. ASSUME NEW a \in LetterAdmin,
             \/ LetterPick(a) \/ LetterEnqueue(a) \/ LetterSkipped(a) \/ LetterMark(a)
             \/ LetterCrash(a)
      PROVE  AdmissionInv'
  BY <1>7, AdmissionFrame
     DEF LetterPick, LetterEnqueue, LetterSkipped, LetterMark, LetterCrash
<1>8. ASSUME NEW l \in Letter, LetterResolve(l)
      PROVE  AdmissionInv'
  BY <1>8, AdmissionFrame DEF LetterResolve
<1> QED
  BY <1>1, <1>2, <1>3, <1>4, <1>5, <1>6, <1>7, <1>8 DEF Next

(* The receive handler queues every event at most once, for any number of  *)
(* concurrent and repeated deliveries, crashes and failed enqueues.        *)
THEOREM AdmitsOnce == Spec => []AdmittedOnce
<1>1. Init => AdmissionInv
  BY DEF Init, AdmissionInv, AdmittedOnce, Handling, IdleReq
<1>2. TypeOK /\ SlotsOK /\ AdmissionInv /\ [Next]_vars => AdmissionInv'
  BY AdmissionStep
<1>3. AdmissionInv => AdmittedOnce
  BY DEF AdmissionInv
<1> QED BY <1>1, <1>2, <1>3, TypeCorrect, PTL DEF Spec

-----------------------------------------------------------------------------
(* Hand-over: what the worker has queued when it marks an event, and that  *)
(* the pipeline keeps the promises of FollowUps.                           *)

Attempted(e, h) == Historic(e) /\ e \in Tasked => h[e] # "none"

(* What holds of the event of a job in each phase, given the event rows,   *)
(* the follow-ups and the history rows.                                    *)
Ready(b, w, o, h) ==
  /\ b.phase # "free" => w[b.ev] # "none"
  /\ b.phase = "history" => Historic(b.ev) /\ b.ev \in Tasked
  /\ b.phase \in {"task", "time"} => AfterHistory(b.ev) = "task" /\ Attempted(b.ev, h)
  /\ b.phase = "time" => TimeSync(b.ev) /\ "sync" \in o[b.ev]
  /\ b.phase = "mark" => Required(b.ev) \subseteq o[b.ev] /\ Attempted(b.ev, h)

(* Whatever still refers to an event refers to a stored one.               *)
Known ==
  /\ \A r \in Request : req[r].pc # "idle" => row[req[r].ev] # "none"
  /\ \A l \in Letter : letter[l].ev \in Event => row[letter[l].ev] # "none"
  /\ \A a \in RetryAdmin : \A e \in retry[a].todo \cup retry[a].marking : row[e] # "none"

OutOK ==
  \A e \in Event :
    /\ out[e] \subseteq Required(e)
    /\ row[e] = "none" => out[e] = {}

JobsReady == \A j \in Job : Ready(job[j], row, out, history)

HandOffInv == Known /\ OutOK /\ HandedOff /\ JobsReady

(* Once queued or attempted, once stored: always so.                       *)
Onward ==
  \A e \in Event :
    /\ row[e] # "none" => row'[e] # "none"
    /\ out[e] \subseteq out'[e]
    /\ history[e] # "none" => history'[e] # "none"

LEMMA ReadyOnward ==
  ASSUME Onward, NEW b, b.phase # "free" => b.ev \in Event, Ready(b, row, out, history)
  PROVE  Ready(b, row', out', history')
<1>1. CASE b.phase = "free" BY <1>1 DEF Ready
<1>2. CASE b.phase # "free" BY <1>2 DEF Onward, Ready, Attempted
<1> QED BY <1>1, <1>2

(* One slot is written, with a job that is ready.                          *)
LEMMA ReadyUpdate ==
  ASSUME TypeOK, SlotsOK, Onward, JobsReady,
         NEW j \in Job, NEW b, job' = [job EXCEPT ![j] = b], Ready(b, row', out', history')
  PROVE  JobsReady'
<1> SUFFICES ASSUME NEW k \in Job PROVE Ready(job'[k], row', out', history')
  BY DEF JobsReady
<1>1. CASE k = j BY <1>1 DEF TypeOK
<1>2. CASE k # j
  <2>1. job'[k] = job[k] BY <1>2 DEF TypeOK
  <2>2. job[k].phase # "free" => job[k].ev \in Event BY DEF SlotsOK, GoodJob
  <2>3. Ready(job[k], row, out, history) BY DEF JobsReady
  <2> QED BY <2>1, <2>2, <2>3, ReadyOnward
<1> QED BY <1>1, <1>2

(* No slot is written.                                                     *)
LEMMA ReadyFrame ==
  ASSUME TypeOK, SlotsOK, Onward, JobsReady, UNCHANGED job
  PROVE  JobsReady'
<1> SUFFICES ASSUME NEW k \in Job PROVE Ready(job[k], row', out', history')
  BY DEF JobsReady
<1>1. job[k].phase # "free" => job[k].ev \in Event BY DEF SlotsOK, GoodJob
<1>2. Ready(job[k], row, out, history) BY DEF JobsReady
<1> QED BY <1>1, <1>2, ReadyOnward

(* The phases a worker goes through, and what each leaves to be done.      *)
LEMMA RequiredOf ==
  ASSUME NEW e \in Event
  PROVE  /\ AfterHistory(e) = "mark" => Required(e) = {}
         /\ AfterHistory(e) = "task" /\ TimeSync(e) =>
              Required(e) = {"sync", "time"} /\ TaskFollowUp(e) = "sync"
         /\ AfterHistory(e) = "task" /\ ~TimeSync(e) => Required(e) = {TaskFollowUp(e)}
         /\ Required(e) \subseteq FollowUp
<1>1. CASE e \notin Tasked \/ TypeOf[e] = "taskStatusUpdated"
  <2>1. AfterHistory(e) = "mark" BY <1>1 DEF AfterHistory
  <2>2. Required(e) = {} BY <1>1 DEF Required
  <2> QED BY <2>1, <2>2
<1>2. CASE e \in Tasked /\ TypeOf[e] = "taskDeleted"
  <2>1. AfterHistory(e) = "task" /\ ~TimeSync(e) /\ TaskFollowUp(e) = "delete"
    BY <1>2 DEF AfterHistory, TimeSync, TaskFollowUp
  <2>2. Required(e) = {"delete"} BY <1>2 DEF Required
  <2> QED BY <2>1, <2>2 DEF FollowUp
<1>3. CASE e \in Tasked /\ TypeOf[e] \in {"taskTimeTrackedUpdated", "taskUpdated", "taskCreated"}
  <2>1. AfterHistory(e) = "task" /\ TimeSync(e) /\ TaskFollowUp(e) = "sync"
    BY <1>3 DEF AfterHistory, TimeSync, TaskFollowUp
  <2>2. Required(e) = {"sync", "time"} BY <1>3 DEF Required
  <2> QED BY <2>1, <2>2 DEF FollowUp
<1>4. CASE /\ e \in Tasked
           /\ TypeOf[e] \notin {"taskStatusUpdated", "taskDeleted", "taskTimeTrackedUpdated",
                                "taskUpdated", "taskCreated"}
  <2>1. AfterHistory(e) = "task" /\ ~TimeSync(e) /\ TaskFollowUp(e) = "sync"
    BY <1>4 DEF AfterHistory, TimeSync, TaskFollowUp
  <2>2. Required(e) = {"sync"} BY <1>4 DEF Required
  <2> QED BY <2>1, <2>2 DEF FollowUp
<1> QED BY <1>1, <1>2, <1>3, <1>4

LEMMA Routes ==
  ASSUME NEW e \in Event
  PROVE  /\ AfterHistory(e) \in {"task", "mark"}
         /\ AfterTask(e) \in {"time", "mark"}
         /\ AfterTask(e) = "time" => TimeSync(e)
         /\ AfterTask(e) = "mark" => ~TimeSync(e)
BY DEF AfterHistory, AfterTask

(* Steps that leave the rows, the follow-ups and the history alone, but    *)
(* for a row that is marked failed or received again.                      *)
LEMMA HandOffFrame ==
  ASSUME TypeOK, SlotsOK, HandOffInv, Known', JobsReady', UNCHANGED <<out, history>>,
         \A e \in Event : /\ row[e] # "none" => row'[e] # "none"
                          /\ row'[e] = "none" => row[e] = "none"
                          /\ row'[e] = "processed" => row[e] = "processed"
  PROVE  HandOffInv'
BY DEF HandOffInv, OutOK, HandedOff

LEMMA HandOffStep == TypeOK /\ SlotsOK /\ HandOffInv /\ [Next]_vars => HandOffInv'
<1> SUFFICES ASSUME TypeOK, SlotsOK, HandOffInv, [Next]_vars PROVE HandOffInv'
  OBVIOUS
<1>k. Known /\ OutOK /\ HandedOff /\ JobsReady
  BY DEF HandOffInv
<1>1. CASE UNCHANGED vars
  <2>1. Onward BY <1>1 DEF Onward, vars
  <2>2. JobsReady' BY <1>1, <1>k, <2>1, ReadyFrame DEF vars
  <2> QED BY <1>1, <1>k, <2>2, HandOffFrame DEF vars, Known
<1>2. ASSUME NEW r \in Request, NEW e \in Event, ReceiveSave(r, e) PROVE HandOffInv'
  <2>1. \A f \in Event : row'[f] = IF f = e THEN "received" ELSE row[f]
    BY <1>2 DEF ReceiveSave, TypeOK
  <2>2. Onward BY <1>2, <2>1 DEF ReceiveSave, Onward
  <2>3. JobsReady' BY <1>2, <1>k, <2>2, ReadyFrame DEF ReceiveSave
  <2>4. Known'
    <3>1. \A q \in Request : req'[q].pc # "idle" => row'[req'[q].ev] # "none"
      BY <1>2, <1>k, <2>1 DEF ReceiveSave, Known, TypeOK, SlotsOK
    <3> QED BY <1>2, <1>k, <2>1, <3>1 DEF ReceiveSave, Known, TypeOK
  <2> QED BY <1>2, <2>1, <2>3, <2>4, HandOffFrame DEF ReceiveSave
<1>3. ASSUME NEW r \in Request, ReceiveEnqueue(r) \/ ReceiveEnqueueFails(r) PROVE HandOffInv'
  <2>0. UNCHANGED <<row, out, history, letter, retry>>
    BY <1>3 DEF ReceiveEnqueue, ReceiveEnqueueFails
  <2>1. Onward BY <2>0 DEF Onward
  <2>2. req[r].pc # "idle" /\ req[r].ev \in Event /\ row[req[r].ev] # "none"
    BY <1>3, <1>k DEF ReceiveEnqueue, ReceiveEnqueueFails, SlotsOK, Known
  <2>3. ASSUME NEW j \in Job, job' = [job EXCEPT ![j] = NewJob(req[r].ev, TRUE, WebhookAttempts)]
        PROVE  JobsReady'
    <3>1. Ready(NewJob(req[r].ev, TRUE, WebhookAttempts), row', out', history')
      BY <2>0, <2>2 DEF Ready, NewJob
    <3> QED BY <1>k, <2>1, <2>3, <3>1, ReadyUpdate
  <2>4. JobsReady'
    <3>1. CASE UNCHANGED job BY <3>1, <1>k, <2>1, ReadyFrame
    <3>2. ReceiveEnqueue(r) => JobsReady' BY <2>3 DEF ReceiveEnqueue
    <3>3. ReceiveEnqueueFails(r) => JobsReady' BY <2>3, <3>1 DEF ReceiveEnqueueFails
    <3> QED BY <1>3, <3>2, <3>3
  <2>5. \A q \in Request : req'[q].pc # "idle" => row'[req'[q].ev] # "none"
    <3>1. \A q \in Request : q # r => req'[q] = req[q]
      BY <1>3 DEF ReceiveEnqueue, ReceiveEnqueueFails, TypeOK
    <3>2. req'[r].pc # "idle" => req'[r].ev = req[r].ev
      <4>1. IdleReq.pc = "idle" BY DEF IdleReq
      <4>2. ReceiveEnqueue(r) => req'[r].pc = "idle" BY <4>1 DEF ReceiveEnqueue, TypeOK
      <4>3. ReceiveEnqueueFails(r) => req'[r].ev = req[r].ev
        BY DEF ReceiveEnqueueFails, TypeOK
      <4> QED BY <1>3, <4>2, <4>3
    <3> QED BY <1>k, <2>0, <2>2, <3>1, <3>2 DEF Known
  <2>6. Known' BY <1>k, <2>0, <2>5 DEF Known
  <2> QED BY <2>0, <2>4, <2>6, HandOffFrame
<1>4. ASSUME NEW r \in Request, ReceiveMarkFailed(r) \/ ReceiveCrash(r) PROVE HandOffInv'
  <2>0. UNCHANGED <<out, history, job, letter, retry>> /\ req' = [req EXCEPT ![r] = IdleReq]
    BY <1>4 DEF ReceiveMarkFailed, ReceiveCrash
  <2>1. req[r].ev \in Event /\ row[req[r].ev] # "none"
    BY <1>4, <1>k DEF ReceiveMarkFailed, ReceiveCrash, SlotsOK, Known
  <2>2. row' = row \/ row' = [row EXCEPT ![req[r].ev] = "failed"]
    BY <1>4 DEF ReceiveMarkFailed, ReceiveCrash
  <2>3. \A e \in Event : /\ row[e] # "none" <=> row'[e] # "none"
                         /\ row'[e] = "processed" => row[e] = "processed"
    BY <2>1, <2>2 DEF TypeOK
  <2>4. Onward BY <2>0, <2>3 DEF Onward
  <2>5. JobsReady' BY <1>k, <2>0, <2>4, ReadyFrame
  <2>6. \A q \in Request : req'[q].pc # "idle" => req'[q] = req[q]
    BY <2>0 DEF TypeOK, IdleReq
  <2>7. Known'
    <3>1. \A q \in Request : req'[q].pc # "idle" => row'[req'[q].ev] # "none"
      BY <1>k, <2>3, <2>6 DEF Known, SlotsOK
    <3> QED BY <1>k, <2>0, <2>3, <3>1 DEF Known, TypeOK
  <2> QED BY <2>0, <2>3, <2>5, <2>7, HandOffFrame
<1>5. ASSUME NEW j \in Job, Take(j) PROVE HandOffInv'
  <2>0. UNCHANGED <<row, out, history, req, letter, retry>>
    BY <1>5 DEF Take
  <2>1. Onward BY <2>0 DEF Onward
  <2>2. job[j] \in JobRecord /\ job[j].ev \in Event /\ job[j].phase = "waiting"
    BY <1>5 DEF Take, TypeOK, SlotsOK, GoodJob
  <2>3. row[job[j].ev] # "none" BY <1>k, <2>2 DEF JobsReady, Ready
  <2>4. LET b == AtPhase(job[j], FirstPhase(job[j].ev)) IN Ready(b, row, out, history)
    <3>1. CASE Historic(job[j].ev) /\ job[j].ev \in Tasked
      BY <2>3, <3>1 DEF AtPhase, Ready, FirstPhase
    <3>2. CASE ~(Historic(job[j].ev) /\ job[j].ev \in Tasked)
      BY <2>2, <2>3, <3>2, Routes, RequiredOf DEF AtPhase, Ready, FirstPhase, Attempted
    <3> QED BY <3>1, <3>2
  <2>5. JobsReady' BY <1>5, <1>k, <2>0, <2>1, <2>4, ReadyUpdate DEF Take
  <2> QED BY <1>k, <2>0, <2>5, HandOffFrame DEF Known
<1>6. ASSUME NEW j \in Job, PersistHistory(j) PROVE HandOffInv'
  <2>0. UNCHANGED <<row, out, req, letter, retry>>
    BY <1>6 DEF PersistHistory
  <2>1. PICK e \in Event : e = job[j].ev
    BY <1>6 DEF PersistHistory, SlotsOK, GoodJob
  <2>2. /\ history'[e] # "none"
        /\ \A f \in Event : history[f] # "none" => history'[f] # "none"
    BY <1>6, <2>1 DEF PersistHistory, TypeOK
  <2>3. Onward BY <2>0, <2>2 DEF Onward
  <2>4. job[j] \in JobRecord /\ row[e] # "none"
    BY <1>6, <1>k, <2>1 DEF PersistHistory, TypeOK, JobsReady, Ready
  <2>5. Ready(AtPhase(job[j], AfterHistory(e)), row', out', history')
    BY <2>0, <2>1, <2>2, <2>4, Routes, RequiredOf DEF AtPhase, Ready, Attempted
  <2>6. job' = [job EXCEPT ![j] = AtPhase(job[j], AfterHistory(e))]
    BY <1>6, <2>1 DEF PersistHistory
  <2>7. JobsReady' BY <1>k, <2>3, <2>5, <2>6, ReadyUpdate
  <2>8. HandedOff' BY <1>k, <2>0, <2>2 DEF HandedOff
  <2> QED BY <1>k, <2>0, <2>7, <2>8 DEF HandOffInv, Known, OutOK
<1>7. ASSUME NEW j \in Job, QueueTask(j) PROVE HandOffInv'
  <2>0. UNCHANGED <<row, history, req, letter, retry>>
    BY <1>7 DEF QueueTask
  <2>1. PICK e \in Event : e = job[j].ev
    BY <1>7 DEF QueueTask, SlotsOK, GoodJob
  <2>2. out' = [out EXCEPT ![e] = @ \cup {TaskFollowUp(e)}]
    BY <1>7, <2>1 DEF QueueTask
  <2>3. /\ out'[e] = out[e] \cup {TaskFollowUp(e)}
        /\ \A f \in Event : f # e => out'[f] = out[f]
    BY <2>2 DEF TypeOK
  <2>4. Onward BY <2>0, <2>3 DEF Onward
  <2>5. /\ job[j] \in JobRecord /\ row[e] # "none"
        /\ AfterHistory(e) = "task" /\ Attempted(e, history)
    BY <1>7, <1>k, <2>1 DEF QueueTask, TypeOK, JobsReady, Ready
  <2>6. Ready(AtPhase(job[j], AfterTask(e)), row', out', history')
    <3>1. CASE TimeSync(e)
      BY <2>0, <2>1, <2>3, <2>5, <3>1, RequiredOf DEF AtPhase, Ready, AfterTask
    <3>2. CASE ~TimeSync(e)
      BY <2>0, <2>1, <2>3, <2>5, <3>2, RequiredOf DEF AtPhase, Ready, AfterTask
    <3> QED BY <3>1, <3>2
  <2>7. job' = [job EXCEPT ![j] = AtPhase(job[j], AfterTask(e))]
    BY <1>7, <2>1 DEF QueueTask
  <2>8. JobsReady' BY <1>k, <2>4, <2>6, <2>7, ReadyUpdate
  <2>9. OutOK'
    <3>1. TaskFollowUp(e) \in Required(e) BY <2>5, RequiredOf
    <3> QED BY <1>k, <2>0, <2>3, <2>5, <3>1 DEF OutOK
  <2>10. HandedOff' BY <1>k, <2>0, <2>3 DEF HandedOff
  <2> QED BY <1>k, <2>0, <2>8, <2>9, <2>10 DEF HandOffInv, Known
<1>8. ASSUME NEW j \in Job, QueueTime(j) PROVE HandOffInv'
  <2>0. UNCHANGED <<row, history, req, letter, retry>>
    BY <1>8 DEF QueueTime
  <2>1. PICK e \in Event : e = job[j].ev
    BY <1>8 DEF QueueTime, SlotsOK, GoodJob
  <2>2. out' = [out EXCEPT ![e] = @ \cup {"time"}]
    BY <1>8, <2>1 DEF QueueTime
  <2>3. /\ out'[e] = out[e] \cup {"time"}
        /\ \A f \in Event : f # e => out'[f] = out[f]
    BY <2>2 DEF TypeOK
  <2>4. Onward BY <2>0, <2>3 DEF Onward
  <2>5. /\ job[j] \in JobRecord /\ row[e] # "none" /\ AfterHistory(e) = "task"
        /\ Attempted(e, history) /\ TimeSync(e) /\ "sync" \in out[e]
    BY <1>8, <1>k, <2>1 DEF QueueTime, TypeOK, JobsReady, Ready
  <2>6. Ready(AtPhase(job[j], "mark"), row', out', history')
    BY <2>0, <2>1, <2>3, <2>5, RequiredOf DEF AtPhase, Ready
  <2>7. job' = [job EXCEPT ![j] = AtPhase(job[j], "mark")]
    BY <1>8 DEF QueueTime
  <2>8. JobsReady' BY <1>k, <2>4, <2>6, <2>7, ReadyUpdate
  <2>9. OutOK'
    <3>1. "time" \in Required(e) BY <2>5, RequiredOf
    <3> QED BY <1>k, <2>0, <2>3, <2>5, <3>1 DEF OutOK
  <2>10. HandedOff' BY <1>k, <2>0, <2>3 DEF HandedOff
  <2> QED BY <1>k, <2>0, <2>8, <2>9, <2>10 DEF HandOffInv, Known
<1>9. ASSUME NEW j \in Job, AttemptFails(j) \/ JobStalls(j) \/ HookCrash(j) PROVE HandOffInv'
  <2>0. UNCHANGED <<row, out, history, req, letter, retry>>
    BY <1>9 DEF AttemptFails, JobStalls, HookCrash
  <2>1. Onward BY <2>0 DEF Onward
  <2>2. PICK b : /\ job' = [job EXCEPT ![j] = b]
                 /\ \/ b.phase = "free"
                    \/ b.phase \in {"waiting", "exhausted"} /\ b.ev = job[j].ev
    <3>1. job[j] \in JobRecord BY DEF TypeOK
    <3>2. FreeJob.phase = "free" BY DEF FreeJob
    <3>3. CASE AttemptFails(j) BY <3>1, <3>3, PhaseOfSteps DEF AttemptFails
    <3>4. CASE JobStalls(j) BY <3>1, <3>2, <3>4, PhaseOfSteps DEF JobStalls
    <3>5. CASE HookCrash(j) BY <3>2, <3>5 DEF HookCrash
    <3> QED BY <1>9, <3>3, <3>4, <3>5
  <2>3. job[j].phase # "free"
    BY <1>9 DEF AttemptFails, JobStalls, HookCrash, Active
  <2>4. Ready(b, row', out', history')
    BY <1>k, <2>0, <2>2, <2>3 DEF JobsReady, Ready
  <2>5. JobsReady' BY <1>k, <2>1, <2>2, <2>4, ReadyUpdate
  <2> QED BY <1>k, <2>0, <2>5, HandOffFrame DEF Known
<1>10. ASSUME NEW j \in Job, MarkProcessed(j) PROVE HandOffInv'
  <2>0. UNCHANGED <<out, history, req, letter, retry>> /\ job' = [job EXCEPT ![j] = FreeJob]
    BY <1>10 DEF MarkProcessed
  <2>1. PICK e \in Event : e = job[j].ev
    BY <1>10 DEF MarkProcessed, SlotsOK, GoodJob
  <2>2. Required(e) \subseteq out[e] /\ Attempted(e, history) /\ row[e] # "none"
    BY <1>10, <1>k, <2>1 DEF MarkProcessed, JobsReady, Ready
  <2>3. \A f \in Event : row'[f] = row[f] \/ (f = e /\ row'[f] = "processed")
    BY <1>10, <2>1 DEF MarkProcessed, TypeOK
  <2>4. Onward BY <2>0, <2>3 DEF Onward
  <2>5. Ready(FreeJob, row', out', history') BY DEF Ready, FreeJob
  <2>6. JobsReady' BY <1>k, <2>0, <2>4, <2>5, ReadyUpdate
  <2>7. HandedOff' BY <1>k, <2>0, <2>2, <2>3 DEF HandedOff, Attempted
  <2>8. OutOK' BY <1>k, <2>0, <2>2, <2>3 DEF OutOK
  <2>9. Known' BY <1>k, <2>0, <2>3 DEF Known, TypeOK, SlotsOK
  <2> QED BY <2>6, <2>7, <2>8, <2>9 DEF HandOffInv
<1>11. ASSUME NEW j \in Job, WriteLetter(j) PROVE HandOffInv'
  <2>0. UNCHANGED <<row, out, history, req, retry>>
    BY <1>11 DEF WriteLetter
  <2>1. Onward BY <2>0 DEF Onward
  <2>2. job[j] \in JobRecord /\ job[j].ev \in Event /\ row[job[j].ev] # "none"
    BY <1>11, <1>k DEF WriteLetter, TypeOK, SlotsOK, GoodJob, JobsReady, Ready
  <2>3. \A b \in {FreeJob, AtPhase(job[j], "lettered")} : Ready(b, row', out', history')
    <3>1. FreeJob.phase = "free" /\ AtPhase(job[j], "lettered").phase = "lettered"
      BY DEF FreeJob, AtPhase
    <3>2. AtPhase(job[j], "lettered").ev = job[j].ev BY DEF AtPhase
    <3>3. Ready(FreeJob, row', out', history') BY <3>1 DEF Ready
    <3>4. Ready(AtPhase(job[j], "lettered"), row', out', history')
      BY <2>0, <2>2, <3>1, <3>2 DEF Ready
    <3> QED BY <3>3, <3>4
  <2>4. \E b \in {FreeJob, AtPhase(job[j], "lettered")} : job' = [job EXCEPT ![j] = b]
    BY <1>11 DEF WriteLetter
  <2>5. JobsReady' BY <1>k, <2>1, <2>3, <2>4, ReadyUpdate
  <2>6. \A l \in Letter : letter'[l].ev \in {letter[l].ev, job[j].ev}
    BY <1>11 DEF WriteLetter, TypeOK
  <2>7. Known' BY <1>k, <2>0, <2>2, <2>6 DEF Known
  <2> QED BY <2>0, <2>5, <2>7, HandOffFrame
<1>12. ASSUME NEW j \in Job, MarkExhausted(j) PROVE HandOffInv'
  <2>0. UNCHANGED <<out, history, req, letter, retry>> /\ job' = [job EXCEPT ![j] = FreeJob]
    BY <1>12 DEF MarkExhausted
  <2>1. job[j].ev \in Event /\ row[job[j].ev] # "none"
    BY <1>12, <1>k DEF MarkExhausted, SlotsOK, GoodJob, JobsReady, Ready
  <2>2. \A f \in Event : row'[f] = row[f] \/ (row[f] # "none" /\ row'[f] = "failed")
    BY <1>12, <2>1 DEF MarkExhausted, TypeOK
  <2>3. Onward BY <2>0, <2>2 DEF Onward
  <2>4. Ready(FreeJob, row', out', history') BY DEF Ready, FreeJob
  <2>5. JobsReady' BY <1>k, <2>0, <2>3, <2>4, ReadyUpdate
  <2>6. Known' BY <1>k, <2>0, <2>2 DEF Known, TypeOK, SlotsOK
  <2> QED BY <2>0, <2>2, <2>5, <2>6, HandOffFrame
<1>13. ASSUME NEW a \in RetryAdmin, RetryScan(a) \/ RetryAborts(a) \/ RetryCrash(a)
       PROVE  HandOffInv'
  <2>0. UNCHANGED <<row, out, history, req, letter, job>>
    BY <1>13 DEF RetryScan, RetryAborts, RetryCrash
  <2>1. Onward BY <2>0 DEF Onward
  <2>2. JobsReady' BY <1>k, <2>0, <2>1, ReadyFrame
  <2>3. Known' BY <1>13, <1>k, <2>0 DEF RetryScan, RetryAborts, RetryCrash, Known, TypeOK
  <2> QED BY <2>0, <2>2, <2>3, HandOffFrame
<1>14. ASSUME NEW a \in RetryAdmin, RetryEnqueue(a) PROVE HandOffInv'
  <2>0. UNCHANGED <<row, out, history, req, letter>>
    BY <1>14 DEF RetryEnqueue
  <2>1. Onward BY <2>0 DEF Onward
  <2>2. PICK e \in retry[a].todo, j \in Job :
          /\ job' = [job EXCEPT ![j] = NewJob(e, e \notin Unstable, WebhookAttempts)]
          /\ retry' = [retry EXCEPT ![a] = [todo |-> @.todo \ {e}, marking |-> {e}]]
    BY <1>14 DEF RetryEnqueue
  <2>3. row[e] # "none" BY <1>k DEF Known
  <2>4. Ready(NewJob(e, e \notin Unstable, WebhookAttempts), row', out', history')
    BY <2>0, <2>3 DEF Ready, NewJob
  <2>5. JobsReady' BY <1>k, <2>1, <2>2, <2>4, ReadyUpdate
  <2>6. Known' BY <1>k, <2>0, <2>2, <2>3 DEF Known, TypeOK
  <2> QED BY <2>0, <2>5, <2>6, HandOffFrame
<1>15. ASSUME NEW a \in RetryAdmin, RetryMark(a) PROVE HandOffInv'
  <2>0. UNCHANGED <<out, history, req, letter, job>>
    BY <1>15 DEF RetryMark
  <2>1. PICK e \in retry[a].marking :
          /\ row' = row \/ row' = [row EXCEPT ![e] = "received"]
          /\ retry' = [retry EXCEPT ![a] = [todo |-> @.todo, marking |-> {}]]
    BY <1>15 DEF RetryMark
  <2>2. e \in Event /\ row[e] # "none" BY <1>k, <2>1 DEF Known, TypeOK
  <2>3. \A f \in Event : row'[f] = row[f] \/ (row[f] # "none" /\ row'[f] = "received")
    BY <2>1, <2>2 DEF TypeOK
  <2>4. Onward BY <2>0, <2>3 DEF Onward
  <2>5. JobsReady' BY <1>k, <2>0, <2>4, ReadyFrame
  <2>6. Known'
    <3>1. \A b \in RetryAdmin : /\ retry'[b].todo \cup retry'[b].marking \subseteq Event
                                /\ retry'[b].todo \cup retry'[b].marking
                                     \subseteq retry[b].todo \cup retry[b].marking
      BY <2>1 DEF TypeOK
    <3> QED BY <1>k, <2>0, <2>3, <3>1 DEF Known, TypeOK, SlotsOK
  <2> QED BY <2>0, <2>3, <2>5, <2>6, HandOffFrame
<1>16. ASSUME NEW a \in LetterAdmin, LetterPick(a) \/ LetterSkipped(a) \/ LetterCrash(a)
       PROVE  HandOffInv'
  <2>0. UNCHANGED <<row, out, history, req, letter, job, retry>>
    BY <1>16 DEF LetterPick, LetterSkipped, LetterCrash
  <2>1. Onward BY <2>0 DEF Onward
  <2>2. JobsReady' BY <1>k, <2>0, <2>1, ReadyFrame
  <2> QED BY <1>k, <2>0, <2>2, HandOffFrame DEF Known
<1>17. ASSUME NEW a \in LetterAdmin, LetterEnqueue(a) PROVE HandOffInv'
  <2>0. UNCHANGED <<row, out, history, req, letter, retry>>
    BY <1>17 DEF LetterEnqueue
  <2>1. Onward BY <2>0 DEF Onward
  <2>2. PICK l \in redeliver[a].todo, j \in Job :
          job' = [job EXCEPT ![j] = NewJob(letter[l].ev, letter[l].keyed, JobAttempts)]
    BY <1>17 DEF LetterEnqueue
  <2>3. row[letter[l].ev] # "none" BY <1>k DEF Known, TypeOK, SlotsOK
  <2>4. Ready(NewJob(letter[l].ev, letter[l].keyed, JobAttempts), row', out', history')
    BY <2>0, <2>3 DEF Ready, NewJob
  <2>5. JobsReady' BY <1>k, <2>1, <2>2, <2>4, ReadyUpdate
  <2> QED BY <1>k, <2>0, <2>5, HandOffFrame DEF Known
<1>18. ASSUME NEW a \in LetterAdmin, LetterMark(a) PROVE HandOffInv'
  <2>0. UNCHANGED <<row, out, history, req, job, retry>>
    BY <1>18 DEF LetterMark
  <2>1. Onward BY <2>0 DEF Onward
  <2>2. JobsReady' BY <1>k, <2>0, <2>1, ReadyFrame
  <2>3. \A l \in Letter : letter'[l].ev = letter[l].ev
    BY <1>18, LetterRecordSteps DEF LetterMark, TypeOK
  <2>4. Known' BY <1>k, <2>0, <2>3 DEF Known
  <2> QED BY <2>0, <2>2, <2>4, HandOffFrame
<1>19. ASSUME NEW l \in Letter, LetterResolve(l) PROVE HandOffInv'
  <2>0. UNCHANGED <<row, out, history, req, job, retry>>
    BY <1>19 DEF LetterResolve
  <2>1. Onward BY <2>0 DEF Onward
  <2>2. JobsReady' BY <1>k, <2>0, <2>1, ReadyFrame
  <2>3. \A k \in Letter : letter'[k].ev = letter[k].ev
    BY <1>19, LetterRecordSteps DEF LetterResolve, TypeOK
  <2>4. Known' BY <1>k, <2>0, <2>3 DEF Known
  <2> QED BY <2>0, <2>2, <2>4, HandOffFrame
<1> QED
  BY <1>1, <1>2, <1>3, <1>4, <1>5, <1>6, <1>7, <1>8, <1>9, <1>10, <1>11, <1>12, <1>13,
     <1>14, <1>15, <1>16, <1>17, <1>18, <1>19 DEF Next

LEMMA HandOffInit == Init => HandOffInv
BY ConstantAssumption, EmptySlots
   DEF Init, HandOffInv, Known, OutOK, HandedOff, JobsReady, Ready, FreeJob, IdleReq, NoLetter

(* Together with the types, hand-over holds in every reachable state.      *)
LEMMA HandOffAlways == Spec => [](TypeOK /\ SlotsOK /\ HandOffInv)
<1>1. TypeOK /\ SlotsOK /\ HandOffInv /\ [Next]_vars => HandOffInv'
  BY HandOffStep
<1> QED BY <1>1, HandOffInit, TypeCorrect, PTL DEF Spec

(* A row says "processed" only when all the follow-up work the event calls *)
(* for was queued and its history was attempted, however many attempts,    *)
(* stalls, crashes and requeues there were.                                *)
THEOREM ProcessedIsHandedOff == Spec => []HandedOff
<1>1. HandOffInv => HandedOff BY DEF HandOffInv
<1> QED BY <1>1, HandOffAlways, PTL
-----------------------------------------------------------------------------
(* The pipeline implements FollowUps.                                      *)

LEMMA PromiseInit == Init => Ledger!Init
BY DEF Init, Ledger!Init

LEMMA PromiseStep ==
  TypeOK /\ SlotsOK /\ HandOffInv /\ [Next]_vars => [Ledger!Next]_(Ledger!vars)
<1> SUFFICES ASSUME TypeOK, SlotsOK, HandOffInv, [Next]_vars
             PROVE  Ledger!Next \/ UNCHANGED <<row, out>>
  BY DEF Ledger!vars
<1>k. Known /\ OutOK /\ JobsReady
  BY DEF HandOffInv
<1>1. CASE UNCHANGED vars
  BY <1>1 DEF vars
<1>2. ASSUME NEW r \in Request, NEW e \in Event, ReceiveSave(r, e) PROVE Ledger!Next
  <2>1. Ledger!Accept(e) BY <1>2 DEF ReceiveSave, Ledger!Accept
  <2> QED BY <2>1 DEF Ledger!Next
<1>3. ASSUME NEW r \in Request, ReceiveMarkFailed(r)
      PROVE  Ledger!Next \/ UNCHANGED <<row, out>>
  <2>1. PICK e \in Event : e = req[r].ev BY <1>3 DEF ReceiveMarkFailed, SlotsOK
  <2>2. row[e] # "none" BY <1>3, <1>k, <2>1 DEF ReceiveMarkFailed, Known
  <2>3. CASE row' = [row EXCEPT ![e] = "failed"]
    <3>1. Ledger!Settle(e) BY <1>3, <2>2, <2>3 DEF ReceiveMarkFailed, Ledger!Settle
    <3> QED BY <3>1 DEF Ledger!Next
  <2> QED BY <1>3, <2>1, <2>3 DEF ReceiveMarkFailed
<1>4. ASSUME NEW j \in Job, QueueTask(j) PROVE Ledger!Next \/ UNCHANGED <<row, out>>
  <2>1. PICK e \in Event : e = job[j].ev BY <1>4 DEF QueueTask, SlotsOK, GoodJob
  <2>2. AfterHistory(e) = "task" /\ row[e] # "none"
    BY <1>4, <1>k, <2>1 DEF QueueTask, JobsReady, Ready
  <2>3. PICK k \in FollowUp : k = TaskFollowUp(e) /\ k # "time"
    BY DEF TaskFollowUp, FollowUp
  <2>4. k \in Required(e) BY <2>2, <2>3, RequiredOf
  <2>5. out' = [out EXCEPT ![e] = @ \cup {k}] /\ UNCHANGED row
    BY <1>4, <2>1, <2>3 DEF QueueTask
  <2>6. CASE k \in out[e]
    BY <2>5, <2>6 DEF TypeOK
  <2>7. CASE k \notin out[e]
    <3>1. Ledger!Queue(e, k) BY <2>2, <2>3, <2>4, <2>5, <2>7 DEF Ledger!Queue
    <3> QED BY <3>1 DEF Ledger!Next
  <2> QED BY <2>6, <2>7
<1>5. ASSUME NEW j \in Job, QueueTime(j) PROVE Ledger!Next \/ UNCHANGED <<row, out>>
  <2>1. PICK e \in Event : e = job[j].ev BY <1>5 DEF QueueTime, SlotsOK, GoodJob
  <2>2. /\ AfterHistory(e) = "task" /\ row[e] # "none"
        /\ TimeSync(e) /\ "sync" \in out[e]
    BY <1>5, <1>k, <2>1 DEF QueueTime, JobsReady, Ready
  <2>3. "time" \in Required(e) BY <2>2, RequiredOf
  <2>4. out' = [out EXCEPT ![e] = @ \cup {"time"}] /\ UNCHANGED row
    BY <1>5, <2>1 DEF QueueTime
  <2>5. CASE "time" \in out[e]
    BY <2>4, <2>5 DEF TypeOK
  <2>6. CASE "time" \notin out[e]
    <3>1. "time" \in FollowUp BY DEF FollowUp
    <3>2. Ledger!Queue(e, "time")
      BY <2>2, <2>3, <2>4, <2>6, <3>1 DEF Ledger!Queue
    <3> QED BY <3>1, <3>2 DEF Ledger!Next
  <2> QED BY <2>5, <2>6
<1>6. ASSUME NEW j \in Job, MarkProcessed(j) PROVE Ledger!Next \/ UNCHANGED <<row, out>>
  <2>1. PICK e \in Event : e = job[j].ev BY <1>6 DEF MarkProcessed, SlotsOK, GoodJob
  <2>2. Required(e) \subseteq out[e] /\ row[e] # "none"
    BY <1>6, <1>k, <2>1 DEF MarkProcessed, JobsReady, Ready
  <2>3. CASE row' = [row EXCEPT ![e] = "processed"]
    <3>1. Ledger!Settle(e) BY <1>6, <2>2, <2>3 DEF MarkProcessed, Ledger!Settle
    <3> QED BY <3>1 DEF Ledger!Next
  <2> QED BY <1>6, <2>1, <2>3 DEF MarkProcessed
<1>7. ASSUME NEW j \in Job, MarkExhausted(j) PROVE Ledger!Next \/ UNCHANGED <<row, out>>
  <2>1. PICK e \in Event : e = job[j].ev BY <1>7 DEF MarkExhausted, SlotsOK, GoodJob
  <2>2. row[e] # "none" BY <1>7, <1>k, <2>1 DEF MarkExhausted, JobsReady, Ready
  <2>3. CASE row' = [row EXCEPT ![e] = "failed"]
    <3>1. Ledger!Settle(e) BY <1>7, <2>2, <2>3 DEF MarkExhausted, Ledger!Settle
    <3> QED BY <3>1 DEF Ledger!Next
  <2> QED BY <1>7, <2>1, <2>3 DEF MarkExhausted
<1>8. ASSUME NEW a \in RetryAdmin, RetryMark(a) PROVE Ledger!Next \/ UNCHANGED <<row, out>>
  <2>1. PICK e \in retry[a].marking : row' = row \/ row' = [row EXCEPT ![e] = "received"]
    BY <1>8 DEF RetryMark
  <2>2. e \in Event /\ row[e] # "none" BY <1>k, <2>1 DEF Known, TypeOK
  <2>3. CASE row' = [row EXCEPT ![e] = "received"]
    <3>1. Ledger!Reopen(e) BY <1>8, <2>2, <2>3 DEF RetryMark, Ledger!Reopen
    <3> QED BY <2>2, <3>1 DEF Ledger!Next
  <2> QED BY <1>8, <2>1, <2>3 DEF RetryMark
<1>9. ASSUME NEW r \in Request, ReceiveEnqueue(r) \/ ReceiveEnqueueFails(r) \/ ReceiveCrash(r)
      PROVE  UNCHANGED <<row, out>>
  BY <1>9 DEF ReceiveEnqueue, ReceiveEnqueueFails, ReceiveCrash
<1>10. ASSUME NEW j \in Job, \/ Take(j) \/ PersistHistory(j) \/ AttemptFails(j)
                             \/ WriteLetter(j) \/ JobStalls(j) \/ HookCrash(j)
       PROVE  UNCHANGED <<row, out>>
  BY <1>10 DEF Take, PersistHistory, AttemptFails, WriteLetter, JobStalls, HookCrash
<1>11. ASSUME NEW a \in RetryAdmin,
              RetryScan(a) \/ RetryEnqueue(a) \/ RetryAborts(a) \/ RetryCrash(a)
       PROVE  UNCHANGED <<row, out>>
  BY <1>11 DEF RetryScan, RetryEnqueue, RetryAborts, RetryCrash
<1>12. ASSUME NEW a \in LetterAdmin,
              \/ LetterPick(a) \/ LetterEnqueue(a) \/ LetterSkipped(a) \/ LetterMark(a)
              \/ LetterCrash(a)
       PROVE  UNCHANGED <<row, out>>
  BY <1>12 DEF LetterPick, LetterEnqueue, LetterSkipped, LetterMark, LetterCrash
<1>13. ASSUME NEW l \in Letter, LetterResolve(l) PROVE UNCHANGED <<row, out>>
  BY <1>13 DEF LetterResolve
<1> QED
  BY <1>1, <1>2, <1>3, <1>4, <1>5, <1>6, <1>7, <1>8, <1>9, <1>10, <1>11, <1>12, <1>13 DEF Next

(* The pipeline, with all its retries, crashes and requeues, is an         *)
(* implementation of FollowUps: every behaviour of it is, seen from the    *)
(* rows and the queues behind it, a behaviour of that specification.       *)
THEOREM ImplementsFollowUps == Spec => KeepsPromises
<1>1. Init => Ledger!Init BY PromiseInit
<1>2. TypeOK /\ SlotsOK /\ HandOffInv /\ [Next]_vars => [Ledger!Next]_(Ledger!vars)
  BY PromiseStep
<1> QED BY <1>1, <1>2, HandOffAlways, PTL DEF Spec, KeepsPromises, Ledger!Spec

-----------------------------------------------------------------------------
(* Dead letters.                                                           *)

(* A letter is marked retried only out of the hands of a request that has  *)
(* queued its job.                                                         *)
RetriedInv ==
  /\ RetriedMeansRequeued
  /\ \A a \in LetterAdmin : redeliver[a].marking \subseteq requeued

LEMMA RetriedStep == TypeOK /\ SlotsOK /\ RetriedInv /\ [Next]_vars => RetriedInv'
<1> SUFFICES ASSUME TypeOK, SlotsOK, RetriedInv, [Next]_vars PROVE RetriedInv'
  OBVIOUS
<1>1. ASSUME UNCHANGED <<letter, redeliver, requeued>> PROVE RetriedInv'
  BY <1>1 DEF RetriedInv, RetriedMeansRequeued
<1>2. ASSUME NEW j \in Job, WriteLetter(j) PROVE RetriedInv'
  <2>1. \A l \in Letter : letter'[l].retried => letter[l].retried
    BY <1>2 DEF WriteLetter, TypeOK
  <2> QED BY <1>2, <2>1 DEF WriteLetter, RetriedInv, RetriedMeansRequeued
<1>3. ASSUME NEW a \in LetterAdmin, LetterPick(a) \/ LetterSkipped(a) \/ LetterCrash(a)
      PROVE  RetriedInv'
  <2>1. \A b \in LetterAdmin : redeliver'[b].marking \subseteq redeliver[b].marking
    BY <1>3 DEF LetterPick, LetterSkipped, LetterCrash, TypeOK
  <2> QED BY <1>3, <2>1 DEF LetterPick, LetterSkipped, LetterCrash, RetriedInv, RetriedMeansRequeued
<1>4. ASSUME NEW a \in LetterAdmin, LetterEnqueue(a) PROVE RetriedInv'
  <2>1. PICK l \in redeliver[a].todo :
          /\ redeliver' = [redeliver EXCEPT ![a] = [todo |-> @.todo \ {l}, marking |-> {l}]]
          /\ requeued' = requeued \cup {l}
    BY <1>4 DEF LetterEnqueue
  <2>2. \A b \in LetterAdmin : redeliver'[b].marking \subseteq redeliver[b].marking \cup {l}
    BY <2>1 DEF TypeOK
  <2> QED BY <1>4, <2>1, <2>2 DEF LetterEnqueue, RetriedInv, RetriedMeansRequeued
<1>5. ASSUME NEW a \in LetterAdmin, LetterMark(a) PROVE RetriedInv'
  <2>1. PICK l \in redeliver[a].marking :
          /\ letter' = letter \/ letter' = [letter EXCEPT ![l] = Retried(@)]
          /\ redeliver' = [redeliver EXCEPT ![a] = [todo |-> @.todo, marking |-> {}]]
    BY <1>5 DEF LetterMark
  <2>2. \A k \in Letter : k # l => letter'[k] = letter[k]
    BY <2>1 DEF TypeOK
  <2>3. l \in requeued BY <2>1 DEF RetriedInv
  <2>4. \A b \in LetterAdmin : redeliver'[b].marking \subseteq redeliver[b].marking
    BY <2>1 DEF TypeOK
  <2>5. UNCHANGED requeued BY <1>5 DEF LetterMark
  <2> QED BY <2>2, <2>3, <2>4, <2>5 DEF RetriedInv, RetriedMeansRequeued
<1>6. ASSUME NEW l \in Letter, LetterResolve(l) PROVE RetriedInv'
  <2>1. \A k \in Letter : letter'[k].retried = letter[k].retried
    BY <1>6, LetterRecordSteps DEF LetterResolve, TypeOK
  <2> QED BY <1>6, <2>1 DEF LetterResolve, RetriedInv, RetriedMeansRequeued
<1>7. ASSUME NEW r \in Request,
             \/ \E e \in Event : ReceiveSave(r, e)
             \/ ReceiveEnqueue(r) \/ ReceiveEnqueueFails(r) \/ ReceiveMarkFailed(r)
             \/ ReceiveCrash(r)
      PROVE  UNCHANGED <<letter, redeliver, requeued>>
  BY <1>7 DEF ReceiveSave, ReceiveEnqueue, ReceiveEnqueueFails, ReceiveMarkFailed, ReceiveCrash
<1>8. ASSUME NEW j \in Job,
             \/ Take(j) \/ PersistHistory(j) \/ QueueTask(j) \/ QueueTime(j) \/ AttemptFails(j)
             \/ MarkProcessed(j) \/ MarkExhausted(j) \/ JobStalls(j) \/ HookCrash(j)
      PROVE  UNCHANGED <<letter, redeliver, requeued>>
  BY <1>8 DEF Take, PersistHistory, QueueTask, QueueTime, AttemptFails, MarkProcessed,
              MarkExhausted, JobStalls, HookCrash
<1>9. ASSUME NEW a \in RetryAdmin,
             RetryScan(a) \/ RetryEnqueue(a) \/ RetryAborts(a) \/ RetryMark(a) \/ RetryCrash(a)
      PROVE  UNCHANGED <<letter, redeliver, requeued>>
  BY <1>9 DEF RetryScan, RetryEnqueue, RetryAborts, RetryMark, RetryCrash
<1>10. CASE UNCHANGED vars
  BY <1>1, <1>10 DEF vars
<1> QED BY <1>1, <1>2, <1>3, <1>4, <1>5, <1>6, <1>7, <1>8, <1>9, <1>10 DEF Next

(* A dead letter is listed as retried only when its job went back to the   *)
(* queue, for any number of concurrent retry requests and any failures in  *)
(* the middle of a batch.                                                  *)
THEOREM RetriedWasRequeued == Spec => []RetriedMeansRequeued
<1>1. Init => RetriedInv
  BY EmptySlots DEF Init, RetriedInv, RetriedMeansRequeued, NoLetter
<1>2. TypeOK /\ SlotsOK /\ RetriedInv /\ [Next]_vars => RetriedInv'
  BY RetriedStep
<1>3. RetriedInv => RetriedMeansRequeued
  BY DEF RetriedInv
<1> QED BY <1>1, <1>2, <1>3, TypeCorrect, PTL DEF Spec

-----------------------------------------------------------------------------
(* Which window takes what.  A window opens only where the installation    *)
(* meets the fault it is named for, payloads that hash differently when    *)
(* they are parsed again, or an admin who retries failed events.           *)

Exposed ==
  (IF "crash" \in Faults THEN {"crashed_before_enqueue", "stalled_out", "letter_lost"} ELSE {})
    \cup (IF "mark_write" \in Faults THEN {"failed_mark_lost", "processed_mark_lost"} ELSE {})
    \cup (IF "letter_write" \in Faults THEN {"letter_lost"} ELSE {})
    \cup (IF Unstable # {} THEN {"processed_mark_lost"} ELSE {})
    \cup (IF RetryAdmin # {} THEN {"requeue_late"} ELSE {})

(* Without unstable payloads every job and every dead letter bears the     *)
(* fingerprint of the row it came from.                                    *)
AllKeyed ==
  Unstable = {} => (\A j \in Job : job[j].keyed) /\ (\A l \in Letter : letter[l].keyed)

WindowInv == AllKeyed /\ \A e \in Event : gap[e] \subseteq Exposed

LEMMA KeyedRecords ==
  /\ FreeJob.keyed /\ NoLetter.keyed
  /\ \A e, n : NewJob(e, TRUE, n).keyed
  /\ \A b \in JobRecord : /\ \A p : AtPhase(b, p).keyed = b.keyed
                          /\ OneAttemptLess(b).keyed = b.keyed
                          /\ Stalled(b).keyed = b.keyed
  /\ \A x \in LetterRecord : Retried(x).keyed = x.keyed /\ Resolved(x).keyed = x.keyed
<1>1. \A b \in JobRecord : \A p : AtPhase(b, p).keyed = b.keyed BY DEF AtPhase, JobRecord
<1>2. \A x \in LetterRecord : Retried(x).keyed = x.keyed /\ Resolved(x).keyed = x.keyed
  BY DEF Retried, Resolved, LetterRecord
<1> QED BY <1>1, <1>2 DEF FreeJob, NoLetter, NewJob, OneAttemptLess, Stalled

(* A job slot or a letter is written.                                      *)
LEMMA JobKeyed ==
  ASSUME TypeOK, Unstable = {}, AllKeyed, NEW j \in Job, NEW b, b.keyed,
         job' = [job EXCEPT ![j] = b]
  PROVE  \A k \in Job : job'[k].keyed
BY DEF TypeOK, AllKeyed

LEMMA LetterKeyed ==
  ASSUME TypeOK, Unstable = {}, AllKeyed, NEW l \in Letter, NEW x, x.keyed,
         letter' = [letter EXCEPT ![l] = x]
  PROVE  \A k \in Letter : letter'[k].keyed
BY DEF TypeOK, AllKeyed

LEMMA KeyedStep == TypeOK /\ SlotsOK /\ AllKeyed /\ [Next]_vars => AllKeyed'
<1> SUFFICES ASSUME TypeOK, SlotsOK, AllKeyed, [Next]_vars, Unstable = {}
             PROVE  (\A j \in Job : job'[j].keyed) /\ (\A l \in Letter : letter'[l].keyed)
  BY DEF AllKeyed
<1> DEFINE Jobs == \A j \in Job : job'[j].keyed
           Letters == \A l \in Letter : letter'[l].keyed
<1>t. /\ \A j \in Job : job[j] \in JobRecord /\ job[j].keyed
      /\ \A l \in Letter : letter[l] \in LetterRecord /\ letter[l].keyed
  BY DEF TypeOK, AllKeyed
<1>j. job' = job => Jobs BY <1>t
<1>l. letter' = letter => Letters BY <1>t
<1>n. ASSUME NEW j \in Job, NEW e, NEW n, job' = [job EXCEPT ![j] = NewJob(e, TRUE, n)]
      PROVE  Jobs
  <2>1. NewJob(e, TRUE, n).keyed BY KeyedRecords
  <2> QED BY <1>n, <2>1, JobKeyed
<1>1. ASSUME NEW r \in Request,
             \/ \E e \in Event : ReceiveSave(r, e)
             \/ ReceiveEnqueue(r) \/ ReceiveEnqueueFails(r) \/ ReceiveMarkFailed(r)
             \/ ReceiveCrash(r)
      PROVE  Jobs /\ Letters
  <2>1. letter' = letter
    BY <1>1 DEF ReceiveSave, ReceiveEnqueue, ReceiveEnqueueFails, ReceiveMarkFailed, ReceiveCrash
  <2>2. \/ job' = job
        \/ \E j \in Job : job' = [job EXCEPT ![j] = NewJob(req[r].ev, TRUE, WebhookAttempts)]
    BY <1>1 DEF ReceiveSave, ReceiveEnqueue, ReceiveEnqueueFails, ReceiveMarkFailed, ReceiveCrash
  <2>3. Jobs BY <2>2, <1>j, <1>n
  <2> QED BY <2>1, <2>3, <1>l
<1>2. ASSUME NEW j \in Job,
             Take(j) \/ PersistHistory(j) \/ QueueTask(j) \/ QueueTime(j) \/ AttemptFails(j)
             \/ MarkProcessed(j) \/ MarkExhausted(j) \/ JobStalls(j) \/ HookCrash(j)
      PROVE  Jobs /\ Letters
  <2>1. letter' = letter
    BY <1>2 DEF Take, PersistHistory, QueueTask, QueueTime, AttemptFails, MarkProcessed,
                MarkExhausted, JobStalls, HookCrash
  <2>2. \E b : b.keyed /\ job' = [job EXCEPT ![j] = b]
    <3>1. CASE Take(j) \/ PersistHistory(j) \/ QueueTask(j) \/ QueueTime(j)
      <4>1. \E p : job' = [job EXCEPT ![j] = AtPhase(job[j], p)]
        BY <3>1 DEF Take, PersistHistory, QueueTask, QueueTime, TypeOK
      <4> QED BY <4>1, <1>t, KeyedRecords
    <3>2. CASE AttemptFails(j)
      <4>1. job' = [job EXCEPT ![j] = OneAttemptLess(job[j])] BY <3>2 DEF AttemptFails, TypeOK
      <4> QED BY <4>1, <1>t, KeyedRecords
    <3>3. CASE MarkProcessed(j) \/ MarkExhausted(j) \/ HookCrash(j)
      <4>1. job' = [job EXCEPT ![j] = FreeJob]
        BY <3>3 DEF MarkProcessed, MarkExhausted, HookCrash
      <4> QED BY <4>1, KeyedRecords
    <3>4. CASE JobStalls(j)
      <4>1. \E b \in {FreeJob, Stalled(job[j]), OneAttemptLess(job[j])} :
              job' = [job EXCEPT ![j] = b]
        BY <3>4 DEF JobStalls, TypeOK
      <4>2. \A b \in {FreeJob, Stalled(job[j]), OneAttemptLess(job[j])} : b.keyed
        BY <1>t, KeyedRecords
      <4> QED BY <4>1, <4>2
    <3> QED BY <1>2, <3>1, <3>2, <3>3, <3>4
  <2> QED BY <2>1, <2>2, <1>l, JobKeyed
<1>3. ASSUME NEW j \in Job, WriteLetter(j) PROVE Jobs /\ Letters
  <2>1. \E b \in {FreeJob, AtPhase(job[j], "lettered")} : job' = [job EXCEPT ![j] = b]
    BY <1>3 DEF WriteLetter, TypeOK
  <2>2. \/ letter' = letter
        \/ \E l \in Letter : \E x : x.keyed = job[j].keyed /\ letter' = [letter EXCEPT ![l] = x]
    BY <1>3 DEF WriteLetter
  <2>3. Jobs BY <2>1, <1>t, KeyedRecords, JobKeyed
  <2>4. Letters BY <2>2, <1>t, <1>l, LetterKeyed
  <2> QED BY <2>3, <2>4
<1>4. ASSUME NEW a \in RetryAdmin,
             RetryScan(a) \/ RetryEnqueue(a) \/ RetryAborts(a) \/ RetryMark(a) \/ RetryCrash(a)
      PROVE  Jobs /\ Letters
  <2>1. letter' = letter
    BY <1>4 DEF RetryScan, RetryEnqueue, RetryAborts, RetryMark, RetryCrash
  <2>2. \/ job' = job
        \/ \E j \in Job : \E e : job' = [job EXCEPT ![j] = NewJob(e, TRUE, WebhookAttempts)]
    BY <1>4 DEF RetryScan, RetryEnqueue, RetryAborts, RetryMark, RetryCrash
  <2>3. Jobs BY <2>2, <1>j, <1>n
  <2> QED BY <2>1, <2>3, <1>l
<1>5. ASSUME NEW a \in LetterAdmin,
             LetterPick(a) \/ LetterEnqueue(a) \/ LetterSkipped(a) \/ LetterMark(a) \/ LetterCrash(a)
      PROVE  Jobs /\ Letters
  <2>1. CASE LetterEnqueue(a)
    <3>1. PICK l \in Letter, j \in Job :
            job' = [job EXCEPT ![j] = NewJob(letter[l].ev, letter[l].keyed, JobAttempts)]
      BY <2>1 DEF LetterEnqueue, TypeOK
    <3>2. NewJob(letter[l].ev, letter[l].keyed, JobAttempts).keyed
      BY <1>t DEF NewJob
    <3>3. letter' = letter BY <2>1 DEF LetterEnqueue
    <3> QED BY <3>1, <3>2, <3>3, <1>l, JobKeyed
  <2>2. CASE LetterMark(a)
    <3>1. PICK l \in Letter : letter' \in {letter, [letter EXCEPT ![l] = Retried(letter[l])]}
      BY <2>2 DEF LetterMark, TypeOK
    <3>2. Retried(letter[l]).keyed BY <1>t, KeyedRecords
    <3>3. job' = job BY <2>2 DEF LetterMark
    <3> QED BY <3>1, <3>2, <3>3, <1>j, <1>l, LetterKeyed
  <2>3. CASE LetterPick(a) \/ LetterSkipped(a) \/ LetterCrash(a)
    BY <2>3, <1>j, <1>l DEF LetterPick, LetterSkipped, LetterCrash
  <2> QED BY <1>5, <2>1, <2>2, <2>3
<1>6. ASSUME NEW l \in Letter, LetterResolve(l) PROVE Jobs /\ Letters
  <2>1. letter' = [letter EXCEPT ![l] = Resolved(letter[l])] BY <1>6 DEF LetterResolve, TypeOK
  <2>2. job' = job BY <1>6 DEF LetterResolve
  <2> QED BY <2>1, <2>2, <1>t, <1>j, KeyedRecords, LetterKeyed
<1>7. CASE UNCHANGED vars BY <1>7, <1>j, <1>l DEF vars
<1> QED BY <1>1, <1>2, <1>3, <1>4, <1>5, <1>6, <1>7 DEF Next

(* A window opens.                                                         *)
LEMMA Opens ==
  ASSUME TypeOK, \A e \in Event : gap[e] \subseteq Exposed, NEW ev, NEW W \in SUBSET Exposed,
         gap' = [gap EXCEPT ![ev] = @ \cup W]
  PROVE  \A e \in Event : gap'[e] \subseteq Exposed
BY DEF TypeOK

LEMMA WindowStep == TypeOK /\ SlotsOK /\ WindowInv /\ [Next]_vars => WindowInv'
<1> SUFFICES ASSUME TypeOK, SlotsOK, WindowInv, [Next]_vars
             PROVE  \A e \in Event : gap'[e] \subseteq Exposed
  BY KeyedStep DEF WindowInv
<1>g. \A e \in Event : gap[e] \subseteq Exposed BY DEF WindowInv
<1>o. ASSUME \/ gap' = gap
             \/ \E ev, w : w \in Exposed /\ gap' = [gap EXCEPT ![ev] = @ \cup {w}]
      PROVE  \A e \in Event : gap'[e] \subseteq Exposed
  <2>1. ASSUME NEW ev, NEW w \in Exposed, gap' = [gap EXCEPT ![ev] = @ \cup {w}]
        PROVE  \A e \in Event : gap'[e] \subseteq Exposed
    <3>1. {w} \in SUBSET Exposed BY <2>1
    <3> QED BY <2>1, <3>1, <1>g, Opens
  <2> QED BY <1>o, <2>1, <1>g
<1>k. Unstable = {} => \A j \in Job : job[j].keyed BY DEF WindowInv, AllKeyed
<1>1. ASSUME NEW r \in Request, ReceiveMarkFailed(r) PROVE \A e \in Event : gap'[e] \subseteq Exposed
  <2>1. "mark_write" \in Faults => "failed_mark_lost" \in Exposed BY DEF Exposed
  <2> QED BY <1>1, <2>1, <1>o DEF ReceiveMarkFailed
<1>2. ASSUME NEW r \in Request, ReceiveCrash(r) PROVE \A e \in Event : gap'[e] \subseteq Exposed
  <2>1. "crash" \in Faults => "crashed_before_enqueue" \in Exposed BY DEF Exposed
  <2> QED BY <1>2, <2>1, <1>o DEF ReceiveCrash
<1>3. ASSUME NEW j \in Job, MarkProcessed(j) PROVE \A e \in Event : gap'[e] \subseteq Exposed
  <2>1. "mark_write" \in Faults \/ Unstable # {} => "processed_mark_lost" \in Exposed BY DEF Exposed
  <2>2. \/ gap' = gap
        \/ /\ ~job[j].keyed \/ "mark_write" \in Faults
           /\ gap' = [gap EXCEPT ![job[j].ev] = @ \cup {"processed_mark_lost"}]
    BY <1>3 DEF MarkProcessed
  <2> QED BY <2>1, <2>2, <1>k, <1>o
<1>4. ASSUME NEW j \in Job, WriteLetter(j) PROVE \A e \in Event : gap'[e] \subseteq Exposed
  <2>1. "letter_write" \in Faults => "letter_lost" \in Exposed BY DEF Exposed
  <2>2. \/ gap' = gap
        \/ /\ "letter_write" \in Faults
           /\ gap' = [gap EXCEPT ![job[j].ev] = @ \cup {"letter_lost"}]
    BY <1>4 DEF WriteLetter
  <2> QED BY <2>1, <2>2, <1>o
<1>5. ASSUME NEW j \in Job, JobStalls(j) \/ HookCrash(j)
      PROVE  \A e \in Event : gap'[e] \subseteq Exposed
  <2>1. "crash" \in Faults => {"stalled_out", "letter_lost"} \subseteq Exposed BY DEF Exposed
  <2>2. "crash" \in Faults BY <1>5 DEF JobStalls, HookCrash
  <2>3. \/ gap' = gap
        \/ \E w \in {"stalled_out", "letter_lost"} : gap' = [gap EXCEPT ![job[j].ev] = @ \cup {w}]
    BY <1>5 DEF JobStalls, HookCrash, TypeOK
  <2> QED BY <2>1, <2>2, <2>3, <1>o
<1>6. ASSUME NEW a \in RetryAdmin, RetryMark(a) PROVE \A e \in Event : gap'[e] \subseteq Exposed
  <2>1. "requeue_late" \in Exposed BY <1>6 DEF Exposed
  <2>2. \/ gap' = gap
        \/ \E e : gap' = [gap EXCEPT ![e] = @ \cup {"requeue_late"}]
    BY <1>6 DEF RetryMark, TypeOK
  <2> QED BY <2>1, <2>2, <1>o
<1>7. ASSUME NEW r \in Request,
             (\E e \in Event : ReceiveSave(r, e)) \/ ReceiveEnqueue(r) \/ ReceiveEnqueueFails(r)
      PROVE  gap' = gap
  BY <1>7 DEF ReceiveSave, ReceiveEnqueue, ReceiveEnqueueFails
<1>8. ASSUME NEW j \in Job,
             Take(j) \/ PersistHistory(j) \/ QueueTask(j) \/ QueueTime(j) \/ AttemptFails(j)
             \/ MarkExhausted(j)
      PROVE  gap' = gap
  BY <1>8 DEF Take, PersistHistory, QueueTask, QueueTime, AttemptFails, MarkExhausted
<1>9. ASSUME NEW a \in RetryAdmin,
             RetryScan(a) \/ RetryEnqueue(a) \/ RetryAborts(a) \/ RetryCrash(a)
      PROVE  gap' = gap
  BY <1>9 DEF RetryScan, RetryEnqueue, RetryAborts, RetryCrash
<1>10. ASSUME NEW a \in LetterAdmin,
              LetterPick(a) \/ LetterEnqueue(a) \/ LetterSkipped(a) \/ LetterMark(a) \/ LetterCrash(a)
       PROVE  gap' = gap
  BY <1>10 DEF LetterPick, LetterEnqueue, LetterSkipped, LetterMark, LetterCrash
<1>11. ASSUME NEW l \in Letter, LetterResolve(l) PROVE gap' = gap
  BY <1>11 DEF LetterResolve
<1>12. CASE UNCHANGED vars BY <1>12, <1>o DEF vars
<1> QED
  BY <1>1, <1>2, <1>3, <1>4, <1>5, <1>6, <1>7, <1>8, <1>9, <1>10, <1>11, <1>12, <1>o DEF Next

(* Each window is the work of the fault it is named for, and of nothing    *)
(* else the receiver, the worker, onFailed() or the admin tools do: what   *)
(* an installation is not exposed to never happens to any event.           *)
THEOREM WindowsNeedFaults == Spec => [](\A e \in Event : gap[e] \subseteq Exposed)
<1>1. Init => WindowInv
  BY KeyedRecords DEF Init, WindowInv, AllKeyed
<1>2. TypeOK /\ SlotsOK /\ WindowInv /\ [Next]_vars => WindowInv' BY WindowStep
<1>3. WindowInv => \A e \in Event : gap[e] \subseteq Exposed BY DEF WindowInv
<1> QED BY <1>1, <1>2, <1>3, TypeCorrect, PTL DEF Spec

(* The promise of the comments of ClickupEventProcessor, with what it      *)
(* takes: as long as no process dies, no mark and no dead letter fails to  *)
(* be written, payloads parse to the same fingerprint and nobody retries   *)
(* failed events, no event sits in "received" limbo, through failing       *)
(* queues, exhausted attempts, dead letters that are retried or resolved   *)
(* and any number of deliveries at once.                                   *)
THEOREM NoLimboUnexposed ==
  ASSUME Faults \subseteq {"history_write"}, Unstable = {}, RetryAdmin = {}
  PROVE  Spec => []NoReceivedLimbo
<1>1. Exposed = {} BY DEF Exposed
<1>2. Recoverable /\ (\A e \in Event : gap[e] \subseteq Exposed) => NoReceivedLimbo
  BY <1>1 DEF Recoverable, NoReceivedLimbo
<1> QED BY <1>2, NeverForgotten, WindowsNeedFaults, PTL
=============================================================================
