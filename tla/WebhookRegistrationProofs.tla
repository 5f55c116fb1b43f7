---------------------- MODULE WebhookRegistrationProofs ----------------------
(***************************************************************************)
(* Theorems about WebhookRegistration, for any number of instances,        *)
(* requests, endpoints and webhooks, and for any caps.                     *)
(***************************************************************************)
EXTENDS WebhookRegistration, TLAPS

(* What a request or a cron job refers to where it stands.                 *)
GoodTask(t, q) ==
  /\ q.pc # "idle" => q.on \in Server
  /\ q.pc = "idle" => q.on = None /\ q.endpoint = None
  /\ q.pc \in {"put", "store", "delete", "probe"} => q.hook \in Hook
  /\ q.pc \notin {"idle", "upsert", "read", "apply"} => q.endpoint \in Endpoint
  /\ q.pc = "apply" => q.row \in Row
  /\ q.op = "heal" /\ q.pc # "heal_list" => q.target \in Hook
  /\ q.op \in {"heal", "recreate"} => t \in Server /\ q.on = t
  /\ q.pc \in {"heal_list", "probe"} => q.op \in {"heal", "recreate"}
  /\ q.pc = "rotate_list" => q.op = "rotate"
  /\ q.pc = "delete" => q.op \in {"rotate", "recreate"}

TasksOK == \A t \in Task : GoodTask(t, task[t])

Recreating(i, pc, e) == task[i].op = "recreate" /\ task[i].pc = pc /\ task[i].endpoint = e

(* A recreation holds its slot of the daily cap before it deletes.         *)
SlotTaken ==
  \A i \in Server, e \in Endpoint :
    /\ Recreating(i, "probe", e) => recreates[i][e] < MaxRecreates
    /\ churned[i][e] <= recreates[i][e]
    /\ Recreating(i, "delete", e) => churned[i][e] < recreates[i][e]

TypeInv == TypeOK /\ TasksOK /\ SlotTaken

-----------------------------------------------------------------------------
(* How a step moves its task.                                              *)

Moved(t) ==
  /\ task' \in [Task -> TaskRecord]
  /\ \A u \in Task : u # t => task'[u] = task[u]

Ended(t) == Moved(t) /\ task'[t] = Idle

(* The task goes on to pc with what it has.                                *)
GoesOn(t, pc) ==
  /\ Moved(t)
  /\ task'[t].pc = pc /\ task'[t].op = task[t].op /\ task'[t].on = task[t].on
  /\ task'[t].endpoint = task[t].endpoint /\ task'[t].target = task[t].target

GoesOnWith(t, pc, h) == GoesOn(t, pc) /\ task'[t].hook = h

(* The task goes on to register() for the endpoint its instance knows.     *)
Registers(t, op) ==
  /\ Moved(t)
  /\ task'[t].pc = "list" /\ task'[t].op = op /\ task'[t].on = task[t].on
  /\ task'[t].endpoint = cache[task[t].on].endpoint /\ task'[t].target = task[t].target

(* An idle task starts.                                                    *)
Starts(t, op, pc, i, e) ==
  /\ Moved(t)
  /\ task'[t].pc = pc /\ task'[t].op = op /\ task'[t].on = i /\ task'[t].endpoint = e

LEMMA IdleFacts ==
  /\ Idle \in TaskRecord
  /\ Idle.pc = "idle" /\ Idle.op = "none" /\ Idle.on = None /\ Idle.endpoint = None /\ Idle.todo = {}
  /\ None \notin Hook \cup Endpoint \cup Task
BY ConstantAssumption DEF Idle, TaskRecord, Op, PC

LEMMA MovedBy ==
  ASSUME task \in [Task -> TaskRecord], NEW t \in Task, NEW q \in TaskRecord,
         task' = [task EXCEPT ![t] = q]
  PROVE  Moved(t) /\ task'[t] = q
BY DEF Moved

LEMMA FinishEnds ==
  ASSUME task \in [Task -> TaskRecord], NEW t \in Task, Finish(t)
  PROVE  Ended(t)
BY IdleFacts, MovedBy DEF Finish, Ended

LEMMA GotoGoesOn ==
  ASSUME task \in [Task -> TaskRecord], NEW t \in Task, NEW pc \in PC, Goto(t, pc)
  PROVE  GoesOn(t, pc) /\ task'[t].hook = task[t].hook
BY DEF Goto, GoesOn, Moved, TaskRecord

LEMMA HookGoesOn ==
  ASSUME task \in [Task -> TaskRecord], NEW t \in Task, NEW pc \in PC, NEW h \in Hook,
         task' = [task EXCEPT ![t].pc = pc, ![t].hook = h]
  PROVE  GoesOnWith(t, pc, h)
<1>1. task[t] \in TaskRecord
  OBVIOUS
<1>2. task'[t] \in TaskRecord
  BY <1>1 DEF TaskRecord
<1>3. \A u \in Task : u # t => task'[u] = task[u]
  OBVIOUS
<1>4. task' \in [Task -> TaskRecord]
  BY <1>2, <1>3
<1>5. /\ task'[t].pc = pc /\ task'[t].hook = h /\ task'[t].op = task[t].op
      /\ task'[t].on = task[t].on
  BY <1>1 DEF TaskRecord
<1>6. task'[t].endpoint = task[t].endpoint /\ task'[t].target = task[t].target
  BY <1>1 DEF TaskRecord
<1> QED BY <1>3, <1>4, <1>5, <1>6 DEF GoesOnWith, GoesOn, Moved

LEMMA RegisterRegisters ==
  ASSUME TypeInv, NEW t \in Task, task[t].on \in Server,
         task' = [task EXCEPT ![t] = Register(task[t])]
  PROVE  Registers(t, task[t].op)
<1> DEFINE q == Register(task[t])
<1>1. task[t] \in TaskRecord /\ cache[task[t].on].endpoint \in Endpoint
  BY DEF TypeInv, TypeOK, SettingsTypeOK, Row
<1>2. q \in TaskRecord
  BY <1>1 DEF Register, TaskRecord, PC
<1>3. /\ q.pc = "list" /\ q.op = task[t].op /\ q.on = task[t].on
      /\ q.endpoint = cache[task[t].on].endpoint /\ q.target = task[t].target
  BY <1>1 DEF Register, TaskRecord
<1>4. Moved(t) /\ task'[t] = q
  BY <1>2, MovedBy DEF TypeInv, TypeOK
<1> QED BY <1>3, <1>4 DEF Registers

LEMMA RegisterAnew ==
  ASSUME TypeInv, NEW t \in Task, task[t].on \in Server,
         task' = [task EXCEPT ![t] = [Register(task[t]) EXCEPT !.op = "register"]]
  PROVE  Registers(t, "register")
<1> DEFINE q == [Register(task[t]) EXCEPT !.op = "register"]
<1>1. task[t] \in TaskRecord /\ cache[task[t].on].endpoint \in Endpoint
  BY DEF TypeInv, TypeOK, SettingsTypeOK, Row
<1>2. q \in TaskRecord
  BY <1>1 DEF Register, TaskRecord, PC, Op
<1>3. /\ q.pc = "list" /\ q.op = "register" /\ q.on = task[t].on
      /\ q.endpoint = cache[task[t].on].endpoint /\ q.target = task[t].target
  BY <1>1 DEF Register, TaskRecord
<1>4. Moved(t) /\ task'[t] = q
  BY <1>2, MovedBy DEF TypeInv, TypeOK
<1> QED BY <1>3, <1>4 DEF Registers

LEMMA RequestStarts ==
  ASSUME TypeInv, NEW t \in Admin, NEW i \in Server, NEW op \in Op, NEW pc \in PC,
         Request(t, i, op, pc)
  PROVE  Starts(t, op, pc, i, cache[i].endpoint)
<1> DEFINE q == [Idle EXCEPT !.op = op, !.pc = pc, !.on = i, !.endpoint = cache[i].endpoint]
<1>1. cache[i].endpoint \in Endpoint /\ t \in Task
  BY DEF TypeInv, TypeOK, SettingsTypeOK, Row, Task
<1>2. q \in TaskRecord
  BY <1>1, IdleFacts DEF TaskRecord
<1>3. q.pc = pc /\ q.op = op /\ q.on = i /\ q.endpoint = cache[i].endpoint
  BY IdleFacts DEF TaskRecord
<1>4. Moved(t) /\ task'[t] = q
  BY <1>1, <1>2, MovedBy DEF Request, TypeInv, TypeOK
<1> QED BY <1>3, <1>4 DEF Starts

LEMMA PatchStarts ==
  ASSUME TypeInv, NEW t \in Admin, NEW i \in Server, BeginPatch(t, i)
  PROVE  /\ task[t].pc = "idle"
         /\ \E e \in Endpoint \cup {None} : Starts(t, "patch", "upsert", i, e)
         /\ \/ task'[t].prefs = {}
            \/ /\ cache[i].prefs \subseteq task'[t].prefs
               /\ cache[i].prefs = db.prefs \/ "stale_merge" \in gap'
<1>0. t \in Task /\ task[t].pc = "idle"
  BY DEF BeginPatch, Task
<1>1. PICK e \in Endpoint \cup {None}, s \in Secret \cup {None},
           prefs \in {{}} \cup {MergedPrefs(i, f) : f \in Field} :
        /\ task' = [task EXCEPT ![t] = [Idle EXCEPT !.op = "patch", !.pc = "upsert", !.on = i,
                                         !.endpoint = e, !.secret = s, !.prefs = prefs]]
        /\ gap' = IF prefs = {} \/ cache[i].prefs = db.prefs THEN gap ELSE gap \cup {"stale_merge"}
  BY DEF BeginPatch
<1>2. prefs \in SUBSET Field /\ (prefs = {} \/ cache[i].prefs \subseteq prefs)
  <2>1. cache[i].prefs \subseteq Field
    BY DEF TypeInv, TypeOK, SettingsTypeOK, Row
  <2>2. \A f \in Field : MergedPrefs(i, f) \in SUBSET Field /\ cache[i].prefs \subseteq MergedPrefs(i, f)
    BY <2>1 DEF MergedPrefs
  <2> QED BY <1>1, <2>2
<1> DEFINE q == [Idle EXCEPT !.op = "patch", !.pc = "upsert", !.on = i,
                             !.endpoint = e, !.secret = s, !.prefs = prefs]
<1>3. q \in TaskRecord
  BY <1>1, <1>2, IdleFacts DEF TaskRecord, Op, PC
<1>4. /\ q.pc = "upsert" /\ q.op = "patch" /\ q.on = i /\ q.endpoint = e
      /\ q.prefs = prefs
  BY IdleFacts DEF TaskRecord
<1>5. Moved(t) /\ task'[t] = q
  BY <1>0, <1>1, <1>3, MovedBy DEF TypeInv, TypeOK
<1> HIDE DEF q
<1>6. Starts(t, "patch", "upsert", i, e)
  BY <1>4, <1>5 DEF Starts
<1> QED BY <1>0, <1>1, <1>2, <1>4, <1>5, <1>6

LEMMA HealStarts ==
  ASSUME TypeInv, NEW i \in Server, BeginHeal(i)
  PROVE  Starts(i, "heal", "heal_list", i, cache[i].endpoint)
<1> DEFINE q == [Idle EXCEPT !.op = "heal", !.pc = "heal_list", !.on = i, !.endpoint = cache[i].endpoint]
<1>1. cache[i].endpoint \in Endpoint /\ i \in Task
  BY DEF TypeInv, TypeOK, SettingsTypeOK, Row, Task
<1>2. q \in TaskRecord
  BY <1>1, IdleFacts DEF TaskRecord, Op, PC
<1>3. q.pc = "heal_list" /\ q.op = "heal" /\ q.on = i /\ q.endpoint = cache[i].endpoint
  BY IdleFacts DEF TaskRecord
<1>4. Moved(i) /\ task'[i] = q
  BY <1>1, <1>2, MovedBy DEF BeginHeal, TypeInv, TypeOK
<1> QED BY <1>3, <1>4 DEF Starts

(* Where register(), the tools and the cron job go on.                     *)
LEMMA ListMoves ==
  ASSUME TypeInv, NEW t \in Task, List(t)
  PROVE  \/ /\ Matches(task[t].endpoint) = {}
            /\ GoesOn(t, "post")
         \/ /\ Matches(task[t].endpoint) # {}
            /\ Ended(t) \/ \E h \in Hook : GoesOnWith(t, "put", h)
<1> USE DEF TypeInv, TypeOK
<1>1. CASE Matches(task[t].endpoint) = {}
  BY <1>1, GotoGoesOn DEF List, PC
<1>2. CASE Matches(task[t].endpoint) # {}
  <2>1. PICK h \in Matches(task[t].endpoint) :
          \/ task' = [task EXCEPT ![t].pc = "put", ![t].hook = h]
          \/ hook[h].active /\ Finish(t)
    BY <1>2 DEF List
  <2>2. h \in Hook /\ "put" \in PC
    BY DEF Matches, PC
  <2> QED BY <1>2, <2>1, <2>2, FinishEnds, HookGoesOn
<1> QED BY <1>1, <1>2

LEMMA PostMoves ==
  ASSUME TypeInv, NEW t \in Task, Post(t)
  PROVE  \E h \in Hook :
           /\ hook[h].state = "unborn"
           /\ hook' = [hook EXCEPT ![h] = [state |-> "live", active |-> TRUE, endpoint |-> task[t].endpoint]]
           /\ had' = had \cup {task[t].endpoint}
           /\ \/ GoesOnWith(t, "store", h) /\ UNCHANGED <<gap, failures>>
              \/ /\ Ended(t) /\ gap' = gap \cup {"secret_lost"}
                 /\ failures < MaxFailures /\ failures' = failures + 1
<1> USE DEF TypeInv, TypeOK
<1>1. PICK h \in Hook :
       /\ IsNext(h)
       /\ hook' = [hook EXCEPT ![h] = [state |-> "live", active |-> TRUE, endpoint |-> task[t].endpoint]]
       /\ had' = had \cup {task[t].endpoint}
       /\ \/ /\ task' = [task EXCEPT ![t].pc = "store", ![t].hook = h]
             /\ UNCHANGED <<gap, failures>>
          \/ /\ failures < MaxFailures
             /\ failures' = failures + 1
             /\ gap' = gap \cup {"secret_lost"}
             /\ Finish(t)
  BY DEF Post
<1>2. hook[h].state = "unborn"
  <2>1. h \in Nat
    BY ConstantAssumption DEF Hook
  <2> QED BY <1>1, <2>1 DEF IsNext
<1>3. "store" \in PC
  BY DEF PC
<1> QED BY <1>1, <1>2, <1>3, FinishEnds, HookGoesOn

LEMMA StoreMoves ==
  ASSUME TypeInv, NEW t \in Task, Store(t)
  PROVE  GoesOn(t, "read")
BY GotoGoesOn DEF Store, AfterStore, Goto, PC, TypeInv, TypeOK

LEMMA ReadMoves ==
  ASSUME TypeInv, NEW t \in Task, Read(t)
  PROVE  GoesOn(t, "apply") /\ task'[t].row = db
<1>1. task[t] \in TaskRecord /\ db \in Row
  BY DEF TypeInv, TypeOK, SettingsTypeOK
<1>2. task' = [task EXCEPT ![t].pc = "apply", ![t].row = db] /\ task \in [Task -> TaskRecord]
  BY DEF Read, TypeInv, TypeOK
<1>3. task'[t] \in TaskRecord
  BY <1>1, <1>2 DEF TaskRecord, PC
<1>4. \A u \in Task : u # t => task'[u] = task[u]
  BY <1>2
<1>5. task' \in [Task -> TaskRecord]
  BY <1>2, <1>3, <1>4
<1>6. task'[t].pc = "apply" /\ task'[t].row = db /\ task'[t].op = task[t].op
  BY <1>1, <1>2 DEF TaskRecord
<1>7. task'[t].on = task[t].on /\ task'[t].endpoint = task[t].endpoint /\ task'[t].target = task[t].target
  BY <1>1, <1>2 DEF TaskRecord
<1> QED BY <1>4, <1>5, <1>6, <1>7 DEF GoesOn, Moved

LEMMA RotateMoves ==
  ASSUME TypeInv, NEW t \in Task, RotateList(t)
  PROVE  \/ /\ Registers(t, "register")
            /\ gap' = gap \cup StaleEndpoint(cache[task[t].on].endpoint)
         \/ /\ UNCHANGED gap
            /\ \E h \in Matches(task[t].endpoint) : GoesOnWith(t, "delete", h)
<1> USE DEF TypeInv, TypeOK
<1>0. task[t].on \in Server
  BY DEF RotateList, TasksOK, GoodTask
<1>1. CASE Matches(task[t].endpoint) = {}
  <2>1. /\ task' = [task EXCEPT ![t] = [Register(task[t]) EXCEPT !.op = "register"]]
        /\ gap' = gap \cup StaleEndpoint(cache[task[t].on].endpoint)
    BY <1>1 DEF RotateList
  <2> QED BY <1>0, <2>1, RegisterAnew
<1>2. CASE Matches(task[t].endpoint) # {}
  <2>1. PICK h \in Matches(task[t].endpoint) : task' = [task EXCEPT ![t].pc = "delete", ![t].hook = h]
    BY <1>2 DEF RotateList
  <2>2. h \in Hook /\ "delete" \in PC
    BY DEF Matches, PC
  <2>3. UNCHANGED gap
    BY <1>2 DEF RotateList
  <2> QED BY <2>1, <2>2, <2>3, HookGoesOn
<1> QED BY <1>1, <1>2

LEMMA DeleteMoves ==
  ASSUME TypeInv, NEW t \in Task, Delete(t)
  PROVE  \/ /\ ~Live(task[t].hook) /\ Ended(t) /\ UNCHANGED <<hook, gap, churned>>
         \/ /\ Live(task[t].hook) /\ hook' = Gone(task[t].hook)
            /\ Registers(t, task[t].op)
            /\ gap' = gap \cup DeletedEarly(task[t].hook) \cup StaleEndpoint(cache[task[t].on].endpoint)
            /\ churned' = IF task[t].op = "recreate"
                          THEN [churned EXCEPT ![task[t].on][task[t].endpoint] = @ + 1] ELSE churned
<1> USE DEF TypeInv, TypeOK
<1>0. task[t].on \in Server
  BY DEF Delete, TasksOK, GoodTask
<1>1. CASE Live(task[t].hook)
  BY <1>0, <1>1, RegisterRegisters DEF Delete, AfterDelete
<1>2. CASE ~Live(task[t].hook)
  BY <1>2, FinishEnds DEF Delete
<1> QED BY <1>1, <1>2

LEMMA PruneListMoves ==
  ASSUME TypeInv, NEW t \in Task, PruneList(t)
  PROVE  /\ GoesOn(t, "prune")
         /\ task'[t].todo = {h \in Hook : Live(h) /\ hook[h].endpoint # task[t].endpoint}
<1> DEFINE T == {h \in Hook : Live(h) /\ hook[h].endpoint # task[t].endpoint}
<1>1. task[t] \in TaskRecord /\ T \in SUBSET Hook
  BY DEF TypeInv, TypeOK
<1>2. task' = [task EXCEPT ![t].pc = "prune", ![t].todo = T] /\ task \in [Task -> TaskRecord]
  BY DEF PruneList, TypeInv, TypeOK
<1> HIDE DEF T
<1>3. task'[t] \in TaskRecord
  BY <1>1, <1>2 DEF TaskRecord, PC
<1>4. \A u \in Task : u # t => task'[u] = task[u]
  BY <1>2
<1>5. task' \in [Task -> TaskRecord]
  BY <1>2, <1>3, <1>4
<1>6. task'[t].pc = "prune" /\ task'[t].todo = T /\ task'[t].op = task[t].op
  BY <1>1, <1>2 DEF TaskRecord
<1>7. task'[t].on = task[t].on /\ task'[t].endpoint = task[t].endpoint /\ task'[t].target = task[t].target
  BY <1>1, <1>2 DEF TaskRecord
<1> QED BY <1>4, <1>5, <1>6, <1>7 DEF GoesOn, Moved, T

LEMMA PruneMoves ==
  ASSUME TypeInv, NEW t \in Task, Prune(t)
  PROVE  \/ Ended(t) /\ UNCHANGED <<hook, gap, had>>
         \/ /\ GoesOn(t, "prune")
            /\ \E h \in task[t].todo :
                 /\ Live(h) /\ hook' = Gone(h) /\ gap' = gap \cup DeletedEarly(h)
                 /\ task'[t].todo = task[t].todo \ {h}
                 /\ had' = IF hook[h].endpoint = db.endpoint THEN had ELSE had \ {hook[h].endpoint}
<1>0. task[t] \in TaskRecord /\ task \in [Task -> TaskRecord]
  BY DEF TypeInv, TypeOK
<1>1. CASE Finish(t) /\ UNCHANGED <<hook, gap, had>>
  BY <1>0, <1>1, FinishEnds
<1>2. ASSUME NEW h \in task[t].todo,
             /\ Live(h) /\ hook' = Gone(h) /\ gap' = gap \cup DeletedEarly(h)
             /\ task' = [task EXCEPT ![t].todo = @ \ {h}]
             /\ had' = IF hook[h].endpoint = db.endpoint THEN had ELSE had \ {hook[h].endpoint}
      PROVE  GoesOn(t, "prune") /\ task'[t].todo = task[t].todo \ {h}
  <2>1. task[t].pc = "prune"
    BY DEF Prune
  <2> QED BY <1>0, <1>2, <2>1 DEF GoesOn, Moved, TaskRecord
<1>3. \/ Finish(t) /\ UNCHANGED <<hook, gap, had>>
      \/ \E h \in task[t].todo :
           /\ Live(h) /\ hook' = Gone(h) /\ gap' = gap \cup DeletedEarly(h)
           /\ task' = [task EXCEPT ![t].todo = @ \ {h}]
           /\ had' = IF hook[h].endpoint = db.endpoint THEN had ELSE had \ {hook[h].endpoint}
  BY DEF Prune
<1> QED BY <1>1, <1>2, <1>3

LEMMA HealListMoves ==
  ASSUME TypeInv, NEW i \in Server, HealList(i)
  PROVE  \/ Ended(i)
         \/ \E h \in Matches(task[i].endpoint) :
              /\ Moved(i)
              /\ task'[i].pc = "probe" /\ task'[i].hook = h /\ task'[i].target = h
              /\ task'[i].on = task[i].on /\ task'[i].endpoint = task[i].endpoint
              /\ task'[i].op \in {"heal", "recreate"}
              /\ task'[i].op = "recreate" => Recreatable(i, task[i].endpoint)
<1>0. task[i] \in TaskRecord /\ task \in [Task -> TaskRecord] /\ i \in Task
  BY DEF TypeInv, TypeOK, Task
<1>1. CASE Finish(i)
  BY <1>0, <1>1, FinishEnds
<1>2. ASSUME NEW h \in Matches(task[i].endpoint), NEW op \in {"heal", "recreate"},
             task' = [task EXCEPT ![i].pc = "probe", ![i].hook = h, ![i].target = h, ![i].op = op]
      PROVE  /\ Moved(i) /\ task'[i].op = op
             /\ task'[i].pc = "probe" /\ task'[i].hook = h /\ task'[i].target = h
             /\ task'[i].on = task[i].on /\ task'[i].endpoint = task[i].endpoint
  <2>1. h \in Hook
    BY DEF Matches
  <2>2. task'[i] \in TaskRecord
    BY <1>0, <1>2, <2>1 DEF TaskRecord, PC, Op
  <2>3. \A u \in Task : u # i => task'[u] = task[u]
    BY <1>0, <1>2
  <2>4. task' \in [Task -> TaskRecord]
    BY <1>0, <1>2, <2>2, <2>3
  <2>5. task'[i].op = op /\ task'[i].pc = "probe" /\ task'[i].hook = h
    BY <1>0, <1>2 DEF TaskRecord
  <2>6. task'[i].target = h /\ task'[i].on = task[i].on /\ task'[i].endpoint = task[i].endpoint
    BY <1>0, <1>2 DEF TaskRecord
  <2> QED BY <2>3, <2>4, <2>5, <2>6 DEF Moved
<1>3. \/ Finish(i)
      \/ \E h \in Matches(task[i].endpoint) :
           /\ Healable(i, h) \/ Recreatable(i, task[i].endpoint)
           /\ task' = [task EXCEPT ![i].pc = "probe", ![i].hook = h, ![i].target = h,
                                   ![i].op = IF Healable(i, h) THEN "heal" ELSE "recreate"]
  BY DEF HealList
<1>4. ASSUME NEW h \in Matches(task[i].endpoint),
             Healable(i, h) \/ Recreatable(i, task[i].endpoint),
             task' = [task EXCEPT ![i].pc = "probe", ![i].hook = h, ![i].target = h,
                                  ![i].op = IF Healable(i, h) THEN "heal" ELSE "recreate"]
      PROVE  /\ Moved(i)
             /\ task'[i].pc = "probe" /\ task'[i].hook = h /\ task'[i].target = h
             /\ task'[i].on = task[i].on /\ task'[i].endpoint = task[i].endpoint
             /\ task'[i].op \in {"heal", "recreate"}
             /\ task'[i].op = "recreate" => Recreatable(i, task[i].endpoint)
  <2>1. CASE Healable(i, h)
    <3>1. task' = [task EXCEPT ![i].pc = "probe", ![i].hook = h, ![i].target = h, ![i].op = "heal"]
      BY <1>4, <2>1
    <3> QED BY <1>2, <3>1
  <2>2. CASE ~Healable(i, h)
    <3>1. task' = [task EXCEPT ![i].pc = "probe", ![i].hook = h, ![i].target = h, ![i].op = "recreate"]
      BY <1>4, <2>2
    <3> QED BY <1>2, <1>4, <2>2, <3>1
  <2> QED BY <2>1, <2>2
<1> QED BY <1>1, <1>3, <1>4

LEMMA ProbeMoves ==
  ASSUME TypeInv, NEW i \in Server, ProbeUp(i)
  PROVE  \/ /\ task[i].op = "heal" /\ Registers(i, "heal") /\ UNCHANGED recreates
         \/ /\ task[i].op = "recreate" /\ GoesOn(i, "delete") /\ task'[i].hook = task[i].hook
            /\ recreates' = [recreates EXCEPT ![i][task[i].endpoint] = @ + 1]
<1>0. i \in Task /\ task[i].on \in Server /\ task[i].op \in {"heal", "recreate"} /\ "delete" \in PC
  BY DEF ProbeUp, TypeInv, TasksOK, GoodTask, Task, PC
<1>1. CASE task[i].op = "heal"
  BY <1>0, <1>1, RegisterRegisters DEF ProbeUp
<1>2. CASE task[i].op = "recreate"
  BY <1>0, <1>2, GotoGoesOn DEF ProbeUp, TakeRecreateSlot, TypeInv, TypeOK
<1> QED BY <1>0, <1>1, <1>2

LEMMA UpsertMoves ==
  ASSUME TypeInv, NEW t \in Task, Upsert(t)
  PROVE  GoesOn(t, "read")
BY GotoGoesOn DEF Upsert, PC, TypeInv, TypeOK

(* What a patch writes, and what it leaves as it is.                       *)
LEMMA UpsertWrites ==
  ASSUME TypeInv, NEW t \in Task, Upsert(t)
  PROVE  /\ db' \in Row /\ saved' = saved \cup task[t].prefs /\ task[t].prefs \subseteq Field
         /\ db'.endpoint = IF task[t].endpoint = None THEN db.endpoint ELSE task[t].endpoint
         /\ db'.secret = IF task[t].secret = None THEN db.secret ELSE task[t].secret
         /\ db'.prefs = IF task[t].prefs = {} THEN db.prefs ELSE task[t].prefs
<1>1. /\ db' = Patched(task[t].endpoint, task[t].secret, task[t].prefs)
      /\ saved' = saved \cup task[t].prefs
  BY DEF Upsert, WritePatch
<1>2. db \in Row /\ task[t] \in TaskRecord
  BY DEF TypeInv, TypeOK, SettingsTypeOK
<1>3. /\ task[t].endpoint \in Endpoint \cup {None} /\ task[t].secret \in Secret \cup {None}
      /\ task[t].prefs \subseteq Field
  BY <1>2 DEF TaskRecord
<1>4. db.endpoint \in Endpoint /\ db.secret \in Secret \cup {None} /\ db.prefs \subseteq Field
  BY <1>2 DEF Row
<1> QED BY <1>1, <1>3, <1>4 DEF Patched, Row

(* An instance restarts: its tasks end.                                    *)
LEMMA RestartMoves ==
  ASSUME TypeInv, NEW i \in Server, Restart(i)
  PROVE  /\ task' \in [Task -> TaskRecord]
         /\ \A t \in Task : task'[t] = IF task[t].on = i THEN Idle ELSE task[t]
BY IdleFacts DEF Restart, TypeInv, TypeOK

(* Good tasks stay good.                                                   *)
LEMMA TasksKept ==
  ASSUME TasksOK, NEW t \in Task, Moved(t), GoodTask(t, task'[t])
  PROVE  TasksOK'
<1> SUFFICES ASSUME NEW u \in Task
             PROVE  GoodTask(u, task'[u])
  BY DEF TasksOK
<1>1. CASE u = t
  BY <1>1
<1>2. CASE u # t
  BY <1>2 DEF Moved, TasksOK
<1> QED BY <1>1, <1>2

LEMMA EndedGood ==
  ASSUME NEW t, Ended(t)
  PROVE  GoodTask(t, task'[t]) /\ task'[t].pc = "idle" /\ task'[t].op = "none"
BY IdleFacts DEF Ended, GoodTask

(* The slots stay taken when the task of this step is not a recreation     *)
(* before its deletion.                                                    *)
LEMMA SlotsKept ==
  ASSUME SlotTaken, NEW t \in Task, Moved(t), UNCHANGED <<recreates, churned>>,
         task'[t].op = "recreate" => task'[t].pc \notin {"probe", "delete"}
  PROVE  SlotTaken'
<1>1. ASSUME NEW i \in Server, NEW e \in Endpoint, NEW pc \in {"probe", "delete"},
             Recreating(i, pc, e)'
      PROVE  Recreating(i, pc, e)
  BY <1>1 DEF Recreating, Moved, Task
<1> QED BY <1>1 DEF SlotTaken

LEMMA LostIsGap == \A q : Lost(q) \subseteq GapKind
BY DEF Lost, GapKind

LEMMA StaleIsGap == \A e : StaleEndpoint(e) \subseteq GapKind
BY DEF StaleEndpoint, GapKind

LEMMA EarlyIsGap == \A h : DeletedEarly(h) \subseteq GapKind
BY DEF DeletedEarly, GapKind

LEMMA HealedType ==
  ASSUME TypeInv, NEW t \in Task, task[t].pc # "heal_list"
  PROVE  Healed(task[t]) \in [Server -> [Hook -> 0..MaxHeals]]
<1>1. heals \in [Server -> [Hook -> 0..MaxHeals]] /\ GoodTask(t, task[t]) /\ MaxHeals \in Nat
  BY ConstantAssumption DEF TypeInv, TypeOK, TasksOK
<1>2. CASE task[t].op = "heal" /\ heals[task[t].on][task[t].target] < MaxHeals
  <2>1. task[t].on \in Server /\ task[t].target \in Hook
    BY <1>1, <1>2 DEF GoodTask
  <2>2. heals[task[t].on][task[t].target] + 1 \in 0..MaxHeals
    BY <1>1, <1>2, <2>1
  <2> QED BY <1>1, <1>2, <2>1, <2>2 DEF Healed
<1>3. CASE ~(task[t].op = "heal" /\ heals[task[t].on][task[t].target] < MaxHeals)
  BY <1>1, <1>3 DEF Healed
<1> QED BY <1>2, <1>3

LEMMA GoneType ==
  ASSUME TypeOK, NEW h \in Hook
  PROVE  /\ Gone(h) \in [Hook -> HookRecord]
         /\ \A k \in Hook : Gone(h)[k] = IF k = h THEN NoWebhook("deleted") ELSE hook[k]
BY DEF Gone, NoWebhook, HookRecord, TypeOK

(* Writing to one webhook.                                                 *)
LEMMA LiveRecord ==
  ASSUME NEW e \in Endpoint
  PROVE  [state |-> "live", active |-> TRUE, endpoint |-> e] \in HookRecord
BY DEF HookRecord

LEMMA HookWritten ==
  ASSUME TypeOK, NEW h \in Hook, NEW r \in HookRecord, hook' = [hook EXCEPT ![h] = r]
  PROVE  /\ hook' \in [Hook -> HookRecord]
         /\ \A k \in Hook : hook'[k] = IF k = h THEN r ELSE hook[k]
BY DEF TypeOK

LEMMA ActiveWritten ==
  ASSUME TypeOK, NEW h \in Hook, NEW b \in BOOLEAN, hook' = [hook EXCEPT ![h].active = b]
  PROVE  /\ hook' \in [Hook -> HookRecord]
         /\ \A k \in Hook : hook'[k].state = hook[k].state /\ hook'[k].endpoint = hook[k].endpoint
BY DEF TypeOK, HookRecord

(* Every step keeps the types, the tasks good and the slots taken.         *)
LEMMA StepTypeBegin ==
  ASSUME TypeInv, NEW t \in Admin, NEW i \in Server,
         BeginRegister(t, i) \/ BeginRotate(t, i) \/ BeginPrune(t, i) \/ BeginPatch(t, i)
  PROVE  TypeInv'
<1>0. t \in Task /\ t \notin Server /\ i \in Server
  BY ConstantAssumption DEF Task
<1>1. \E op \in {"register", "rotate", "prune", "patch"}, pc \in {"list", "rotate_list", "prune_list", "upsert"},
         e \in Endpoint \cup {None} : Starts(t, op, pc, i, e) /\ (e = None => pc = "upsert")
           /\ (pc = "rotate_list" => op = "rotate")
  <2>1. cache[i].endpoint \in Endpoint /\ cache[i].endpoint # None
    BY ConstantAssumption DEF TypeInv, TypeOK, SettingsTypeOK, Row
  <2>2. {"register", "rotate", "prune"} \subseteq Op /\ {"list", "rotate_list", "prune_list"} \subseteq PC
    BY DEF Op, PC
  <2>3. CASE BeginRegister(t, i)
    <3>1. Starts(t, "register", "list", i, cache[i].endpoint)
      BY <2>2, <2>3, RequestStarts DEF BeginRegister
    <3> QED BY <2>1, <3>1
  <2>4. CASE BeginRotate(t, i)
    <3>1. Starts(t, "rotate", "rotate_list", i, cache[i].endpoint)
      BY <2>2, <2>4, RequestStarts DEF BeginRotate
    <3> QED BY <2>1, <3>1
  <2>5. CASE BeginPrune(t, i)
    <3>1. Starts(t, "prune", "prune_list", i, cache[i].endpoint)
      BY <2>2, <2>5, RequestStarts DEF BeginPrune
    <3> QED BY <2>1, <3>1
  <2>6. CASE BeginPatch(t, i)
    <3>1. PICK e \in Endpoint \cup {None} : Starts(t, "patch", "upsert", i, e)
      BY <2>6, PatchStarts
    <3> QED BY <3>1
  <2> QED BY <2>3, <2>4, <2>5, <2>6
<1>2. PICK op \in {"register", "rotate", "prune", "patch"}, pc \in {"list", "rotate_list", "prune_list", "upsert"},
         e \in Endpoint \cup {None} : Starts(t, op, pc, i, e) /\ (e = None => pc = "upsert")
           /\ (pc = "rotate_list" => op = "rotate")
  BY <1>1
<1>3. GoodTask(t, task'[t])
  BY <1>2 DEF Starts, GoodTask
<1>4. TasksOK' /\ SlotTaken'
  <2>1. UNCHANGED <<recreates, churned>>
    BY DEF BeginRegister, BeginRotate, BeginPrune, BeginPatch, Request
  <2> QED BY <1>0, <1>2, <1>3, <2>1, TasksKept, SlotsKept DEF Starts, TypeInv
<1>5. TypeOK'
  <2>1. /\ UNCHANGED <<settings, hook, heals, recreates, failures, had, churned, saved, writer>>
        /\ requests < MaxRequests /\ requests' = requests + 1
    BY DEF BeginRegister, BeginRotate, BeginPrune, BeginPatch, Request
  <2>2. requests' \in 0..MaxRequests
    BY <2>1, ConstantAssumption DEF TypeInv, TypeOK
  <2>3. gap' \subseteq GapKind
    BY StaleIsGap DEF BeginRegister, BeginRotate, BeginPrune, BeginPatch, Request, TypeInv, TypeOK, GapKind
  <2>4. task' \in [Task -> TaskRecord]
    BY <1>2 DEF Starts, Moved
  <2> QED BY <2>1, <2>2, <2>3, <2>4 DEF TypeInv, TypeOK, SettingsTypeOK, settings
<1> QED BY <1>4, <1>5 DEF TypeInv

LEMMA StepTypeRegister ==
  ASSUME TypeInv, NEW t \in Task,
         List(t) \/ Put(t) \/ Post(t) \/ Store(t) \/ Read(t) \/ ApplyRow(t)
  PROVE  TypeInv'
<1> USE DEF TypeInv
<1>0. GoodTask(t, task[t]) /\ task[t] \in TaskRecord
  BY DEF TasksOK, TypeOK
<1>1. CASE List(t)
  <2>1. Moved(t) /\ GoodTask(t, task'[t]) /\ task'[t].pc \notin {"probe", "delete"}
    BY <1>0, <1>1, ListMoves, EndedGood DEF GoesOnWith, GoesOn, GoodTask, Ended, List
  <2>2. TasksOK' /\ SlotTaken'
    BY <1>1, <2>1, TasksKept, SlotsKept DEF List, counters
  <2>3. gap' \subseteq GapKind
    BY <1>1 DEF List, TypeOK, GapKind
  <2>4. TypeOK'
    BY <1>1, <2>1, <2>3 DEF List, Moved, TypeOK, SettingsTypeOK, settings, counters
  <2> QED BY <2>2, <2>4
<1>2. CASE Put(t)
  <2>1. Ended(t)
    BY <1>2, FinishEnds DEF Put, TypeOK
  <2>2. TasksOK' /\ SlotTaken'
    BY <1>2, <2>1, TasksKept, SlotsKept, EndedGood DEF Put, Ended, counters, history
  <2>3. heals' \in [Server -> [Hook -> 0..MaxHeals]]
    BY <1>2, HealedType DEF Put, TypeOK
  <2>4. hook' \in [Hook -> HookRecord]
    <3>1. task[t].hook \in Hook /\ (UNCHANGED hook \/ hook' = [hook EXCEPT ![task[t].hook].active = TRUE])
      BY <1>0, <1>2 DEF Put, GoodTask
    <3> QED BY <3>1, ActiveWritten DEF TypeOK
  <2>5. TypeOK'
    BY <1>2, <2>1, <2>3, <2>4
       DEF Put, Ended, Moved, TypeOK, SettingsTypeOK, settings, counters, history
  <2> QED BY <2>2, <2>5
<1>3. CASE Post(t)
  <2>1. PICK h \in Hook :
           /\ hook[h].state = "unborn"
           /\ hook' = [hook EXCEPT ![h] = [state |-> "live", active |-> TRUE, endpoint |-> task[t].endpoint]]
           /\ had' = had \cup {task[t].endpoint}
           /\ \/ GoesOnWith(t, "store", h) /\ UNCHANGED <<gap, failures>>
              \/ /\ Ended(t) /\ gap' = gap \cup {"secret_lost"}
                 /\ failures < MaxFailures /\ failures' = failures + 1
    BY <1>3, PostMoves
  <2>2. task[t].endpoint \in Endpoint
    BY <1>0, <1>3 DEF Post, GoodTask
  <2>3. Moved(t) /\ GoodTask(t, task'[t]) /\ task'[t].pc \notin {"probe", "delete"}
    BY <1>0, <1>3, <2>1, <2>2, EndedGood DEF GoesOnWith, GoesOn, GoodTask, Ended, Post
  <2>4. TasksOK' /\ SlotTaken'
    BY <1>3, <2>3, TasksKept, SlotsKept DEF Post
  <2>5. hook' \in [Hook -> HookRecord] /\ had' \subseteq Endpoint
    <3>1. hook' \in [Hook -> HookRecord]
      BY <2>1, <2>2, LiveRecord, HookWritten
    <3>2. had' = had \cup {task[t].endpoint}
      BY <2>1
    <3>3. had' \subseteq Endpoint
      BY <2>2, <3>2 DEF TypeOK
    <3> QED BY <3>1, <3>3
  <2>6. gap' \subseteq GapKind /\ failures' \in 0..MaxFailures
    <3>1. \/ UNCHANGED <<gap, failures>>
          \/ gap' = gap \cup {"secret_lost"} /\ failures < MaxFailures /\ failures' = failures + 1
      BY <2>1
    <3>2. gap' \subseteq GapKind
      BY <3>1 DEF TypeOK, GapKind
    <3>3. failures' \in 0..MaxFailures
      BY <3>1, ConstantAssumption DEF TypeOK
    <3> QED BY <3>2, <3>3
  <2>7. TypeOK'
    BY <1>3, <2>3, <2>5, <2>6 DEF Post, Moved, TypeOK, SettingsTypeOK, settings
  <2> QED BY <2>4, <2>7
<1>4. CASE Store(t)
  <2>1. GoesOn(t, "read") /\ task[t].hook \in Hook /\ task[t].on \in Server
    BY <1>0, <1>4, StoreMoves DEF Store, GoodTask
  <2>2. Moved(t) /\ GoodTask(t, task'[t])
    BY <1>0, <1>4, <2>1 DEF GoesOn, GoodTask, Store
  <2>3. TasksOK' /\ SlotTaken'
    BY <1>4, <2>1, <2>2, TasksKept, SlotsKept DEF Store, GoesOn
  <2>4. db' \in Row
    BY <1>4, <2>1, ConstantAssumption DEF Store, WriteSecret, StoredSecret, TypeOK, SettingsTypeOK, Row
  <2>5. TypeOK'
    BY <1>4, <2>1, <2>2, <2>4 DEF Store, Moved, TypeOK, SettingsTypeOK, counters
  <2> QED BY <2>3, <2>5
<1>5. CASE Read(t)
  <2>1. GoesOn(t, "apply") /\ task'[t].row \in Row
    BY <1>5, ReadMoves DEF TypeOK, SettingsTypeOK
  <2>2. Moved(t) /\ GoodTask(t, task'[t])
    BY <1>0, <1>5, <2>1 DEF GoesOn, GoodTask, Read
  <2>3. TasksOK' /\ SlotTaken'
    BY <1>5, <2>1, <2>2, TasksKept, SlotsKept DEF Read, GoesOn
  <2>4. TypeOK'
    BY <1>5, <2>2 DEF Read, Moved, TypeOK, SettingsTypeOK, settings, counters, GapKind
  <2> QED BY <2>3, <2>4
<1>6. CASE ApplyRow(t)
  <2>1. Ended(t) /\ task[t].on \in Server /\ task[t].row \in Row
    BY <1>0, <1>6, FinishEnds DEF ApplyRow, TypeOK, GoodTask
  <2>2. TasksOK' /\ SlotTaken'
    BY <1>6, <2>1, TasksKept, SlotsKept, EndedGood DEF ApplyRow, Ended, counters, history
  <2>3. heals' \in [Server -> [Hook -> 0..MaxHeals]]
    BY <1>6, HealedType DEF ApplyRow, TypeOK
  <2>4. cache' \in [Server -> Row]
    BY <1>6, <2>1 DEF ApplyRow, Apply, TypeOK, SettingsTypeOK
  <2>5. TypeOK'
    BY <1>6, <2>1, <2>3, <2>4 DEF ApplyRow, Ended, Moved, TypeOK, SettingsTypeOK, counters, history
  <2> QED BY <2>2, <2>5
<1> QED BY <1>1, <1>2, <1>3, <1>4, <1>5, <1>6

LEMMA StepTypeTools ==
  ASSUME TypeInv, NEW t \in Task,
         RotateList(t) \/ Delete(t) \/ PruneList(t) \/ Prune(t) \/ Upsert(t)
  PROVE  TypeInv'
<1> USE DEF TypeInv
<1>0. GoodTask(t, task[t]) /\ task[t] \in TaskRecord
  BY DEF TasksOK, TypeOK
<1>c. \A i \in Server : cache[i].endpoint \in Endpoint
  BY DEF TypeOK, SettingsTypeOK, Row
<1>1. CASE RotateList(t)
  <2>1. Moved(t) /\ GoodTask(t, task'[t]) /\ (task'[t].op = "recreate" => task'[t].pc \notin {"probe", "delete"})
    <3>1. /\ task[t].on \in Server /\ task[t].endpoint \in Endpoint
          /\ task[t].pc = "rotate_list" /\ task[t].op = "rotate"
      BY <1>0, <1>1 DEF RotateList, GoodTask
    <3>2. CASE Registers(t, "register")
      BY <1>c, <3>1, <3>2 DEF Registers, GoodTask
    <3>3. CASE \E h \in Matches(task[t].endpoint) : GoesOnWith(t, "delete", h)
      <4>1. PICK h \in Matches(task[t].endpoint) : GoesOnWith(t, "delete", h)
        BY <3>3
      <4>2. h \in Hook
        BY DEF Matches
      <4> QED BY <1>0, <3>1, <4>1, <4>2 DEF GoesOnWith, GoesOn, GoodTask
    <3> QED BY <1>1, <3>2, <3>3, RotateMoves
  <2>2. TasksOK' /\ SlotTaken'
    BY <1>1, <2>1, TasksKept, SlotsKept DEF RotateList, counters
  <2>3. gap' \subseteq GapKind
    BY <1>1, StaleIsGap DEF RotateList, TypeOK
  <2>4. TypeOK'
    BY <1>1, <2>1, <2>3 DEF RotateList, Moved, TypeOK, SettingsTypeOK, settings, counters
  <2> QED BY <2>2, <2>4
<1>2. CASE Delete(t)
  <2>0. /\ task[t].on \in Server /\ task[t].endpoint \in Endpoint /\ task[t].hook \in Hook
        /\ task[t].pc = "delete" /\ UNCHANGED <<settings, heals, recreates, counters, had, saved, writer>>
    BY <1>0, <1>2 DEF Delete, GoodTask
  <2>1. CASE Ended(t) /\ UNCHANGED <<hook, gap, churned>>
    <3>1. TasksOK' /\ SlotTaken'
      BY <2>0, <2>1, TasksKept, SlotsKept, EndedGood DEF Ended
    <3>2. TypeOK'
      BY <2>0, <2>1 DEF Ended, Moved, TypeOK, SettingsTypeOK, settings, counters
    <3> QED BY <3>1, <3>2
  <2>2. CASE /\ Live(task[t].hook) /\ hook' = Gone(task[t].hook)
             /\ Registers(t, task[t].op)
             /\ gap' = gap \cup DeletedEarly(task[t].hook) \cup StaleEndpoint(cache[task[t].on].endpoint)
             /\ churned' = IF task[t].op = "recreate"
                           THEN [churned EXCEPT ![task[t].on][task[t].endpoint] = @ + 1] ELSE churned
    <3>1. Moved(t) /\ GoodTask(t, task'[t]) /\ task'[t].pc = "list"
      BY <1>0, <1>c, <2>0, <2>2 DEF Registers, GoodTask
    <3>2. TasksOK'
      BY <3>1, TasksKept
    <3>3. SlotTaken'
      <4>1. CASE task[t].op # "recreate"
        BY <2>0, <2>2, <3>1, <4>1, SlotsKept
      <4>2. CASE task[t].op = "recreate"
        <5>1. t \in Server /\ task[t].on = t /\ Recreating(t, "delete", task[t].endpoint)
          BY <1>0, <2>0, <4>2 DEF GoodTask, Recreating
        <5>2. churned' = [churned EXCEPT ![t][task[t].endpoint] = @ + 1] /\ UNCHANGED recreates
          BY <2>0, <2>2, <4>2, <5>1
        <5>3. churned[t][task[t].endpoint] + 1 <= recreates[t][task[t].endpoint]
          BY <2>0, <5>1, ConstantAssumption DEF SlotTaken, TypeOK
        <5>4. ASSUME NEW i \in Server, NEW e \in Endpoint
              PROVE  /\ churned'[i][e] = IF i = t /\ e = task[t].endpoint
                                         THEN churned[i][e] + 1 ELSE churned[i][e]
                     /\ Recreating(i, "probe", e)' => Recreating(i, "probe", e) /\ i # t
                     /\ Recreating(i, "delete", e)' => Recreating(i, "delete", e) /\ i # t
          <6>1. churned'[i][e] = IF i = t /\ e = task[t].endpoint THEN churned[i][e] + 1 ELSE churned[i][e]
            BY <2>0, <5>1, <5>2 DEF TypeOK
          <6>2. \A pc \in {"probe", "delete"} : Recreating(i, pc, e)' => Recreating(i, pc, e) /\ i # t
            BY <3>1 DEF Recreating, Moved, Task
          <6> QED BY <6>1, <6>2
        <5> QED BY <5>2, <5>3, <5>4 DEF SlotTaken
      <4> QED BY <4>1, <4>2
    <3>4. hook' \in [Hook -> HookRecord] /\ gap' \subseteq GapKind
      BY <2>0, <2>2, GoneType, EarlyIsGap, StaleIsGap DEF TypeOK
    <3>5. churned' \in [Server -> [Endpoint -> Nat]]
      BY <2>0, <2>2 DEF TypeOK
    <3>6. TypeOK'
      BY <2>0, <3>1, <3>4, <3>5 DEF Moved, TypeOK, SettingsTypeOK, settings, counters
    <3> QED BY <3>2, <3>3, <3>6
  <2> QED BY <1>2, <2>1, <2>2, DeleteMoves
<1>3. CASE PruneList(t)
  <2>1. GoesOn(t, "prune")
    BY <1>3, PruneListMoves
  <2>2. Moved(t) /\ GoodTask(t, task'[t])
    BY <1>0, <1>3, <2>1 DEF GoesOn, GoodTask, PruneList
  <2>3. TasksOK' /\ SlotTaken'
    BY <1>3, <2>1, <2>2, TasksKept, SlotsKept DEF PruneList, GoesOn, history
  <2>4. TypeOK'
    BY <1>3, <2>2 DEF PruneList, Moved, TypeOK, SettingsTypeOK, settings, counters, history
  <2> QED BY <2>3, <2>4
<1>4. CASE Prune(t)
  <2>0. task[t].pc = "prune" /\ UNCHANGED <<settings, heals, recreates, counters, churned, saved, writer>>
    BY <1>4 DEF Prune
  <2>1. Moved(t) /\ GoodTask(t, task'[t]) /\ task'[t].pc \in {"idle", "prune"}
    BY <1>0, <1>4, <2>0, PruneMoves, EndedGood DEF GoesOn, GoodTask, Ended
  <2>2. TasksOK' /\ SlotTaken'
    BY <2>0, <2>1, TasksKept, SlotsKept
  <2>3. hook' \in [Hook -> HookRecord] /\ gap' \subseteq GapKind /\ had' \subseteq Endpoint
    <3>1. CASE UNCHANGED <<hook, gap, had>>
      BY <3>1 DEF TypeOK
    <3>2. ASSUME NEW h \in task[t].todo, hook' = Gone(h), gap' = gap \cup DeletedEarly(h),
                 had' = IF hook[h].endpoint = db.endpoint THEN had ELSE had \ {hook[h].endpoint}
          PROVE  hook' \in [Hook -> HookRecord] /\ gap' \subseteq GapKind /\ had' \subseteq Endpoint
      <4>1. h \in Hook
        BY <1>0 DEF TaskRecord
      <4>2. hook' \in [Hook -> HookRecord]
        BY <3>2, <4>1, GoneType
      <4>3. gap' \subseteq GapKind
        BY <3>2, EarlyIsGap DEF TypeOK
      <4>4. had' \subseteq Endpoint
        BY <3>2 DEF TypeOK
      <4> QED BY <4>2, <4>3, <4>4
    <3> QED BY <1>4, <3>1, <3>2, PruneMoves
  <2>4. TypeOK'
    BY <2>0, <2>1, <2>3 DEF Moved, TypeOK, SettingsTypeOK, settings, counters
  <2> QED BY <2>2, <2>4
<1>5. CASE Upsert(t)
  <2>1. GoesOn(t, "read")
    BY <1>5, UpsertMoves
  <2>2. Moved(t) /\ GoodTask(t, task'[t])
    BY <1>0, <1>5, <2>1 DEF GoesOn, GoodTask, Upsert
  <2>3. TasksOK' /\ SlotTaken'
    BY <1>5, <2>1, <2>2, TasksKept, SlotsKept DEF Upsert, GoesOn
  <2>4. gap' \subseteq GapKind
    BY <1>5 DEF Upsert, OutOfStep, TypeOK, GapKind
  <2>5. task[t].on \in Server
    BY <1>0, <1>5 DEF Upsert, GoodTask
  <2>6. db' \in Row /\ saved' \subseteq Field
    BY <1>5, UpsertWrites DEF TypeOK
  <2>7. TypeOK'
    BY <1>5, <2>2, <2>4, <2>5, <2>6 DEF Upsert, Moved, TypeOK, SettingsTypeOK, counters
  <2> QED BY <2>3, <2>7
<1> QED BY <1>1, <1>2, <1>3, <1>4, <1>5

LEMMA StepTypeHeal ==
  ASSUME TypeInv, NEW i \in Server,
         BeginHeal(i) \/ HealList(i) \/ ProbeUp(i) \/ ProbeDown(i)
           \/ \E h \in Hook : HealForgotten(i, h)
  PROVE  TypeInv'
<1> USE DEF TypeInv
<1>0. i \in Task /\ GoodTask(i, task[i]) /\ task[i] \in TaskRecord /\ None \notin Endpoint
  BY ConstantAssumption DEF TasksOK, TypeOK, Task
<1>c. cache[i].endpoint \in Endpoint
  BY DEF TypeOK, SettingsTypeOK, Row
<1>1. CASE BeginHeal(i)
  <2>1. Starts(i, "heal", "heal_list", i, cache[i].endpoint)
    BY <1>1, HealStarts
  <2>2. Moved(i) /\ GoodTask(i, task'[i])
    BY <1>c, <2>1 DEF Starts, GoodTask
  <2>3. TasksOK' /\ SlotTaken'
    BY <1>0, <1>1, <2>1, <2>2, TasksKept, SlotsKept DEF BeginHeal, Starts
  <2>4. gap' \subseteq GapKind
    BY <1>1, StaleIsGap DEF BeginHeal, TypeOK
  <2>5. TypeOK'
    BY <1>1, <2>2, <2>4 DEF BeginHeal, Moved, TypeOK, SettingsTypeOK, settings, counters
  <2> QED BY <2>3, <2>5
<1>2. CASE HealList(i)
  <2>0. task[i].pc = "heal_list" /\ UNCHANGED <<settings, hook, heals, recreates, counters, history>>
    BY <1>2 DEF HealList
  <2>1. CASE Ended(i)
    <3>1. TasksOK' /\ SlotTaken'
      BY <1>0, <2>0, <2>1, TasksKept, SlotsKept, EndedGood DEF Ended, history
    <3>2. TypeOK'
      BY <2>0, <2>1 DEF Ended, Moved, TypeOK, SettingsTypeOK, settings, counters, history
    <3> QED BY <3>1, <3>2
  <2>2. ASSUME NEW h \in Matches(task[i].endpoint),
               /\ Moved(i)
               /\ task'[i].pc = "probe" /\ task'[i].hook = h /\ task'[i].target = h
               /\ task'[i].on = task[i].on /\ task'[i].endpoint = task[i].endpoint
               /\ task'[i].op \in {"heal", "recreate"}
               /\ task'[i].op = "recreate" => Recreatable(i, task[i].endpoint)
        PROVE  TypeInv'
    <3>1. h \in Hook /\ task[i].endpoint \in Endpoint
      BY <1>0, <2>0 DEF Matches, GoodTask
    <3>2. GoodTask(i, task'[i])
      BY <1>0, <2>0, <2>2, <3>1 DEF GoodTask
    <3>3. TasksOK'
      BY <1>0, <2>2, <3>2, TasksKept
    <3>4. SlotTaken'
      <4>1. ASSUME NEW j \in Server, NEW e \in Endpoint
            PROVE  /\ Recreating(j, "probe", e)' => recreates[j][e] < MaxRecreates
                   /\ Recreating(j, "delete", e)' => Recreating(j, "delete", e)
        BY <2>2 DEF Recreating, Recreatable, Moved, SlotTaken, Task
      <4> QED BY <2>0, <4>1 DEF SlotTaken, history
    <3>5. TypeOK'
      BY <2>0, <2>2 DEF Moved, TypeOK, SettingsTypeOK, settings, counters, history
    <3> QED BY <3>3, <3>4, <3>5
  <2> QED BY <1>2, <2>1, <2>2, HealListMoves
<1>3. CASE ProbeUp(i)
  <2>0. /\ task[i].pc = "probe" /\ UNCHANGED <<settings, hook, heals, counters, had, churned, saved, writer>>
        /\ task[i].endpoint \in Endpoint /\ task[i].on = i
    BY <1>0, <1>3 DEF ProbeUp, GoodTask
  <2>1. gap' \subseteq GapKind
    BY <1>3, StaleIsGap DEF ProbeUp, TypeOK
  <2>2. CASE Registers(i, "heal") /\ UNCHANGED recreates /\ task[i].op = "heal"
    <3>1. Moved(i) /\ GoodTask(i, task'[i]) /\ task'[i].pc = "list"
      BY <1>0, <1>c, <2>0, <2>2 DEF Registers, GoodTask
    <3>2. TasksOK' /\ SlotTaken'
      BY <1>0, <2>0, <2>2, <3>1, TasksKept, SlotsKept
    <3>3. TypeOK'
      BY <2>0, <2>1, <2>2, <3>1 DEF Moved, TypeOK, SettingsTypeOK, settings, counters
    <3> QED BY <3>2, <3>3
  <2>3. CASE /\ task[i].op = "recreate" /\ GoesOn(i, "delete") /\ task'[i].hook = task[i].hook
             /\ recreates' = [recreates EXCEPT ![i][task[i].endpoint] = @ + 1]
    <3>1. Moved(i) /\ GoodTask(i, task'[i])
      BY <1>0, <2>0, <2>3 DEF GoesOn, GoodTask
    <3>2. TasksOK'
      BY <1>0, <3>1, TasksKept
    <3>3. \A j \in Server, e \in Endpoint :
            recreates'[j][e] = IF j = i /\ e = task[i].endpoint THEN recreates[j][e] + 1 ELSE recreates[j][e]
      BY <2>0, <2>3 DEF TypeOK
    <3>4. recreates[i][task[i].endpoint] < MaxRecreates
      BY <2>0, <2>3 DEF SlotTaken, Recreating
    <3>5. \A j \in Server, e \in Endpoint :
             /\ Recreating(j, "probe", e)' => Recreating(j, "probe", e) /\ j # i
             /\ Recreating(j, "delete", e)' =>
                  \/ j # i /\ Recreating(j, "delete", e)
                  \/ j = i /\ e = task[i].endpoint
      BY <2>3 DEF GoesOn, Recreating, Moved, Task
    <3>6. SlotTaken'
      <4>1. ASSUME NEW j \in Server, NEW e \in Endpoint
            PROVE  /\ Recreating(j, "probe", e)' => recreates'[j][e] < MaxRecreates
                   /\ churned[j][e] <= recreates'[j][e]
                   /\ Recreating(j, "delete", e)' => churned[j][e] < recreates'[j][e]
        <5>1. churned[j][e] \in Nat /\ recreates[j][e] \in Nat /\ churned[j][e] <= recreates[j][e]
          BY ConstantAssumption DEF TypeOK, SlotTaken
        <5> QED BY <3>3, <3>4, <3>5, <5>1 DEF SlotTaken
      <4> QED BY <2>0, <4>1 DEF SlotTaken
    <3>7. recreates' \in [Server -> [Endpoint -> 0..MaxRecreates]]
      <4>1. recreates[i][task[i].endpoint] + 1 \in 0..MaxRecreates
        BY <2>0, <3>4, ConstantAssumption DEF TypeOK
      <4> QED BY <2>0, <2>3, <4>1 DEF TypeOK
    <3>8. TypeOK'
      BY <2>0, <2>1, <3>1, <3>7 DEF Moved, TypeOK, SettingsTypeOK, settings, counters
    <3> QED BY <3>2, <3>6, <3>8
  <2> QED BY <1>3, <2>2, <2>3, ProbeMoves
<1>4. CASE ProbeDown(i)
  <2>1. Ended(i)
    BY <1>0, <1>4, FinishEnds DEF ProbeDown, TypeOK
  <2>2. TasksOK' /\ SlotTaken'
    BY <1>0, <1>4, <2>1, TasksKept, SlotsKept, EndedGood DEF Ended, ProbeDown, history
  <2>3. TypeOK'
    BY <1>4, <2>1 DEF ProbeDown, Ended, Moved, TypeOK, SettingsTypeOK, settings, counters, history
  <2> QED BY <2>2, <2>3
<1>5. ASSUME NEW h \in Hook, HealForgotten(i, h)
      PROVE  TypeInv'
  <2>1. heals[i][h] - 1 \in 0..MaxHeals
    BY <1>5, ConstantAssumption DEF HealForgotten, TypeOK
  <2>2. heals' \in [Server -> [Hook -> 0..MaxHeals]]
    BY <1>5, <2>1 DEF HealForgotten, TypeOK
  <2>3. UNCHANGED <<settings, hook, task, recreates, counters, history>>
    BY <1>5 DEF HealForgotten
  <2>4. TypeOK'
    BY <2>2, <2>3 DEF TypeOK, SettingsTypeOK, settings, counters, history
  <2> QED BY <2>3, <2>4 DEF TasksOK, SlotTaken, Recreating, history
<1> QED BY <1>1, <1>2, <1>3, <1>4, <1>5

LEMMA StepTypeEnvironment ==
  ASSUME TypeInv,
         \/ \E h \in Hook : DeleteById(h) \/ Suspend(h)
         \/ \E t \in Task : CallFails(t)
         \/ \E i \in Server : Restart(i)
  PROVE  TypeInv'
<1> USE DEF TypeInv
<1>1. ASSUME NEW h \in Hook, DeleteById(h)
      PROVE  TypeInv'
  <2>0. UNCHANGED <<settings, task, heals, recreates, failures, churned, saved, writer>>
    BY <1>1 DEF DeleteById
  <2>1. hook' \in [Hook -> HookRecord] /\ gap' \subseteq GapKind
    BY <1>1, GoneType, EarlyIsGap DEF DeleteById, TypeOK
  <2>2. had' \subseteq Endpoint /\ requests' \in 0..MaxRequests
    BY <1>1, ConstantAssumption DEF DeleteById, TypeOK
  <2>3. TypeOK'
    BY <2>0, <2>1, <2>2 DEF TypeOK, SettingsTypeOK, settings
  <2> QED BY <2>0, <2>3 DEF TasksOK, SlotTaken, Recreating
<1>2. ASSUME NEW h \in Hook, Suspend(h)
      PROVE  TypeInv'
  <2>0. UNCHANGED <<settings, task, heals, recreates, counters, history>>
    BY <1>2 DEF Suspend
  <2>1. hook' \in [Hook -> HookRecord]
    BY <1>2, ActiveWritten DEF Suspend
  <2>2. TypeOK'
    BY <2>0, <2>1 DEF TypeOK, SettingsTypeOK, settings, counters, history
  <2> QED BY <2>0, <2>2 DEF TasksOK, SlotTaken, Recreating, history
<1>3. ASSUME NEW t \in Task, CallFails(t)
      PROVE  TypeInv'
  <2>0. UNCHANGED <<settings, hook, recreates, requests, had, churned, saved, writer>>
    BY <1>3 DEF CallFails
  <2>1. Ended(t)
    BY <1>3, FinishEnds DEF CallFails, TypeOK
  <2>2. TasksOK' /\ SlotTaken'
    BY <2>0, <2>1, TasksKept, SlotsKept, EndedGood DEF Ended
  <2>3. heals' \in [Server -> [Hook -> 0..MaxHeals]]
    BY <1>3, HealedType DEF CallFails, TypeOK
  <2>4. gap' \subseteq GapKind
    BY <1>3, LostIsGap DEF CallFails, TypeOK
  <2>5. failures' \in 0..MaxFailures
    BY <1>3, ConstantAssumption DEF CallFails, TypeOK
  <2>6. TypeOK'
    BY <2>0, <2>1, <2>3, <2>4, <2>5 DEF Ended, Moved, TypeOK, SettingsTypeOK, settings
  <2> QED BY <2>2, <2>6
<1>4. ASSUME NEW i \in Server, Restart(i)
      PROVE  TypeInv'
  <2>0. UNCHANGED <<db, hook, requests, had, saved, writer>> /\ failures < MaxFailures /\ failures' = failures + 1
    BY <1>4 DEF Restart
  <2>1. /\ task' \in [Task -> TaskRecord]
        /\ \A t \in Task : task'[t] = IF task[t].on = i THEN Idle ELSE task[t]
    BY <1>4, RestartMoves
  <2>2. TasksOK'
    <3>1. \A t \in Task : GoodTask(t, Idle)
      BY IdleFacts DEF GoodTask
    <3>2. \A t \in Task : GoodTask(t, task'[t])
      BY <2>1, <3>1 DEF TasksOK
    <3> QED BY <3>2 DEF TasksOK
  <2>3. /\ recreates' = [recreates EXCEPT ![i] = [e \in Endpoint |-> 0]]
        /\ churned' = [churned EXCEPT ![i] = [e \in Endpoint |-> 0]]
        /\ heals' = [heals EXCEPT ![i] = [h \in Hook |-> 0]]
    BY <1>4 DEF Restart
  <2>4. SlotTaken'
    <3>1. ASSUME NEW j \in Server, NEW e \in Endpoint
          PROVE  /\ recreates'[j][e] = IF j = i THEN 0 ELSE recreates[j][e]
                 /\ churned'[j][e] = IF j = i THEN 0 ELSE churned[j][e]
                 /\ \A pc \in {"probe", "delete"} : Recreating(j, pc, e)' => Recreating(j, pc, e) /\ j # i
      <4>1. recreates'[j][e] = IF j = i THEN 0 ELSE recreates[j][e]
        BY <2>3 DEF TypeOK
      <4>2. churned'[j][e] = IF j = i THEN 0 ELSE churned[j][e]
        BY <2>3 DEF TypeOK
      <4>3. j \in Task /\ GoodTask(j, task[j])
        BY DEF TasksOK, Task
      <4>4. ASSUME NEW pc \in {"probe", "delete"}, Recreating(j, pc, e)'
            PROVE  Recreating(j, pc, e) /\ j # i
        <5>1. task'[j].pc = pc /\ task'[j].op = "recreate"
          BY <4>4 DEF Recreating
        <5>2. task'[j] = task[j] /\ task[j].on # i
          BY <2>1, <4>3, <5>1, IdleFacts
        <5>3. Recreating(j, pc, e)
          BY <4>4, <5>2 DEF Recreating
        <5> QED BY <4>3, <5>1, <5>2, <5>3 DEF GoodTask
      <4> QED BY <4>1, <4>2, <4>4
    <3>2. ASSUME NEW j \in Server, NEW e \in Endpoint
          PROVE  /\ Recreating(j, "probe", e)' => recreates'[j][e] < MaxRecreates
                 /\ churned'[j][e] <= recreates'[j][e]
                 /\ Recreating(j, "delete", e)' => churned'[j][e] < recreates'[j][e]
      BY <3>1 DEF SlotTaken
    <3> QED BY <3>2 DEF SlotTaken
  <2>5. /\ recreates' \in [Server -> [Endpoint -> 0..MaxRecreates]]
        /\ churned' \in [Server -> [Endpoint -> Nat]]
        /\ heals' \in [Server -> [Hook -> 0..MaxHeals]]
    <3>1. /\ [e \in Endpoint |-> 0] \in [Endpoint -> 0..MaxRecreates]
          /\ [e \in Endpoint |-> 0] \in [Endpoint -> Nat]
          /\ [h \in Hook |-> 0] \in [Hook -> 0..MaxHeals]
      BY ConstantAssumption
    <3> QED BY <2>3, <3>1 DEF TypeOK
  <2>6. cache' \in [Server -> Row]
    BY <1>4 DEF Restart, Apply, TypeOK, SettingsTypeOK
  <2>7. gap' \subseteq GapKind
    BY <1>4, LostIsGap DEF Restart, TypeOK
  <2>8. failures' \in 0..MaxFailures
    BY <2>0, ConstantAssumption DEF TypeOK
  <2>9. TypeOK'
    BY <2>0, <2>1, <2>5, <2>6, <2>7, <2>8 DEF TypeOK, SettingsTypeOK
  <2> QED BY <2>2, <2>4, <2>9
<1> QED BY <1>1, <1>2, <1>3, <1>4

LEMMA InitType == Init => TypeInv
<1> SUFFICES ASSUME Init
             PROVE  TypeInv
  OBVIOUS
<1>1. db \in Row /\ cache \in [Server -> Row]
  BY DEF Init, SettingsInit, Row
<1>2. hook \in [Hook -> HookRecord]
  BY DEF Init, NoWebhook, HookRecord
<1>3. task \in [Task -> TaskRecord] /\ \A t \in Task : task[t] = Idle
  BY IdleFacts DEF Init
<1>4. /\ heals \in [Server -> [Hook -> 0..MaxHeals]]
      /\ recreates \in [Server -> [Endpoint -> 0..MaxRecreates]]
      /\ churned \in [Server -> [Endpoint -> Nat]]
      /\ requests \in 0..MaxRequests /\ failures \in 0..MaxFailures
  BY ConstantAssumption DEF Init
<1>5. TypeOK
  BY <1>1, <1>2, <1>3, <1>4 DEF Init, TypeOK, SettingsTypeOK
<1>6. TasksOK
  BY <1>3, IdleFacts DEF TasksOK, GoodTask
<1>7. SlotTaken
  BY <1>3, IdleFacts DEF SlotTaken, Init, Recreating, Task
<1> QED BY <1>5, <1>6, <1>7 DEF TypeInv

LEMMA StepType == TypeInv /\ [Next]_vars => TypeInv'
<1>1. ASSUME TypeInv, Next
      PROVE  TypeInv'
  BY <1>1, StepTypeBegin, StepTypeRegister, StepTypeTools, StepTypeHeal, StepTypeEnvironment DEF Next
<1>2. ASSUME TypeInv, UNCHANGED vars
      PROVE  TypeInv'
  BY <1>2 DEF TypeInv, TypeOK, SettingsTypeOK, TasksOK, SlotTaken, Recreating, vars, settings, counters, history
<1> QED BY <1>1, <1>2

(* Every variable keeps its type, the caps on auto-heal included: a heal   *)
(* or a recreation is never counted past MaxHeals or MaxRecreates          *)
(* (checkAndHeal).                                                         *)
THEOREM TypeCorrect == Spec => []TypeOK
<1>1. Spec => []TypeInv
  BY InitType, StepType, PTL DEF Spec
<1>2. TypeInv => TypeOK
  BY DEF TypeInv
<1> QED BY <1>1, <1>2, PTL

(* Auto-heal does not churn, for any number of instances, endpoints and    *)
(* failures: a webhook is deleted only by a task that holds a slot of the  *)
(* daily cap it took before (checkAndHeal).                                *)
THEOREM NoChurn == Spec => []ChurnBounded
<1>1. Spec => []TypeInv
  BY InitType, StepType, PTL DEF Spec
<1>2. TypeInv => ChurnBounded
  <2> SUFFICES ASSUME TypeInv, NEW i \in Server, NEW e \in Endpoint
               PROVE  churned[i][e] <= MaxRecreates
    BY DEF ChurnBounded
  <2>1. churned[i][e] \in Nat /\ recreates[i][e] \in 0..MaxRecreates /\ churned[i][e] <= recreates[i][e]
    BY DEF TypeInv, TypeOK, SlotTaken
  <2> QED BY <2>1, ConstantAssumption
<1> QED BY <1>1, <1>2, PTL

-----------------------------------------------------------------------------
(* Which step brings a task where.                                         *)

Begins(t, i) == BeginRegister(t, i) \/ BeginRotate(t, i) \/ BeginPrune(t, i)

(* A task that is somewhere else after a step took that step.              *)
Entered(u) ==
  /\ task'[u].pc = "post"   => List(u)
  /\ task'[u].pc = "store"  => Post(u)
  /\ task'[u].pc = "read"   => Store(u) \/ Upsert(u)
  /\ task'[u].pc = "apply"  => Read(u)
  /\ task'[u].pc = "upsert" => u \in Admin /\ \E i \in Server : BeginPatch(u, i)
  /\ task'[u].pc = "put"    => List(u)
  /\ task'[u].pc = "prune"  => PruneList(u) \/ Prune(u)
  /\ task'[u].pc = "probe"  => u \in Server /\ HealList(u)
  /\ task'[u].pc = "delete" => RotateList(u) \/ (u \in Server /\ ProbeUp(u))
  /\ task'[u].pc = "list"   => \/ RotateList(u) \/ Delete(u)
                               \/ u \in Server /\ ProbeUp(u)
                               \/ u \in Admin /\ \E i \in Server : BeginRegister(u, i)
  /\ task'[u].pc \in {"rotate_list", "prune_list"} => u \in Admin /\ \E i \in Server : Begins(u, i)
  /\ task'[u].pc = "heal_list" => u \in Server /\ BeginHeal(u)

LEMMA EntryAdmin ==
  ASSUME TypeInv, NEW t \in Admin, NEW i \in Server, Begins(t, i) \/ BeginPatch(t, i),
         NEW u \in Task, task'[u] # task[u]
  PROVE  Entered(u)
<1>0. t \in Task /\ {"register", "rotate", "prune"} \subseteq Op /\ {"list", "rotate_list", "prune_list"} \subseteq PC
  BY DEF Task, Op, PC
<1>1. CASE BeginRegister(t, i)
  <2>1. Moved(t) /\ task'[t].pc = "list"
    BY <1>0, <1>1, RequestStarts DEF BeginRegister, Starts
  <2> QED BY <1>1, <2>1 DEF Moved, Entered
<1>2. CASE BeginRotate(t, i)
  <2>1. Moved(t) /\ task'[t].pc = "rotate_list"
    BY <1>0, <1>2, RequestStarts DEF BeginRotate, Starts
  <2> QED BY <1>2, <2>1 DEF Moved, Entered, Begins
<1>3. CASE BeginPrune(t, i)
  <2>1. Moved(t) /\ task'[t].pc = "prune_list"
    BY <1>0, <1>3, RequestStarts DEF BeginPrune, Starts
  <2> QED BY <1>3, <2>1 DEF Moved, Entered, Begins
<1>4. CASE BeginPatch(t, i)
  <2>1. Moved(t) /\ task'[t].pc = "upsert"
    BY <1>4, PatchStarts DEF Starts
  <2> QED BY <1>4, <2>1 DEF Moved, Entered
<1> QED BY <1>1, <1>2, <1>3, <1>4 DEF Begins

LEMMA EndedEntered ==
  ASSUME NEW t \in Task, Ended(t), NEW u \in Task, task'[u] # task[u]
  PROVE  Entered(u)
BY IdleFacts DEF Ended, Moved, Entered

LEMMA EntryRegister ==
  ASSUME TypeInv, NEW t \in Task,
         List(t) \/ Put(t) \/ Post(t) \/ Store(t) \/ Read(t) \/ ApplyRow(t) \/ CallFails(t),
         NEW u \in Task, task'[u] # task[u]
  PROVE  Entered(u)
<1>0. task \in [Task -> TaskRecord]
  BY DEF TypeInv, TypeOK
<1>1. CASE List(t)
  <2>1. Ended(t) \/ (Moved(t) /\ task'[t].pc \in {"post", "put"})
    BY <1>1, ListMoves DEF GoesOnWith, GoesOn
  <2> QED BY <1>1, <2>1, EndedEntered DEF Moved, Entered
<1>2. CASE Put(t) \/ ApplyRow(t) \/ CallFails(t)
  BY <1>0, <1>2, FinishEnds, EndedEntered DEF Put, ApplyRow, CallFails
<1>3. CASE Post(t)
  <2>1. Ended(t) \/ (Moved(t) /\ task'[t].pc = "store")
    BY <1>3, PostMoves DEF GoesOnWith, GoesOn
  <2> QED BY <1>3, <2>1, EndedEntered DEF Moved, Entered
<1>4. CASE Store(t)
  BY <1>4, StoreMoves DEF GoesOn, Moved, Entered
<1>5. CASE Read(t)
  BY <1>5, ReadMoves DEF GoesOn, Moved, Entered
<1> QED BY <1>1, <1>2, <1>3, <1>4, <1>5

LEMMA EntryTools ==
  ASSUME TypeInv, NEW t \in Task,
         RotateList(t) \/ Delete(t) \/ PruneList(t) \/ Prune(t) \/ Upsert(t),
         NEW u \in Task, task'[u] # task[u]
  PROVE  Entered(u)
<1>1. CASE RotateList(t)
  BY <1>1, RotateMoves DEF Registers, GoesOnWith, GoesOn, Moved, Entered
<1>2. CASE Delete(t)
  BY <1>2, DeleteMoves, EndedEntered DEF Registers, Moved, Entered
<1>3. CASE PruneList(t)
  BY <1>3, PruneListMoves DEF GoesOn, Moved, Entered
<1>4. CASE Prune(t)
  BY <1>4, PruneMoves, EndedEntered DEF GoesOn, Moved, Entered
<1>5. CASE Upsert(t)
  BY <1>5, UpsertMoves DEF GoesOn, Moved, Entered
<1> QED BY <1>1, <1>2, <1>3, <1>4, <1>5

LEMMA EntryHeal ==
  ASSUME TypeInv, NEW i \in Server,
         \/ BeginHeal(i) \/ HealList(i) \/ ProbeUp(i) \/ ProbeDown(i) \/ Restart(i)
         \/ \E h \in Hook : HealForgotten(i, h),
         NEW u \in Task, task'[u] # task[u]
  PROVE  Entered(u)
<1>0. task \in [Task -> TaskRecord] /\ i \in Task
  BY DEF TypeInv, TypeOK, Task
<1>1. CASE BeginHeal(i)
  BY <1>1, HealStarts DEF Starts, Moved, Entered
<1>2. CASE HealList(i)
  BY <1>0, <1>2, HealListMoves, EndedEntered DEF Moved, Entered
<1>3. CASE ProbeUp(i)
  BY <1>3, ProbeMoves DEF Registers, GoesOn, Moved, Entered
<1>4. CASE ProbeDown(i)
  BY <1>0, <1>4, FinishEnds, EndedEntered DEF ProbeDown
<1>5. CASE Restart(i)
  BY <1>5, RestartMoves, IdleFacts DEF Entered
<1>6. CASE \E h \in Hook : HealForgotten(i, h)
  BY <1>6 DEF HealForgotten
<1> QED BY <1>1, <1>2, <1>3, <1>4, <1>5, <1>6

LEMMA Entry ==
  ASSUME TypeInv, Next, NEW u \in Task, task'[u] # task[u]
  PROVE  Entered(u)
<1>1. CASE \E h \in Hook : DeleteById(h) \/ Suspend(h)
  BY <1>1 DEF DeleteById, Suspend
<1> QED BY <1>1, EntryAdmin, EntryRegister, EntryTools, EntryHeal DEF Next, Begins

LEMMA GapGrows == TypeInv /\ Next => gap \subseteq gap'
<1> SUFFICES ASSUME TypeInv, Next
             PROVE  gap \subseteq gap'
  OBVIOUS
<1>1. ASSUME NEW t \in Admin, NEW i \in Server, Begins(t, i) \/ BeginPatch(t, i)
      PROVE  gap \subseteq gap'
  BY <1>1 DEF Begins, BeginRegister, BeginRotate, BeginPrune, BeginPatch, Request
<1>2. ASSUME NEW h \in Hook, DeleteById(h) \/ Suspend(h)
      PROVE  gap \subseteq gap'
  BY <1>2 DEF DeleteById, Suspend, history
<1>3. ASSUME NEW t \in Task,
             List(t) \/ Put(t) \/ Post(t) \/ Store(t) \/ Read(t) \/ ApplyRow(t) \/ CallFails(t)
      PROVE  gap \subseteq gap'
  BY <1>3 DEF List, Put, Post, Store, Read, ApplyRow, CallFails, history
<1>4. ASSUME NEW t \in Task,
             RotateList(t) \/ Delete(t) \/ PruneList(t) \/ Prune(t) \/ Upsert(t)
      PROVE  gap \subseteq gap'
  BY <1>4 DEF RotateList, Delete, PruneList, Prune, Upsert, history
<1>5. ASSUME NEW i \in Server,
             \/ BeginHeal(i) \/ HealList(i) \/ ProbeUp(i) \/ ProbeDown(i) \/ Restart(i)
             \/ \E h \in Hook : HealForgotten(i, h)
      PROVE  gap \subseteq gap'
  BY <1>5 DEF BeginHeal, HealList, ProbeUp, ProbeDown, Restart, HealForgotten, history
<1> QED BY <1>1, <1>2, <1>3, <1>4, <1>5 DEF Next, Begins

(* No step but the making of one adds a live webhook or moves it, and none *)
(* is forgotten.                                                           *)
HooksShrink ==
  \A k \in Hook :
    /\ hook'[k].state = "live" => hook[k].state = "live" /\ hook'[k].endpoint = hook[k].endpoint
    /\ hook[k].state # "unborn" => hook'[k].state # "unborn"

LEMMA HooksChange ==
  ASSUME TypeInv, Next, \A t \in Task : ~Post(t)
  PROVE  HooksShrink
<1>0. TypeOK
  BY DEF TypeInv
<1>1. UNCHANGED hook => HooksShrink
  BY DEF HooksShrink
<1>2. ASSUME NEW h \in Hook, hook' = Gone(h)
      PROVE  HooksShrink
  BY <1>0, <1>2, GoneType DEF HooksShrink, NoWebhook
<1>3. ASSUME NEW h \in Hook, NEW b \in BOOLEAN, hook' = [hook EXCEPT ![h].active = b]
      PROVE  HooksShrink
  BY <1>0, <1>3, ActiveWritten DEF HooksShrink
<1>4. ASSUME NEW t \in Admin, NEW i \in Server, Begins(t, i) \/ BeginPatch(t, i)
      PROVE  UNCHANGED hook
  BY <1>4 DEF Begins, BeginRegister, BeginRotate, BeginPrune, BeginPatch, Request
<1>5. ASSUME NEW h \in Hook, DeleteById(h) \/ Suspend(h)
      PROVE  HooksShrink
  BY <1>2, <1>3, <1>5 DEF DeleteById, Suspend
<1>6. ASSUME NEW t \in Task, Put(t) \/ Delete(t) \/ Prune(t)
      PROVE  HooksShrink
  <2>1. GoodTask(t, task[t]) /\ task[t].todo \subseteq Hook
    BY DEF TypeInv, TypeOK, TasksOK, TaskRecord
  <2>2. CASE Put(t)
    BY <1>1, <1>3, <2>1, <2>2 DEF Put, GoodTask
  <2>3. CASE Delete(t)
    BY <1>1, <1>2, <2>1, <2>3 DEF Delete, GoodTask
  <2>4. CASE Prune(t)
    BY <1>1, <1>2, <2>1, <2>4, PruneMoves
  <2> QED BY <1>6, <2>2, <2>3, <2>4
<1>7. ASSUME NEW t \in Task,
             \/ List(t) \/ Store(t) \/ Read(t) \/ ApplyRow(t) \/ CallFails(t)
             \/ RotateList(t) \/ PruneList(t) \/ Upsert(t)
      PROVE  UNCHANGED hook
  BY <1>7 DEF List, Store, Read, ApplyRow, CallFails, RotateList, PruneList, Upsert
<1>8. ASSUME NEW i \in Server,
             \/ BeginHeal(i) \/ HealList(i) \/ ProbeUp(i) \/ ProbeDown(i) \/ Restart(i)
             \/ \E h \in Hook : HealForgotten(i, h)
      PROVE  UNCHANGED hook
  BY <1>8 DEF BeginHeal, HealList, ProbeUp, ProbeDown, Restart, HealForgotten
<1> QED BY <1>1, <1>4, <1>5, <1>6, <1>7, <1>8 DEF Next, Begins

(* Only Store and Upsert write the row; only Upsert saves preferences.     *)
LEMMA SettingsStep ==
  ASSUME TypeInv, Next, \A t \in Task : ~Upsert(t)
  PROVE  /\ db'.prefs = db.prefs /\ db'.endpoint = db.endpoint /\ UNCHANGED saved
         /\ UNCHANGED <<db, writer>> \/ \E t \in Task : Store(t)
<1>0. db \in Row
  BY DEF TypeInv, TypeOK, SettingsTypeOK
<1>1. CASE \E t \in Task : Store(t)
  BY <1>0, <1>1 DEF Store, WriteSecret, Row
<1>2. CASE UNCHANGED <<db, saved, writer>>
  BY <1>2
<1>3. ASSUME NEW t \in Admin, NEW i \in Server, Begins(t, i) \/ BeginPatch(t, i)
      PROVE  UNCHANGED <<db, saved, writer>>
  BY <1>3 DEF Begins, BeginRegister, BeginRotate, BeginPrune, BeginPatch, Request, settings
<1>4. ASSUME NEW h \in Hook, DeleteById(h) \/ Suspend(h)
      PROVE  UNCHANGED <<db, saved, writer>>
  BY <1>4 DEF DeleteById, Suspend, settings, history
<1>5. ASSUME NEW t \in Task,
             \/ List(t) \/ Put(t) \/ Post(t) \/ Read(t) \/ ApplyRow(t) \/ CallFails(t)
             \/ RotateList(t) \/ Delete(t) \/ PruneList(t) \/ Prune(t)
      PROVE  UNCHANGED <<db, saved, writer>>
  BY <1>5 DEF List, Put, Post, Read, ApplyRow, CallFails, RotateList, Delete, PruneList, Prune,
              settings, history
<1>6. ASSUME NEW i \in Server,
             \/ BeginHeal(i) \/ HealList(i) \/ ProbeUp(i) \/ ProbeDown(i) \/ Restart(i)
             \/ \E h \in Hook : HealForgotten(i, h)
      PROVE  UNCHANGED <<db, saved, writer>>
  BY <1>6 DEF BeginHeal, HealList, ProbeUp, ProbeDown, Restart, HealForgotten, settings, history
<1> QED BY <1>1, <1>2, <1>3, <1>4, <1>5, <1>6 DEF Next, Begins

-----------------------------------------------------------------------------
(* One registration per endpoint: a task about to make a webhook is the    *)
(* only one for its endpoint, and there is none yet.                       *)

OnlyHook == \A h, k \in Hook : Live(h) /\ Live(k) /\ hook[h].endpoint = hook[k].endpoint => h = k

NoHookYet ==
  \A t \in Task, h \in Hook : task[t].pc = "post" /\ Live(h) => hook[h].endpoint # task[t].endpoint

OnlyMaker ==
  \A t, u \in Task :
    task[t].pc = "post" /\ task[u].pc = "post" /\ task[t].endpoint = task[u].endpoint => t = u

UniqueInv == "both_create" \notin gap => OnlyHook /\ NoHookYet /\ OnlyMaker

LEMMA StepUnique == TypeInv /\ UniqueInv /\ Next => UniqueInv'
<1> SUFFICES ASSUME TypeInv, UniqueInv, Next, "both_create" \notin gap'
             PROVE  OnlyHook' /\ NoHookYet' /\ OnlyMaker'
  BY DEF UniqueInv
<1>0. OnlyHook /\ NoHookYet /\ OnlyMaker
  BY GapGrows DEF UniqueInv
<1>1. CASE \E t \in Task : List(t)
  <2>1. PICK t \in Task : List(t)
    BY <1>1
  <2>2. UNCHANGED hook
    BY <2>1 DEF List
  <2>3. Moved(t)
    BY <2>1, ListMoves DEF GoesOnWith, GoesOn, Ended
  <2>4. CASE task'[t].pc # "post"
    <3>1. ASSUME NEW u \in Task, task'[u].pc = "post"
          PROVE  task'[u] = task[u]
      BY <2>3, <2>4, <3>1 DEF Moved
    <3>2. OnlyHook' /\ NoHookYet'
      BY <1>0, <2>2, <3>1 DEF OnlyHook, NoHookYet, Live
    <3>3. OnlyMaker'
      BY <1>0, <3>1 DEF OnlyMaker
    <3> QED BY <3>2, <3>3
  <2>5. CASE task'[t].pc = "post"
    <3>1. Matches(task[t].endpoint) = {} /\ GoesOn(t, "post")
      BY <2>1, <2>5, ListMoves, IdleFacts DEF GoesOnWith, GoesOn, Ended
    <3>2. task'[t].endpoint = task[t].endpoint
      BY <3>1 DEF GoesOn
    <3>3. \A h \in Hook : Live(h) => hook[h].endpoint # task[t].endpoint
      BY <3>1 DEF Matches, Live
    <3>4. \A u \in Task \ {t} : task[u].pc = "post" => task[u].endpoint # task[t].endpoint
      <4>1. gap' = IF \E u \in Task \ {t} : task[u].pc = "post" /\ task[u].endpoint = task[t].endpoint
                   THEN gap \cup {"both_create"} ELSE gap
        BY <2>1, <3>1 DEF List
      <4> QED BY <4>1
    <3>5. OnlyHook'
      BY <1>0, <2>2 DEF OnlyHook, Live
    <3>6. NoHookYet'
      <4> SUFFICES ASSUME NEW u \in Task, NEW h \in Hook, task'[u].pc = "post", hook[h].state = "live"
                   PROVE  hook[h].endpoint # task'[u].endpoint
        BY <2>2 DEF NoHookYet, Live
      <4>1. CASE u = t
        BY <3>2, <3>3, <4>1 DEF Live
      <4>2. CASE u # t
        BY <1>0, <2>3, <4>2 DEF Moved, NoHookYet, Live
      <4> QED BY <4>1, <4>2
    <3>7. OnlyMaker'
      <4> SUFFICES ASSUME NEW u \in Task, NEW v \in Task, task'[u].pc = "post", task'[v].pc = "post",
                          task'[u].endpoint = task'[v].endpoint, u # v
                   PROVE  FALSE
        BY DEF OnlyMaker
      <4>1. CASE u = t
        BY <2>3, <3>2, <3>4, <4>1 DEF Moved
      <4>2. CASE v = t
        BY <2>3, <3>2, <3>4, <4>2 DEF Moved
      <4>3. CASE u # t /\ v # t
        BY <1>0, <2>3, <4>3 DEF Moved, OnlyMaker
      <4> QED BY <4>1, <4>2, <4>3
    <3> QED BY <3>5, <3>6, <3>7
  <2> QED BY <2>4, <2>5
<1>2. CASE \E t \in Task : Post(t)
  <2>1. PICK t \in Task : Post(t)
    BY <1>2
  <2>2. task[t].pc = "post"
    BY <2>1 DEF Post
  <2>3. PICK h \in Hook :
          /\ hook' = [hook EXCEPT ![h] = [state |-> "live", active |-> TRUE, endpoint |-> task[t].endpoint]]
          /\ GoesOnWith(t, "store", h) \/ Ended(t)
    BY <2>1, PostMoves
  <2>4. Moved(t) /\ task'[t].pc # "post"
    BY <2>3, IdleFacts DEF GoesOnWith, GoesOn, Ended
  <2>5. hook'[h].endpoint = task[t].endpoint
    BY <2>3 DEF TypeInv, TypeOK
  <2>6. ASSUME NEW k \in Hook, k # h
        PROVE  hook'[k] = hook[k]
    BY <2>3, <2>6 DEF TypeInv, TypeOK
  <2>7. ASSUME NEW u \in Task, task'[u].pc = "post"
        PROVE  task'[u] = task[u] /\ u # t
    BY <2>4, <2>7 DEF Moved
  <2>8. ASSUME NEW k \in Hook, k # h, hook'[k].state = "live"
        PROVE  hook'[k].endpoint # task[t].endpoint
    BY <1>0, <2>2, <2>6, <2>8 DEF NoHookYet, Live
  <2>9. OnlyHook'
    <3> SUFFICES ASSUME NEW k \in Hook, NEW l \in Hook, hook'[k].state = "live", hook'[l].state = "live",
                        hook'[k].endpoint = hook'[l].endpoint, k # l
                 PROVE  FALSE
      BY DEF OnlyHook, Live
    <3>1. CASE k = h
      BY <2>5, <2>8, <3>1
    <3>2. CASE l = h
      BY <2>5, <2>8, <3>2
    <3>3. CASE k # h /\ l # h
      BY <1>0, <2>6, <3>3 DEF OnlyHook, Live
    <3> QED BY <3>1, <3>2, <3>3
  <2>10. NoHookYet'
    <3> SUFFICES ASSUME NEW u \in Task, NEW k \in Hook, task'[u].pc = "post", hook'[k].state = "live"
                 PROVE  hook'[k].endpoint # task'[u].endpoint
      BY DEF NoHookYet, Live
    <3>1. CASE k = h
      BY <1>0, <2>2, <2>5, <2>7, <3>1 DEF OnlyMaker
    <3>2. CASE k # h
      BY <1>0, <2>6, <2>7, <3>2 DEF NoHookYet, Live
    <3> QED BY <3>1, <3>2
  <2>11. OnlyMaker'
    BY <1>0, <2>7 DEF OnlyMaker
  <2> QED BY <2>9, <2>10, <2>11
<1>3. CASE \A t \in Task : ~List(t) /\ ~Post(t)
  <2>1. HooksShrink
    BY <1>3, HooksChange
  <2>2. ASSUME NEW u \in Task, task'[u].pc = "post"
        PROVE  task'[u] = task[u]
    <3>1. task'[u] # task[u] => List(u)
      BY <2>2, Entry DEF Entered
    <3> QED BY <1>3, <3>1
  <2>3. OnlyHook'
    BY <1>0, <2>1 DEF HooksShrink, OnlyHook, Live
  <2>4. NoHookYet'
    <3> SUFFICES ASSUME NEW u \in Task, NEW k \in Hook, task'[u].pc = "post", hook'[k].state = "live"
                 PROVE  hook'[k].endpoint # task'[u].endpoint
      BY DEF NoHookYet, Live
    <3>1. hook[k].state = "live" /\ hook'[k].endpoint = hook[k].endpoint /\ task'[u] = task[u]
      BY <2>1, <2>2 DEF HooksShrink
    <3> QED BY <1>0, <3>1 DEF NoHookYet, Live
  <2>5. OnlyMaker'
    BY <1>0, <2>2 DEF OnlyMaker
  <2> QED BY <2>3, <2>4, <2>5
<1> QED BY <1>1, <1>2, <1>3

(* There is one registration per endpoint, for any number of requests and  *)
(* cron jobs, unless two found no webhook before either had made one       *)
(* (register).                                                             *)
THEOREM RegisteredOnce == Spec => []OneRegistration
<1>1. Init => TypeInv /\ UniqueInv
  BY InitType, IdleFacts DEF Init, UniqueInv, OnlyHook, NoHookYet, OnlyMaker, Live, NoWebhook
<1>2. TypeInv /\ UniqueInv /\ [Next]_vars => (TypeInv /\ UniqueInv)'
  BY StepType, StepUnique DEF vars, UniqueInv, OnlyHook, NoHookYet, OnlyMaker, Live, history
<1>3. UniqueInv => OneRegistration
  BY DEF UniqueInv, OnlyHook, OneRegistration
<1> QED BY <1>1, <1>2, <1>3, PTL DEF Spec

-----------------------------------------------------------------------------
(* A saved preference stays: every patch on its way holds at least what    *)
(* the row holds.                                                          *)

PatchInv ==
  "stale_merge" \notin gap =>
    /\ saved \subseteq db.prefs
    /\ \A t \in Task : Patching(t) => db.prefs \subseteq task[t].prefs

LEMMA StepPatch == TypeInv /\ PatchInv /\ Next => PatchInv'
<1> SUFFICES ASSUME TypeInv, PatchInv, Next, "stale_merge" \notin gap'
             PROVE  /\ saved' \subseteq db'.prefs
                    /\ \A t \in Task : Patching(t)' => db'.prefs \subseteq task'[t].prefs
  BY DEF PatchInv
<1>0. /\ saved \subseteq db.prefs
      /\ \A t \in Task : Patching(t) => db.prefs \subseteq task[t].prefs
      /\ db \in Row
  BY GapGrows DEF PatchInv, TypeInv, TypeOK, SettingsTypeOK
<1>1. CASE \E t \in Task : Upsert(t)
  <2>1. PICK t \in Task : Upsert(t)
    BY <1>1
  <2>2. Moved(t) /\ task'[t].pc = "read" /\ task[t].pc = "upsert"
    BY <2>1, UpsertMoves DEF GoesOn, Upsert
  <2>w. /\ saved' = saved \cup task[t].prefs
        /\ db'.prefs = IF task[t].prefs = {} THEN db.prefs ELSE task[t].prefs
    BY <2>1, UpsertWrites
  <2>3. CASE task[t].prefs = {}
    BY <1>0, <2>2, <2>3, <2>w DEF Patching, Moved
  <2>4. CASE task[t].prefs # {}
    <3>1. Patching(t) /\ ~\E u \in Task \ {t} : Patching(u)
      BY <2>1, <2>2, <2>4 DEF Upsert, OutOfStep, Patching
    <3>2. db'.prefs = task[t].prefs /\ db.prefs \subseteq task[t].prefs
      BY <1>0, <2>4, <2>w, <3>1
    <3> QED BY <1>0, <2>2, <2>w, <3>1, <3>2 DEF Patching, Moved
  <2> QED BY <2>3, <2>4
<1>2. CASE \A t \in Task : ~Upsert(t)
  <2>1. db'.prefs = db.prefs /\ UNCHANGED saved
    BY <1>0, <1>2, SettingsStep
  <2>2. ASSUME NEW t \in Task, Patching(t)', task'[t] # task[t]
        PROVE  db.prefs \subseteq task'[t].prefs
    <3>1. t \in Admin /\ \E i \in Server : BeginPatch(t, i)
      BY <2>2, Entry DEF Patching, Entered
    <3>2. PICK i \in Server : BeginPatch(t, i)
      BY <3>1
    <3>3. \/ task'[t].prefs = {}
          \/ /\ cache[i].prefs \subseteq task'[t].prefs
             /\ cache[i].prefs = db.prefs \/ "stale_merge" \in gap'
      BY <3>1, <3>2, PatchStarts
    <3> QED BY <2>2, <3>3 DEF Patching
  <2> QED BY <1>0, <2>1, <2>2 DEF Patching
<1> QED BY <1>1, <1>2

(* A preference an administrator saved stays saved, for any number of      *)
(* instances and patches, unless a patch replaced a row it was not merged  *)
(* onto (SettingsService.update).                                          *)
THEOREM PreferencesKept == Spec => []PatchKept
<1>1. Init => TypeInv /\ PatchInv
  BY InitType, IdleFacts DEF Init, PatchInv, Patching
<1>2. TypeInv /\ PatchInv /\ [Next]_vars => (TypeInv /\ PatchInv)'
  BY StepType, StepPatch DEF vars, PatchInv, Patching, history, settings
<1>3. PatchInv => PatchKept
  BY DEF PatchInv, PatchKept
<1> QED BY <1>1, <1>2, <1>3, PTL DEF Spec

-----------------------------------------------------------------------------
(* The endpoint a task works with is the configured one.                   *)

EndpointInv ==
  "stale_endpoint" \notin gap =>
    \A t \in Task : task[t].endpoint # None /\ task[t].pc # "upsert" => task[t].endpoint = db.endpoint

LEMMA StaleOr ==
  ASSUME NEW e, gap' = gap \cup StaleEndpoint(e) \/ \E G : gap' = gap \cup G \cup StaleEndpoint(e)
  PROVE  e = db.endpoint \/ "stale_endpoint" \in gap'
BY DEF StaleEndpoint

LEMMA BeginsAt ==
  ASSUME TypeInv, NEW u \in Admin, NEW i \in Server, Begins(u, i)
  PROVE  /\ task'[u].endpoint = cache[i].endpoint
         /\ cache[i].endpoint = db.endpoint \/ "stale_endpoint" \in gap'
<1>0. {"register", "rotate", "prune"} \subseteq Op /\ {"list", "rotate_list", "prune_list"} \subseteq PC
  BY DEF Op, PC
<1>1. gap' = gap \cup StaleEndpoint(cache[i].endpoint)
  BY DEF Begins, BeginRegister, BeginRotate, BeginPrune, Request
<1>2. task'[u].endpoint = cache[i].endpoint
  BY <1>0, RequestStarts DEF Begins, BeginRegister, BeginRotate, BeginPrune, Starts
<1> QED BY <1>1, <1>2, StaleOr

LEMMA EndpointMoves ==
  ASSUME TypeInv, Next, NEW u \in Task, task'[u] # task[u],
         task'[u].endpoint # None, task'[u].pc # "upsert", ~Upsert(u)
  PROVE  \/ task'[u].endpoint = task[u].endpoint /\ task[u].pc # "upsert"
         \/ "stale_endpoint" \in gap'
         \/ task'[u].endpoint = db.endpoint
<1>0. Entered(u) /\ GoodTask(u, task[u])
  BY Entry, IdleFacts DEF TypeInv, TasksOK
<1>1. GoodTask(u, task'[u]) /\ task'[u] \in TaskRecord
  BY StepType DEF TypeInv, TasksOK, TypeOK
<1>2. CASE task'[u].pc \in {"post", "put"}
  BY <1>0, <1>2, ListMoves, IdleFacts DEF Entered, GoesOnWith, GoesOn, Ended, List
<1>3. CASE task'[u].pc = "store"
  BY <1>0, <1>3, PostMoves, IdleFacts DEF Entered, GoesOnWith, GoesOn, Ended, Post
<1>4. CASE task'[u].pc = "read"
  BY <1>0, <1>4, StoreMoves DEF Entered, GoesOn, Store
<1>5. CASE task'[u].pc = "apply"
  BY <1>0, <1>5, ReadMoves DEF Entered, GoesOn, Read
<1>6. CASE task'[u].pc = "prune"
  BY <1>0, <1>6, PruneListMoves, PruneMoves, IdleFacts DEF Entered, GoesOn, Ended, PruneList, Prune
<1>7. CASE task'[u].pc = "probe"
  BY <1>0, <1>7, HealListMoves, IdleFacts DEF Entered, Ended, HealList
<1>8. CASE task'[u].pc = "delete"
  BY <1>0, <1>8, RotateMoves, ProbeMoves
     DEF Entered, GoesOnWith, GoesOn, Registers, RotateList, ProbeUp
<1>9. CASE task'[u].pc = "list"
  <2>1. CASE RotateList(u)
    <3>1. CASE \E h \in Matches(task[u].endpoint) : GoesOnWith(u, "delete", h)
      BY <1>9, <3>1 DEF GoesOnWith, GoesOn
    <3>2. CASE Registers(u, "register") /\ gap' = gap \cup StaleEndpoint(cache[task[u].on].endpoint)
      BY <3>2, StaleOr DEF Registers
    <3> QED BY <2>1, <3>1, <3>2, RotateMoves
  <2>2. CASE Delete(u)
    <3>1. CASE Ended(u)
      BY <1>9, <3>1, IdleFacts DEF Ended
    <3>2. CASE /\ Registers(u, task[u].op)
               /\ gap' = gap \cup DeletedEarly(task[u].hook) \cup StaleEndpoint(cache[task[u].on].endpoint)
      BY <3>2, StaleOr DEF Registers
    <3> QED BY <2>2, <3>1, <3>2, DeleteMoves
  <2>3. CASE u \in Server /\ ProbeUp(u)
    <3>1. task[u].on = u /\ gap' = gap \cup StaleEndpoint(cache[u].endpoint)
      BY <1>0, <2>3 DEF ProbeUp, GoodTask
    <3>2. Registers(u, "heal")
      BY <1>9, <2>3, ProbeMoves DEF GoesOn
    <3> QED BY <3>1, <3>2, StaleOr DEF Registers
  <2>4. CASE u \in Admin /\ \E i \in Server : BeginRegister(u, i)
    BY <2>4, BeginsAt DEF Begins
  <2> QED BY <1>0, <1>9, <2>1, <2>2, <2>3, <2>4 DEF Entered
<1>10. CASE task'[u].pc \in {"rotate_list", "prune_list"}
  BY <1>0, <1>10, BeginsAt DEF Entered
<1>11. CASE task'[u].pc = "heal_list"
  <2>1. u \in Server /\ BeginHeal(u)
    BY <1>0, <1>11 DEF Entered
  <2>2. task'[u].endpoint = cache[u].endpoint /\ gap' = gap \cup StaleEndpoint(cache[u].endpoint)
    BY <2>1, HealStarts DEF Starts, BeginHeal
  <2> QED BY <2>2, StaleOr
<1>12. CASE task'[u].pc = "idle"
  BY <1>1, <1>12 DEF GoodTask
<1> QED BY <1>1, <1>2, <1>3, <1>4, <1>5, <1>6, <1>7, <1>8, <1>9, <1>10, <1>11, <1>12
        DEF TaskRecord, PC

LEMMA StepEndpoint == TypeInv /\ EndpointInv /\ Next => EndpointInv'
<1> SUFFICES ASSUME TypeInv, EndpointInv, Next, "stale_endpoint" \notin gap', NEW u \in Task,
                    task'[u].endpoint # None, task'[u].pc # "upsert"
             PROVE  task'[u].endpoint = db'.endpoint
  BY DEF EndpointInv
<1>0. \A t \in Task : task[t].endpoint # None /\ task[t].pc # "upsert" => task[t].endpoint = db.endpoint
  BY GapGrows DEF EndpointInv
<1>d. db \in Row
  BY DEF TypeInv, TypeOK, SettingsTypeOK
<1>1. CASE \E t \in Task : Upsert(t)
  <2>1. PICK t \in Task : Upsert(t)
    BY <1>1
  <2>2. GoesOn(t, "read") /\ task[t].pc = "upsert"
    BY <2>1, UpsertMoves DEF Upsert
  <2>w. db'.endpoint = IF task[t].endpoint = None THEN db.endpoint ELSE task[t].endpoint
    BY <2>1, UpsertWrites
  <2>3. CASE task[t].endpoint = None
    <3>1. u # t /\ task'[u] = task[u]
      BY <2>2, <2>3 DEF GoesOn, Moved
    <3> QED BY <1>0, <2>3, <2>w, <3>1
  <2>4. CASE task[t].endpoint # None
    <3>1. ~Working(t, task[t].endpoint)
      BY <2>1, <2>4 DEF Upsert, OutOfStep
    <3>2. \A v \in Task \ {t} : task[v].endpoint # None => task[v].endpoint = task[t].endpoint
      BY <3>1 DEF Working
    <3>3. db'.endpoint = task[t].endpoint
      BY <2>4, <2>w
    <3>4. CASE u = t
      BY <2>2, <3>3, <3>4 DEF GoesOn
    <3>5. CASE u # t
      BY <2>2, <3>2, <3>3, <3>5 DEF GoesOn, Moved
    <3> QED BY <3>4, <3>5
  <2> QED BY <2>3, <2>4
<1>2. CASE \A t \in Task : ~Upsert(t)
  <2>1. db'.endpoint = db.endpoint
    BY <1>2, SettingsStep
  <2>2. CASE task'[u] = task[u]
    BY <1>0, <2>1, <2>2
  <2>3. CASE task'[u] # task[u]
    BY <1>0, <1>2, <2>1, <2>3, EndpointMoves
  <2> QED BY <2>2, <2>3
<1> QED BY <1>1, <1>2

-----------------------------------------------------------------------------
(* Which step takes a task from where it is.                               *)

(* The task is cut short.                                                  *)
Cut(u) == CallFails(u) \/ \E i \in Server : Restart(i) /\ task[u].on = i

Left(u) ==
  /\ task[u].pc = "list"   => List(u) \/ Cut(u)
  /\ task[u].pc = "post"   => Post(u) \/ Cut(u)
  /\ task[u].pc = "store"  => Store(u) \/ Cut(u)
  /\ task[u].pc = "read"   => Read(u) \/ Cut(u)
  /\ task[u].pc = "apply"  => ApplyRow(u) \/ Cut(u)
  /\ task[u].pc = "upsert" => Upsert(u) \/ Cut(u)

LEMMA Leaving ==
  ASSUME TypeInv, Next, NEW u \in Task, task'[u] # task[u]
  PROVE  Left(u)
<1>0. task \in [Task -> TaskRecord] /\ Server \subseteq Task /\ Admin \subseteq Task
  BY DEF TypeInv, TypeOK, Task
<1>1. ASSUME NEW t \in Admin, NEW i \in Server, Begins(t, i) \/ BeginPatch(t, i)
      PROVE  Left(u)
  <2>1. \A v \in Task : v # t => task'[v] = task[v]
    BY <1>0, <1>1 DEF Begins, BeginRegister, BeginRotate, BeginPrune, BeginPatch, Request
  <2>2. task[t].pc = "idle"
    BY <1>1 DEF Begins, BeginRegister, BeginRotate, BeginPrune, BeginPatch, Request
  <2> QED BY <2>1, <2>2 DEF Left
<1>2. ASSUME NEW h \in Hook, DeleteById(h) \/ Suspend(h)
      PROVE  Left(u)
  BY <1>2 DEF DeleteById, Suspend
<1>3. ASSUME NEW t \in Task, List(t) \/ Put(t) \/ Post(t)
      PROVE  Left(u)
  <2>1. Moved(t)
    BY <1>0, <1>3, ListMoves, PostMoves, FinishEnds DEF GoesOnWith, GoesOn, Ended, Put
  <2>2. u = t
    BY <2>1 DEF Moved
  <2> QED BY <1>3, <2>2 DEF Left, List, Put, Post
<1>4. ASSUME NEW t \in Task, Store(t) \/ Read(t) \/ ApplyRow(t) \/ Upsert(t)
      PROVE  Left(u)
  <2>1. Moved(t)
    BY <1>0, <1>4, StoreMoves, ReadMoves, UpsertMoves, FinishEnds DEF GoesOn, Ended, ApplyRow
  <2>2. u = t
    BY <2>1 DEF Moved
  <2> QED BY <1>4, <2>2 DEF Left, Store, Read, ApplyRow, Upsert
<1>5. ASSUME NEW t \in Task, RotateList(t) \/ Delete(t) \/ PruneList(t) \/ Prune(t)
      PROVE  Left(u)
  <2>1. Moved(t)
    BY <1>0, <1>5, RotateMoves, DeleteMoves, PruneListMoves, PruneMoves
       DEF GoesOnWith, GoesOn, Ended, Registers
  <2>2. u = t /\ task[t].pc \in {"rotate_list", "delete", "prune_list", "prune"}
    BY <1>5, <2>1 DEF Moved, RotateList, Delete, PruneList, Prune
  <2> QED BY <2>2 DEF Left
<1>6. ASSUME NEW t \in Task, CallFails(t)
      PROVE  Left(u)
  <2>1. u = t
    BY <1>0, <1>6 DEF CallFails, Finish
  <2> QED BY <1>6, <2>1 DEF Left, Cut
<1>7. ASSUME NEW i \in Server, BeginHeal(i) \/ HealList(i) \/ ProbeUp(i) \/ ProbeDown(i)
      PROVE  Left(u)
  <2>1. Moved(i)
    BY <1>0, <1>7, HealStarts, HealListMoves, ProbeMoves, FinishEnds
       DEF Starts, GoesOn, Ended, Registers, ProbeDown
  <2>2. u = i /\ task[i].pc \in {"idle", "heal_list", "probe"}
    BY <1>7, <2>1 DEF Moved, BeginHeal, HealList, ProbeUp, ProbeDown
  <2> QED BY <2>2 DEF Left
<1>8. ASSUME NEW i \in Server, Restart(i)
      PROVE  Left(u)
  <2>1. task[u].on = i
    BY <1>8, RestartMoves
  <2> QED BY <1>8, <2>1 DEF Left, Cut
<1>9. ASSUME NEW i \in Server, NEW h \in Hook, HealForgotten(i, h)
      PROVE  Left(u)
  BY <1>9 DEF HealForgotten
<1> QED BY <1>1, <1>2, <1>3, <1>4, <1>5, <1>6, <1>7, <1>8, <1>9 DEF Next, Begins

(* What is lost with a task that is cut short.                             *)
LEMMA CutLoses ==
  ASSUME TypeInv, NEW u \in Task, Cut(u)
  PROVE  /\ Lost(task[u]) \ {"refresh_failed"} \subseteq gap'
         /\ (\A i \in Server : ~Restart(i)) => Lost(task[u]) \subseteq gap'
BY DEF Cut, CallFails, Restart

-----------------------------------------------------------------------------
(* The webhook a task is about to delete is where the task looked for it.  *)

Born(h) == hook[h].state # "unborn"

PlaceInv ==
  \A t \in Task :
    /\ task[t].pc \in {"probe", "delete"} =>
         Born(task[t].hook) /\ (Live(task[t].hook) => hook[task[t].hook].endpoint = task[t].endpoint)
    /\ task[t].pc = "prune" =>
         \A h \in task[t].todo : Born(h) /\ (Live(h) => hook[h].endpoint # task[t].endpoint)

LEMMA HooksPersist ==
  ASSUME TypeInv, Next, NEW k \in Hook, Born(k)
  PROVE  Born(k)' /\ (Live(k)' => Live(k) /\ hook'[k].endpoint = hook[k].endpoint)
<1>1. CASE \E t \in Task : Post(t)
  <2>1. PICK t \in Task : Post(t)
    BY <1>1
  <2>2. PICK h \in Hook :
          /\ hook[h].state = "unborn"
          /\ hook' = [hook EXCEPT ![h] = [state |-> "live", active |-> TRUE, endpoint |-> task[t].endpoint]]
    BY <2>1, PostMoves
  <2>3. hook'[k] = hook[k]
    BY <2>2 DEF Born, TypeInv, TypeOK
  <2> QED BY <2>3 DEF Born, Live
<1>2. CASE \A t \in Task : ~Post(t)
  BY <1>2, HooksChange DEF HooksShrink, Born, Live
<1> QED BY <1>1, <1>2

LEMMA StepPlace == TypeInv /\ PlaceInv /\ Next => PlaceInv'
<1> SUFFICES ASSUME TypeInv, PlaceInv, Next, NEW u \in Task
             PROVE  /\ task'[u].pc \in {"probe", "delete"} =>
                         /\ Born(task[u].hook)'
                         /\ Live(task[u].hook)' => hook'[task'[u].hook].endpoint = task'[u].endpoint
                    /\ task'[u].pc = "prune" =>
                         \A h \in task'[u].todo :
                           Born(h)' /\ (Live(h)' => hook'[h].endpoint # task'[u].endpoint)
  BY DEF PlaceInv
<1>0. GoodTask(u, task[u]) /\ task[u].todo \subseteq Hook /\ GoodTask(u, task'[u])
  BY StepType DEF TypeInv, TypeOK, TasksOK, TaskRecord
<1>1. CASE task'[u] = task[u]
  BY <1>0, <1>1, HooksPersist DEF PlaceInv, GoodTask, Born, Live
<1>2. CASE task'[u] # task[u] /\ task'[u].pc = "probe"
  <2>1. u \in Server /\ HealList(u)
    BY <1>2, Entry DEF Entered
  <2>2. task'[u].hook \in Matches(task[u].endpoint) /\ task'[u].endpoint = task[u].endpoint
    BY <1>2, <2>1, HealListMoves, IdleFacts DEF Ended
  <2>3. UNCHANGED hook
    BY <2>1 DEF HealList
  <2> QED BY <1>2, <2>2, <2>3 DEF Matches, Born, Live
<1>3. CASE task'[u] # task[u] /\ task'[u].pc = "delete"
  <2>1. CASE RotateList(u)
    <3>1. task'[u].hook \in Matches(task[u].endpoint) /\ task'[u].endpoint = task[u].endpoint
      BY <1>3, <2>1, RotateMoves DEF GoesOnWith, GoesOn, Registers
    <3>2. UNCHANGED hook
      BY <2>1 DEF RotateList
    <3> QED BY <1>3, <3>1, <3>2 DEF Matches, Born, Live
  <2>2. CASE u \in Server /\ ProbeUp(u)
    <3>1. task'[u].hook = task[u].hook /\ task'[u].endpoint = task[u].endpoint /\ task[u].pc = "probe"
      BY <1>3, <2>2, ProbeMoves DEF GoesOn, Registers, ProbeUp
    <3>2. UNCHANGED hook
      BY <2>2 DEF ProbeUp
    <3> QED BY <1>3, <3>1, <3>2 DEF PlaceInv, Born, Live
  <2> QED BY <1>3, <2>1, <2>2, Entry DEF Entered
<1>4. CASE task'[u] # task[u] /\ task'[u].pc = "prune"
  <2>1. CASE PruneList(u)
    <3>1. /\ task'[u].todo = {h \in Hook : Live(h) /\ hook[h].endpoint # task[u].endpoint}
          /\ task'[u].endpoint = task[u].endpoint
      BY <2>1, PruneListMoves DEF GoesOn
    <3>2. UNCHANGED hook
      BY <2>1 DEF PruneList
    <3> QED BY <1>4, <3>1, <3>2 DEF Born, Live
  <2>2. CASE Prune(u)
    <3>1. task'[u].todo \subseteq task[u].todo /\ task'[u].endpoint = task[u].endpoint
      BY <1>4, <2>2, PruneMoves, IdleFacts DEF GoesOn, Ended
    <3>2. task[u].pc = "prune"
      BY <2>2 DEF Prune
    <3> QED BY <1>0, <1>4, <3>1, <3>2, HooksPersist DEF PlaceInv
  <2> QED BY <1>4, <2>1, <2>2, Entry DEF Entered
<1> QED BY <1>1, <1>2, <1>3, <1>4

-----------------------------------------------------------------------------
(* A webhook whose secret is being stored is the one its task made.        *)

StoringInv ==
  "secret_raced" \notin gap =>
    \A t \in Task : task[t].pc = "store" =>
      Live(task[t].hook) /\ hook[task[t].hook].endpoint = task[t].endpoint

(* A live webhook ends only by being deleted.                              *)
Deletes(h) ==
  \/ \E t \in Task : Delete(t) /\ task[t].hook = h
  \/ \E t \in Task : Prune(t) /\ h \in task[t].todo
  \/ DeleteById(h)

LEMMA LiveEnds ==
  ASSUME TypeInv, Next, NEW h \in Hook, Live(h)
  PROVE  \/ Live(h)' /\ hook'[h].endpoint = hook[h].endpoint
         \/ Deletes(h) /\ hook' = Gone(h) /\ DeletedEarly(h) \subseteq gap'
<1> DEFINE Q == \/ Live(h)' /\ hook'[h].endpoint = hook[h].endpoint
                \/ Deletes(h) /\ hook' = Gone(h) /\ DeletedEarly(h) \subseteq gap'
<1>0. TypeOK
  BY DEF TypeInv
<1>1. UNCHANGED hook => Q
  BY DEF Live
<1>2. ASSUME NEW k \in Hook, NEW b \in BOOLEAN, hook' = [hook EXCEPT ![k].active = b]
      PROVE  Q
  BY <1>0, <1>2, ActiveWritten DEF Live
<1>3. ASSUME NEW k \in Hook, hook' = Gone(k), k # h
      PROVE  Q
  BY <1>0, <1>3, GoneType DEF Live
<1>4. ASSUME NEW t \in Task, Post(t)
      PROVE  Q
  <2>1. PICK k \in Hook :
          /\ hook[k].state = "unborn"
          /\ hook' = [hook EXCEPT ![k] = [state |-> "live", active |-> TRUE, endpoint |-> task[t].endpoint]]
    BY <1>4, PostMoves
  <2>2. hook'[h] = hook[h]
    BY <1>0, <2>1 DEF Live, TypeOK
  <2> QED BY <2>2 DEF Live
<1>5. ASSUME NEW t \in Task, Put(t) \/ Delete(t) \/ Prune(t)
      PROVE  Q
  <2>1. GoodTask(t, task[t]) /\ task[t].todo \subseteq Hook
    BY DEF TypeInv, TypeOK, TasksOK, TaskRecord
  <2>2. CASE Put(t)
    <3>1. task[t].hook \in Hook /\ (UNCHANGED hook \/ hook' = [hook EXCEPT ![task[t].hook].active = TRUE])
      BY <2>1, <2>2 DEF Put, GoodTask
    <3> QED BY <1>1, <1>2, <3>1
  <2>3. CASE Delete(t)
    <3>1. UNCHANGED hook \/ (hook' = Gone(task[t].hook) /\ DeletedEarly(task[t].hook) \subseteq gap')
      BY <2>3, DeleteMoves
    <3>2. task[t].hook \in Hook
      BY <2>1, <2>3 DEF GoodTask, Delete
    <3>3. task[t].hook = h => Deletes(h)
      BY <2>3 DEF Deletes
    <3> HIDE DEF Q
    <3>4. CASE task[t].hook = h /\ ~UNCHANGED hook
      BY <3>1, <3>3, <3>4 DEF Q
    <3> QED BY <1>1, <1>3, <3>1, <3>2, <3>4
  <2>4. CASE Prune(t)
    <3>1. \/ UNCHANGED hook
          \/ \E k \in task[t].todo : hook' = Gone(k) /\ gap' = gap \cup DeletedEarly(k)
      BY <2>4, PruneMoves
    <3>2. ASSUME NEW k \in task[t].todo, hook' = Gone(k), gap' = gap \cup DeletedEarly(k)
          PROVE  Q
      <4>1. k = h => Deletes(h)
        BY <2>4 DEF Deletes
      <4> QED BY <1>3, <2>1, <3>2, <4>1
    <3> QED BY <1>1, <3>1, <3>2
  <2> QED BY <1>5, <2>2, <2>3, <2>4
<1>6. ASSUME NEW k \in Hook, DeleteById(k)
      PROVE  Q
  <2>1. hook' = Gone(k) /\ gap' = gap \cup DeletedEarly(k)
    BY <1>6 DEF DeleteById
  <2>2. k = h => Deletes(h)
    BY <1>6 DEF Deletes
  <2> QED BY <1>3, <2>1, <2>2
<1>7. ASSUME NEW k \in Hook, Suspend(k)
      PROVE  Q
  BY <1>2, <1>7 DEF Suspend
<1> HIDE DEF Q
<1>8. ASSUME NEW t \in Admin, NEW i \in Server, Begins(t, i) \/ BeginPatch(t, i)
      PROVE  Q
  BY <1>1, <1>8 DEF Begins, BeginRegister, BeginRotate, BeginPrune, BeginPatch, Request
<1>9. ASSUME NEW t \in Task,
             \/ List(t) \/ Store(t) \/ Read(t) \/ ApplyRow(t) \/ CallFails(t)
             \/ RotateList(t) \/ PruneList(t) \/ Upsert(t)
      PROVE  Q
  BY <1>1, <1>9 DEF List, Store, Read, ApplyRow, CallFails, RotateList, PruneList, Upsert
<1>10. ASSUME NEW i \in Server,
              \/ BeginHeal(i) \/ HealList(i) \/ ProbeUp(i) \/ ProbeDown(i) \/ Restart(i)
              \/ \E k \in Hook : HealForgotten(i, k)
       PROVE  Q
  BY <1>1, <1>10 DEF BeginHeal, HealList, ProbeUp, ProbeDown, Restart, HealForgotten
<1>11. Q
  BY <1>4, <1>5, <1>6, <1>7, <1>8, <1>9, <1>10 DEF Next, Begins
<1> QED BY <1>11 DEF Q

LEMMA StepStoring == TypeInv /\ StoringInv /\ Next => StoringInv'
<1> SUFFICES ASSUME TypeInv, StoringInv, Next, "secret_raced" \notin gap',
                    NEW u \in Task, task'[u].pc = "store"
             PROVE  Live(task[u].hook)' /\ hook'[task'[u].hook].endpoint = task'[u].endpoint
  BY DEF StoringInv
<1>1. CASE task'[u] = task[u]
  <2>1. task[u].pc = "store" /\ task[u].hook \in Hook
    BY <1>1 DEF TypeInv, TasksOK, GoodTask
  <2>2. Live(task[u].hook) /\ hook[task[u].hook].endpoint = task[u].endpoint
    BY <2>1, GapGrows DEF StoringInv
  <2>3. Storing(task[u].hook)
    BY <2>1 DEF Storing
  <2>4. ~(DeletedEarly(task[u].hook) \subseteq gap')
    BY <2>3 DEF DeletedEarly
  <2>5. hook'[task[u].hook].state = "live" /\ hook'[task[u].hook].endpoint = hook[task[u].hook].endpoint
    BY <2>1, <2>2, <2>4, LiveEnds DEF Live
  <2> QED BY <1>1, <2>2, <2>5 DEF Live
<1>2. CASE task'[u] # task[u]
  <2>1. Post(u)
    BY <1>2, Entry DEF Entered
  <2>2. PICK h \in Hook :
          /\ hook' = [hook EXCEPT ![h] = [state |-> "live", active |-> TRUE, endpoint |-> task[u].endpoint]]
          /\ GoesOnWith(u, "store", h) \/ Ended(u)
    BY <2>1, PostMoves
  <2>3. task'[u].hook = h /\ task'[u].endpoint = task[u].endpoint
    BY <2>2, IdleFacts DEF GoesOnWith, GoesOn, Ended
  <2>4. hook'[h].state = "live" /\ hook'[h].endpoint = task[u].endpoint
    BY <2>2 DEF TypeInv, TypeOK
  <2> QED BY <2>3, <2>4 DEF Live
<1> QED BY <1>1, <1>2

-----------------------------------------------------------------------------
(* The secret in the settings.                                             *)

SecretInv == TypeInv /\ UniqueInv /\ EndpointInv /\ StoringInv /\ SecretMatches

LEMMA StepSecret == SecretInv /\ Next => SecretMatches'
<1> DEFINE Windows == {"secret_lost", "secret_raced", "both_create", "stale_endpoint", "moved_back",
                       "secret_typed"}
<1> SUFFICES ASSUME SecretInv, Next, gap' \cap Windows = {},
                    NEW h \in Hook, Live(h)', hook'[h].endpoint = db'.endpoint
             PROVE  db'.secret = h \/ Storing(h)'
  BY DEF SecretMatches, Matches, Live
<1>0. /\ TypeInv /\ OnlyHook
      /\ \A t \in Task : task[t].endpoint # None /\ task[t].pc # "upsert" => task[t].endpoint = db.endpoint
      /\ \A t \in Task : task[t].pc = "store" =>
           Live(task[t].hook) /\ hook[task[t].hook].endpoint = task[t].endpoint
      /\ \A k \in Hook : Live(k) /\ hook[k].endpoint = db.endpoint => db.secret = k \/ Storing(k)
      /\ "secret_lost" \notin gap'
  <2>1. gap \cap Windows = {} /\ "secret_lost" \notin gap'
    BY GapGrows DEF SecretInv
  <2>2. \A k \in Hook : Live(k) /\ hook[k].endpoint = db.endpoint => db.secret = k \/ Storing(k)
    BY <2>1 DEF SecretInv, SecretMatches, Matches, Live
  <2> QED BY <2>1, <2>2 DEF SecretInv, UniqueInv, EndpointInv, StoringInv
<1>t. TypeInv
  BY <1>0
<1>d. db \in Row
  BY <1>t DEF TypeInv, TypeOK, SettingsTypeOK
<1>s. ASSUME Storing(h), \A u \in Task : ~Store(u)
      PROVE  Storing(h)'
  <2>1. PICK u \in Task : task[u].pc = "store" /\ task[u].hook = h
    BY <1>s DEF Storing
  <2>2. CASE task'[u] = task[u]
    BY <2>1, <2>2 DEF Storing
  <2>3. CASE task'[u] # task[u]
    <3>1. Cut(u)
      BY <1>s, <1>t, <2>1, <2>3, Leaving DEF Left
    <3>2. "secret_lost" \in Lost(task[u]) \ {"refresh_failed"}
      BY <2>1 DEF Lost, Owing
    <3> QED BY <1>0, <3>1, <3>2, CutLoses
  <2> QED BY <2>2, <2>3
<1>1. CASE \E t \in Task : Upsert(t)
  <2>1. PICK t \in Task : Upsert(t)
    BY <1>1
  <2>2. UNCHANGED hook /\ Live(h)
    BY <2>1 DEF Upsert, Live
  <2>3. \A u \in Task : ~Store(u)
    BY <1>t, <2>1, UpsertMoves, StoreMoves DEF Upsert, Store, GoesOn, Moved
  <2>w. /\ db'.endpoint = IF task[t].endpoint = None THEN db.endpoint ELSE task[t].endpoint
        /\ db'.secret = IF task[t].secret = None THEN db.secret ELSE task[t].secret
        /\ db' = Patched(task[t].endpoint, task[t].secret, task[t].prefs)
    BY <1>t, <2>1, UpsertWrites DEF Upsert, WritePatch
  <2>4. CASE task[t].endpoint = None /\ task[t].secret = None
    BY <1>0, <1>s, <2>2, <2>3, <2>4, <2>w
  <2>5. CASE task[t].endpoint # None \/ task[t].secret # None
    <3>1. ~Mismatched(Patched(task[t].endpoint, task[t].secret, task[t].prefs))
      BY <2>1, <2>5 DEF Upsert, OutOfStep
    <3>2. h \in Matches(db'.endpoint)
      BY <2>2 DEF Matches, Live
    <3>3. db'.secret = h \/ Storing(h)
      BY <2>w, <3>1, <3>2 DEF Mismatched
    <3> QED BY <1>s, <2>3, <3>3
  <2> QED BY <2>4, <2>5
<1>2. CASE \E t \in Task : Store(t)
  <2>1. PICK t \in Task : Store(t)
    BY <1>2
  <2>2. /\ UNCHANGED hook /\ Live(h) /\ task[t].pc = "store"
        /\ db' = [db EXCEPT !.secret = task[t].hook]
    BY <2>1 DEF Store, Live, WriteSecret, StoredSecret
  <2>3. db'.endpoint = db.endpoint /\ db'.secret = task[t].hook
    BY <1>d, <2>2 DEF Row
  <2>4. task[t].hook \in Hook /\ task[t].endpoint # None
    BY <1>t, <2>2, IdleFacts DEF TypeInv, TasksOK, GoodTask
  <2>5. Live(task[t].hook) /\ hook[task[t].hook].endpoint = db.endpoint
    BY <1>0, <2>2, <2>4
  <2>6. h = task[t].hook
    BY <1>0, <2>2, <2>3, <2>4, <2>5 DEF OnlyHook
  <2> QED BY <2>3, <2>6
<1>3. CASE \A t \in Task : ~Upsert(t) /\ ~Store(t)
  <2>1. UNCHANGED db
    BY <1>3, <1>t, SettingsStep
  <2>2. CASE Live(h) /\ hook[h].endpoint = hook'[h].endpoint
    BY <1>0, <1>3, <1>s, <2>1, <2>2
  <2>3. CASE ~(Live(h) /\ hook[h].endpoint = hook'[h].endpoint)
    <3>1. PICK t \in Task : Post(t)
      BY <1>t, <2>3, HooksChange DEF HooksShrink, Live
    <3>2. PICK k \in Hook :
            /\ hook' = [hook EXCEPT ![k] = [state |-> "live", active |-> TRUE, endpoint |-> task[t].endpoint]]
            /\ GoesOnWith(t, "store", k) \/ gap' = gap \cup {"secret_lost"}
      BY <1>t, <3>1, PostMoves
    <3>3. k = h
      BY <1>t, <2>3, <3>2 DEF TypeInv, TypeOK, Live
    <3> QED BY <1>0, <3>2, <3>3 DEF GoesOnWith, GoesOn, Storing
  <2> QED BY <2>2, <2>3
<1> QED BY <1>1, <1>2, <1>3

(* The stored secret is that of the webhook at the configured endpoint,    *)
(* whatever sequence of registrations, rotations, heals, patches of the    *)
(* endpoint, the secret and the preferences and prunings led here, for any *)
(* number of them, but for the named windows (register, rotate,            *)
(* setWebhookSecret, update).                                              *)
THEOREM SecretKept == Spec => []SecretMatches
<1>1. Init => SecretInv
  <2>1. Init => TypeInv
    BY InitType
  <2>2. Init => UniqueInv /\ EndpointInv /\ StoringInv
    BY IdleFacts DEF Init, UniqueInv, OnlyHook, NoHookYet, OnlyMaker, EndpointInv, StoringInv, Live, NoWebhook
  <2>3. Init => SecretMatches
    BY DEF Init, SecretMatches, Matches, NoWebhook
  <2> QED BY <2>1, <2>2, <2>3 DEF SecretInv
<1>2. SecretInv /\ [Next]_vars => SecretInv'
  <2>1. SecretInv /\ Next => SecretInv'
    BY StepType, StepUnique, StepEndpoint, StepStoring, StepSecret DEF SecretInv
  <2>2. SecretInv /\ UNCHANGED vars => SecretInv'
    <3> SUFFICES ASSUME SecretInv, UNCHANGED vars
                 PROVE  SecretInv'
      OBVIOUS
    <3>1. UNCHANGED <<db, hook, task, gap>>
      BY DEF vars, settings, history
    <3>2. TypeInv'
      BY StepType DEF SecretInv
    <3>3. UniqueInv' /\ EndpointInv' /\ StoringInv'
      BY <3>1 DEF SecretInv, UniqueInv, OnlyHook, NoHookYet, OnlyMaker, EndpointInv, StoringInv, Live
    <3>4. SecretMatches'
      BY <3>1 DEF SecretInv, SecretMatches, Matches, Storing
    <3> QED BY <3>2, <3>3, <3>4 DEF SecretInv
  <2> QED BY <2>1, <2>2
<1>3. SecretInv => SecretMatches
  BY DEF SecretInv
<1> QED BY <1>1, <1>2, <1>3, PTL DEF Spec

-----------------------------------------------------------------------------
(* An endpoint stays registered.                                           *)

(* Who adds to the registered endpoints, and who replaces a copy.          *)
LEMMA SideSteps ==
  ASSUME TypeInv, Next
  PROVE  /\ had' \subseteq had \/ \E t \in Task : Post(t)
         /\ UNCHANGED cache \/ (\E t \in Task : ApplyRow(t)) \/ \E i \in Server : Restart(i)
<1>1. ASSUME NEW t \in Admin, NEW i \in Server, Begins(t, i) \/ BeginPatch(t, i)
      PROVE  UNCHANGED <<had, cache>>
  BY <1>1 DEF Begins, BeginRegister, BeginRotate, BeginPrune, BeginPatch, Request, settings
<1>2. ASSUME NEW h \in Hook, DeleteById(h) \/ Suspend(h)
      PROVE  had' \subseteq had /\ UNCHANGED cache
  BY <1>2 DEF DeleteById, Suspend, settings, history
<1>3. ASSUME NEW t \in Task,
             \/ List(t) \/ Put(t) \/ Store(t) \/ Read(t) \/ CallFails(t)
             \/ RotateList(t) \/ Delete(t) \/ PruneList(t) \/ Upsert(t)
      PROVE  UNCHANGED <<had, cache>>
  BY <1>3 DEF List, Put, Store, Read, CallFails, RotateList, Delete, PruneList, Upsert, settings, history
<1>4. ASSUME NEW t \in Task, Prune(t)
      PROVE  had' \subseteq had /\ UNCHANGED cache
  BY <1>4 DEF Prune, settings
<1>5. ASSUME NEW t \in Task, Post(t)
      PROVE  UNCHANGED cache
  BY <1>5 DEF Post, settings
<1>6. ASSUME NEW t \in Task, ApplyRow(t)
      PROVE  UNCHANGED had
  BY <1>6 DEF ApplyRow, history
<1>7. ASSUME NEW i \in Server, Restart(i)
      PROVE  UNCHANGED had
  BY <1>7 DEF Restart
<1>8. ASSUME NEW i \in Server,
             \/ BeginHeal(i) \/ HealList(i) \/ ProbeUp(i) \/ ProbeDown(i)
             \/ \E h \in Hook : HealForgotten(i, h)
      PROVE  UNCHANGED <<had, cache>>
  BY <1>8 DEF BeginHeal, HealList, ProbeUp, ProbeDown, HealForgotten, settings, history
<1> QED BY <1>1, <1>2, <1>3, <1>4, <1>5, <1>6, <1>7, <1>8 DEF Next, Begins

Registered(e) == Matches(e) # {} \/ \E t \in Task : Owing(task[t]) /\ task[t].endpoint = e

HadInv == TypeInv /\ EndpointInv /\ PlaceInv /\ StaysRegistered

LEMMA StepHad == HadInv /\ Next => StaysRegistered'
<1> SUFFICES ASSUME HadInv, Next, gap' \cap {"deleted_only", "stale_endpoint"} = {}, NEW e \in had'
             PROVE  Registered(e)'
  BY DEF StaysRegistered, Registered
<1>0. /\ TypeInv /\ PlaceInv /\ had \subseteq Endpoint
      /\ \A t \in Task : task[t].endpoint # None /\ task[t].pc # "upsert" => task[t].endpoint = db.endpoint
      /\ e \in had => Registered(e)
      /\ "deleted_only" \notin gap' /\ "stale_endpoint" \notin gap'
  BY GapGrows DEF HadInv, EndpointInv, StaysRegistered, Registered, TypeInv, TypeOK
<1>t. TypeInv
  BY <1>0
<1>m. ASSUME NEW h \in Hook, hook'[h].state = "live", hook'[h].endpoint = e
      PROVE  Registered(e)'
  BY <1>m DEF Registered, Matches
<1>p. ASSUME NEW t \in Task, Post(t), e = task[t].endpoint
      PROVE  Registered(e)'
  <2>1. PICK h \in Hook :
          hook' = [hook EXCEPT ![h] = [state |-> "live", active |-> TRUE, endpoint |-> task[t].endpoint]]
    BY <1>t, <1>p, PostMoves
  <2>2. hook'[h].state = "live" /\ hook'[h].endpoint = e
    BY <1>t, <1>p, <2>1 DEF TypeInv, TypeOK
  <2> QED BY <1>m, <2>2
<1>1. CASE e \notin had
  <2>1. PICK t \in Task : Post(t)
    BY <1>t, <1>1, SideSteps
  <2>2. had' = had \cup {task[t].endpoint}
    BY <1>t, <2>1, PostMoves
  <2> QED BY <1>1, <1>p, <2>1, <2>2
<1>2. ASSUME e \in had, NEW h \in Hook, Live(h), hook[h].endpoint = e
      PROVE  Registered(e)'
  <2>1. CASE Live(h)' /\ hook'[h].endpoint = hook[h].endpoint
    BY <1>2, <1>m, <2>1 DEF Live
  <2>2. ASSUME NEW t \in Task, Delete(t), task[t].hook = h
        PROVE  Registered(e)'
    <3>1. /\ Registers(t, task[t].op)
          /\ gap' = gap \cup DeletedEarly(task[t].hook) \cup StaleEndpoint(cache[task[t].on].endpoint)
      BY <1>t, <1>2, <2>2, DeleteMoves
    <3>2. task[t].pc = "delete" /\ GoodTask(t, task[t])
      BY <1>t, <2>2 DEF Delete, TypeInv, TasksOK
    <3>3. task[t].endpoint = e
      BY <1>0, <1>2, <2>2, <3>2 DEF PlaceInv
    <3>4. e = db.endpoint
      BY <1>0, <3>2, <3>3, IdleFacts DEF GoodTask
    <3>5. cache[task[t].on].endpoint = db.endpoint
      BY <1>0, <3>1, StaleOr
    <3>6. task'[t].pc = "list" /\ task'[t].endpoint = e /\ task'[t].op \in {"rotate", "recreate"}
      BY <3>1, <3>2, <3>4, <3>5 DEF Registers, GoodTask
    <3> QED BY <3>6 DEF Registered, Owing
  <2>3. ASSUME NEW t \in Task, Prune(t), h \in task[t].todo, hook' = Gone(h)
        PROVE  FALSE
    <3>0. task[t].pc = "prune" /\ GoodTask(t, task[t]) /\ task[t].todo \subseteq Hook /\ TypeOK
      BY <1>t, <2>3 DEF Prune, TypeInv, TasksOK, TypeOK, TaskRecord
    <3>1. hook'[h].state # "live"
      BY <2>3, <3>0, GoneType DEF NoWebhook
    <3>2. PICK k \in task[t].todo :
            /\ hook' = Gone(k)
            /\ had' = IF hook[k].endpoint = db.endpoint THEN had ELSE had \ {hook[k].endpoint}
      BY <1>t, <1>2, <2>3, <3>1, PruneMoves DEF Live
    <3>3. k = h
      BY <1>2, <3>0, <3>1, <3>2, GoneType DEF Live
    <3>4. hook[h].endpoint # task[t].endpoint
      BY <1>0, <1>2, <2>3, <3>0 DEF PlaceInv
    <3>5. task[t].endpoint = db.endpoint
      BY <1>0, <3>0, IdleFacts DEF GoodTask
    <3> QED BY <1>2, <3>2, <3>3, <3>4, <3>5
  <2>4. ~DeleteById(h)
    BY <1>2 DEF DeleteById
  <2> QED BY <1>t, <1>2, <2>1, <2>2, <2>3, <2>4, LiveEnds DEF Deletes
<1>3. ASSUME e \in had, NEW t \in Task, Owing(task[t]), task[t].endpoint = e
      PROVE  Registered(e)'
  <2>1. CASE task'[t] = task[t]
    BY <1>3, <2>1 DEF Registered
  <2>2. CASE task'[t] # task[t] /\ List(t)
    <3>1. UNCHANGED hook
      BY <2>2 DEF List
    <3>2. CASE Matches(e) # {}
      <4>1. PICK h \in Hook : hook[h].state = "live" /\ hook[h].endpoint = e
        BY <3>2 DEF Matches
      <4> QED BY <1>m, <3>1, <4>1
    <3>3. CASE Matches(e) = {}
      <4>1. GoesOn(t, "post")
        BY <1>t, <1>3, <2>2, <3>3, ListMoves
      <4> QED BY <1>3, <4>1 DEF GoesOn, Owing, Registered
    <3> QED BY <3>2, <3>3
  <2>3. CASE Post(t)
    BY <1>3, <1>p, <2>3
  <2>4. ~Cut(t)
    <3>1. "deleted_only" \in Lost(task[t]) \ {"refresh_failed"}
      BY <1>3 DEF Lost, Owing
    <3> QED BY <1>0, <3>1, CutLoses
  <2>5. task'[t] # task[t] => List(t) \/ Post(t)
    BY <1>t, <1>3, <2>4, Leaving DEF Left, Owing
  <2> QED BY <2>1, <2>2, <2>3, <2>5
<1>4. ASSUME e \in had
      PROVE  Registered(e)'
  <2>1. \/ \E h \in Hook : Live(h) /\ hook[h].endpoint = e
        \/ \E t \in Task : Owing(task[t]) /\ task[t].endpoint = e
    BY <1>0, <1>4 DEF Registered, Matches, Live
  <2> QED BY <1>2, <1>3, <1>4, <2>1
<1> QED BY <1>1, <1>4

(* An endpoint that was registered stays registered, or a task owes it a   *)
(* webhook, for any number of requests and cron jobs, unless one ended     *)
(* between its two halves (rotate, checkAndHeal, pruneStale).              *)
THEOREM StaysServed == Spec => []StaysRegistered
<1>1. Init => HadInv
  <2>1. Init => TypeInv
    BY InitType
  <2>2. Init => EndpointInv /\ PlaceInv /\ StaysRegistered
    BY IdleFacts DEF Init, EndpointInv, PlaceInv, StaysRegistered
  <2> QED BY <2>1, <2>2 DEF HadInv
<1>2. HadInv /\ [Next]_vars => HadInv'
  <2>1. HadInv /\ Next => HadInv'
    BY StepType, StepEndpoint, StepPlace, StepHad DEF HadInv
  <2>2. HadInv /\ UNCHANGED vars => HadInv'
    <3> SUFFICES ASSUME HadInv, UNCHANGED vars
                 PROVE  HadInv'
      OBVIOUS
    <3>1. UNCHANGED <<db, hook, task, gap, had>>
      BY DEF vars, settings, history
    <3>2. TypeInv'
      BY StepType DEF HadInv
    <3>3. EndpointInv' /\ PlaceInv'
      BY <3>1 DEF HadInv, EndpointInv, PlaceInv, Born, Live
    <3>4. StaysRegistered'
      BY <3>1 DEF HadInv, StaysRegistered, Matches
    <3> QED BY <3>2, <3>3, <3>4 DEF HadInv
  <2> QED BY <2>1, <2>2
<1>3. HadInv => StaysRegistered
  BY DEF HadInv
<1> QED BY <1>1, <1>2, <1>3, PTL DEF Spec

-----------------------------------------------------------------------------
(* The copy of an instance that wrote last.                                *)

OneApply ==
  \A t, u \in Task :
    task[t].pc = "apply" /\ task[u].pc = "apply" /\ task[t].on = task[u].on => t = u

Applying(i) == \E t \in Task : task[t].on = i /\ task[t].pc = "apply"

Follows(i) ==
  \/ \E t \in Task : task[t].on = i /\ task[t].pc = "read"
  \/ \E t \in Task : task[t].on = i /\ task[t].pc = "apply" /\ task[t].row = db
  \/ cache[i] = db /\ ~Applying(i)

CacheInv ==
  gap \cap {"refresh_failed", "refresh_overlap"} = {} => OneApply /\ \A i \in writer : Follows(i)

LEMMA StepOneApply ==
  ASSUME TypeInv, OneApply, Next, "refresh_overlap" \notin gap'
  PROVE  OneApply'
<1> SUFFICES ASSUME NEW t \in Task, NEW u \in Task, task'[t].pc = "apply", task'[u].pc = "apply",
                    task'[t].on = task'[u].on, t # u
             PROVE  FALSE
  BY DEF OneApply
<1>1. ASSUME NEW v \in Task, NEW w \in Task, v # w, task'[v] # task[v], task'[v].pc = "apply",
             task'[w].pc = "apply", task'[v].on = task'[w].on
      PROVE  FALSE
  <2>1. Read(v)
    BY <1>1, Entry DEF Entered
  <2>2. task'[v].on = task[v].on /\ task'[w] = task[w]
    BY <1>1, <2>1, ReadMoves DEF GoesOn, Moved
  <2>3. gap' = IF \E x \in Task : task[x].pc = "apply" /\ task[x].on = task[v].on
               THEN gap \cup {"refresh_overlap"} ELSE gap
    BY <2>1 DEF Read
  <2> QED BY <1>1, <2>2, <2>3
<1>2. CASE task'[t] = task[t] /\ task'[u] = task[u]
  BY <1>2 DEF OneApply
<1> QED BY <1>1, <1>2

LEMMA StepCache == TypeInv /\ CacheInv /\ Next => CacheInv'
<1> SUFFICES ASSUME TypeInv, CacheInv, Next, gap' \cap {"refresh_failed", "refresh_overlap"} = {}
             PROVE  OneApply' /\ \A i \in writer' : Follows(i)'
  BY DEF CacheInv
<1>0. /\ OneApply /\ \A i \in writer : Follows(i)
      /\ "refresh_failed" \notin gap' /\ "refresh_overlap" \notin gap'
  BY GapGrows DEF CacheInv
<1>1. OneApply'
  BY <1>0, StepOneApply
<1>2. ASSUME NEW t \in Task, Store(t) \/ Upsert(t), NEW i \in writer'
      PROVE  Follows(i)'
  <2>1. i = task[t].on
    BY <1>2 DEF Store, Upsert
  <2>2. task'[t].pc = "read" /\ task'[t].on = task[t].on
    BY <1>2, StoreMoves, UpsertMoves DEF GoesOn
  <2> QED BY <2>1, <2>2 DEF Follows
<1>3. ASSUME NEW i \in writer, UNCHANGED db
      PROVE  Follows(i)'
  <2>0. i \in Server /\ cache \in [Server -> Row]
    BY DEF TypeInv, TypeOK, SettingsTypeOK
  <2>1. ASSUME Restart(i)
        PROVE  Follows(i)'
    <3>1. cache'[i] = db'
      BY <1>3, <2>0, <2>1 DEF Restart, Apply
    <3>2. ~Applying(i)'
      BY <2>0, <2>1, RestartMoves, IdleFacts DEF Applying
    <3> QED BY <3>1, <3>2 DEF Follows
  <2>2. ASSUME NEW t \in Task, task[t].on = i, task[t].pc \in {"read", "apply"}, Cut(t)
        PROVE  Follows(i)'
    <3>1. CASE Restart(i)
      BY <2>1, <3>1
    <3>2. ~CallFails(t)
      <4>1. "refresh_failed" \in Lost(task[t])
        BY <2>2 DEF Lost, Owing
      <4> QED BY <1>0, <4>1 DEF CallFails
    <3> QED BY <2>2, <3>1, <3>2 DEF Cut
  <2>3. ASSUME NEW t \in Task, Read(t), task[t].on = i
        PROVE  Follows(i)'
    BY <1>3, <2>3, ReadMoves DEF GoesOn, Follows
  <2>4. CASE \E t \in Task : task[t].on = i /\ task[t].pc = "read"
    <3>1. PICK t \in Task : task[t].on = i /\ task[t].pc = "read"
      BY <2>4
    <3>2. CASE task'[t] = task[t]
      BY <3>1, <3>2 DEF Follows
    <3>3. CASE task'[t] # task[t]
      <4>1. Read(t) \/ Cut(t)
        BY <3>1, <3>3, Leaving DEF Left
      <4> QED BY <2>2, <2>3, <3>1, <4>1
    <3> QED BY <3>2, <3>3
  <2>5. CASE \E t \in Task : task[t].on = i /\ task[t].pc = "apply" /\ task[t].row = db
    <3>1. PICK t \in Task : task[t].on = i /\ task[t].pc = "apply" /\ task[t].row = db
      BY <2>5
    <3>2. CASE task'[t] = task[t]
      BY <1>3, <3>1, <3>2 DEF Follows
    <3>3. CASE ApplyRow(t)
      <4>1. cache' = [cache EXCEPT ![i] = db] /\ Ended(t)
        BY <3>1, <3>3, FinishEnds DEF ApplyRow, Apply, TypeInv, TypeOK
      <4>2. cache'[i] = db'
        BY <1>3, <2>0, <4>1
      <4>3. ~Applying(i)'
        <5> SUFFICES ASSUME NEW u \in Task, task'[u].on = i, task'[u].pc = "apply"
                     PROVE  FALSE
          BY DEF Applying
        <5>1. u # t /\ task'[u] = task[u]
          BY <4>1, IdleFacts DEF Ended, Moved
        <5> QED BY <1>0, <3>1, <5>1 DEF OneApply
      <4> QED BY <4>2, <4>3 DEF Follows
    <3>4. CASE task'[t] # task[t]
      <4>1. ApplyRow(t) \/ Cut(t)
        BY <3>1, <3>4, Leaving DEF Left
      <4> QED BY <2>2, <3>1, <3>3, <4>1
    <3> QED BY <3>2, <3>4
  <2>6. CASE cache[i] = db /\ ~Applying(i)
    <3>1. CASE Applying(i)'
      <4>1. PICK u \in Task : task'[u].on = i /\ task'[u].pc = "apply"
        BY <3>1 DEF Applying
      <4>2. task'[u] # task[u]
        BY <2>6, <4>1 DEF Applying
      <4>3. Read(u)
        BY <4>1, <4>2, Entry DEF Entered
      <4>4. task[u].on = i
        BY <4>1, <4>3, ReadMoves DEF GoesOn
      <4> QED BY <2>3, <4>3, <4>4
    <3>2. CASE ~Applying(i)'
      <4>1. cache'[i] = cache[i] \/ Restart(i)
        <5>1. ASSUME NEW t \in Task, ApplyRow(t)
              PROVE  cache'[i] = cache[i]
          <6>1. task[t].on # i /\ cache' = [cache EXCEPT ![task[t].on] = task[t].row]
            BY <2>6, <5>1 DEF ApplyRow, Apply, Applying
          <6> QED BY <2>0, <6>1
        <5>2. ASSUME NEW j \in Server, Restart(j), j # i
              PROVE  cache'[i] = cache[i]
          BY <2>0, <5>2 DEF Restart, Apply
        <5> QED BY <5>1, <5>2, SideSteps
      <4> QED BY <1>3, <2>1, <2>6, <3>2, <4>1 DEF Follows
    <3> QED BY <3>1, <3>2
  <2> QED BY <1>0, <2>4, <2>5, <2>6 DEF Follows
<1>4. CASE \E t \in Task : Store(t) \/ Upsert(t)
  BY <1>1, <1>2, <1>4
<1>5. CASE \A t \in Task : ~Store(t) /\ ~Upsert(t)
  <2>1. UNCHANGED <<db, writer>>
    BY <1>5, SettingsStep
  <2> QED BY <1>1, <1>3, <2>1
<1> QED BY <1>4, <1>5

(* An instance at rest that wrote the settings last has them in memory,    *)
(* for any number of instances and writes, unless a refresh failed or two  *)
(* overlapped (SettingsService.refresh).                                   *)
THEOREM CopyFollows == Spec => []CacheFollows
<1>1. Init => TypeInv /\ CacheInv
  BY InitType, IdleFacts DEF Init, CacheInv, OneApply
<1>2. TypeInv /\ CacheInv /\ [Next]_vars => (TypeInv /\ CacheInv)'
  BY StepType, StepCache DEF vars, CacheInv, OneApply, Follows, Applying, history, settings
<1>3. CacheInv => CacheFollows
  BY DEF CacheInv, Follows, CacheFollows
<1> QED BY <1>1, <1>2, <1>3, PTL DEF Spec

-----------------------------------------------------------------------------
(* Which windows need a failure.                                           *)

FailureGaps == {"secret_lost", "deleted_only", "refresh_failed"}

UnbrokenInv == failures = 0 => gap \cap FailureGaps = {}

LEMMA StepUnbroken == TypeInv /\ UnbrokenInv /\ Next => UnbrokenInv'
<1> SUFFICES ASSUME TypeInv, UnbrokenInv, Next PROVE UnbrokenInv' OBVIOUS
<1>f. failures \in Nat BY ConstantAssumption DEF TypeInv, TypeOK
<1> HIDE DEF UnbrokenInv
<1>s. \A e : StaleEndpoint(e) \cap FailureGaps = {} BY DEF StaleEndpoint, FailureGaps
<1>d. \A h : DeletedEarly(h) \cap FailureGaps = {} BY DEF DeletedEarly, FailureGaps
<1>1. ASSUME failures' = failures, (gap' \ gap) \cap FailureGaps = {} PROVE UnbrokenInv'
  BY <1>1 DEF UnbrokenInv
<1>2. ASSUME failures' = failures + 1 PROVE UnbrokenInv' BY <1>2, <1>f DEF UnbrokenInv
<1>3. ASSUME NEW t \in Admin, NEW i \in Server, Begins(t, i) PROVE UnbrokenInv'
  <2>1. failures' = failures /\ gap' = gap \cup StaleEndpoint(cache[i].endpoint)
    BY <1>3 DEF Begins, BeginRegister, BeginRotate, BeginPrune, Request
  <2> QED BY <2>1, <1>1, <1>s
<1>4. ASSUME NEW t \in Admin, NEW i \in Server, BeginPatch(t, i) PROVE UnbrokenInv'
  <2>1. failures' = failures /\ gap' \subseteq gap \cup {"stale_merge"} BY <1>4 DEF BeginPatch
  <2> QED BY <2>1, <1>1 DEF FailureGaps
<1>5. ASSUME NEW h \in Hook, DeleteById(h) PROVE UnbrokenInv'
  <2>1. failures' = failures /\ gap' = gap \cup DeletedEarly(h) BY <1>5 DEF DeleteById, counters
  <2> QED BY <2>1, <1>1, <1>d
<1>6. ASSUME NEW t \in Task, List(t) \/ Read(t) PROVE UnbrokenInv'
  <2>1. failures' = failures /\ gap' \subseteq gap \cup {"both_create", "refresh_overlap"}
    BY <1>6 DEF List, Read, counters
  <2> QED BY <2>1, <1>1 DEF FailureGaps
<1>7. ASSUME NEW t \in Task, Post(t) PROVE UnbrokenInv'
  <2>1. failures' = failures + 1 \/ (failures' = failures /\ gap' = gap) BY <1>7 DEF Post
  <2> QED BY <2>1, <1>1, <1>2
<1>8. ASSUME NEW t \in Task, RotateList(t) PROVE UnbrokenInv'
  <2>1. failures' = failures /\ (gap' = gap \/ \E e : gap' = gap \cup StaleEndpoint(e))
    BY <1>8 DEF RotateList, counters
  <2> QED BY <2>1, <1>1, <1>s
<1>9. ASSUME NEW t \in Task, Delete(t) PROVE UnbrokenInv'
  <2>1. failures' = failures /\ (gap' = gap \/ \E e, h : gap' = gap \cup DeletedEarly(h) \cup StaleEndpoint(e))
    BY <1>9 DEF Delete, counters
  <2> QED BY <2>1, <1>1, <1>s, <1>d
<1>10. ASSUME NEW t \in Task, Prune(t) PROVE UnbrokenInv'
  <2>1. failures' = failures /\ (gap' = gap \/ \E h : gap' = gap \cup DeletedEarly(h))
    BY <1>10 DEF Prune, counters
  <2> QED BY <2>1, <1>1, <1>d
<1>11. ASSUME NEW t \in Task, Upsert(t) PROVE UnbrokenInv'
  <2>1. failures' = failures
        /\ gap' \subseteq gap \cup {"stale_merge", "stale_endpoint", "moved_back", "secret_typed"}
    BY <1>11 DEF Upsert, OutOfStep, counters
  <2> QED BY <2>1, <1>1 DEF FailureGaps
<1>12. ASSUME NEW i \in Server, BeginHeal(i) \/ ProbeUp(i) PROVE UnbrokenInv'
  <2>1. failures' = failures /\ gap' = gap \cup StaleEndpoint(cache[i].endpoint)
    BY <1>12 DEF BeginHeal, ProbeUp, counters
  <2> QED BY <2>1, <1>1, <1>s
<1>13. ASSUME NEW t \in Task, CallFails(t) PROVE UnbrokenInv' BY <1>13, <1>2 DEF CallFails
<1>14. ASSUME NEW i \in Server, Restart(i) PROVE UnbrokenInv' BY <1>14, <1>2 DEF Restart
<1>15. ASSUME UNCHANGED <<failures, gap>> PROVE UnbrokenInv' BY <1>15, <1>1
<1>16. ASSUME NEW h \in Hook, Suspend(h) PROVE UNCHANGED <<failures, gap>>
  BY <1>16 DEF Suspend, counters, history
<1>17. ASSUME NEW t \in Task, Put(t) \/ Store(t) \/ ApplyRow(t) \/ PruneList(t)
       PROVE  UNCHANGED <<failures, gap>>
  BY <1>17 DEF Put, Store, ApplyRow, PruneList, counters, history
<1>18. ASSUME NEW i \in Server,
              HealList(i) \/ ProbeDown(i) \/ \E h \in Hook : HealForgotten(i, h)
       PROVE  UNCHANGED <<failures, gap>>
  BY <1>18 DEF HealList, ProbeDown, HealForgotten, counters, history
<1> QED
  BY <1>3, <1>4, <1>5, <1>6, <1>7, <1>8, <1>9, <1>10, <1>11, <1>12, <1>13, <1>14, <1>15,
     <1>16, <1>17, <1>18 DEF Next, Begins

(* A webhook whose secret is lost, an endpoint left without the webhook    *)
(* that was deleted, and a write without a fresh copy are the work of a    *)
(* failing call or a restart: no interleaving of requests and cron jobs    *)
(* brings them about (register, rotate, checkAndHeal, refresh).            *)
THEOREM WindowsNeedFaults == Spec => [](failures = 0 => gap \cap FailureGaps = {})
<1>1. Init => UnbrokenInv BY DEF Init, UnbrokenInv
<1>2. TypeInv /\ UnbrokenInv /\ [Next]_vars => UnbrokenInv'
  BY StepUnbroken DEF vars, UnbrokenInv, history, counters
<1>3. Init => TypeInv BY InitType
<1>4. TypeInv /\ [Next]_vars => TypeInv' BY StepType
<1>5. UnbrokenInv => (failures = 0 => gap \cap FailureGaps = {}) BY DEF UnbrokenInv
<1> QED BY <1>1, <1>2, <1>3, <1>4, <1>5, PTL DEF Spec

(* As long as no call fails and no instance restarts, an endpoint that was *)
(* registered has a webhook, or the rotation or the heal that deleted it   *)
(* is still at work, unless a task worked with an endpoint that is no      *)
(* longer configured.                                                      *)
THEOREM ServedWithoutFailures ==
  Spec => [](failures = 0 /\ "stale_endpoint" \notin gap =>
               \A e \in had : Matches(e) # {} \/ \E t \in Task : Owing(task[t]) /\ task[t].endpoint = e)
<1>1. StaysRegistered /\ (failures = 0 => gap \cap FailureGaps = {}) =>
        (failures = 0 /\ "stale_endpoint" \notin gap =>
           \A e \in had : Matches(e) # {} \/ \E t \in Task : Owing(task[t]) /\ task[t].endpoint = e)
  BY DEF StaysRegistered, FailureGaps
<1> QED BY <1>1, StaysServed, WindowsNeedFaults, PTL
=============================================================================
