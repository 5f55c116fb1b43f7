------------------------- MODULE WebhookRegistration -------------------------
(***************************************************************************)
(* The webhooks registered at ClickUp for this service, the administrator's*)
(* tools that change them, and the auto-heal cron job of every instance.   *)
(* The signing secret that ClickUp hands out once, when a webhook is made, *)
(* is kept in the settings (module Settings), which this module composes.  *)
(*                                                                         *)
(* A registration is several calls to ClickUp and to the database, one     *)
(* step each; the requests and cron jobs of all instances interleave.  A   *)
(* webhook is a number, in order of creation, and its own signing secret.  *)
(* Which events a webhook subscribes to is left out: whether register()    *)
(* finds them up to date is a nondeterministic choice.                     *)
(***************************************************************************)
EXTENDS Settings, FiniteSets

CONSTANTS
  Admin,         \* administrators' requests at once
  MaxHooks,      \* bound: webhooks ever created
  MaxHeals,      \* MAX_HEALS_PER_HOUR
  MaxRecreates,  \* MAX_RECREATES_PER_DAY
  MaxRequests,   \* bound: administrators' requests
  MaxFailures    \* bound: failing calls and restarts

Hook == 1..MaxHooks
Task == Server \cup Admin   \* a server stands for its cron job

(* Ways in which the registration and the settings get out of step.        *)
GapKind ==
  {"secret_lost",      \* a webhook exists whose secret was not stored
   "secret_raced",     \* a webhook was deleted while its secret was being stored
   "both_create",      \* two requests found no webhook before either made one
   "stale_endpoint",   \* a request worked with an endpoint that is no longer configured
   "moved_back",       \* the endpoint was set to one with an older webhook
   "secret_typed",     \* an administrator set a secret that is not that of the webhook
   "deleted_only",     \* a webhook was deleted and the request ended before it made another
   "refresh_failed",   \* a write was not followed by a fresh copy
   "refresh_overlap",  \* two refreshes of one instance at once
   "stale_merge"}      \* preferences were merged onto a copy that is not the row they replace

ASSUME ConstantAssumption ==
  /\ Admin \cap Server = {}
  /\ {MaxHooks, MaxHeals, MaxRecreates, MaxRequests, MaxFailures} \subseteq Nat
  /\ Hook \subseteq Secret /\ None \notin Secret \cup Endpoint \cup Task

VARIABLES
  hook,       \* the webhooks at ClickUp
  task,       \* requests and cron jobs in progress
  heals,      \* healAttempts of an instance, within the last hour
  recreates,  \* recreateAttempts of an instance, within the last day
  requests,   \* bounded: administrators' requests so far
  failures,   \* bounded: failures so far
  gap,        \* history
  had,        \* history: endpoints with a webhook that nobody asked to remove
  churned,    \* history: webhooks auto-heal deleted since the instance started
  saved,      \* history: preferences an administrator has changed
  writer      \* history: the instance that last wrote the settings

settings == <<db, cache>>
counters == <<requests, failures>>
history  == <<gap, had, churned, saved, writer>>
vars == <<settings, hook, task, heals, recreates, counters, history>>

Op == {"none", "register", "rotate", "prune", "patch", "heal", "recreate"}
PC == {"idle", "list", "put", "post", "store", "read", "apply", "upsert",
       "rotate_list", "delete", "prune_list", "prune", "heal_list", "probe"}

(* What a task has read and still needs: the endpoint its instance gave    *)
(* it, the webhook at hand, the suspended webhook that the cron job found, *)
(* the webhooks a prune has left, the secret and the merged preferences of *)
(* a patch, and the settings row a refresh has read.                       *)
TaskRecord ==
  [op : Op, pc : PC, on : Server \cup {None}, endpoint : Endpoint \cup {None},
   hook : Hook \cup {None}, target : Hook \cup {None}, todo : SUBSET Hook,
   secret : Secret \cup {None}, prefs : SUBSET Field, row : Row \cup {None}]

HookRecord == [state : {"unborn", "live", "deleted"}, active : BOOLEAN,
               endpoint : Endpoint \cup {None}]

TypeOK ==
  /\ SettingsTypeOK
  /\ hook \in [Hook -> HookRecord]
  /\ task \in [Task -> TaskRecord]
  /\ heals \in [Server -> [Hook -> 0..MaxHeals]]
  /\ recreates \in [Server -> [Endpoint -> 0..MaxRecreates]]
  /\ requests \in 0..MaxRequests /\ failures \in 0..MaxFailures
  /\ gap \subseteq GapKind /\ had \subseteq Endpoint /\ saved \subseteq Field
  /\ churned \in [Server -> [Endpoint -> Nat]] /\ writer \subseteq Server

Idle == [op |-> "none", pc |-> "idle", on |-> None, endpoint |-> None,
         hook |-> None, target |-> None, todo |-> {}, secret |-> None, prefs |-> {},
         row |-> None]

NoWebhook(state) == [state |-> state, active |-> FALSE, endpoint |-> None]

Init ==
  /\ SettingsInit
  /\ hook = [h \in Hook |-> NoWebhook("unborn")]
  /\ task = [t \in Task |-> Idle]
  /\ heals = [i \in Server |-> [h \in Hook |-> 0]]
  /\ recreates = [i \in Server |-> [e \in Endpoint |-> 0]]
  /\ requests = 0 /\ failures = 0
  /\ gap = {} /\ had = {} /\ saved = {} /\ writer = {}
  /\ churned = [i \in Server |-> [e \in Endpoint |-> 0]]
-----------------------------------------------------------------------------
(* Faulty variants.                                                        *)

(* setWebhookSecret() keeps the secret it has.                             *)
StoredSecretKept(h) == IF db.secret = None THEN h ELSE db.secret

(* setWebhookSecret() does not refresh the copy.                           *)
AfterStoreNoRefresh(q) == Idle

(* The recreate slot is taken once the new webhook stands, not before.     *)
TakeRecreateSlotLate(i, e) == recreates

(* rotate() and auto-heal delete and leave the registering to a later run. *)
AfterDeleteNothing(q) == Idle

(* register() makes a webhook without looking for one first.               *)
RegisterBlindly(q) == [q EXCEPT !.pc = "post", !.endpoint = cache[q.on].endpoint, !.hook = None]

(* One recreation more than the daily cap.                                 *)
RecreatableOnceMore(i, e) == recreates[i][e] <= MaxRecreates

-----------------------------------------------------------------------------
(* What requests see and do.                                               *)

Live(h) == hook[h].state = "live"

(* The registrations a request takes for its own.                          *)
Matches(e) == {h \in Hook : hook[h].state = "live" /\ hook[h].endpoint = e}

Goto(t, pc) == task' = [task EXCEPT ![t].pc = pc]
Finish(t) == task' = [task EXCEPT ![t] = Idle]

(* register() reads the endpoint from the copy of its instance.            *)
Register(q) == [q EXCEPT !.pc = "list", !.endpoint = cache[q.on].endpoint, !.hook = None]

(* A task that has deleted a webhook and not made another.                 *)
Owing(q) == q.op \in {"rotate", "recreate"} /\ q.pc \in {"list", "post"}

(* What is lost when a task ends before its next step.                     *)
Lost(q) ==
  CASE q.pc = "store"             -> {"secret_lost"}
    [] q.pc \in {"read", "apply"} -> {"refresh_failed"}
    [] Owing(q)                   -> {"deleted_only"}
    [] OTHER                      -> {}

StaleEndpoint(e) == IF e = db.endpoint THEN {} ELSE {"stale_endpoint"}
Storing(h) == \E t \in Task : task[t].pc = "store" /\ task[t].hook = h
Gone(h) == [hook EXCEPT ![h] = NoWebhook("deleted")]
DeletedEarly(h) == IF Storing(h) THEN {"secret_raced"} ELSE {}

-----------------------------------------------------------------------------
(* Requests of administrators begin.                                       *)

Request(t, i, op, pc) ==
  /\ task[t].pc = "idle" /\ requests < MaxRequests
  /\ requests' = requests + 1
  /\ task' = [task EXCEPT ![t] = [Idle EXCEPT !.op = op, !.pc = pc, !.on = i,
                                             !.endpoint = cache[i].endpoint]]
  /\ gap' = gap \cup StaleEndpoint(cache[i].endpoint)
  /\ UNCHANGED <<settings, hook, heals, recreates, failures, had, churned, saved, writer>>

BeginRegister(t, i) == Request(t, i, "register", "list")
BeginRotate(t, i)   == Request(t, i, "rotate", "rotate_list")
BeginPrune(t, i)    == Request(t, i, "prune", "prune_list")

(* PATCH of the endpoint, the secret, a preference, or several of them.    *)
BeginPatch(t, i) ==
  /\ task[t].pc = "idle" /\ requests < MaxRequests
  /\ requests' = requests + 1
  /\ \E e \in Endpoint \cup {None}, s \in Secret \cup {None},
        prefs \in {{}} \cup {MergedPrefs(i, f) : f \in Field} :
       /\ task' = [task EXCEPT ![t] = [Idle EXCEPT !.op = "patch", !.pc = "upsert", !.on = i,
                                        !.endpoint = e, !.secret = s, !.prefs = prefs]]
       /\ gap' = IF prefs = {} \/ cache[i].prefs = db.prefs THEN gap ELSE gap \cup {"stale_merge"}
  /\ UNCHANGED <<settings, hook, heals, recreates, failures, had, churned, saved, writer>>

(* DELETE of a webhook by its id: one call.                                *)
DeleteById(h) ==
  /\ requests < MaxRequests /\ Live(h)
  /\ requests' = requests + 1
  /\ hook' = Gone(h)
  /\ had' = had \ {hook[h].endpoint}
  /\ gap' = gap \cup DeletedEarly(h)
  /\ UNCHANGED <<settings, task, heals, recreates, failures, churned, saved, writer>>

-----------------------------------------------------------------------------
(* register().                                                             *)

(* A heal counts against the hourly cap of the webhook that was suspended. *)
Healed(q) ==
  IF q.op = "heal" /\ heals[q.on][q.target] < MaxHeals
  THEN [heals EXCEPT ![q.on][q.target] = @ + 1] ELSE heals

(* getWebhooks: without a match a webhook is to be made; a match that is   *)
(* active and has the right events is left alone.                          *)
List(t) ==
  LET q == task[t]
      racing == \E u \in Task \ {t} : task[u].pc = "post" /\ task[u].endpoint = q.endpoint
  IN
  /\ q.pc = "list"
  /\ IF Matches(q.endpoint) = {}
     THEN /\ Goto(t, "post")
          /\ gap' = IF racing THEN gap \cup {"both_create"} ELSE gap
     ELSE /\ \E h \in Matches(q.endpoint) :
               \/ task' = [task EXCEPT ![t].pc = "put", ![t].hook = h]
               \/ hook[h].active /\ Finish(t)
          /\ UNCHANGED gap
  /\ UNCHANGED <<settings, hook, heals, recreates, counters, had, churned, saved, writer>>

(* PUT status:active; ClickUp refuses it for a webhook that is gone.       *)
Put(t) ==
  LET q == task[t] IN
  /\ q.pc = "put"
  /\ IF Live(q.hook)
     THEN hook' = [hook EXCEPT ![q.hook].active = TRUE] /\ heals' = Healed(q)
     ELSE UNCHANGED <<hook, heals>>
  /\ Finish(t)
  /\ UNCHANGED <<settings, recreates, counters, history>>

IsNext(h) == \A k \in Hook : k < h <=> hook[k].state # "unborn"

(* POST: the answer, which carries the secret, may be lost.                *)
Post(t) ==
  LET q == task[t] IN
  /\ q.pc = "post"
  /\ \E h \in Hook :
       /\ IsNext(h)
       /\ hook' = [hook EXCEPT ![h] = [state |-> "live", active |-> TRUE, endpoint |-> q.endpoint]]
       /\ had' = had \cup {q.endpoint}
       /\ \/ /\ task' = [task EXCEPT ![t].pc = "store", ![t].hook = h]
             /\ UNCHANGED <<gap, failures>>
          \/ /\ failures < MaxFailures
             /\ failures' = failures + 1
             /\ gap' = gap \cup {"secret_lost"}
             /\ Finish(t)
  /\ UNCHANGED <<settings, heals, recreates, requests, churned, saved, writer>>

StoredSecret(h) == h
AfterStore(q) == [q EXCEPT !.pc = "read"]

(* setWebhookSecret(): the upsert.                                         *)
Store(t) ==
  LET q == task[t] IN
  /\ q.pc = "store"
  /\ WriteSecret(StoredSecret(q.hook))
  /\ task' = [task EXCEPT ![t] = AfterStore(q)]
  /\ writer' = {q.on}
  /\ UNCHANGED <<cache, hook, heals, recreates, counters, gap, had, churned, saved>>

(* refresh(), after setWebhookSecret() and after update().                 *)
Read(t) ==
  LET q == task[t]
      overlap == \E u \in Task : task[u].pc = "apply" /\ task[u].on = q.on
  IN
  /\ q.pc = "read"
  /\ task' = [task EXCEPT ![t].pc = "apply", ![t].row = db]
  /\ gap' = IF overlap THEN gap \cup {"refresh_overlap"} ELSE gap
  /\ UNCHANGED <<settings, hook, heals, recreates, counters, had, churned, saved, writer>>

ApplyRow(t) ==
  LET q == task[t] IN
  /\ q.pc = "apply"
  /\ Apply(q.on, q.row)
  /\ heals' = Healed(q)
  /\ Finish(t)
  /\ UNCHANGED <<db, hook, recreates, counters, history>>

-----------------------------------------------------------------------------
(* rotate(), pruneStale() and update().                                    *)

RotateList(t) ==
  LET q == task[t] IN
  /\ q.pc = "rotate_list"
  /\ IF Matches(q.endpoint) = {}
     THEN /\ task' = [task EXCEPT ![t] = [Register(q) EXCEPT !.op = "register"]]
          /\ gap' = gap \cup StaleEndpoint(cache[q.on].endpoint)
     ELSE /\ \E h \in Matches(q.endpoint) :
               task' = [task EXCEPT ![t].pc = "delete", ![t].hook = h]
          /\ UNCHANGED gap
  /\ UNCHANGED <<settings, hook, heals, recreates, counters, had, churned, saved, writer>>

AfterDelete(q) == Register(q)

(* The deletion in rotate() and in auto-heal; then register() starts.      *)
Delete(t) ==
  LET q == task[t] IN
  /\ q.pc = "delete"
  /\ IF Live(q.hook)
     THEN /\ hook' = Gone(q.hook)
          /\ task' = [task EXCEPT ![t] = AfterDelete(q)]
          /\ gap' = gap \cup DeletedEarly(q.hook) \cup StaleEndpoint(cache[q.on].endpoint)
          /\ churned' = IF q.op = "recreate" THEN [churned EXCEPT ![q.on][q.endpoint] = @ + 1] ELSE churned
     ELSE Finish(t) /\ UNCHANGED <<hook, gap, churned>>
  /\ UNCHANGED <<settings, heals, recreates, counters, had, saved, writer>>

PruneList(t) ==
  LET q == task[t] IN
  /\ q.pc = "prune_list"
  /\ task' = [task EXCEPT ![t].pc = "prune",
                ![t].todo = {h \in Hook : Live(h) /\ hook[h].endpoint # q.endpoint}]
  /\ UNCHANGED <<settings, hook, heals, recreates, counters, history>>

(* The loop of pruneStale(); a webhook that is gone already ends it.       *)
Prune(t) ==
  LET q == task[t] IN
  /\ q.pc = "prune"
  /\ IF q.todo = {} THEN Finish(t) /\ UNCHANGED <<hook, gap, had>>
     ELSE \E h \in q.todo :
            IF Live(h)
            THEN /\ hook' = Gone(h)
                 /\ task' = [task EXCEPT ![t].todo = @ \ {h}]
                 /\ gap' = gap \cup DeletedEarly(h)
                 /\ had' = IF hook[h].endpoint = db.endpoint THEN had ELSE had \ {hook[h].endpoint}
            ELSE Finish(t) /\ UNCHANGED <<hook, gap, had>>
  /\ UNCHANGED <<settings, heals, recreates, counters, churned, saved, writer>>

(* update(): the upsert.  Patches merged before it, tasks that still work  *)
(* with the old endpoint, older webhooks at the new one, and a secret of   *)
(* no webhook there, are what gets out of step.                            *)
Patching(t) == task[t].pc = "upsert" /\ task[t].prefs # {}
Working(t, e) == \E u \in Task \ {t} : task[u].endpoint # None /\ task[u].endpoint # e

(* Some webhook at the endpoint of a row has another secret than the row,  *)
(* and nobody is about to store it.                                        *)
Mismatched(row) == \E h \in Matches(row.endpoint) : row.secret # h /\ ~Storing(h)

OutOfStep(t, e, s, prefs) ==
  {w \in {"stale_endpoint"} : e # None /\ Working(t, e)}
    \cup {w \in {"moved_back"} : e # None /\ s = None /\ Mismatched(Patched(e, s, prefs))}
    \cup {w \in {"secret_typed"} : s # None /\ Mismatched(Patched(e, s, prefs))}
    \cup {w \in {"stale_merge"} : prefs # {} /\ \E u \in Task \ {t} : Patching(u)}

Upsert(t) ==
  LET q == task[t] IN
  /\ q.pc = "upsert"
  /\ WritePatch(q.endpoint, q.secret, q.prefs)
  /\ saved' = saved \cup q.prefs
  /\ gap' = gap \cup OutOfStep(t, q.endpoint, q.secret, q.prefs)
  /\ Goto(t, "read")
  /\ writer' = {q.on}
  /\ UNCHANGED <<cache, hook, heals, recreates, counters, had, churned>>

-----------------------------------------------------------------------------
(* checkAndHeal() on every instance.                                       *)

BeginHeal(i) ==
  /\ task[i].pc = "idle"
  /\ \E h \in Hook : Live(h) /\ ~hook[h].active
  /\ task' = [task EXCEPT ![i] = [Idle EXCEPT !.op = "heal", !.pc = "heal_list", !.on = i,
                                             !.endpoint = cache[i].endpoint]]
  /\ gap' = gap \cup StaleEndpoint(cache[i].endpoint)
  /\ UNCHANGED <<settings, hook, heals, recreates, counters, had, churned, saved, writer>>

Healable(i, h) == heals[i][h] < MaxHeals
Recreatable(i, e) == recreates[i][e] < MaxRecreates

(* Which remedy the caps leave for a suspended webhook.                    *)
HealList(i) ==
  LET q == task[i] IN
  /\ q.pc = "heal_list"
  /\ \/ Matches(q.endpoint) = {} /\ Finish(i)
     \/ \E h \in Matches(q.endpoint) :
          IF hook[h].active \/ ~(Healable(i, h) \/ Recreatable(i, q.endpoint))
          THEN Finish(i)
          ELSE task' = [task EXCEPT ![i].pc = "probe", ![i].hook = h, ![i].target = h,
                                    ![i].op = IF Healable(i, h) THEN "heal" ELSE "recreate"]
  /\ UNCHANGED <<settings, hook, heals, recreates, counters, history>>

TakeRecreateSlot(i, e) == [recreates EXCEPT ![i][e] = @ + 1]

ProbeUp(i) ==
  LET q == task[i] IN
  /\ q.pc = "probe"
  /\ IF q.op = "heal"
     THEN task' = [task EXCEPT ![i] = Register(q)] /\ UNCHANGED recreates
     ELSE Goto(i, "delete") /\ recreates' = TakeRecreateSlot(i, q.endpoint)
  /\ gap' = gap \cup StaleEndpoint(cache[i].endpoint)
  /\ UNCHANGED <<settings, hook, heals, counters, had, churned, saved, writer>>

ProbeDown(i) ==
  /\ task[i].pc = "probe"
  /\ Finish(i)
  /\ UNCHANGED <<settings, hook, heals, recreates, counters, history>>

-----------------------------------------------------------------------------
(* The environment.                                                        *)

(* ClickUp suspends a webhook whose deliveries fail.                       *)
Suspend(h) ==
  /\ Live(h) /\ hook[h].active
  /\ hook' = [hook EXCEPT ![h].active = FALSE]
  /\ UNCHANGED <<settings, task, heals, recreates, counters, history>>

(* An attempt leaves the window of the hourly cap.  Only the cron job looks *)
(* at the count, so that this happens between its runs is no restriction.  *)
HealForgotten(i, h) ==
  /\ heals[i][h] > 0 /\ task[i].pc = "idle"
  /\ heals' = [heals EXCEPT ![i][h] = @ - 1]
  /\ UNCHANGED <<settings, hook, task, recreates, counters, history>>

(* A call or a statement fails, without effect: the request or the run of  *)
(* the cron job ends there.  That the secret could not be stored is only   *)
(* logged: register() returns as if nothing had happened.                  *)
CallFails(t) ==
  /\ task[t].pc # "idle" /\ failures < MaxFailures
  /\ failures' = failures + 1
  /\ gap' = gap \cup Lost(task[t])
  /\ heals' = IF task[t].pc \in {"store", "read", "apply"} THEN Healed(task[t]) ELSE heals
  /\ Finish(t)
  /\ UNCHANGED <<settings, hook, recreates, requests, had, churned, saved, writer>>

(* An instance restarts: its tasks end, its counters are new, its copy is  *)
(* read from the row.                                                      *)
Restart(i) ==
  LET mine == {t \in Task : task[t].on = i} IN
  /\ failures < MaxFailures
  /\ failures' = failures + 1
  /\ gap' = gap \cup UNION {Lost(task[t]) \ {"refresh_failed"} : t \in mine}
  /\ task' = [t \in Task |-> IF t \in mine THEN Idle ELSE task[t]]
  /\ Apply(i, db)
  /\ heals' = [heals EXCEPT ![i] = [h \in Hook |-> 0]]
  /\ recreates' = [recreates EXCEPT ![i] = [e \in Endpoint |-> 0]]
  /\ churned' = [churned EXCEPT ![i] = [e \in Endpoint |-> 0]]
  /\ UNCHANGED <<db, hook, requests, had, saved, writer>>

-----------------------------------------------------------------------------
Next ==
  \/ \E t \in Admin, i \in Server :
       BeginRegister(t, i) \/ BeginRotate(t, i) \/ BeginPrune(t, i) \/ BeginPatch(t, i)
  \/ \E h \in Hook : DeleteById(h) \/ Suspend(h)
  \/ \E t \in Task :
       \/ List(t) \/ Put(t) \/ Post(t) \/ Store(t) \/ Read(t) \/ ApplyRow(t)
       \/ RotateList(t) \/ Delete(t) \/ PruneList(t) \/ Prune(t) \/ Upsert(t)
       \/ CallFails(t)
  \/ \E i \in Server :
       \/ BeginHeal(i) \/ HealList(i) \/ ProbeUp(i) \/ ProbeDown(i) \/ Restart(i)
       \/ \E h \in Hook : HealForgotten(i, h)

Spec == Init /\ [][Next]_vars

-----------------------------------------------------------------------------
(* Properties.                                                             *)

(* The secret in the settings is that of the webhook at the configured     *)
(* endpoint, whatever sequence of registrations, rotations, heals, patches *)
(* of the endpoint and the secret and prunings led here, unless one of the *)
(* named windows was hit: otherwise every delivery would be refused        *)
(* (register, rotate, setWebhookSecret, update).                           *)
SecretMatches ==
  gap \cap {"secret_lost", "secret_raced", "both_create", "stale_endpoint", "moved_back",
            "secret_typed"} = {}
    => \A h \in Matches(db.endpoint) : db.secret = h \/ Storing(h)

(* There is one registration per endpoint: ClickUp delivers no event twice *)
(* (register() matches by endpoint before it creates).                     *)
OneRegistration ==
  "both_create" \notin gap => \A h, k \in Hook :
    Live(h) /\ Live(k) /\ hook[h].endpoint = hook[k].endpoint => h = k

(* An endpoint that was registered stays registered, or is about to be     *)
(* again, even when two requests register at once, unless a rotation or a  *)
(* heal ended between its two halves (rotate, checkAndHeal, pruneStale).   *)
StaysRegistered ==
  gap \cap {"deleted_only", "stale_endpoint"} = {}
    => \A e \in had : Matches(e) # {} \/ \E t \in Task : Owing(task[t]) /\ task[t].endpoint = e

(* Auto-heal does not churn: between two restarts and within a day an      *)
(* instance deletes at most MaxRecreates webhooks per endpoint, however    *)
(* its recreations end (checkAndHeal).                                     *)
ChurnBounded == \A i \in Server, e \in Endpoint : churned[i][e] <= MaxRecreates

(* A preference that an administrator saved is not lost to a later patch,  *)
(* unless that patch was merged onto a copy that is not the row it then    *)
(* replaces (update).                                                      *)
PatchKept == "stale_merge" \notin gap => saved \subseteq db.prefs

(* An instance at rest that wrote the settings last has them in memory     *)
(* (refresh after every write).                                            *)
CacheFollows ==
  gap \cap {"refresh_failed", "refresh_overlap"} = {} =>
    \A i \in writer : (\A t \in Task : task[t].on # i) => cache[i] = db
=============================================================================
