-------------------------- MODULE MCWebhookPipeline --------------------------
(***************************************************************************)
(* Small instances of WebhookPipeline for TLC.                             *)
(***************************************************************************)
EXTENDS WebhookPipeline, TLC

(* One event of each route through the worker; an instance takes a few.    *)
MCTypeOf ==
  [e \in Event |->
     CASE e = "time"   -> "taskTimeTrackedUpdated"
       [] e = "status" -> "taskStatusUpdated"
       [] e = "moved"  -> "taskMoved"
       [] e = "gone"   -> "taskDeleted"
       [] OTHER        -> "taskUpdated"]

Symmetry == Permutations(Request) \cup Permutations(Job) \cup Permutations(Letter)
              \cup Permutations(RetryAdmin) \cup Permutations(LetterAdmin)

(* Bound: once an event fell into MaxGaps windows TLC explores no further. *)
MaxGaps == 1
GapBound == \A e \in Event : Cardinality(gap[e]) <= MaxGaps

(* Bound: one event at a time, of whichever route; what happens to one     *)
(* depends on others only through the jobs that are free.                  *)
OneEvent == Cardinality({e \in Event : row[e] # "none"}) <= 1
RouteBound == GapBound /\ OneEvent
=============================================================================
