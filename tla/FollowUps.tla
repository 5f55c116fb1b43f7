------------------------------ MODULE FollowUps ------------------------------
(***************************************************************************)
(* What the ingestion of webhooks promises to the rest of the service, and *)
(* nothing of how it keeps the promise: once an event is accepted, the     *)
(* follow-up jobs it calls for, and no others, reach their queues, each    *)
(* behind those it must not overtake; and an event is declared processed   *)
(* only when all of them have.                                             *)
(*                                                                         *)
(* WebhookPipeline implements this specification, with the promises that   *)
(* the event processor keeps; a comment in the time-entry service names    *)
(* fewer (TimeTrackedAlone there).  TaskMirror relies on it.               *)
(***************************************************************************)
CONSTANTS
  Event,     \* events
  Kind,      \* kinds of follow-up jobs
  Promise,   \* the follow-ups an event calls for
  Ahead      \* the kinds that must be queued before a kind

VARIABLES
  stage,     \* what is known of an event
  queued     \* follow-ups of an event that have reached their queue

vars == <<stage, queued>>

Init ==
  /\ stage = [e \in Event |-> "none"]
  /\ queued = [e \in Event |-> {}]

Accept(e) ==
  /\ stage[e] = "none"
  /\ stage' = [stage EXCEPT ![e] = "received"]
  /\ UNCHANGED queued

(* A repeated attempt queues what is queued already: a stuttering step.    *)
Queue(e, k) ==
  /\ stage[e] # "none"
  /\ k \in Promise[e] \ queued[e]
  /\ Ahead[k] \cap Promise[e] \subseteq queued[e]
  /\ queued' = [queued EXCEPT ![e] = @ \cup {k}]
  /\ UNCHANGED stage

Settle(e) ==
  /\ stage[e] # "none"
  /\ \/ Promise[e] \subseteq queued[e] /\ stage' = [stage EXCEPT ![e] = "processed"]
     \/ stage' = [stage EXCEPT ![e] = "failed"]
  /\ UNCHANGED queued

(* An administrator has the event tried again.                             *)
Reopen(e) ==
  /\ stage[e] # "none"
  /\ stage' = [stage EXCEPT ![e] = "received"]
  /\ UNCHANGED queued

Next ==
  \E e \in Event :
    Accept(e) \/ (\E k \in Kind : Queue(e, k)) \/ Settle(e) \/ Reopen(e)

Spec == Init /\ [][Next]_vars
=============================================================================
