----------------------------- MODULE MCTaskMirror -----------------------------
(***************************************************************************)
(* A small instance of TaskMirror for TLC.                                 *)
(***************************************************************************)
EXTENDS TaskMirror, TLC

(* A task and its subtask.                                                 *)
MCOrder == <<"subtask", "parent">>
MCParent == [t \in {"subtask", "parent"} |-> IF t = "subtask" THEN "parent" ELSE NoTask]

Symmetry == Permutations(Job) \cup Permutations(Backfill) \cup Permutations(Requester)
              \cup Permutations(Sweeper)

(* Bound: beyond the webhooks that did not arrive, TLC explores no further *)
(* once there were MaxGaps windows, or a slip.                             *)
MaxGaps == 0
Windows == {t \in Task : gap[t] \ {"undelivered"} # {}}
GapBound == slips = {} /\ Cardinality(Windows) <= MaxGaps
=============================================================================
