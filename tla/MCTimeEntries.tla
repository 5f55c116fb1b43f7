---------------------------- MODULE MCTimeEntries ----------------------------
(***************************************************************************)
(* Small instances of TimeEntries for TLC.                                 *)
(***************************************************************************)
EXTENDS TimeEntries, TLC

(* The whole of ClickUp, as a windowed reconcile asks for.                 *)
WholeWindow == {Original \cup Copy}

(* One task of two, and the window of both: the second task's entries are  *)
(* beyond the first slice.                                                 *)
TaskAndWindow == {{"o1", "o2"}, Original}

(* The entries users log, copies left out.                                 *)
UserOnly == {Original}

Symmetry == Permutations(Job) \cup Permutations(Copy) \cup Permutations(Sync)

(* Bound: once an entry fell into MaxGaps windows TLC explores no further. *)
MaxGaps == 1
GapBound == \A o \in Original : Cardinality(gap[o]) <= MaxGaps

(* Bound, where the mapping does not matter: it stays active.              *)
MappingOn == mapped
=============================================================================
