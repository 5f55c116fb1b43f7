------------------------------ MODULE MCCosts ------------------------------
(***************************************************************************)
(* Small instances of Costs for TLC.                                       *)
(***************************************************************************)
EXTENDS Costs, TLC

(* What ClickUp says of an entry: on the last day, the one that a rate     *)
(* change splits off, and not to be billed; or as somebody edited it.      *)
OneEdition  == {[start |-> LastDay, billable |-> FALSE]}
TwoEditions == OneEdition \cup {[start |-> 1, billable |-> TRUE]}

(* No due date, or the first day.                                          *)
DueEarly == {NoDue, 1}

Pref(auto, matching, zero) == [auto |-> auto, matching |-> matching, zero |-> zero]
StartThenDue == {Pref(TRUE, "start", FALSE), Pref(FALSE, "due", TRUE)}
DueThenStart == {Pref(TRUE, "due", FALSE), Pref(FALSE, "start", TRUE)}

Symmetry == Permutations(Rate) \cup Permutations(Entry) \cup Permutations(Admin)
              \cup Permutations(Job) \cup Permutations(Sync)
=============================================================================
