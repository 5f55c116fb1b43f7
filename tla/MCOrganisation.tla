---------------------------- MODULE MCOrganisation ----------------------------
(***************************************************************************)
(* A small instance of Organisation for TLC.                               *)
(***************************************************************************)
EXTENDS Organisation, TLC

Symmetry == Permutations(User) \cup Permutations(Email) \cup Permutations(Invite)
              \cup Permutations(Request)

(* Bound: after MaxGaps kinds of oversight TLC explores no further.        *)
MaxGaps == 0
GapBound == Cardinality(gap) <= MaxGaps
=============================================================================
