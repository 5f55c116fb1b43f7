------------------------ MODULE MCWebhookRegistration ------------------------
(***************************************************************************)
(* A small instance of WebhookRegistration for TLC.                        *)
(***************************************************************************)
EXTENDS WebhookRegistration, TLC

Symmetry == Permutations(Endpoint) \cup Permutations(Admin) \cup Permutations(Field)
              \cup Permutations(Server)

(* Bound: after MaxGaps kinds of loss TLC explores no further.             *)
MaxGaps == 0
GapBound == Cardinality(gap) <= MaxGaps
=============================================================================
