---------------------------- MODULE Reassignment ----------------------------
(***************************************************************************)
(* What the replacement of tagged entries promises the people whose time   *)
(* is tracked, and nothing of jobs, retries, syncs or rows: the hours of   *)
(* an entry always stand under exactly one entry of ClickUp, first the one *)
(* its author logged, then, from one moment to the next and once and for   *)
(* all, a copy made for it.  The original is withdrawn only after that     *)
(* moment, a copy is withdrawn by no one but a user, and a copy too many   *)
(* is made only for an entry whose replacement lapsed.                     *)
(*                                                                         *)
(* TimeEntries implements this specification.                              *)
(***************************************************************************)
CONSTANTS
  Original,  \* entries that users log
  Copy,      \* entries made on behalf of others
  NoEntry    \* "no entry"

VARIABLES
  stands,    \* the entry an original's hours stand under
  drafts,    \* copies of an original that its hours do not stand under
  held,      \* entries ClickUp holds
  byUser,    \* entries a user deleted
  lapsed    \* originals whose replacement was broken off or ran twice

vars == <<stands, drafts, held, byUser, lapsed>>

Init ==
  /\ stands = [o \in Original |-> NoEntry]
  /\ drafts = [o \in Original |-> {}]
  /\ held = {} /\ byUser = {} /\ lapsed = {}

Log(o) ==
  /\ stands[o] = NoEntry
  /\ stands' = [stands EXCEPT ![o] = o]
  /\ held' = held \cup {o}
  /\ UNCHANGED <<drafts, byUser, lapsed>>

Fresh(c) == \A o \in Original : c # stands[o] /\ c \notin drafts[o]

Lapsing(o) == stands[o] # NoEntry /\ lapsed' \in {lapsed, lapsed \cup {o}}

Draft(o, c) ==
  /\ held' = held \cup {c}
  /\ Fresh(c) /\ Lapsing(o)
  /\ (stands[o] = o /\ drafts[o] = {}) \/ o \in lapsed
  /\ drafts' = [drafts EXCEPT ![o] = @ \cup {c}]
  /\ UNCHANGED <<stands, byUser>>

(* The replacement, in one step.                                           *)
Replace(o, c) ==
  /\ stands[o] = o /\ c \in drafts[o]
  /\ stands' = [stands EXCEPT ![o] = c]
  /\ drafts' = [drafts EXCEPT ![o] = @ \ {c}]
  /\ UNCHANGED <<held, byUser, lapsed>>

Withdraw(o) ==
  /\ stands[o] \in Copy
  /\ held' = held \ {o}
  /\ UNCHANGED <<stands, drafts, byUser, lapsed>>

UserDeletes(x) ==
  /\ x \in held
  /\ held' = held \ {x}
  /\ byUser' = byUser \cup {x}
  /\ UNCHANGED <<stands, drafts, lapsed>>

Lapse(o) == Lapsing(o) /\ UNCHANGED <<held, byUser, drafts, stands>>

Next ==
  \/ \E o \in Original :
       Lapse(o) \/ Withdraw(o) \/ Log(o) \/ \E c \in Copy : Draft(o, c) \/ Replace(o, c)
  \/ \E x \in Original \cup Copy : UserDeletes(x)

Spec == Init /\ [][Next]_vars

-----------------------------------------------------------------------------
(* What follows from the steps.  The hours of an entry that was logged     *)
(* stand in ClickUp until a user deletes the very entry they stand under,  *)
(* whatever the worker does, and no entry stands for two.                  *)
HoursStand ==
  /\ \A o \in Original : stands[o] # NoEntry => stands[o] \in held \cup byUser
  /\ \A o, p \in Original : stands[o] = stands[p] /\ stands[o] # NoEntry => o = p
=============================================================================
