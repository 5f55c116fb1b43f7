------------------------- MODULE ReassignmentProofs -------------------------
(***************************************************************************)
(* What Reassignment promises about tracked hours, for any entries and     *)
(* copies.                                                                 *)
(***************************************************************************)
EXTENDS Reassignment, TLAPS

(* What every use of the module has to provide.                            *)
EntryAssumption ==
  /\ NoEntry \notin Original /\ NoEntry \notin Copy
  /\ Original \cap Copy = {}

(* Every copy is there, or a user deleted it, and belongs to one entry.    *)
Belongs ==
  /\ stands \in [Original -> Original \cup Copy \cup {NoEntry}]
  /\ drafts \in [Original -> SUBSET Copy]
  /\ \A o \in Original : stands[o] \in {NoEntry, o} \cup Copy
  /\ \A o \in Original : stands[o] # NoEntry => stands[o] \in held \cup byUser
  /\ \A o \in Original : drafts[o] \subseteq held \cup byUser
  /\ \A o \in Original : stands[o] \notin drafts[o]
  /\ \A o, p \in Original :
       o # p => /\ drafts[o] \cap drafts[p] = {}
                /\ stands[o] \notin drafts[p]
                /\ stands[o] = NoEntry \/ stands[o] # stands[p]

LEMMA BelongsInit == EntryAssumption /\ Init => Belongs
BY DEF Init, Belongs, EntryAssumption

LEMMA BelongsStep == EntryAssumption /\ Belongs /\ [Next]_vars => Belongs'
<1> SUFFICES ASSUME EntryAssumption, Belongs, [Next]_vars PROVE Belongs'
  OBVIOUS
<1> USE DEF EntryAssumption
<1>1. ASSUME NEW o \in Original, Log(o) PROVE Belongs'
  <2>1. \A p \in Original : stands'[p] = IF p = o THEN o ELSE stands[p]
    BY <1>1 DEF Log, Belongs
  <2> QED BY <1>1, <2>1 DEF Log, Belongs
<1>2. ASSUME NEW o \in Original, NEW c \in Copy, Draft(o, c) PROVE Belongs'
  <2>1. \A p \in Original : drafts'[p] = IF p = o THEN drafts[p] \cup {c} ELSE drafts[p]
    BY <1>2 DEF Draft, Belongs
  <2>2. \A p \in Original : c # stands[p] /\ c \notin drafts[p]
    BY <1>2 DEF Draft, Fresh
  <2> QED BY <1>2, <2>1, <2>2 DEF Draft, Belongs
<1>3. ASSUME NEW o \in Original, NEW c \in Copy, Replace(o, c) PROVE Belongs'
  <2>1. /\ \A p \in Original : stands'[p] = IF p = o THEN c ELSE stands[p]
        /\ \A p \in Original : drafts'[p] = IF p = o THEN drafts[p] \ {c} ELSE drafts[p]
    BY <1>3 DEF Replace, Belongs
  <2> QED BY <1>3, <2>1 DEF Replace, Belongs
<1>4. ASSUME NEW o \in Original, Withdraw(o) PROVE Belongs'
  BY <1>4 DEF Withdraw, Belongs
<1>5. ASSUME NEW x, UserDeletes(x) PROVE Belongs'
  BY <1>5 DEF UserDeletes, Belongs
<1>6. ASSUME NEW o \in Original, Lapse(o) PROVE Belongs'
  BY <1>6 DEF Lapse, Belongs
<1>7. CASE UNCHANGED vars
  BY <1>7 DEF vars, Belongs
<1> QED BY <1>1, <1>2, <1>3, <1>4, <1>5, <1>6, <1>7 DEF Next

(* The hours of an entry always stand under one entry of its own.          *)
THEOREM HoursAlwaysStand ==
  ASSUME EntryAssumption
  PROVE  Spec => []HoursStand
<1>1. Belongs => HoursStand BY DEF Belongs, HoursStand
<1> QED BY <1>1, BelongsInit, BelongsStep, PTL DEF Spec
=============================================================================
