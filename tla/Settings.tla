------------------------------- MODULE Settings -------------------------------
(***************************************************************************)
(* The app_settings row and the copy of it that every instance of the      *)
(* service keeps in memory.  An instance reads its copy only; it replaces  *)
(* the copy when it starts and after each of its own writes, never after a *)
(* write of another instance.  This module has the state and the steps; a  *)
(* module that composes it says which processes take them.                 *)
(***************************************************************************)
EXTENDS Naturals

CONSTANTS
  Server,    \* running instances of the service
  Endpoint,   \* webhook endpoints an administrator may configure
  Secret,     \* signing secrets, and what else may be typed for one
  None,       \* no value
  Field       \* preferences that an administrator changes from their default

VARIABLES
  db,     \* the app_settings row
  cache   \* the copy of each instance

Row == [endpoint : Endpoint, secret : Secret \cup {None}, prefs : SUBSET Field]

SettingsTypeOK ==
  /\ db \in Row
  /\ cache \in [Server -> Row]

SettingsInit ==
  /\ \E e \in Endpoint : db = [endpoint |-> e, secret |-> None, prefs |-> {}]
  /\ cache = [i \in Server |-> db]

(* Faulty variant: a patch is merged onto the defaults.                    *)
MergedPrefsOntoDefaults(i, f) == {f}

(* update() merges a preferences patch onto the copy in memory and writes  *)
(* the whole column.                                                       *)
MergedPrefs(i, f) == cache[i].prefs \cup {f}

(* The row after a patch: a column that the patch does not name (None, or  *)
(* no preferences) is not written.                                         *)
Patched(e, s, prefs) ==
  [endpoint |-> IF e = None THEN db.endpoint ELSE e,
   secret   |-> IF s = None THEN db.secret ELSE s,
   prefs    |-> IF prefs = {} THEN db.prefs ELSE prefs]

WritePatch(e, s, prefs) == db' = Patched(e, s, prefs)
WriteSecret(s) == db' = [db EXCEPT !.secret = s]

(* The second half of refresh(): what the query returned becomes the copy. *)
Apply(i, row) == cache' = [cache EXCEPT ![i] = row]
=============================================================================
