SPECIFICATION Spec
CONSTANTS
  Rate = {r1, r2}
  NoRate = NoRate
  LastDay = 2
  Cents = {1}
  Entry = {e1, e2}
  NoEntry = NoEntry
  Edition <- OneEdition
  DueDay <- DueEarly
  Choice <- StartThenDue
  Admin = {a1, a2}
  Sync = {s1}
  Job = {j1, j2}
  Attempts = 1
  MaxStalls = 0
  Workers = 1
  MaxEdits = 2
  Faults = {"queue"}
SYMMETRY Symmetry
INVARIANTS PlanExact StaleIsPending
CHECK_DEADLOCK FALSE
