SPECIFICATION FairSpec
CONSTANTS
  Rate = {r1, r2}
  NoRate = NoRate
  LastDay = 2
  Cents = {1}
  Entry = {e1}
  NoEntry = NoEntry
  Edition <- TwoEditions
  DueDay <- DueEarly
  Choice <- DueThenStart
  Admin = {a1}
  Sync = {s1}
  Job = {j1}
  Attempts = 2
  MaxStalls = 1
  Workers = 1
  MaxEdits = 1
  Faults = {"crash", "call"}
INVARIANTS TypeOK
PROPERTIES CostsSettle KeepsBook
CHECK_DEADLOCK FALSE
