SPECIFICATION Spec
CONSTANTS
  Original = {"o1", "o2", "o3"}
  Copy = {c1}
  NoEntry = NoEntry
  Tagged = {}
  Slices <- TaskAndWindow
  Sync = {s1, s2}
  Job = {j1}
  Attempts = 1
  Workers = 1
  MaxStalls = 0
  PruneSafetyMax = 2
  Faults = {"call", "task", "truncation"}
CONSTRAINT MappingOn
SYMMETRY Symmetry
PROPERTIES PruneSparesLive SyncExact
CHECK_DEADLOCK FALSE
