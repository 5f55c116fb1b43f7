SPECIFICATION Spec
CONSTANTS
  Original = {o1}
  Copy = {c1, c2}
  NoEntry = NoEntry
  Tagged = {o1}
  Slices <- WholeWindow
  Sync = {s1}
  Job = {j1, j2}
  Attempts = 2
  Workers = 2
  MaxStalls = 0
  PruneSafetyMax = 5
  Faults = {"call"}
INVARIANTS OneCopyPerEntry
CHECK_DEADLOCK FALSE
