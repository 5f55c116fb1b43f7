SPECIFICATION FairSpec
CONSTANTS
  Original = {o1}
  Copy = {c1}
  NoEntry = NoEntry
  Tagged = {o1}
  Slices <- UserOnly
  Sync = {s1}
  Job = {j1}
  Attempts = 2
  Workers = 1
  MaxStalls = 1
  PruneSafetyMax = 5
  Faults = {"crash", "call"}
CONSTRAINT MappingOn
PROPERTIES OriginalRemoved
CHECK_DEADLOCK FALSE
