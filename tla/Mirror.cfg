SPECIFICATION Spec
CONSTANTS
  Order <- MCOrder
  Parent <- MCParent
  NoTask = NoTask
  Job = {j1, j2}
  Backfill = {b1, b2}
  Requester = {r1, r2}
  Sweeper = {a1}
  JobAttempts = 2
  Workers = 2
  PageSize = 1
  MaxPages = 2
  MaxEvents = 2
CONSTRAINT GapBound
SYMMETRY Symmetry
INVARIANTS TypeOK TombstoneTrue Mirrored HoursFollow BackfillHeals ParentsStored OneBackfill
CHECK_DEADLOCK FALSE
