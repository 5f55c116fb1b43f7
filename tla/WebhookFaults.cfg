SPECIFICATION Spec
CONSTANTS
  Event = {"time", "status", "moved", "gone", "bare"}
  NoEvent = NoEvent
  TypeOf <- MCTypeOf
  Tasked = {"time", "status", "moved", "gone"}
  Unstable = {}
  Request = {r1, r2}
  Job = {j1, j2}
  Letter = {l1}
  RetryAdmin = {}
  LetterAdmin = {b1}
  WebhookAttempts = 2
  JobAttempts = 1
  Workers = 2
  MaxStalls = 1
  Faults = {"crash", "letter_write", "mark_write", "history_write"}
CONSTRAINT RouteBound
SYMMETRY Symmetry
INVARIANTS TypeOK RetriedMeansRequeued Recoverable AdmittedOnce HandedOff
PROPERTY KeepsPromises
CHECK_DEADLOCK FALSE
