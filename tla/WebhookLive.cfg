SPECIFICATION FairSpec
CONSTANTS
  Event = {"gone"}
  NoEvent = NoEvent
  TypeOf <- MCTypeOf
  Tasked = {"gone"}
  Unstable = {"gone"}
  Request = {r1}
  Job = {j1, j2}
  Letter = {l1}
  RetryAdmin = {a1, a2}
  LetterAdmin = {b1}
  WebhookAttempts = 1
  JobAttempts = 1
  Workers = 1
  MaxStalls = 0
  Faults = {"crash", "letter_write", "mark_write", "history_write"}
INVARIANTS Recoverable
PROPERTY Settles
CHECK_DEADLOCK FALSE
