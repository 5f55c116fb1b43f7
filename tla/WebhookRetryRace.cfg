SPECIFICATION Spec
CONSTANTS
  Event = {"time"}
  NoEvent = NoEvent
  TypeOf <- MCTypeOf
  Tasked = {"time"}
  Unstable = {}
  Request = {r1}
  Job = {j1, j2}
  Letter = {l1}
  RetryAdmin = {a1}
  LetterAdmin = {}
  WebhookAttempts = 1
  JobAttempts = 1
  Workers = 1
  MaxStalls = 0
  Faults = {}
INVARIANT NoReceivedLimbo
CHECK_DEADLOCK FALSE
