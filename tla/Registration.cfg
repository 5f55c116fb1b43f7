SPECIFICATION Spec
CONSTANTS
  Server = {s1, s2}
  Admin = {a1}
  Endpoint = {A, B}
  Field = {f1, f2}
  None = None
  Secret = {1, 2}
  MaxHooks = 2
  MaxHeals = 1
  MaxRecreates = 1
  MaxRequests = 2
  MaxFailures = 1
CONSTRAINT GapBound
SYMMETRY Symmetry
INVARIANTS TypeOK SecretMatches OneRegistration StaysRegistered ChurnBounded PatchKept CacheFollows
CHECK_DEADLOCK FALSE
