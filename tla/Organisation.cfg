SPECIFICATION Spec
CONSTANTS
  User = {u1, u2, u3}
  Machine = Machine
  Nobody = Nobody
  Email = {e1, e2}
  Invite = {i1}
  Request = {r1, r2}
CONSTRAINT GapBound
SYMMETRY Symmetry
INVARIANTS TypeOK OwnerRemains ClaimedOnce SpentOnce DisabledIsOut
CHECK_DEADLOCK FALSE
