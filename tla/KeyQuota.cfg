SPECIFICATION Spec
CONSTANTS
  Users = {u1, u2}
  Nodes = {n1, n2}
  Keys = {k1, k2}
  Sessions = {s1, s2}
  None = None
  Limits = {1, 2}
  Asked <- AskedQuotas
  Initial <- InitialPolicies
  MaxAttempts = 1
  MaxChanges = 1
INVARIANTS TypeOK NumbersDiffer
PROPERTIES RoomHolds
SYMMETRY Alike
CHECK_DEADLOCK FALSE
