SPECIFICATION Spec
CONSTANTS
  Keys = {k1}
  u1 = u1
  Users <- MCUsers
  Owner <- MCOwner
  PeerIds = {p1, p2}
  None = None
  MaxAttempts = 2
  RearmCap = 2
  AgentDies = FALSE
  CallsLinger = TRUE
  MaxRequests = 3
  MaxCrashes = 1
  MaxDue = 6
SYMMETRY Symmetry
INVARIANTS TypeOK DeleteNeverLost QuietKeyMatchesNode
CHECK_DEADLOCK FALSE
