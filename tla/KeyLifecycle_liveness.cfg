SPECIFICATION FairSpec
CONSTANTS
  Keys = {k1}
  u1 = u1
  Users <- MCUsers
  Owner <- MCOwner
  PeerIds = {p1, p2}
  None = None
  MaxAttempts = 2
  RearmCap = 2
  AgentDies = TRUE
  CallsLinger = FALSE
  MaxRequests = 2
  MaxCrashes = 1
  MaxDue = 6

INVARIANT NoStrandedPeer
PROPERTIES ProvisioningEnds RevokingEnds ImplementsKeyPromise
CHECK_DEADLOCK FALSE
