SPECIFICATION FairSpec
CONSTANTS
  PeerIds = {p1, p2, p3}
  Names = {n1, n2}
  p1 = p1
  p2 = p2
  n1 = n1
  n2 = n2
  Backups <- MCBackups
  None = None
  Blocked = Blocked
  Keep = Keep
  ServerHost = 1
  LastHost = 3
  MaxPeers = 2
  MaxTime = 1
  MaxFailures = 1
INVARIANTS TypeOK AddressesSharedOnlyIfLent AddressIsRemembered DeletedIsCutOff
PROPERTIES ExpiredGetsBlocked ImplementsPeerFiles
CHECK_DEADLOCK FALSE
