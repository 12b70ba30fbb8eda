SPECIFICATION FairSpec
CONSTANTS
  Ids = {c1, c2}
  c1 = c1
  c2 = c2
  None = None
  Missing = Missing
  Cut = Cut
  Torn = Torn
  Backups <- MCBackups
  Keep = Keep
  MaxPeers = 1
  MaxTime = 1
  MaxCalls = 1
  MaxFailures = 1
INVARIANTS TypeOK AnswersHold
PROPERTIES ExpiredIsCutOff
CHECK_DEADLOCK FALSE
