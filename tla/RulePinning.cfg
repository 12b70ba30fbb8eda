SPECIFICATION FairSpec
CONSTANTS
  Versions = {v1, v2, v3}
  Valid = {v1, v2}
  Admins = {ann, bob}
  Fetchers = {timer}
  None = None
  MaxActions = 2
  MaxFeeds = 1
INVARIANTS TypeOK PinnedIsActiveUnlessRaced
PROPERTIES StaysServed UnpinnedFollowsFeed
CHECK_DEADLOCK FALSE
