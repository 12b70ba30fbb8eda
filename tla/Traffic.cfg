SPECIFICATION TrafficSpec
CONSTANTS
  Keys = {k1}
  Null = Null
  Size = 2
  Keep = 4
  Raw = 2
  SampleEvery = 1
  MaxSilence = 1
  MaxTime = 5
  MaxBytes = 2
  MaxChanges = 1
  MaxSyncs = 1
INVARIANTS CountedOnce SettledAreComplete
CHECK_DEADLOCK FALSE
