CONSTANTS
  Messages = {m1, m2}
  NumTopics = 1
  MaxRetries = 1
  Frequencies = {1, 2}
  Default = 2
  MaxTime = 2
  MaxRows = 2
  MaxFaults = 1
SPECIFICATION FairSpec
INVARIANTS OnSchedule
CHECK_DEADLOCK FALSE
PROPERTY CatchesUp
