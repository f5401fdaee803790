CONSTANTS
  Callers = {c1, c2}
  TaskIds = {k1, k2, k3}
  MaxRetries = 1
  Faults = {"broker", "lost", "redelivered", "slow"}
SPECIFICATION FairSpec
INVARIANTS SingleBuilder TopicsInsertedOnce ReadyHasTopics
PROPERTIES ImplementsLifecycle NoneStuck
CHECK_DEADLOCK FALSE
