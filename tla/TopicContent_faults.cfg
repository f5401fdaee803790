CONSTANTS
  NumTopics = 1
  Callers = {c1}
  TaskIds = {k1, k2}
  MaxRetries = 1
  ReviewLimit = 2
  Faults = {"broker", "lost", "redelivered", "slow"}
SPECIFICATION FairSpec
INVARIANTS SingleFlight ReadyMeansReviewed
PROPERTIES ReadyIsFinal ImplementsLifecycle NoneStuck
