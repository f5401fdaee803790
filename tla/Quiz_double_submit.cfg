CONSTANTS
  LevelOf <- OneTopic
  Checks = {}
  Requests = {r1, r2}
  Offered = {"NORMAL", "ADVANCED"}
  MaxAttempts = 2
  MaxEnrolments = 1
  Crashes = FALSE
SPECIFICATION Spec
INVARIANT EachAttemptCountsOnce
CHECK_DEADLOCK FALSE
