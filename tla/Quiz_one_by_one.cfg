CONSTANTS
  LevelOf <- OneTopic
  Checks = {c1}
  Requests = {r1}
  Offered = {"NORMAL", "ADVANCED"}
  MaxAttempts = 2
  MaxEnrolments = 2
  Crashes = TRUE
SPECIFICATION Spec
INVARIANT EachAttemptCountsOnce
PROPERTIES CooldownKept PassIsKept
CHECK_DEADLOCK FALSE
