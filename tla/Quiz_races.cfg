CONSTANTS
  LevelOf <- OneTopic
  Checks = {}
  Requests = {r1, r2}
  Offered = {"NORMAL", "ADVANCED"}
  MaxAttempts = 1
  MaxEnrolments = 2
  Crashes = FALSE
SYMMETRY Symmetry
SPECIFICATION Spec
INVARIANTS PassIsRecorded TopicLedger SubjectLedger
PROPERTY ImplementsLadder
CHECK_DEADLOCK FALSE
