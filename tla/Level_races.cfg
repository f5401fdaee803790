CONSTANTS
  LevelOf <- OneToThree
  Checks = {c1, c2}
  MaxEnrolments = 2
  Crashes = TRUE
SYMMETRY Symmetry
SPECIFICATION Spec
INVARIANT LevelEarned
PROPERTY LevelIsKept
CHECK_DEADLOCK FALSE
