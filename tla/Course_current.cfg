CONSTANTS
  u1 = u1
  u2 = u2
  e1 = e1
  e2 = e2
  Users = {u1, u2}
  Editors = {e1, e2}
  Levels <- MCLevels
  TempShift = 100
  MaxOrder = 214
  Scenarios <- MCLearners
  MaxTopics = 4
  MaxInsert = 2
  EditLevels = {1}
CHECK_DEADLOCK FALSE
SPECIFICATION Spec
INVARIANT CurrentIsFirst
