CONSTANTS
  Requests = {r1, r2}
  LockTime = 2
  Base = 1
  Longest = 3
  Reset = 4
  MaxTime = 6
  ResetTokens = {t1, t2}
  MaxPassword = 2
  MaxName = 1
  Learners = {l1, l2}
  NumUsers = 3
  MaxPoints = 2
  BoardLimit = 2
  ListLimit = 1
SYMMETRY Symmetry
SPECIFICATION AllSpec
INVARIANTS MutualExclusion BackoffKept SessionsProvePassword LinksEndWithPassword
INVARIANTS PreferencesExist ResultHasReason PagesAreCurrent StandingsAreFair
CHECK_DEADLOCK FALSE
