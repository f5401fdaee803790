CONSTANTS
  r1 = r1
  r2 = r2
  a1 = a1
  Users = {u1}
  OptedIn = {u1}
  Requests = {r1, r2}
  Runs = {a1}
  Scenarios <- MCScenarios
  Names <- MCNames
  SubjectLimit = 1
  TopicCounts = {20}
  Starrable = {1}
  MaxSubjects = 2
  MaxDeaths = 1
SPECIFICATION FairSpec
INVARIANTS LimitHolds RoadmapRequested FlagsAnswered NamesShared
PROPERTY IdleLearnerIsServed
