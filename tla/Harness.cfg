SPECIFICATION FairSpec
CONSTANTS
  s1 = s1  s2 = s2
  Suggestions = {s1, s2}
  IdOf <- MCIdOf
  MaxWait = 0
  Courses <- MCCourses
  MaxEvents = 3
  MaxTears = 1
  MaxFailures = 2
  MaxLogResets = 1
INVARIANTS
  TypeOK
  JobsAreResumed
  ResultStands
  DeliveryHolds
PROPERTIES
  EvaluationEnds
CHECK_DEADLOCK FALSE
