CONSTANTS
  c1 = c1
  s1 = s1
  s2 = s2
  x = x
  Confirms = {c1}
  Schedules = {s1, s2}
  Plans <- MCPlans
  Existing = {x}
  NoUid = none
  MaxAttempts = 3
SPECIFICATION FairSpec
INVARIANTS
  TypeOK
  ConfirmMeansWritten
  ScheduleAllOrNothing
PROPERTIES
  RollbackDeletesOwnWrites
  EveryRequestEnds
CHECK_DEADLOCK FALSE
