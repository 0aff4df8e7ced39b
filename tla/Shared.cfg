SPECIFICATION FairSpec
CONSTANTS
  Second = 1
  Minute = 1
  TTLSetting <- NotSet
  DeadlineSetting <- NotSet
  DeadlineMaxSetting <- NotSet
  DefaultTTL = 1
  DefaultDeadline = 1
  Plan = {"p", "q"}
  Shapes <- MCShapes
  UserCordons = TRUE
  BackoffLimit = 1
  Threads = 2
  MaxFaults = 2
CHECK_DEADLOCK FALSE
INVARIANTS
  TypeOK
  OwnLabelEarned
  ExclusiveApart
PROPERTIES
  UncordonEarned
  CordonedFirst
  LabelArrives
  SchedulableAgain
