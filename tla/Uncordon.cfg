SPECIFICATION Spec
CONSTANTS
  Second = 1
  Minute = 1
  TTLSetting <- NotSet
  DeadlineSetting <- NotSet
  DeadlineMaxSetting <- NotSet
  DefaultTTL = 1
  DefaultDeadline = 1
  Plan = {"p", "q"}
  Shapes <- ExclusiveShapes
  UserCordons = FALSE
  BackoffLimit = 1
  Threads = 2
  MaxFaults = 0
CHECK_DEADLOCK FALSE
PROPERTIES
  CordonedBefore
