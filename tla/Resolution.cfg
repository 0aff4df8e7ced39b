SPECIFICATION FairSpec
CONSTANTS
  Message <- MCMessage
  RawVersion = {"v1", "v2+r", "stable"}
  Version = {"v1", "v2-r", "stable"}
  Munge <- MCMunge
  Upgrade = {"u1"}
  Secret = {}
  PollingInterval = 2
  Specs <- MCSpecs
  InitialSpecs <- MCInitialSpecs
  Response <- MCResponse
  UrlBase = "stable"
  IntervalSetting <- NotSet
  DefaultInterval = 2
  Minute = 1
  MaxEdits = 1
  MaxMoves = 1
  MaxFaults = 1
INVARIANTS
  TypeOK
  ChannelVersionGiven
  NextPollComes
  StaticVersionRules
PROPERTIES
  NoLateAnswer
  FollowsChannel
