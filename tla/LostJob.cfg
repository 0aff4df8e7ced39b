SPECIFICATION FairSpec
CONSTANTS
  Node = {"n1", "n2"}
  HostnameValue = {"n1", "n2"}
  Hostname <- MCHostname
  Rank <- MCRank
  NodeOrder <- MCNodeOrder
  Message <- MCMessage
  RawVersion = {"v1+r"}
  Version = {"v1-r"}
  Munge <- MCMunge
  Upgrade = {"u1"}
  Secret = {}
  PollingInterval = 1
  Specs <- BaseSpecs
  InitialSpecs <- BaseSpecs
  PlanReplaced = FALSE
  UserNodes = {}
  BlockedNodes = {}
  Threads = 1
  LateHandlers = FALSE
  SecretVanishes = FALSE
  MaxEdits = 0
  MaxFaults = 0
  MaxEvents = 0
PROPERTIES
  RegisteredRuns
