SPECIFICATION Spec
CONSTANTS
  Node = {"n1", "n2"}
  HostnameValue = {"n1", "n2"}
  Hostname <- MCHostname
  Rank <- MCRank
  NodeOrder <- MCNodeOrder
  Message <- MCMessage
  RawVersion = {"v1+r", "v2"}
  Version = {"v1-r", "v2"}
  Munge <- MCMunge
  Upgrade = {"u1"}
  Secret = {}
  PollingInterval = 1
  Specs <- VersionSpecs
  InitialSpecs <- BaseSpecs
  PlanReplaced = FALSE
  UserNodes = {}
  BlockedNodes = {}
  Threads = 1
  LateHandlers = FALSE
  SecretVanishes = FALSE
  MaxEdits = 1
  MaxFaults = 0
  MaxEvents = 1
INVARIANTS
  NodesAtOnce
CHECK_DEADLOCK FALSE
