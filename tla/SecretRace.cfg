SPECIFICATION Spec
CONSTANTS
  Node = {"n1"}
  HostnameValue = {"n1"}
  Hostname <- MCHostname
  Rank <- MCRank
  NodeOrder <- MCNodeOrder
  Message <- MCMessage
  RawVersion = {"v1+r", "v2"}
  Version = {"v1-r", "v2"}
  Munge <- MCMunge
  Upgrade = {"u1"}
  Secret = {"s1"}
  PollingInterval = 1
  Specs <- ChangeSpecs
  InitialSpecs <- WatchingSpecs
  PlanReplaced = FALSE
  UserNodes = {}
  BlockedNodes = {}
  Threads = 1
  LateHandlers = FALSE
  SecretVanishes = TRUE
  MaxEdits = 1
  MaxFaults = 0
  MaxEvents = 1
INVARIANTS
  CompleteTruthful
CHECK_DEADLOCK FALSE
