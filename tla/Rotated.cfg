SPECIFICATION Spec
CONSTANTS
  Node = {"n1"}
  HostnameValue = {"n1"}
  Hostname <- MCHostname
  Rank <- MCRank
  NodeOrder <- MCNodeOrder
  Message <- MCMessage
  RawVersion = {"v1+r"}
  Version = {"v1-r"}
  Munge <- MCMunge
  Upgrade = {"u1"}
  Secret = {"s1", "s2"}
  PollingInterval = 1
  Specs <- WatchingSpecs
  InitialSpecs <- WatchingSpecs
  PlanReplaced = FALSE
  UserNodes = {}
  BlockedNodes = {}
  Threads = 1
  LateHandlers = FALSE
  SecretVanishes = FALSE
  MaxEdits = 1
  MaxFaults = 0
  MaxEvents = 1
INVARIANTS
  OneJobRetained
CHECK_DEADLOCK FALSE
