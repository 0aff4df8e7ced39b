SPECIFICATION FairSpec
CONSTANTS
  Node = {"n1"}
  HostnameValue = {"n1"}
  Hostname <- MCHostname
  Rank <- MCRank
  NodeOrder <- MCNodeOrder
  Message <- MCMessage
  RawVersion = {"v1+r"}
  Version = {"v1-r"}
  Munge <- MCMunge
  Upgrade = {"u1"}
  Secret = {}
  PollingInterval = 1
  Specs <- BaseSpecs
  InitialSpecs <- BaseSpecs
  PlanReplaced = TRUE
  UserNodes = {}
  BlockedNodes = {}
  Threads = 1
  LateHandlers = FALSE
  SecretVanishes = FALSE
  MaxEdits = 1
  MaxFaults = 2
  MaxEvents = 2
INVARIANTS
  LabelEarned
  CompleteTruthful
  CacheConfirmed
PROPERTIES
  Settles
  KeepsContract
