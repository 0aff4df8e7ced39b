SPECIFICATION FairSpec
CONSTANTS
  Node = {"n1"}
  HostnameValue = {"n1"}
  Hostname <- MCHostname
  Rank <- MCRank
  NodeOrder <- MCNodeOrder
  Message <- MCMessage
  RawVersion = {"v1+r", "v2"}
  Version = {"v1-r", "v2"}
  Munge <- MCMunge
  Upgrade = {"u1", "u2"}
  Secret = {"s1"}
  PollingInterval = 1
  Specs <- EditSpecs
  InitialSpecs <- WaitingSpecs
  PlanReplaced = TRUE
  UserNodes = {}
  BlockedNodes = {}
  Threads = 1
  LateHandlers = FALSE
  SecretVanishes = FALSE
  MaxEdits = 1
  MaxFaults = 0
  MaxEvents = 1
INVARIANTS
  LabelEarned
  PostLabelEarned
  CompleteTruthful
PROPERTIES
  Settles
  KeepsContract
