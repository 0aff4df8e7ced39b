SPECIFICATION FairSpec
CONSTANTS
  Node = {"n1", "n2", "n3"}
  HostnameValue = {"n1", "n2", "n3"}
  Hostname <- MCHostname
  Rank <- MCRank
  NodeOrder <- MCNodeOrder
  Message <- MCMessage
  RawVersion = {"v1+r"}
  Version = {"v1-r"}
  Munge <- MCMunge
  Upgrade = {"u1"}
  Secret = {}
  PollingInterval = 1
  Specs <- DelaySpecs
  InitialSpecs <- DelaySpecs
  PlanReplaced = FALSE
  UserNodes = {"n1", "n3"}
  BlockedNodes = {"n3"}
  Threads = 1
  LateHandlers = TRUE
  SecretVanishes = FALSE
  MaxEdits = 1
  MaxFaults = 0
  MaxEvents = 1
INVARIANTS
  DelayHeld
  CompleteTruthful
PROPERTIES
  Settles
