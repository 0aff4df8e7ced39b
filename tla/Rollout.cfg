SPECIFICATION Spec
CONSTANTS
  Node = {"n1", "n2"}
  HostnameValue = {"n1", "n2"}
  Hostname <- MCHostname
  Rank <- MCRank
  NodeOrder <- MCNodeOrder
  Message <- MCMessage
  RawVersion = {"v1+r"}
  Version = {"v1-r"}
  Munge <- MCMunge
  Upgrade = {"u1"}
  Secret = {}
  PollingInterval = 1
  Specs <- RolloutSpecs
  InitialSpecs <- RolloutSpecs
  PlanReplaced = FALSE
  UserNodes = {}
  BlockedNodes = {}
  Threads = 2
  LateHandlers = FALSE
  SecretVanishes = FALSE
  MaxEdits = 0
  MaxFaults = 1
  MaxEvents = 1
INVARIANTS
  TypeOK
  LabelEarned
  CompleteTruthful
  RegisteredFirst
  NodesAtOnce
  FailureReported
PROPERTIES
  InTurnKept
  KeepsContract
