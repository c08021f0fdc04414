SPECIFICATION SSpec
CONSTANTS
  h1 = h1
  h2 = h2
  clean = clean
  bad = bad
  s1 = s1
  s2 = s2
  NoFault = NoFault
  NoLease = NoLease
  NoTopology = NoTopology
  NoSender = NoSender
  NoPort = NoPort
  NoSource = NoSource
  Ports <- MCPorts
  Topologies <- FixedTopologies
  Decisions <- MCDecisions
  OperatorFaults <- MCOperatorFaults
  Profiles <- MCProfiles
  ValidProfiles <- MCValidProfiles
  DefaultProfile = clean
  MaxBatch = 2
  MaxNow = 3
  RateLimitLease = 1
  DropLease = 1
  QuarantineLease = 3
  AssumedFrameBytes = 1
  Senders <- MCSenders
  Traffic <- MCTraffic
  MaxBatchFrames = 2
  TickInterval = 1
  RuleAction <- MCRuleAction
  RuleRate <- MCRuleRate
  Window = 2
  Threshold <- MCThreshold
  MaxFrames = 5
INVARIANTS
  StormIsCutOff
PROPERTIES
  QuarantineStopsForwarding
