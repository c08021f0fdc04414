SPECIFICATION QuietingSpec
CONSTANTS
  h1 = h1
  h2 = h2
  clean = clean
  slow = slow
  bad = bad
  NoFault = NoFault
  NoLease = NoLease
  NoTopology = NoTopology
  Ports <- MCPorts
  Topologies <- MCTopologies
  Decisions <- FewDecisions
  OperatorFaults <- FewOperatorFaults
  Profiles <- MCProfiles
  ValidProfiles <- MCValidProfiles
  DefaultProfile = clean
  MaxBatch = 2
  MaxNow = 5
  RateLimitLease = 2
  DropLease = 1
  QuarantineLease = 3
  AssumedFrameBytes = 1
INVARIANTS
  BoundedContainment
  OnlyValidFaults
PROPERTIES
  LeaseNeverWeakens
  DeadLeaseStaysDead
  EventuallyReleased
