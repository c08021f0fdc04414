SPECIFICATION FairSpec
CONSTANTS
  e1 = e1
  e2 = e2
  m1 = m1
  m2 = m2
  m3 = m3
  all = all
  NoEndpoint = NoEndpoint
  Endpoints <- MCEndpoints
  Macs <- MCMacs
  Broadcast = all
  Frames <- MCFrames
  Faults <- MCFaults
  SocketErrors = TRUE
  MaxFrames = 2
  MaxFaults = 2
  MaxNow = 2
INVARIANTS
  CopiesAccountedFor
  BlockedPortsAreSilent
  CapSpacesCopies
PROPERTIES
  StopEndsLoop
  DeferredCopiesLeave
CHECK_DEADLOCK FALSE
