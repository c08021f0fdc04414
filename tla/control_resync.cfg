\* A console that sends a reload, resynchronises and reconnects; a port it contains.
SPECIFICATION CarefulSpec
CONSTANTS
  a = a
  b = b
  port = port
  NoRun = NoRun
  NoTarget = NoTarget
  Unconnected = Unconnected
  Clients <- OneClient
  Operators <- OnlyA
  Consoles <- OnlyA
  Leaving <- Nobody
  Connections <- ThreeConnections
  Targets <- MCTargets
  Topologies <- MCTopologies
  Commands <- OnlyReload
  Backends <- Streaming
  MaxClients = 2
  MaxInbox = 1
  MaxPending = 2
  SocketBuffer = 1
  PacketsPerPoll = 1
  PacketCount = 3
  BatchSize = 2
  MaxPublished = 1
  MaxCommands = 1
  MaxResyncs = 2
INVARIANTS
  ResyncIsFresh
PROPERTIES
  QueryGetsItsAnswer
