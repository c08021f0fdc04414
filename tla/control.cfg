\* An operator and a client that only listens, both slow; one may leave.
SPECIFICATION CarefulSpec
CONSTANTS
  a = a
  b = b
  port = port
  NoRun = NoRun
  NoTarget = NoTarget
  Unconnected = Unconnected
  Clients <- TwoClients
  Operators <- OnlyA
  Consoles <- Nobody
  Leaving <- OnlyB
  Connections <- TwoConnections
  Targets <- MCTargets
  Topologies <- MCTopologies
  Commands <- AllCommands
  Backends <- Streaming
  MaxClients = 2
  MaxInbox = 1
  MaxPending = 2
  SocketBuffer = 1
  PacketsPerPoll = 1
  PacketCount = 3
  BatchSize = 2
  MaxPublished = 0
  MaxCommands = 2
  MaxResyncs = 0
INVARIANTS
  GaplessStreams
  RevisionsNeverGoBack
  AnsweredOnce
  ResultEndsRun
PROPERTIES
  EveryRequestIsRead
  BenchmarkEnds
