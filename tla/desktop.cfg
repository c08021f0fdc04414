SPECIFICATION Spec
CONSTANTS
  Ids <- MCIds
  Files <- MCFiles
  Backends <- MCBackends
  NoTopology = NoTopology
  RuleNames = {"rule"}
  PacketsPerTick = 2
  LeaseTime = 1
  MaxTicks = 2
  MaxFailures = 1
  PacketCount = 3
  BatchSize = 2
  NoRun = NoRun
  MaxCommands = 5
INVARIANTS
  ViewsAgree
  CountersBalance
PROPERTIES
  CategoriesMarked
  ReportEnds
  ExpiredLeasesGo
CHECK_DEADLOCK FALSE
