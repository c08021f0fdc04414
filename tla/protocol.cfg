\* Free documents in any order, and everything the writers of this code send.
SPECIFICATION Spec
CONSTANTS
  MaxUint32 = 25
  MaxUint64 = 255
  MaxInt64 = 127
  NsPerMs = 10
  BenchmarkRequired <- MCBenchmarkRequired
  BenchmarkOptional <- MCBenchmarkOptional
  FaultKeys <- MCFaultKeys
  MaxBatchSize = 20
  MinFrameSize = 14
  MaxFrameSize = 64
  Requests <- MCRequests
  Replies <- MCReplies
  Unicode <- MCUnicode
  OfferedCommands <- MCCommands
  NoSource = NoSource
INVARIANTS
  AcceptsTheSchema
  ReadsWhatWasWritten
  MissingIsCompletable
CHECK_DEADLOCK FALSE
