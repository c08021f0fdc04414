SPECIFICATION FairSpec
CONSTANTS
  a = a
  none = none
  Payloads <- MCPayloads
  Empty = none
  Depth = 3
  MaxBatches = 5
  KernelFails = TRUE
  AllocFails = TRUE
INVARIANTS
  CursorsBoundBusySlots
  DeliveredInOrder
PROPERTIES
  ImplementsQueue
  EveryBatchReturns
