SPECIFICATION Spec
CONSTANTS
  CloseWakes = FALSE
  MaxWaiting = 1
PROPERTIES
  StopReturns
CHECK_DEADLOCK FALSE
