SPECIFICATION Spec
CONSTANTS
  NoSource = "none"
  Window = 60
  Threshold <- MCThreshold
  WordSize = 16
  NanoDigits = 2
  DefaultResolution = 1
  MaxSnaplen = 64
  Frames <- MCFrames
  Captures <- MCCaptures
  BatchSizes = {1, 2}
  RuleFor <- MCRuleFor
INVARIANTS
  DequeIsWindow
  ActiveIsJustified
  SplitIsInvisible
  CutIsNoticed
  ExportRereads
CHECK_DEADLOCK FALSE
