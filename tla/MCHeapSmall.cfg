SPECIFICATION Spec
CONSTANTS
  NULL = NULL
  PageUnits = 6
  StartPages = 1
  SizeSpan = 64
  MaxPages = 3
  Sizes <- SmallSizes
INVARIANT BlocksHoldRequest
CHECK_DEADLOCK FALSE
