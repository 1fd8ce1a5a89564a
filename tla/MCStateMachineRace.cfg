SPECIFICATION Spec
CONSTANTS
  modes = {"NORMAL", "CRITICAL_ERROR"}
  Refusable = {}
  Concurrent = TRUE
  MaxDepth = 2
INVARIANT SafeMeansOff
CHECK_DEADLOCK FALSE
