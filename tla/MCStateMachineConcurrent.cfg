SPECIFICATION Spec
CONSTANTS
  modes = {"NORMAL", "ERROR", "CRITICAL_ERROR"}
  Refusable = {}
  Concurrent = TRUE
  MaxDepth = 2
INVARIANTS Settled NoLostWakeup NothingLeftRunning
CHECK_DEADLOCK FALSE
