SPECIFICATION FairSpec
CONSTANTS
  modes = {"NORMAL", "E_STOP"}
  Refusable = {}
  Concurrent = FALSE
  MaxDepth = 2
PROPERTY ModeIsObeyed
CHECK_DEADLOCK FALSE
