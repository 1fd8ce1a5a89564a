SPECIFICATION FairSpec
CONSTANTS
  modes = {"NORMAL", "ERROR", "CRITICAL_ERROR", "LOCK"}
  Refusable = {"SETUP", "START", "STOP", "SHUTDOWN"}
  Concurrent = FALSE
  MaxDepth = 2
INVARIANTS DeviceAgrees OneTransitionAtATime
PROPERTIES AllOrNothing ImplementsLifecycle ModeIsObeyed GoalIsAnswered
CHECK_DEADLOCK FALSE
