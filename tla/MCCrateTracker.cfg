SPECIFICATION FairSpec
CONSTANTS
  Names = {"a"}
  Places = {0, 1, 2, 3, 4}
  stableFrames = 5
  movementThreshold = 1
INVARIANTS AnswersAgree DriftBounded MovingLasts
PROPERTIES ImplementsCrateStream GoneIsTold StillIsTold
