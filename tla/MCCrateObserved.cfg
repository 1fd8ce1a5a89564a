SPECIFICATION Spec
CONSTANTS
  Names = {"a"}
  Places = {0, 2}
  stableFrames = 5
  movementThreshold = 1
PROPERTY ChangeIsObserved
