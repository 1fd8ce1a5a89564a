SPECIFICATION Spec
CONSTANTS
  Motors <- MCMotors
  Radix = 2
  Values = {0, 1, 2, 3}
  Faults = {}
  Points <- MCPoints
  Home = 0
  Origin = 1
  angle <- MCangle
  Legal <- MCLegal
  Services = {"relativePoint"}
  MaxPath = 1
INVARIANT SucceededIsUnderway
