SPECIFICATION Spec
CONSTANTS
  Motors <- MCMotors
  Radix = 2
  Values = {0, 1, 2, 3}
  Faults = {"late"}
  Points <- MCPoints
  Home = 0
  Origin = 1
  angle <- MCangle
  Legal <- MCLegal
  Services = {"point"}
  MaxPath = 1
PROPERTY MotionIsChecked
