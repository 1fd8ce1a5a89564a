SPECIFICATION FairSpec
CONSTANTS
  Motors <- MCMotors
  Radix = 2
  Values = {0, 1, 2, 3}
  Faults = {"lost", "sensor", "crash", "alarm"}
  Points <- MCPoints
  Home = 0
  Origin = 1
  angle <- MCangle
  Legal <- MCLegal
  Services = {"point", "path", "relativePath", "relativePath_json"}
  MaxPath = 2
INVARIANTS ShadowAgrees LocationAgrees SucceededIsUnderway
PROPERTIES MotionIsChecked CallEnds
