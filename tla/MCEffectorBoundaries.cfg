SPECIFICATION Spec
CONSTANTS
  width = 5
  depth = 4
  height = 5
  voxelSize = 2
  Grain = 2
  boxMin <- MCBoxMin
  Shapes <- MCShapes
  Points <- MCPoints
INVARIANTS TypeOK NothingOutOfReach FillForgetsNothing ConvexIsExact LegalStaysNear
CHECK_DEADLOCK FALSE
