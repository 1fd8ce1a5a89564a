SPECIFICATION FairSpec
CONSTANTS
  measurements = 2
  maxErrors = 2
  MaxFrames = 4
INVARIANTS WholeMeasurements TrackerIsAlone
PROPERTY TransitionsEnd
