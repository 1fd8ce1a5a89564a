SPECIFICATION FairSpec
CONSTANTS
  Topics = {"instruction"}
  MaxWrites = 3
  MaxReaders = 2
INVARIANTS OnlyNewEntries LossIsBounded NewestStays
PROPERTY NewIsTold
CHECK_DEADLOCK FALSE
