SPECIFICATION Spec
CONSTANTS
  Topics = {"instruction", "other"}
  MaxWrites = 3
  MaxReaders = 2
INVARIANTS OnlyNewEntries LossIsBounded NewestStays
CHECK_DEADLOCK FALSE
