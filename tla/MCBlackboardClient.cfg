SPECIFICATION FairSpec
CONSTANTS
  Operations = {insert, update}
  MaxEntries = 3
  MaxMonitors = 2
INVARIANTS CurrentListens NothingMissed
PROPERTIES OnlyNewEntries EveryEntryIsTold
CHECK_DEADLOCK FALSE
