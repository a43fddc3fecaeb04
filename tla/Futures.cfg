SPECIFICATION FairSpec
CONSTANTS
  Tasks = {t1, t2}
  Promises = {p1}
  MaxHandles = 2
INVARIANTS DropNeverBlocks
PROPERTIES OutcomeFinal RaceEnds TrackerDrains
CHECK_DEADLOCK FALSE
