SPECIFICATION FairSpec
CONSTANTS
  Threads = {t1, t2, t3}
  Values = {v1, v2}
  Capacity = 2
  MaxSends = 3
INVARIANTS SleepersBlocked
PROPERTIES ImplementsFifo CloseReleasesAll ValuesDelivered
CHECK_DEADLOCK FALSE
