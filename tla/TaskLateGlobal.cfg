SPECIFICATION Spec
CONSTANTS
  Tasks = {t1}
  MainNames <- TwoGlobals
  GrainNames <- NoGlobals
  GrainTop = 0
  LocalNames = {}
  SharedNames = {}
  Calls <- OwnCalls
  Awaiters = {"main"}
  SpawnEarly = TRUE
  MaxObj = 4
  MaxContent = 1
SYMMETRY TaskSymmetry
INVARIANT InRange
CHECK_DEADLOCK FALSE
