SPECIFICATION Spec
CONSTANTS
  Tasks = {t1, t2}
  MainNames <- OneGlobal
  GrainNames <- OneGrainGlobal
  GrainTop = 1
  LocalNames = {}
  SharedNames = {}
  Calls <- OwnCalls
  Awaiters = {"main"}
  SpawnEarly = TRUE
  MaxObj = 4
  MaxContent = 1
SYMMETRY TaskSymmetry
INVARIANTS NoSharedMutable ReadYourWrites ReadsItsVariable
CHECK_DEADLOCK FALSE
