SPECIFICATION Spec
CONSTANTS
  Grains = {"a", "b", "c", "d"}
  Unreadable = {"d"}
  MaxDepth = 4
INVARIANTS LoadingExact
CHECK_DEADLOCK FALSE
