CONSTANTS
  MaxInt = 100
  Trees <- MCTrees
  Originals <- MCOriginals
  Typed <- MCTyped
  Readings <- MCReadings
SPECIFICATION Spec
INVARIANTS
  ReadsBack
  SpellsBack
  AcceptedIsLegal
PROPERTIES
  RecoversLocally
CHECK_DEADLOCK FALSE
