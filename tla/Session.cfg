SPECIFICATION Spec
CONSTANTS
  Requests = {r1, r2}
  Idempotent = {r1}
  Keys = {k1, k2}
  Conns = {c1, c2, c3}
  PoolMaxSize = 1
  MaxRedirects = 1
SYMMETRY ConnSymmetry
INVARIANTS ConnectionsExact PoolExact OwnResponse NoDoubleCommit
PROPERTIES CallsAdvance
CHECK_DEADLOCK FALSE
