SPECIFICATION Spec
CONSTANTS
  Null = Null
  a = a  f = f  u = u
  a1 = a1 f1 = f1 f2 = f2 u1 = u1
  r1 = r1 r2 = r2 k1 = k1 p1 = p1 t1 = t1 t2 = t2
  Tracked = {a}
  Untracked = {f, u}
  Upvalues = {u}
  OwnSlots = {a1, f1, u1}
  BorrowSlots = {f2}
  OpaqueSlots = {}
  RootSlots = {r1, r2}
  UpvalueSlots = {k1}
  PinSlots = {p1}
  TaskSlots = {t1, t2}

  Owner <- OwnerUpvalue
  ThresholdMin = 1
  ThresholdMax = 2
  MaxAllocs = 2
INVARIANTS SweptUnreachable CyclesReclaimed NoDangling NoMiscount
CHECK_DEADLOCK FALSE
PROPERTY CollectionAdvances
SYMMETRY Symmetry
