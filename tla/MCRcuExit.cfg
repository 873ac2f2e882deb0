SPECIFICATION Spec
CONSTANTS
  o1 = o1
  o2 = o2
  o3 = o3
  o4 = o4
  o5 = o5
  Objs <- MCObjs
  NULL = NULL
  Fields = {"a", "c"}
  Reads = 1
  Updates = 2
SYMMETRY ObjSymmetry
CHECK_DEADLOCK FALSE
INVARIANTS
  OldOrNew
