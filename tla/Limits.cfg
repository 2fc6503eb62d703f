SPECIFICATION Spec
CONSTANTS
  n1 = n1
  n2 = n2
  o1 = o1
  o2 = o2
  p1 = p1
  p2 = p2
  p3 = p3
  Name = {n1, n2}
  Obj = {o1, o2}
  Proc = {p1, p2}
  Limit <- MCLimit
  MaxIndex = 2
  None = None
SYMMETRY Symmetry
INVARIANTS TypeOK Capped OwnGroup
CHECK_DEADLOCK FALSE
