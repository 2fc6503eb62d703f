SPECIFICATION Spec
CONSTANTS
  r1 = r1
  r2 = r2
  main = main
  conf = conf
  res = res
  n1 = n1
  o1 = o1
  o2 = o2
  x1 = x1
  x2 = x2
  Rest = {r1, r2}
  Main = main
  Conf = conf
  Res = res
  Name = {n1}
  Ask <- MCAsk
  Obj = {o1, o2}
  Test = {x1, x2}
  None = None
  Together = FALSE
SYMMETRY Symmetry
INVARIANTS TypeOK NoDeadlock JoinsTheDead ReportsWhole
