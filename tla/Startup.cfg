SPECIFICATION StartupSpec
CONSTANTS
  app1 = app1
  app2 = app2
  App = {app1, app2}
  Nobody = Nobody
  p1 = p1
  p2 = p2
  p3 = p3
  Pid = {p1, p2, p3}
  NoPid = NoPid
  PidReuse = TRUE
  Interrupts = FALSE
  MaxForeign = 1
  Limited = {}
  c1 = c1
  c2 = c2
  Command = {c1, c2}
  CommandOf <- Commands
  Lookalike = {c2}
INVARIANTS OneInstance Readopted
SYMMETRY Symmetry
