SPECIFICATION Spec
CONSTANTS
  Self = Self
  App = {Self}
  Nobody = Nobody
  p1 = p1
  p2 = p2
  p3 = p3
  t1 = t1
  t2 = t2
  t3 = t3
  Pid = {p1, p2, p3}
  NoPid = NoPid
  PidReuse = FALSE
  Interrupts = TRUE
  MaxForeign = 0
  Timer = {t1, t2}
  NoTimer = NoTimer
  Kinds <- EveryKind
INVARIANTS TimerAlive NeverUnscheduled Supervised
PROPERTY GraceRespected
SYMMETRY Symmetry
