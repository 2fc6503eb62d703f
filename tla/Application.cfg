SPECIFICATION FairSpec
CONSTANTS
  app1 = app1
  app2 = app2
  App = {app1, app2}
  Nobody = Nobody
  p1 = p1
  p2 = p2
  p3 = p3
  Pid = {p1, p2, p3}
  NoPid = NoPid
  PidReuse = FALSE
  Interrupts = TRUE
  MaxForeign = 1
  Limited = {app1}
INVARIANTS TypeOK Supervised StoppedNotRunning ReportedPid
PROPERTIES ImplementsSupervision KillJustified KeepsRunning KeptOutOfRange StopSettles
