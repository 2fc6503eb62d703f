SPECIFICATION FairSpec
CONSTANTS
  t1 = t1
  o1 = o1
  o2 = o2
  Thread = {t1}
  Test = {o1, o2}
  None = None
  MaxLines = 3
  QueueLimit = 2
  Interrupts = TRUE
INVARIANTS TypeOK LinesKept TestKilled OneTest
PROPERTY ClientEnds
