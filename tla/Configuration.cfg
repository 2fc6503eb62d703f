SPECIFICATION Spec
CONSTANTS
  thread1 = thread1
  thread2 = thread2
  name1 = name1
  name2 = name2
  obj1 = obj1
  obj2 = obj2
  obj3 = obj3
  Thread = {thread1, thread2}
  Name = {name1, name2}
  Obj = {obj1, obj2}
  None = None
  ShortRunning = TRUE
  WriteFails = TRUE
  Crashes = TRUE
INVARIANTS TypeOK UniqueNames DiskCoherent
PROPERTY StoppedStaysDown
SYMMETRY Symmetry
