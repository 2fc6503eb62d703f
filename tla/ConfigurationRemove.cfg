SPECIFICATION Spec
CONSTANTS
  thread1 = thread1
  thread2 = thread2
  name1 = name1
  name2 = name2
  obj1 = obj1
  obj2 = obj2
  obj3 = obj3
  Thread = {thread1, thread2}
  Name = {name1}
  Obj = {obj1, obj2, obj3}
  None = None
  ShortRunning = FALSE
  WriteFails = FALSE
  Crashes = FALSE
INVARIANT RemovedStaysDown
