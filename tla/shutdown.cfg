SPECIFICATION ShutdownSpec
CONSTANTS
  NoThread = NoThread
  Threads = {t1, t2, t3}
  Callers = {c1, c2}
  MaxTasks = 3
  Destroyer = Destroyer
INVARIANTS
  DestroyExclusive
  TasksKept
PROPERTIES
  LockComesBack
CHECK_DEADLOCK FALSE
