SPECIFICATION FairSpec
CONSTANTS
  NoThread = NoThread
  Threads = {t1, t2, t3}
  Callers = {c1, c2}
  MaxTasks = 3
INVARIANTS
  TypeOK
  NoThreadExits
  NoLostWakeup
  OnePlace
PROPERTIES
  ImplementsWorkQueue
  EveryTaskStarts
