SPECIFICATION FairSpec
CONSTANTS
  NoThread = NoThread
  Loop = Loop
  Workers = {w1, w2, w3}
  MaxItems = 4
  MaxIntr = 1
  MaxMissed = 1
INVARIANTS
  LockGuardsList
  OneOwner
  CalledOnce
  TokenBalance
  BoundedOvertaking
PROPERTIES
  EveryMessageServed
  ImplementsWorkQueue
CHECK_DEADLOCK FALSE
