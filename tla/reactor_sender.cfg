SPECIFICATION Spec
CONSTANTS
  None = None
  Listener = Listener
  Clients = {k1, k2}
  Conns = {c1, c2}
  Senders = {s1}
  Fds = {5, 6}
  MaxSends = 1
  AddMayFail = FALSE
  MayReset = TRUE
SYMMETRY Interchangeable
INVARIANTS
  NoneLost
  LoopSurvives
  NoOrphan
  PoolSound
CHECK_DEADLOCK FALSE
