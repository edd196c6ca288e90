SPECIFICATION Spec
CONSTANTS
  None = None
  Listener = Listener
  Clients = {k1, k2}
  Conns = {c1, c2}
  Senders = {}
  Fds = {5, 6}
  MaxSends = 1
  AddMayFail = TRUE
  MayReset = TRUE
SYMMETRY Interchangeable
INVARIANTS
  ClosedNotRead
CHECK_DEADLOCK FALSE
