SPECIFICATION Spec
CONSTANTS
  None = None
  Listener = Listener
  Clients = {k1, k2, k3}
  Conns = {c1, c2}
  Senders = {}
  Fds = {5}
  MaxSends = 1
  AddMayFail = TRUE
  MayReset = TRUE
SYMMETRY Interchangeable
INVARIANTS
  TypeOK
  OneOwner
  Watched
CHECK_DEADLOCK FALSE
