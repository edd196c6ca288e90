SPECIFICATION Spec
CONSTANTS
  None = None
  Listener = Listener
  Clients = {k1, k2}
  Conns = {c1, c2}
  Senders = {s1}
  Fds = {5, 6}
  MaxSends = 1
  AddMayFail = TRUE
  MayReset = FALSE
SYMMETRY Interchangeable
INVARIANTS
  RepliesReachAsker
CHECK_DEADLOCK FALSE
