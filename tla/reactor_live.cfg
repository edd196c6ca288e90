SPECIFICATION FairSpec
CONSTANTS
  None = None
  Listener = Listener
  Clients = {k1, k2}
  Conns = {c1, c2}
  Senders = {}
  Fds = {5, 6}
  MaxSends = 1
  AddMayFail = TRUE
  MayReset = FALSE
PROPERTIES
  EveryClientAccepted
  
  EndSeen
CHECK_DEADLOCK FALSE
