SPECIFICATION SendSpec
CONSTANTS
  SendThreads = {d1}
  MaxReplies = 2
  ReplyLens = {1, 2}
  Room = 3
  MaxDrains = 1
INVARIANTS
  SentOnce
CHECK_DEADLOCK FALSE
