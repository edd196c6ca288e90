SPECIFICATION StreamSpec
CONSTANTS
  NoThread = NoThread
  Threads = {t1, t2}
  Levels = {"ERROR", "INFO"}
  Lengths = {1, 2}
  RotateSize = 2
  MaxLines = 4
  MaxKills = 1
  MaxFailures = 1
  BufLen = 3
  MaxBytes = 7
  SendThreads = {d1, d2}
  MaxReplies = 2
  ReplyLens = {1, 2}
  Room = 2
  MaxDrains = 1
INVARIANTS
  TypeOK
  LinesKept
  LevelOfTheCall
  FileBounded
  StreamKept
  FullBuffer
  LiveReply
  
  
PROPERTIES
  CallsReturn
CHECK_DEADLOCK FALSE
