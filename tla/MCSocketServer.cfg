\* Three clients, lines and a seek, that may leave, and a signal.
CONSTANTS
  c = c
  d = d
  e = e
  x = x
  y = y
  NoClient = NoClient
  NL = NL
  NUL = NUL
  Junk = Junk
  BufferSize = 5
  MaxOps = 2
  Clients = {c, d, e}
  Request <- TwoLinesAndSeek
  SeekTos <- MCSeekTos
  Idle = {}
  Segments = FALSE
  StackReused = FALSE
  Leavers = {d}
  MaxSignals = 1
SPECIFICATION FairSpec
INVARIANTS
  TypeOK
  ThreadsAreOutlived
  
PROPERTIES
  AnswerIsTheContents
  ClientsAreServed
  ShutdownCompletes
CHECK_DEADLOCK FALSE
