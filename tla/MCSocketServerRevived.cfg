\* One signal, no client.
CONSTANTS
  c = c
  d = d
  e = e
  x = x
  y = y
  NoClient = NoClient
  NL = NL
  NUL = NUL
  Junk = Junk
  BufferSize = 5
  MaxOps = 2
  Clients = {c, d}
  Request <- TwoLines
  SeekTos <- MCSeekTos
  Idle = {}
  Segments = FALSE
  StackReused = FALSE
  Leavers = {}
  MaxSignals = 1
SPECIFICATION FairSpec
PROPERTIES
  SignalsEndTheServer
CHECK_DEADLOCK FALSE
