\* Three users, no signal and no failing call, but llseek(SEEK_END).
CONSTANTS
  p = p
  q = q
  r = r
  a = a
  b = b
  NULL = NULL
  NL = NL
  Junk = Junk
  MaxOps = 2
  Procs = {p, q, r}
  Does <- ThreeUsers
  Pointers = {m1, m2}
  Chunks <- TwoChunks
  Counts = {3}
  SeekOffs = {0}
  Whences = {0, 2}
  SeekTos = {}
  Interruptible = FALSE
  Faults = {}
  MaxWrites = 2
  MaxPos = 2
SPECIFICATION FairSpec
PROPERTIES
  CallsReturn
CHECK_DEADLOCK FALSE
