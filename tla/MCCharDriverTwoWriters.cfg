\* Two processes write, one of them reads; enough writes to wrap and evict.
CONSTANTS
  p = p
  q = q
  r = r
  a = a
  b = b
  NULL = NULL
  NL = NL
  Junk = Junk
  MaxOps = 2
  Procs = {p, q}
  Does <- TwoWriters
  Pointers = {m1, m2, m3, m4}
  Chunks <- MCChunks
  Counts = {1, 3}
  SeekOffs = {0, 1}
  Whences = {0, 1}
  SeekTos <- MCSeekTos
  Interruptible = FALSE
  Faults = {}
  MaxWrites = 4
  MaxPos = 3
SPECIFICATION Spec
INVARIANTS
  HeapOwnership
PROPERTIES
  ImplementsDevice
  ReadsContinueTheStream
