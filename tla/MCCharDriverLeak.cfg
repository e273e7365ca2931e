\* An entry is evicted: who frees its memory?
CONSTANTS
  p = p
  q = q
  r = r
  a = a
  b = b
  NULL = NULL
  NL = NL
  Junk = Junk
  MaxOps = 2
  Procs = {p, q}
  Does <- TwoWriters
  Pointers = {m1, m2, m3}
  Chunks <- WholeLines
  Counts = {1, 3}
  SeekOffs = {0, 1}
  Whences = {0, 1}
  SeekTos <- MCSeekTos
  Interruptible = FALSE
  Faults = {}
  MaxWrites = 3
  MaxPos = 3
SPECIFICATION Spec
INVARIANTS
  AddedMemoryIsManaged
