\* A writer beside a process that seeks and reads; signals, failing calls.
CONSTANTS
  p = p
  q = q
  r = r
  a = a
  b = b
  NULL = NULL
  NL = NL
  Junk = Junk
  MaxOps = 2
  Procs = {p, q}
  Does <- WriterAndReader
  Pointers = {m1, m2, m3, m4}
  Chunks <- TwoChunks
  Counts = {3}
  SeekOffs <- MinusOneToOne
  Whences = {0, 1}
  SeekTos <- MCSeekTos
  Interruptible = TRUE
  Faults = {"kmalloc", "krealloc", "user"}
  MaxWrites = 3
  MaxPos = 2
SPECIFICATION FairSpec
INVARIANTS
  WalkSeesWritten
PROPERTIES
  CallsReturn
