\* One process writes, seeks and reads, another one reads and seeks.
CONSTANTS
  p = p
  q = q
  r = r
  a = a
  b = b
  NULL = NULL
  NL = NL
  Junk = Junk
  MaxOps = 2
  Procs = {p, q}
  Does <- OneWriter
  Pointers = {m1, m2, m3}
  Chunks <- MCChunks
  Counts = {1, 3}
  SeekOffs = {0, 1}
  Whences = {0, 1}
  SeekTos <- MCSeekTos
  Interruptible = FALSE
  Faults = {"kmalloc"}
  MaxWrites = 3
  MaxPos = 3
SPECIFICATION Spec
INVARIANTS
  TypeOK
  LockDiscipline
  HeapOwnership
PROPERTIES
  ImplementsDevice
