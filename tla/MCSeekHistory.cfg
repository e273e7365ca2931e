\* The seek ioctl beside a writer, with the history of the answers.
CONSTANTS
  p = p
  q = q
  r = r
  a = a
  b = b
  NULL = NULL
  NL = NL
  Junk = Junk
  MaxOps = 2
  Procs = {p, q}
  Does <- WriterAndSeeker
  Pointers = {m1, m2, m3}
  Chunks <- TwoChunks
  Counts = {1, 3}
  SeekOffs = {0, 1}
  Whences = {0, 1}
  SeekTos <- MCSeekTos
  Interruptible = FALSE
  Faults = {}
  MaxWrites = 3
  MaxPos = 3
SPECIFICATION HSpec
PROPERTIES
  SeekFindsTheCommand
