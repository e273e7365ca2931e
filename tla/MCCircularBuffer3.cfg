\* Three slots, two pointers, sizes 1 to 3: every way to fill and wrap.
CONSTANTS
  MaxOps = 3
  NULL = NULL
  Pointers = {p, q}
  Sizes = {1, 2, 3}
SPECIFICATION Spec
INVARIANTS
  TypeOK
  Shape
  WalkMeetsTheWritten
  FindEntryIndexesContents
  SeekThenReadRoundTrip
  SeekStaysInContents
PROPERTIES
  PositionsShiftByEvicted
  ImplementsLog
