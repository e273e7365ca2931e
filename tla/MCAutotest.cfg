CONSTANTS
  ByteBits = 4
  IntSize = 2
  LongSize = 3
  Glyph <- MCGlyph
  CR = 3
  LF = 2
  Precision = 8
  Programs <- MCPrograms
  HeapSize = 16
  Alignment = 2
  GuardSize = 2
  EndSize = 1
  AskedSizes = {0, 1, 2, 4}
  MaxHeld = 3
  GrowsWhileFailing = FALSE
  ThreadTests <- MCThreadTests
  SleepsAreLong = TRUE
  Commands <- MCCommands
  MaxCalls = 2
SPECIFICATION Spec
INVARIANTS
  TypeOK
  VerdictsAreTrue
  ReportsShowTheMismatch
  ResultsAreCounted
  ExitStatusIsTrue
  BlocksAreApart
  LeaksFailTheTest
  SectionsExclude
  DataOutlivesThread
  ThreadTestIsClean
  ResultIsTrue
  CallsLeaveNothing
PROPERTY RunEnds
CHECK_DEADLOCK FALSE
