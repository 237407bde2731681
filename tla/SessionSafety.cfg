SPECIFICATION Spec
CONSTANTS
  Readers = {r1, r2}
  Dumpers = {d1, d2}
  MaxLines = 1
  Commands <- AllCommands
  InitReading <- OnlyFalse
SYMMETRY Threads
INVARIANTS TypeOK NoOrphanWait RunningIsHonest BusyIsHonest OneReaderUntilQuit
PROPERTIES ReadsToEnd
CHECK_DEADLOCK FALSE
