SPECIFICATION FairSpec
CONSTANTS
  Readers = {r1, r2}
  Dumpers = {d1, d2}
  MaxLines = 1
  Commands <- ReadModeQuitPause
  InitReading <- OnlyFalse
PROPERTIES ConsoleComesBack QuitTakesEffect
