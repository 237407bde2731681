SPECIFICATION Spec
CONSTANTS
  Readers = {r1}
  Dumpers = {d1, d2}
  MaxLines = 1
  Commands <- ReadSniffStop
  InitReading <- OnlyFalse
INVARIANTS AtMostOneDumper
