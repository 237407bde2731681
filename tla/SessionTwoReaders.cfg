SPECIFICATION Spec
CONSTANTS
  Readers = {r1, r2}
  Dumpers = {d1}
  MaxLines = 1
  Commands <- ReadAndQuit
  InitReading <- OnlyFalse
INVARIANTS AtMostOneReader
