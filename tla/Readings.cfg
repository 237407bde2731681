CONSTANTS
  Traffics <- MCTraffics
  OldAfter = 1
  Wrap = 16
  Stray = {0, 1}
SPECIFICATION Spec
INVARIANTS TypeOK ReadingsAreTrue UnitsAreRead OldIsUnchanged AverageWithinGaps
