SPECIFICATION Spec
CONSTANTS
  Chars = {"a", "b", "h"}
  Blank = " "
  Names <- MCNames
  HistoryName <- MCHistory
  Files <- MCFiles
  LineLimit = 3
  HistoryLimit = 3
  Unknown = Unknown
INVARIANTS EmptyLineRunsNothing
CHECK_DEADLOCK FALSE
