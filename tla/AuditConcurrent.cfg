SPECIFICATION Spec
CONSTANTS
  w1 = w1
  w2 = w2
  Writers <- TwoWriters
  Levels = {0, 2}
  QueryLevels = {0}
  ReadLogThreshold = 2
  PageLimit = 1
  MaxRecords = 5
  MaxTime = 0
  MaxAlterations = 0
SYMMETRY WriterSymmetry
INVARIANTS ExportComplete ReadLoggedBeforeReturn
CHECK_DEADLOCK FALSE
