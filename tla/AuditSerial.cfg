SPECIFICATION Spec
CONSTANTS
  w1 = w1
  w2 = w2
  Writers <- OneWriter
  Levels = {0}
  QueryLevels = {}
  ReadLogThreshold = 2
  PageLimit = 2
  MaxRecords = 5
  MaxTime = 2
  MaxAlterations = 1
INVARIANTS EachLinkedToPredecessor VerificationIsSound
PROPERTY ImplementsAppendOnlyLog
CHECK_DEADLOCK FALSE
