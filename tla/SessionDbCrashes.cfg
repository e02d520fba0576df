SPECIFICATION Spec
CONSTANTS
  MaxRecords = 9
  MaxSetups = 2
INVARIANTS SavedStaysSaved FirstSessionSurvives SealedWhenClosed
