SPECIFICATION SessionSpec
CONSTANTS
  a = a  b = b
  Callers = {a, b}
  Capacities = {1, 2}
  IdleTimeout = 1
  MaxLifetime = 1
  MaxTokens = 3
  MaxWire = 2
  LastTime = 2
SYMMETRY ClientSymmetry
INVARIANTS SessionsStayInBounds LoneLogoutEndsIt TokenUsedOnce ClientKeepsUp
