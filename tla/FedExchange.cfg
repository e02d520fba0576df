SPECIFICATION Spec
CONSTANTS
  o1 = o1  o2 = o2  p1 = p1  p2 = p2
  Operators = {o1, o2}
  Peers = {p1, p2}
  Lifetimes = {0}
  ReconfirmAfter = 1
  MaxConsents = 1
  MaxTime = 1
  Items = {"ordinary", "sensitive", "hidden"}
  Resident = {p1, p2}
  SensitiveAfter = 1
  MaxAttempts = 2
  MaxShares = 2
SYMMETRY NodeSymmetry
INVARIANTS IngestedOnce ReturnedIdMeansAccepted
PROPERTY ImplementsDelivery
