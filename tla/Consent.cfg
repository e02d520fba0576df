SPECIFICATION Spec
CONSTANTS
  c1 = c1  c2 = c2  p1 = p1  p2 = p2  alice = alice  self = self  NoCaller = NoCaller
  Callers = {c1, c2}
  Processes = {p1}
  ProcessOf <- OneProcess
  Keys = {alice, self}
  SelfKeys = {self}
  Operations = {"navigate", "share"}
  Offers <- AllOffers
  Requests <- GateRequests
  Modes = {"disabled", "audit_only", "not_enforced", "enforced"}
  Profiles <- Scenarios
  MaxRows = 3
  MaxIndexes = 3
  MaxTime = 1
SYMMETRY CallerSymmetry
CONSTRAINT InScenario
INVARIANTS IndexNeverShared CascadeReachesChildren AllowedByConsentInForce OptOutHonoured
