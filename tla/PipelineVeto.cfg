SPECIFICATION Spec
CONSTANTS
  c1 = c1  c2 = c2  plain = plain  personal = personal  harm = harm  crisis = crisis
  Clients = {c1, c2}
  Terminal = terminal
  Texts = {personal}
  SafetyOf <- SafetyHere
  ClassOf <- ClassHere
  Decisions = {"veto"}
  MaxAsked = 2
  MaxFailures = 1
SYMMETRY ClientSymmetry
INVARIANT VetoIsHonoured
