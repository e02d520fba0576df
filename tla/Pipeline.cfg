SPECIFICATION Spec
CONSTANTS
  c1 = c1  c2 = c2  plain = plain  personal = personal  harm = harm  crisis = crisis
  Clients = {c1, c2}
  Terminal = terminal
  Texts = {personal, harm, crisis}
  SafetyOf <- SafetyHere
  ClassOf <- ClassHere
  Decisions = {"proceed", "veto", "empty", "other"}
  MaxAsked = 2
  MaxFailures = 1
SYMMETRY ClientSymmetry
INVARIANTS NothingWithoutATrace FlaggedIsNeverAutomatic ProceedIsGiven GateIsRestored
