SPECIFICATION FairSpec
CONSTANTS
  c1 = c1  c2 = c2  c3 = c3  a = a  b = b
  Callers = {c1, c2, c3}
  Peers = {a}
  Threshold = 2
  Recovery = 1
  MaxAttempts = 2
  MaxTime = 2
INVARIANTS FieldsAgree OneProbePerOpening
PROPERTY HalfOpenIsResolved
