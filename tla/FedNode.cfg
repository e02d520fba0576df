SPECIFICATION MCSpec
CONSTANTS
  o1 = o1  o2 = o2  p1 = p1  a1 = a1  a2 = a2  c1 = c1  r1 = r1  r2 = r2
  Operators = {o1, o2}
  Peers = {p1}
  Lifetimes <- BothLives
  ReconfirmAfter = 1
  MaxConsents = 2
  MaxTime = 2
  Stages = {"local", "intranet", "internet"}
  StaticPeers = {}
  Addresses = {a1, a2}
  Certs = {c1}
  MaxRotations = 1
  MaxKeys = 1
  MaxStarts = 2
  Replicas = {r1, r2}
  Stamps = {1, 2}
  MaxUpdates = 3
SYMMETRY NodeSymmetry
INVARIANTS ChainBreaksOnlyByOverlap StartedNodeIsWhole OnePinWins NoUpdateIsLost
PROPERTIES InvalidStaysInvalid AddressMovesByHandshake
