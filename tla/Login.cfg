SPECIFICATION LoginSpec
CONSTANTS
  a = a  b = b  right = right  wrong = wrong
  Clients = {a, b}
  Limits <- BothTiers
  Window = 2
  Second = 2
  MaxTime = 6
  Passphrases = {right, wrong}
  MaxAttempts = 2
  BaseDelay = 1
  MaxDelay = 2
  Lockout = 4
  MaxSetups = 1
SYMMETRY LoginSymmetry
INVARIANTS WindowNeverExceeded RefusalsAreTrue GuessesAreBounded LockIsEarned
