CONSTANTS
  a1 = a1
  a2 = a2
  w1 = w1
  w2 = w2
  Users = {a1}
  Sweepers = {w1}
  Referencing = {a1}
  Busy = {a1}
  TargetId <- MCTargetId
  MaxRecoveryAttempts = 3
  MaxTargetAttempts = 2
  MaxErasureFaults = 0
SPECIFICATION ErasureSpec

PROPERTY EveryManifestIsConfirmed
CHECK_DEADLOCK FALSE
