SPECIFICATION Spec
CONSTANTS
  Threads = {t1, t2}
  Nobody = Nobody
  Passphrases = {p1, p2}
  Recovery = Recovery
  Refs = {r1, r2}
  None = None
  MaxFaults = 2
INVARIANTS
  TypeOK
  OutcomeTruthful
  CleanupTruthful
  ActivatedIsComplete
  RecoveryDelivered
PROPERTIES
  QuickUnlockKept
  ImplementsAuthority
  ReliesOnExclusiveVault
CHECK_DEADLOCK FALSE
