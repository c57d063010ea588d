SPECIFICATION FairSpec
CONSTANTS
  Callers = {c1, c2, c3}
  Nobody = Nobody
  MaxUnlocks = 3
INVARIANTS
  TypeOK
  NoUseAfterLock
  ReleasedWhenLocked
PROPERTIES
  PoisonedStaysShut
  DamageEndsAdmission
  PanicReleases
  ImplementsExclusiveVault
