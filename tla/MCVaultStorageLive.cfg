SPECIFICATION FairSpec
CONSTANTS
  Blobs = {b1, b2}
  Contents = {c1}
  None = None
  Partial = Partial
  Damaged = Damaged
  MaxDamage = 1
PROPERTIES
  GuardReleased
