SPECIFICATION Spec
CONSTANTS
  Blobs = {b1, b2, b3}
  Contents = {c1, c2}
  None = None
  Partial = Partial
  Damaged = Damaged
  MaxDamage = 2
SYMMETRY Interchangeable
INVARIANTS
  TypeOK
  RecoverableOriginal
  UniqueOriginal
  NoFalseCondemnation
  StartupDetects
  CleanAfterOpen
PROPERTIES
  RemovesOnlyDuplicates
  ImplementsLedger
  ImplementsGate
