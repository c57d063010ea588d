SPECIFICATION Spec
CONSTANTS
  JobCount = 1
  MaxAttempts = 5
  Lease = 3
  MaxWait = 4
  None = None
INVARIANTS
  TypeOK
  OneOwner
PROPERTY
  ImplementsQueue
