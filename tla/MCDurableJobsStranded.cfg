SPECIFICATION RestartingSpec
CONSTANTS
  JobCount = 1
  MaxAttempts = 2
  Lease = 2
  MaxWait = 0
  None = None
PROPERTY
  ExpiredLeaseRecovered
