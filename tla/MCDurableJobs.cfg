SPECIFICATION PollingSpec
CONSTANTS
  JobCount = 2
  MaxAttempts = 2
  Lease = 2
  MaxWait = 1
  None = None
PROPERTIES
  ImplementsQueue
  NoStarvation
