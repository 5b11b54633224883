SPECIFICATION RetrySpec
CONSTANTS
  MaxOrdinaryAttempts = 3
  AuditCapacity = 4
  BaseDelay = 1
  MaxDelay = 3
  JitterDivisor = 2
  RetryAfters = {4}
  MaxGeneration = 4
INVARIANTS
  ColdStartIsNeverRefused
