SPECIFICATION RetryFairSpec
CONSTANTS
  MaxOrdinaryAttempts = 3
  AuditCapacity = 8
  BaseDelay = 1
  MaxDelay = 3
  JitterDivisor = 2
  RetryAfters = {4}
  MaxGeneration = 5
INVARIANTS BudgetHolds WorkHasOpenBudget
PROPERTIES RetryWaitsItsTurn RetryIsNotForgotten
