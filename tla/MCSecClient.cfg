SPECIFICATION Spec
CONSTANTS
  p1 = p1
  c1 = c1
  c2 = c2
  c3 = c3
  Processes = {p1}
  Rate <- Shares
  Capacity = 1
  Limit = 3
  Calls = {c1, c2, c3}
  ProcessOf <- Callers
  MaxRetries = 1
  BaseDelay = 1
  Second = 3
  MaxRestarts = 1
INVARIANTS
  TypeOK
  SecBudgetKept
  DebtIsLessThanATick
  GivesUpAfterEveryRetry
PROPERTY
  EveryFetchEnds
