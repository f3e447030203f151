\* A settlement loop and a reconciliation loop that the scheduler keeps
\* starting; every listing holds all rows.
SPECIFICATION FairSpec
CONSTANTS
  w1 = w1
  w2 = w2
  r1 = r1
  o1 = o1
  o2 = o2
  loyalty = loyalty
  content = content
  Grants = {1, 2}
  Budgets <- MCPool
  BudgetOf <- MCPoolOf
  Amount <- MCAmount
  HardCap <- MCPoolCap
  ContentGrants = {}
  Foreign = {}
  Settlers = {w1}
  Reconcilers = {r1}
  Operators = {}
  BatchSize = 2
  MaxAttempts = 2
  AttemptCeiling = 4
  FaultKinds <- AllFaults
  MaxFaults = 1
PROPERTIES
  EventuallyDecided
  DeadRowsConverge
CHECK_DEADLOCK FALSE
