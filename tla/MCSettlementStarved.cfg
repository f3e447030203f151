\* A listing that is smaller than the number of dead rows.
SPECIFICATION FairSpec
CONSTANTS
  w1 = w1
  w2 = w2
  r1 = r1
  o1 = o1
  o2 = o2
  loyalty = loyalty
  content = content
  Grants = {1, 2}
  Budgets <- MCPool
  BudgetOf <- MCPoolOf
  Amount <- MCAmount
  HardCap <- MCPoolCap
  ContentGrants = {}
  Foreign = {}
  Settlers = {w1}
  Reconcilers = {r1}
  Operators = {}
  BatchSize = 1
  MaxAttempts = 1
  AttemptCeiling = 9
  FaultKinds = {}
  MaxFaults = 0
PROPERTIES
  DeadRowsConverge
CHECK_DEADLOCK FALSE
