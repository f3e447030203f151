\* Two settlement loops, one reconciliation loop and one operator on a
\* content award (grant 1) and on a draw (grant 2) whose source_ref is taken.
\* The model is bounded by a ceiling of attempts: behaviours end.
SPECIFICATION Spec
CONSTANTS
  w1 = w1
  w2 = w2
  r1 = r1
  o1 = o1
  o2 = o2
  loyalty = loyalty
  content = content
  Grants = {1, 2}
  Budgets <- MCPool
  BudgetOf <- MCPoolOf
  Amount <- MCAmount
  HardCap <- MCPoolCap
  ContentGrants = {1}
  Foreign = {2}
  Settlers = {w1, w2}
  Reconcilers = {r1}
  Operators = {o1}
  BatchSize = 2
  MaxAttempts = 1
  AttemptCeiling = 2
  FaultKinds <- AllFaults
  MaxFaults = 1
SYMMETRY Symmetric
INVARIANTS
  TypeOK
  BudgetConservation
  CompletedIffBooked
  BooksFollowBenefit
  AwardFollowsGrant
  KnowledgeHolds
PROPERTIES
  TerminalRowsStay
CHECK_DEADLOCK FALSE
