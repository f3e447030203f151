\* Two workers and one request deliver a grant of a member, while another
\* grant of the shadow mode may be reversed; the queue holds one member.
SPECIFICATION FairSpec
CONSTANTS
  u1 = u1
  u2 = u2
  w1 = w1
  w2 = w2
  r1 = r1
  pool = pool
  Grants = {1, 2}
  Budgets <- MCPool
  BudgetOf <- MCPoolOf
  Amount <- MCAmount
  HardCap <- MCPoolCap
  Users = {u1, u2}
  UserOf <- MCUserOf
  Shadow = {2}
  Workers = {w1, w2}
  Refreshers = {r1}
  QueueLimit = 1
  Attempts = 3
  PageSize = 1
  Pages = 2
  MaxFaults = 1
INVARIANTS
  DeliveredMeansApplied
  ExperienceAddsUp
  ExperienceBudget
  QueueIsSound
PROPERTIES
  WakeupsAreServed
CHECK_DEADLOCK FALSE
