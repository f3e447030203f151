SPECIFICATION Spec
CONSTANTS
  u1 = u1
  p1 = p1
  w1 = w1
  w2 = w2
  alice = alice
  bob = bob
  i1 = i1
  i2 = i2
  r1 = r1
  r2 = r2
  c1 = c1
  Accounts <- MCAccounts
  Appends <- MCAppends
  Adjustments <- MCAdjustments
  Workers = {w1, w2}
  Limit = 3
  MaxTampers = 1
  Creations <- MCCreations
  Length = 2
  Horizon = 7
  Questions = {1, 2, 3}
  Author <- MCAuthor
  Ingesters = {i1, i2}
  Reviews <- MCReviews
  Reviewers = {r1, r2}
  PageLimit = 2
  MaxUser = 3
  MaxDaily = 3
  ContentCap = 4
  MaxDay = 1
  MaxEdits = 2
  Processes <- MCProcesses
  Updates <- MCUpdates
  Calls = {c1}
  MaxRevision = 5
INVARIANTS
  AccountsReplay
  AnswersStand
  CloseExpiresWhatItSaw
  NeverAmbiguous
  AwardLimitsHold
  QuestionsAreSeen
  SettingsStayUsable
  NoStaleSwitch
CHECK_DEADLOCK FALSE
