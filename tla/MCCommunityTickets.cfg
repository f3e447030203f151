\* Two replicas collect and deliver while locks, calls and batches fail.
CONSTANTS
  Members = {"u1", "u2"}
  Newcomers = {"u1"}
  Replicas = {"c1", "c2"}
  Deeds <- MCDeeds
  Cap <- MCCap
  LikesPer = 1
  CommentsPer = 2
  ReceivedPer = 1
  CollectLimit = 2
  PendingLimit = 1
  MaxDay = 1
  MaxDeeds = 2
  MaxTroubles = 1
SPECIFICATION CommunitySpec
INVARIANTS TaskTicketsAreEarned DeliveredMeansMinted
PROPERTIES ReceiptsAreDelivered
CHECK_DEADLOCK FALSE
