SPECIFICATION AdaptiveSpec
CONSTANTS
  Items <- MCItems
  MaxLength = 4
  Budgets = {0, 3, 5}
  NoBudget = NoBudget
  MaxScore = 1
  RecentOver = 2
  RecentMin = 1
  RecentShare = 2
  Saved <- MCSaved
  Window = 4
  PushShare = 75
CHECK_DEADLOCK FALSE
INVARIANT LatestAreProtected
