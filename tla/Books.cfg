SPECIFICATION MCSpec
CONSTANTS
  Parts = {"duplicates", "findings", "competence", "rules", "conversation"}
  t1 = t1
  t2 = t2
  t3 = t3
  c1 = c1
  c2 = c2
  l1 = l1
  l2 = l2
  s1 = s1
  s2 = s2
  b1 = b1
  b2 = b2
  d1 = d1
  DupRows <- MCRows
  Legacy = {1}
  Manual = {3}
  NotSpent = {}
  Priority <- MCPriority
  Confidence <- MCConfidence
  Keys = {"k1", "k2"}
  KeyOf <- MCKeyOf
  StrongKeys = {"k1"}
  MaxMoves = 6
  NoRow = NoRow
  Watched = {"t1", "t2"}
  Twin <- MCTwin
  Scopes <- MCScopes
  Runners = {"run1", "run2"}
  Deciders = {"d1", "d2"}
  Verdicts = {"resolved"}
  MaxEvents = 5
  Purchases = {b1, b2}
  Admins = {d1}
  LastMonth = 1
  DaysIn <- MCLengths
  MaxDay = 4
  Closable = {0, 1}
  MaxRevision = 3
  Txns = {t1, t2, t3}
  Categories = {c1, c2}
  Rules = {l1, l2}
  Sessions = {s1, s2}
  Review = Review
  Nothing = Nothing
  MaxRequests = 9
  Rounds = {"k1", "k2", "k3"}
  Conversations = {"web"}
  NoState = NoState
  MaxTurns = 2
  MaxSteps = 1
  MaxPlan = 1
  TTL = 1
  MaxTime = 2
INVARIANTS BooksTypeOK EveryEventCounts FindingsFollowTheBooks MonthsHoldTheirPurchases
  AppliedRuleWasConfirmed RowRemembersTheConversation
PROPERTIES TrustedMonthKeepsItsPurchases
SYMMETRY MCSymmetry
CHECK_DEADLOCK FALSE
