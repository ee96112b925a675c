\* Claims of the code or its documents that the code does not keep, one at a
\* time: the properties in comments are checked in the place of the first.
SPECIFICATION MCSpec
CONSTANTS
  Parts = {"obligations"}
  d1 = d1
  i1 = i1
  i2 = i2
  l1 = l1
  cc = cc
  k1 = k1
  p1 = p1
  p2 = p2
  r1 = r1
  o1 = o1
  o2 = o2
  Debits = {d1}
  Invoices = {i1, i2}
  Legs = {l1}
  NoRow = NoRow
  PayRequests = {q1, q2}
  Rank <- MCRank
  Amount <- MCAmount
  Account <- MCAccount
  Accounts = {cc}
  Cards = {k1}
  CardOf <- MCCardOf
  Close <- MCClose
  LastCycle = 2
  Purchases = {p1, p2}
  Credits = {r1}
  Value <- MCValue
  Sums = {4, 10}
  Keys = {1}
  MaxLegs = 2
  SlowOps = {"pay"}
  MaxRequests = 5
  NoPurchase = NoPurchase
  Obligations = {o1, o2}
  AmountDue <- MCDue
  Amounts = {1}
  Balances = {2}
  Days = {1}
  MaxTx = 5
  MaxObs = 3
  Slow = {"fund", "delete", "pay", "unpay"}
  MaxSteps = 5
  None = None
INVARIANT PaidHasItsTransaction
\* INVARIANT LinksReciprocal              with Parts = {"links"}
\* INVARIANT LinksNeverDeadlock           with Parts = {"links"}
\* INVARIANT EveryBalanceSpentOnce        with Parts = {"obligations"}
\* INVARIANT PaymentSentTwiceCountsOnce   with Parts = {"invoices"}
\* INVARIANT PaidLastMeansNothingForecast with Parts = {"invoices"}
\* INVARIANT FiguresNeverStale            with Parts = {"invoices"}, LastCycle = 3 and MaxRequests = 6
CHECK_DEADLOCK FALSE
