SPECIFICATION MCSpec
CONSTANTS
  Parts = {"imports", "reading", "load", "investments", "quotes", "projection"}
  g1 = g1
  g2 = g2
  ob = ob
  ba = ba
  d1 = d1
  d2 = d2
  Importers = {"s1", "s2"}
  Files = {"f1", "f2"}
  Size <- MCSize
  MaxFile = 2
  MaxBatch = 3
  MaxBatchFiles = 2
  Unparsed = {"f1"}
  DocIds = {1, 2}
  MaxLines = 5
  Amounts <- MCAmounts
  Loads = {g1, g2}
  Obligations = {ob}
  Balances = {ba}
  Statements = {d1, d2}
  Closes <- MCCloses
  Household = Household
  MaxEntered = 2
  Nobody = Nobody
  Transfers = {"x1", "x2"}
  AmountOf <- MCAmountOf
  Worths = {1}
  InvDays = {1, 2}
  MaxLog = 3
  NoTransfer = "none"
  Passes = {"loop", "hand"}
  LastQuotaDay = 2
  MonthOf <- MCMonthOf
  Quota <- MCQuota
  Holdings = {1}
  Deltas <- MCDeltas
  MaxPositions = 2
  LastMonth = 5
  LastToday = 3
  Bills = {"b1"}
  BillTerms <- MCBillTerms
  BillValue = 4
  Goods = {"p1"}
  PartsOf <- MCPartsOf
  PartValues = {3}
  Salary = 20
  Pays = {21, 30}
  Evidence <- MCEvidence
  ProfileBalance = 10
  Cap = 18
  CardDue <- MCCardDue
  RatePercent = 10
  MaxEdits = 3
  NoAmount = NoAmount
INVARIANTS SourcesTypeOK BatchesMatchBooks NothingIsMisread LoadedExactlyOnce
  InvestmentsAddUp ProjectionAddsUp
CHECK_DEADLOCK FALSE
