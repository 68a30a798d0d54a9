SPECIFICATION CommerceSpec
CONSTANTS
  k1 = k1
  k2 = k2
  a1 = a1
  a2 = a2
  Iva = 16
  Igtf = 3
  RequestIds = {k1, k2}
  Tenders <- CommerceTenders
  Sales = {a1, a2}
  Writers = {"w1"}
  MaxShelf = 3
  LotSizes = {2}
  SaleSizes = {1, 2}
  Price = 100
  Bcv = 2
  Invoiceable = {"o1", "o2"}
  LegacyOrders = {"o1"}
  Subtotals = {50, 100}
  Rates = {2, 3}
  Collections <- LaterPayments
  Retentions <- FiledRetentions
  Purchases = {"p1", "p2"}
  LegacyPaid = {"p1"}
  LegacyAmount = 50
  Ordered = 2
  InvoiceCosts = {25, 50}
  PurchaseShares = {20, 58}
  Expenses = 3
  Accounts = {1, 2}
  Months = {1, 2}
  Clerks = {a1, a2}
  MaxEntries = 3
  Amount = 1
  ClaimMonths = {1, 2}
  Claims = {"c1"}
  Submissions = {"s1"}
  Reviewers = {a1, a2}
  MaxPosted = 3
  ClaimMoves = {"rechazado"}
  Visits = {"v1"}
  JobHours = 1
  JobUnits = 1
  JobEstimate = 90
  HourlyRate = 2500
  CatalogPrices = {155}
  Tiers = {130}
  LaterTiers = {110}
  LayerCosts <- TwoLayers
  LotUnits = {1}
  MaxUnits = 2
  MaxJobs = 1
  ExtraUnits = {1}
  MaxLines = 2
INVARIANTS
  CommerceTypeOK
  
  
  
  AccountsAgree
  PreviewIsCharged
PROPERTIES
  InvoiceAsQuoted
  ClosedBooksStay
  QuoteKept
SYMMETRY Symmetric
CHECK_DEADLOCK FALSE
