SPECIFICATION DealershipSpec
CONSTANTS
  a1 = a1
  a2 = a2
  b1 = b1
  b2 = b2
  Units = {"u1"}
  Buyers = {a1, a2}
  Deals = {1, 2}
  UnitPrice = 100
  Deposit = 20
  Retention = 10
  Creditable = {1}
  MaxRequests = 2
  Visited = {"o1"}
  Kilometres = {10, 20}
  UsualKm = 100
  LabourTerms <- LabourOf
  FactoryTerms <- FactoryOf
  SaleTerms <- SaleOf
  DispatchedLots <- LotsOf
  PurchasedLots = {"l1"}
  LegacyTypes = {"fabrica"}
  Officers = {"h1", "h2"}
  LastDay = 1
  MaxReadings = 2
  MaxClaims = 1
  People = {a1, a2}
  Documents = {"d1", "d2"}
  Identities <- VehicleIds
  StockUnits <- UnitIds
  Suppliers = {"d2"}
  Editors = {b1, b2}
  SaleIds = {"s1"}
  MaxCars = 2
INVARIANTS
  DealershipTypeOK
  
  
  VehicleOnce
 
SYMMETRY Symmetric
CHECK_DEADLOCK FALSE
