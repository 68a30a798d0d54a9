SPECIFICATION OfficeSpec
CONSTANTS
  a1 = a1
  a2 = a2
  b1 = b1
  b2 = b2
  Cars = {"c1"}
  Bays = {}
  Mechanics = {"m1"}
  Slots = {1, 2}
  JobLength = 2
  Findings = {"f1"}
  MaxVisits = 2
  MaxJobs = 1
  Services = {a1, a2}
  Categories = {"motor"}
  LastNumber = 2
  Policies = {"p1"}
  Plans = {"q1"}
  CatalogParts = {"a"}
  Estimates = {5}
  CatalogEditors = {b1, b2}
  MaxChanges = 3
  Branches = {"b1", "b2"}
  FirstLots <- LotsAtFirst
  FirstCash <- CashAtFirst
  Shipments = {2}
  Payments = {1}
  MaxRegisters = 4
  MaxExits = 1
  Directors = {"d1"}
  Employees = {"e1"}
  Offices = {"f1", "f2"}
  CodeAttempts = 1
  MaxSessions = 2
  MaxCodes = 2
  MaxVersion = 1
INVARIANTS
  OfficeTypeOK
  
  CodesUnique
  StockKept
  
SYMMETRY Symmetric
CHECK_DEADLOCK FALSE
