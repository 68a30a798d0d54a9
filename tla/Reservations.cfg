SPECIFICATION Spec
CONSTANTS
  shop = shop
  depot = depot
  o1 = o1
  o2 = o2
  r1 = r1
  r2 = r2
  t1 = t1
  Warehouses <- MCWarehouses
  Shop = shop
  Orders <- MCOrders
  Requests <- MCRequests
  OrderOf <- MCOrderOf
  Relocations = {}
  MaxLots = 2
  MaxEntered = 2
  MaxQty = 2
  MaxEdits = 1
  MaxReopens = 0
  Entries <- MCEntries
  Exits <- MCExits
  Ending = {o1}
  EditsOverlapSubmit = FALSE
INVARIANTS
  TypeOK
  ReservationsCovered
  TransfersCarryReservation
  ShortfallAccounts
  PromiseKept
PROPERTY SubmittedIsFrozen
CHECK_DEADLOCK FALSE
