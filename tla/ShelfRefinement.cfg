SPECIFICATION Spec
CONSTANTS
  shop = shop
  depot = depot
  o1 = o1
  o2 = o2
  r1 = r1
  r2 = r2
  t1 = t1
  Warehouses <- MCWarehouses
  Shop = shop
  Orders <- MCOrders
  Requests <- MCOneRequest
  OrderOf <- MCOneOrderOf
  Relocations = {t1}
  MaxLots = 4
  MaxEntered = 4
  MaxQty = 2
  MaxEdits = 1
  MaxReopens = 0
  Entries <- MCEntriesOne
  Exits <- MCExitsOne
  Ending = {o1}
  EditsOverlapSubmit = FALSE
PROPERTY ShelfPromise
CHECK_DEADLOCK FALSE
