SPECIFICATION FairSpec
CONSTANTS
  shop = shop
  depot = depot
  o1 = o1
  o2 = o2
  r1 = r1
  r2 = r2
  t1 = t1
  Warehouses <- MCWarehouses
  Shop = shop
  Orders <- MCOrders
  Requests <- MCRequests
  OrderOf <- MCOrderOf
  Relocations = {}
  MaxLots = 4
  MaxEntered = 2
  MaxQty = 1
  MaxEdits = 1
  MaxReopens = 0
  Entries <- MCEntriesOne
  Exits <- MCExitsOne
  Ending = {o1}
  EditsOverlapSubmit = FALSE
PROPERTY SubmittedIsServed
CHECK_DEADLOCK FALSE
