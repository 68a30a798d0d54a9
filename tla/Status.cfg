SPECIFICATION Spec
CONSTANTS
  o1 = o1
  o2 = o2
  k1 = k1
  k2 = k2
  r1 = r1
  r2 = r2
  tec1 = tec1
  tec2 = tec2
  Nobody = Nobody
  Loose = Loose
  Orders = {o1}
  Tasks = {k1, k2}
  TaskOrder <- MCTaskTogether
  Requests = {r1, r2}
  RequestOrder <- MCTwoRequests
  Technicians = {tec1}
  SlowHandlers = 0
  Marks = {"pendiente", "en_espera", "en_progreso", "completada", "cancelada"}
  Ending = {o1}
INVARIANTS
  StatusFollowsTasks
  FinishedHasNoTimer
  InvoicedIsDeliverable
CHECK_DEADLOCK FALSE
