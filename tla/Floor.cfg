SPECIFICATION Spec
CONSTANTS
  o1 = o1
  o2 = o2
  k1 = k1
  k2 = k2
  r1 = r1
  r2 = r2
  tec1 = tec1
  tec2 = tec2
  Nobody = Nobody
  Loose = Loose
  Orders = {o1, o2}
  Tasks = {k1, k2}
  TaskOrder <- MCTaskApart
  Requests = {r1}
  RequestOrder <- MCOneRequest
  Technicians = {tec1}
  SlowHandlers = 1
  Marks = {"completada"}
  Ending = {o1}
INVARIANTS
  TypeOK
  OneTimerPerTechnician
  TerminalHasNoTimer
  
PROPERTY DeliveredIsFinal
CHECK_DEADLOCK FALSE
