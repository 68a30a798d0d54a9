------------------------- MODULE ServiceOrderProofs -------------------------
(***************************************************************************)
(* Theorems about ServiceOrder for any number of orders, tasks, ODTs and   *)
(* technicians, and any number of handlers caught between read and lock.   *)
(***************************************************************************)
EXTENDS ServiceOrder, FiniteSetTheorems, TLAPS

-----------------------------------------------------------------------------
(* What a handler stores. *)

\* A stored task is a task, and each of its columns comes from the handler if
\* the handler changed it, and from the table otherwise.
LEMMA StoredTask ==
  ASSUME NEW new \in TaskRow, NEW old \in TaskRow, NEW row \in TaskRow
  PROVE  LET s == Stored(new, old, row) IN
         /\ s \in TaskRow
         /\ s.status = IF new.status # old.status THEN new.status ELSE row.status
         /\ s.running = IF new.running # old.running THEN new.running ELSE row.running
<1>1. DOMAIN row = {"status", "running", "worked"}
  BY DEF TaskRow
<1> QED BY <1>1 DEF Stored, TaskRow

LEMMA StoredOrder ==
  ASSUME NEW new \in OrderRow, NEW old \in OrderRow, NEW row \in OrderRow
  PROVE  LET s == Stored(new, old, row) IN
         /\ s \in OrderRow
         /\ s.status = IF new.status # old.status THEN new.status ELSE row.status
         /\ new.technician = old.technician => s.technician = row.technician
         /\ new.inspected = old.inspected => s.inspected = row.inspected
<1>1. DOMAIN row = {"status", "invoiced", "pending", "technician", "inspected", "reopened"}
  BY DEF OrderRow
<1> QED BY <1>1 DEF Stored, OrderRow

\* Deriving the status touches nothing but it and the pending flag, and keeps a
\* working order working and a terminal one as it is.
LEMMA SyncedRow ==
  ASSUME NEW row \in OrderRow, NEW o, NEW T, NEW R
  PROVE  /\ Synced(row, o, T, R) \in OrderRow
         /\ Synced(row, o, T, R).technician = row.technician
         /\ Synced(row, o, T, R).inspected = row.inspected
         /\ row.status \notin Working => Synced(row, o, T, R) = row
         /\ row.status \in Working => Synced(row, o, T, R).status \in Working
<1>1. Derived(o, T) \in Working
  BY DEF Derived, Done, Working
<1>2. (Derived(o, T) = Done /\ AwaitsPickup(o, R)) \in BOOLEAN
  OBVIOUS
<1> QED BY <1>1, <1>2 DEF Synced, OrderRow, Working

\* The rows that handlers write are rows.
LEMMA StoppedRow ==
  ASSUME NEW v \in TaskRow
  PROVE  Stopped(v) \in TaskRow /\ Stopped(v).running = FALSE /\ Stopped(v).status = v.status
BY DEF Stopped, TaskRow

LEMMA MovedRow ==
  ASSUME NEW v \in TaskRow, NEW s \in TaskStatus
  PROVE  /\ Moved(v, s) \in TaskRow
         /\ Moved(v, s).status = s
         /\ Moved(v, s).running => v.running
BY DEF Moved, Stopped, TaskRow

-----------------------------------------------------------------------------
(* Type correctness *)

\* A view is a row that exists, and reading it keeps the open handlers typed.
LEMMA ReadsType ==
  ASSUME TypeOK, NEW k \in Tasks, NEW v, Reads(k, v)
  PROVE  v \in TaskRow /\ seen' \in [Tasks -> SUBSET TaskRow]
BY DEF TypeOK, Reads

LEMMA WriteTaskType ==
  ASSUME TypeOK, NEW k \in Tasks, NEW new \in TaskRow, NEW v \in TaskRow, WriteTask(k, new, v)
  PROVE  tasks' \in [Tasks -> TaskRow]
<1>1. Stored(new, v, tasks[k]) \in TaskRow
  BY StoredTask DEF TypeOK
<1> QED BY <1>1 DEF TypeOK, WriteTask

LEMMA SyncType ==
  ASSUME TypeOK, NEW o \in Orders, NEW T, NEW R,
         orders' = [orders EXCEPT ![o] = Synced(@, o, T, R)]
  PROVE  orders' \in [Orders -> OrderRow]
<1>1. Synced(orders[o], o, T, R) \in OrderRow
  BY SyncedRow DEF TypeOK
<1> QED BY <1>1 DEF TypeOK

LEMMA StopAllType ==
  ASSUME TypeOK, NEW o
  PROVE  /\ StopAll(o) \in [Tasks -> TaskRow]
         /\ \A k \in Tasks : /\ StopAll(o)[k].status = tasks[k].status
                             /\ StopAll(o)[k].running => tasks[k].running
                             /\ TaskOrder[k] = o => ~StopAll(o)[k].running
<1>1. \A k \in Tasks : tasks[k] \in TaskRow
  BY DEF TypeOK
<1> QED BY <1>1, StoppedRow DEF StopAll

LEMMA TaskStepType ==
  ASSUME TypeOK, NEW k \in Tasks, TaskStep(k)
  PROVE  TypeOK'
<1> USE TaskAssumption, LooseAssumption
<1>o. TaskOrder[k] \in Orders
  OBVIOUS
<1>1. CASE ReadTask(k)
  BY <1>1 DEF TypeOK, ReadTask
<1>2. CASE ForgetTask(k)
  BY <1>2 DEF TypeOK, ForgetTask
<1>3. ASSUME NEW v, StartTimer(k, v)
      PROVE  TypeOK'
  <2> DEFINE new == [v EXCEPT !.running = TRUE, !.status = "en_progreso"]
  <2>1. v \in TaskRow /\ seen' \in [Tasks -> SUBSET TaskRow]
    BY <1>3, ReadsType DEF StartTimer
  <2>2. new \in TaskRow
    BY <2>1 DEF TaskRow, TaskStatus
  <2>3. WriteTask(k, new, v) /\ SyncAfter(k, new) /\ UNCHANGED <<requests, receiving>>
    BY <1>3 DEF StartTimer
  <2>4. tasks' \in [Tasks -> TaskRow]
    BY <2>1, <2>2, <2>3, WriteTaskType
  <2>5. orders' \in [Orders -> OrderRow]
    BY <2>3, <1>o, SyncType DEF SyncAfter
  <2> QED BY <2>1, <2>3, <2>4, <2>5 DEF TypeOK
<1>4. ASSUME NEW v, PauseTimer(k, v)
      PROVE  TypeOK'
  <2>1. v \in TaskRow /\ seen' \in [Tasks -> SUBSET TaskRow]
    BY <1>4, ReadsType DEF PauseTimer
  <2>2. Stopped(v) \in TaskRow
    BY <2>1, StoppedRow
  <2>3. tasks' \in [Tasks -> TaskRow]
    BY <1>4, <2>1, <2>2, WriteTaskType DEF PauseTimer
  <2> QED BY <1>4, <2>1, <2>3 DEF TypeOK, PauseTimer
<1>5. ASSUME NEW v, NEW s \in TaskStatus, SetStatus(k, v, s)
      PROVE  TypeOK'
  <2>1. v \in TaskRow /\ seen' \in [Tasks -> SUBSET TaskRow]
    BY <1>5, ReadsType DEF SetStatus
  <2>2. Moved(v, s) \in TaskRow
    BY <2>1, MovedRow
  <2>3. tasks' \in [Tasks -> TaskRow]
    BY <1>5, <2>1, <2>2, WriteTaskType DEF SetStatus
  <2>4. orders' \in [Orders -> OrderRow]
    BY <1>5, <1>o, SyncType DEF SetStatus, SyncAfter
  <2> QED BY <1>5, <2>1, <2>3, <2>4 DEF TypeOK, SetStatus
<1>6. ASSUME NEW v, DeleteTask(k, v)
      PROVE  TypeOK'
  <2>1. seen' \in [Tasks -> SUBSET TaskRow]
    BY <1>6, ReadsType DEF DeleteTask
  <2>2. tasks' \in [Tasks -> TaskRow]
    BY <1>6 DEF TypeOK, DeleteTask, NoTask, TaskRow
  <2>3. requests' \in [Requests -> RequestRow]
    <3>1. ASSUME NEW r \in Requests
          PROVE  [requests[r] EXCEPT !.lines = (@ \ {k}) \union {Loose}] \in RequestRow
      BY DEF TypeOK, RequestRow
    <3> QED BY <1>6, <3>1 DEF TypeOK, DeleteTask
  <2>4. orders' \in [Orders -> OrderRow]
    BY <1>6, <1>o, SyncType DEF DeleteTask
  <2> QED BY <1>6, <2>1, <2>2, <2>3, <2>4 DEF TypeOK, DeleteTask
<1>7. ASSUME NEW into, AddTask(k, into)
      PROVE  TypeOK'
  <2>1. tasks' \in [Tasks -> TaskRow]
    BY <1>7 DEF TypeOK, AddTask, NoTask, TaskRow, TaskStatus
  <2>2. requests' \in [Requests -> RequestRow]
    <3>1. ASSUME NEW r \in Requests
          PROVE  [requests[r] EXCEPT !.status = "pendiente", !.lines = @ \union {k}] \in RequestRow
      BY DEF TypeOK, RequestRow
    <3> QED BY <1>7, <3>1 DEF TypeOK, AddTask
  <2>3. orders' \in [Orders -> OrderRow]
    BY <1>7, <1>o, SyncType DEF AddTask
  <2> QED BY <1>7, <2>1, <2>2, <2>3 DEF TypeOK, AddTask
<1> QED BY <1>1, <1>2, <1>3, <1>4, <1>5, <1>6, <1>7 DEF TaskStep

LEMMA RequestStepType ==
  ASSUME TypeOK, NEW r \in Requests, RequestStep(r)
  PROVE  TypeOK'
<1> USE RequestAssumption
<1>o. RequestOrder[r] \in Orders
  OBVIOUS
<1>1. CASE AddPart(r)
  <2>1. [requests[r] EXCEPT !.status = "pendiente", !.lines = @ \union {Loose}] \in RequestRow
    BY DEF TypeOK, RequestRow
  <2>2. requests' \in [Requests -> RequestRow]
    BY <1>1, <2>1 DEF TypeOK, AddPart
  <2> QED BY <1>1, <2>2 DEF TypeOK, AddPart
<1>2. CASE SubmitRequest(r)
  BY <1>2 DEF TypeOK, SubmitRequest, RequestRow
<1>3. CASE DispatchRequest(r)
  BY <1>3 DEF TypeOK, DispatchRequest, RequestRow
<1>4. CASE DeleteRequest(r)
  BY <1>4 DEF TypeOK, DeleteRequest, NoRequest, RequestRow
<1>5. ASSUME NEW x, RemovePart(r, x)
      PROVE  TypeOK'
  <2>1. requests' \in [Requests -> RequestRow]
    BY <1>5 DEF TypeOK, RemovePart, RequestRow
  <2>2. orders' \in [Orders -> OrderRow]
    BY <1>5, <1>o, SyncType DEF RemovePart
  <2> QED BY <1>5, <2>1, <2>2 DEF TypeOK, RemovePart
<1>6. CASE BeginPickup(r)
  BY <1>6, <1>o DEF TypeOK, BeginPickup, Receipt
<1>7. ASSUME NEW row, Pickup(r, row)
      PROVE  TypeOK'
  <2> DEFINE o == RequestOrder[r]
             R == [requests EXCEPT ![r].picked = TRUE]
  <2>1. row \in OrderRow
    BY <1>7, <1>o DEF Pickup, TypeOK, Receipt
  <2>2. Stored(Synced(row, o, tasks, R), row, orders[o]) \in OrderRow
    BY <2>1, <1>o, SyncedRow, StoredOrder DEF TypeOK
  <2>3. orders' \in [Orders -> OrderRow]
    BY <1>7, <2>2 DEF Pickup, TypeOK
  <2>4. requests' \in [Requests -> RequestRow]
    BY <1>7 DEF Pickup, TypeOK, RequestRow
  <2> QED BY <1>7, <2>3, <2>4 DEF Pickup, TypeOK
<1> QED BY <1>1, <1>2, <1>3, <1>4, <1>5, <1>6, <1>7 DEF RequestStep

LEMMA OrderStepType ==
  ASSUME TypeOK, NEW o \in Orders, FloorStep(o) \/ EndStep(o)
  PROVE  TypeOK'
<1>1. CASE CompleteInspections(o)
  BY <1>1 DEF TypeOK, CompleteInspections, OrderRow
<1>2. ASSUME NEW t \in Technicians \union {Nobody}, Reassign(o, t)
      PROVE  TypeOK'
  BY <1>2 DEF TypeOK, Reassign, OrderRow
<1>3. CASE ForceComplete(o)
  <2>1. ASSUME NEW b \in BOOLEAN
        PROVE  [orders[o] EXCEPT !.status = "completado", !.pending = b] \in OrderRow
    BY DEF TypeOK, OrderRow, Working
  <2>2. (Unfinished(o) \/ AwaitsPickup(o, requests)) \in BOOLEAN
    OBVIOUS
  <2>3. orders' \in [Orders -> OrderRow]
    BY <1>3, <2>1, <2>2 DEF TypeOK, ForceComplete
  <2>4. tasks' \in [Tasks -> TaskRow]
    BY <1>3, StopAllType DEF ForceComplete
  <2> QED BY <1>3, <2>3, <2>4 DEF TypeOK, ForceComplete
<1>4. CASE Invoice(o)
  BY <1>4 DEF TypeOK, Invoice, OrderRow
<1>5. CASE Close(o)
  <2>1. requests' \in [Requests -> RequestRow]
    BY <1>5 DEF TypeOK, Close, RequestRow
  <2>2. [orders[o] EXCEPT !.status = "orden_cerrada", !.pending = FALSE] \in OrderRow
    BY DEF TypeOK, OrderRow
  <2>3. orders' \in [Orders -> OrderRow]
    BY <1>5, <2>2 DEF TypeOK, Close
  <2>4. tasks' \in [Tasks -> TaskRow]
    BY <1>5, StopAllType DEF Close
  <2> QED BY <1>5, <2>1, <2>3, <2>4 DEF TypeOK, Close
<1>6. CASE Cancel(o)
  BY <1>6, StopAllType DEF TypeOK, Cancel, OrderRow
<1>7. CASE Reopen(o)
  BY <1>7 DEF TypeOK, Reopen, OrderRow, Working
<1> QED BY <1>1, <1>2, <1>3, <1>4, <1>5, <1>6, <1>7 DEF FloorStep, EndStep

LEMMA TypeInductive ==
  ASSUME TypeOK, [Next]_vars
  PROVE  TypeOK'
<1>1. CASE \E k \in Tasks : TaskStep(k)
  BY <1>1, TaskStepType
<1>2. CASE \E r \in Requests : RequestStep(r)
  BY <1>2, RequestStepType
<1>3. CASE \E o \in Orders : FloorStep(o) \/ EndStep(o)
  BY <1>3, OrderStepType
<1>4. CASE AbandonPickup
  BY <1>4 DEF TypeOK, AbandonPickup
<1>5. CASE UNCHANGED vars
  BY <1>5 DEF TypeOK, vars
<1> QED BY <1>1, <1>2, <1>3, <1>4, <1>5 DEF Next

\* Every table keeps its columns' types.
THEOREM OrderTypeCorrect == Spec => []TypeOK
<1>1. Init => TypeOK
  BY DEF Init, TypeOK, NewOrder, NoTask, NoRequest, OrderRow, TaskRow, RequestRow, Working
<1> QED BY <1>1, TypeInductive, PTL DEF Spec

-----------------------------------------------------------------------------
(* What any step does, and what it never does, to the rows the invariants  *)
(* relate.  The invariants follow from these facts without the actions.    *)

Started(t) == t.running \/ t.status \in {"en_progreso", "completada"}
Gone(r) == requests[r].closed \/ requests[r].status \in {"ninguna", "borrada"}
Delivered(o) == orders[o].status = "orden_cerrada"

\* At most one timer starts, for an idle technician, on an order that goes on.
StartsOne == \A j \in Tasks : tasks'[j].running /\ ~tasks[j].running =>
  /\ ~Terminal(TaskOrder[j])
  /\ TechnicianIdle(TaskOrder[j])
  /\ \A i \in Tasks \ {j} : tasks'[i].running => tasks[i].running

Quiet(o) == \A k \in Tasks : TaskOrder[k] = o => ~tasks[k].running

\* Orders change hands, and end, with their timers off.
HandsOver == \A o \in Orders : orders'[o].technician = orders[o].technician \/ Quiet(o)'
EndsQuietly == \A o \in Orders : Terminal(o)' => Terminal(o) \/ Quiet(o)'

\* A task is started on ground that then stays: parts and inspections.
StartsOnGround == \A k \in Tasks :
  Started(tasks'[k]) => Started(tasks[k]) \/ Workable(k)
KeepsInspected == \A o \in Orders : orders[o].inspected => orders'[o].inspected
KeepsParts == \A k \in Tasks, r \in Requests :
  Started(tasks'[k]) /\ k \in requests'[r].lines =>
    k \in requests[r].lines /\ (requests[r].picked => requests'[r].picked)

\* Delivery takes the ODTs along, waits for the filial, and is not taken back.
StaysDelivered == \A o \in Orders : Delivered(o) => Delivered(o)'
DeliversAll == \A o \in Orders : Delivered(o)' => Delivered(o) \/
  (receiving' = {} /\ \A r \in Requests : RequestOrder[r] = o => Gone(r)')
StaysGone == \A r \in Requests : Delivered(RequestOrder[r]) /\ Gone(r) => Gone(r)'
ReceivesLive == \A p \in receiving' : p \in receiving \/ ~Delivered(RequestOrder[p.request])

Effect ==
  /\ StartsOne /\ HandsOver /\ EndsQuietly
  /\ StartsOnGround /\ KeepsInspected /\ KeepsParts
  /\ StaysDelivered /\ DeliversAll /\ StaysGone /\ ReceivesLive

\* Why DeliveredIsFinal holds: the ODTs of a delivered order are closed, so no
\* pickup starts, and none was open when it was delivered.
DeliveredHasNoPickup ==
  /\ \A r \in Requests : Delivered(RequestOrder[r]) => Gone(r)
  /\ \A p \in receiving : ~Delivered(RequestOrder[p.request])

\* What deriving the status leaves of an order.
SameOrders == \A o \in Orders :
  /\ orders'[o].technician = orders[o].technician
  /\ orders'[o].inspected = orders[o].inspected
  /\ \/ orders'[o].status = orders[o].status
     \/ orders[o].status \in Working /\ orders'[o].status \in Working

LEMMA SameOrdersEffect ==
  ASSUME SameOrders
  PROVE  HandsOver /\ EndsQuietly /\ KeepsInspected /\ StaysDelivered /\ DeliversAll
BY DEF SameOrders, HandsOver, EndsQuietly, KeepsInspected, StaysDelivered, DeliversAll,
       Terminal, Delivered, Working

LEMMA SyncKeepsOrders ==
  ASSUME TypeOK, NEW o \in Orders, NEW T, NEW R,
         orders' = [orders EXCEPT ![o] = Synced(@, o, T, R)]
  PROVE  SameOrders
<1>1. orders[o] \in OrderRow /\ orders \in [Orders -> OrderRow]
  BY DEF TypeOK
<1>2. orders'[o] = Synced(orders[o], o, T, R) /\ \A p \in Orders \ {o} : orders'[p] = orders[p]
  BY <1>1
<1> QED BY <1>1, <1>2, SyncedRow DEF SameOrders

LEMMA WritesOneTask ==
  ASSUME TypeOK, NEW k \in Tasks, NEW new \in TaskRow, NEW v \in TaskRow, WriteTask(k, new, v)
  PROVE  /\ \A j \in Tasks \ {k} : tasks'[j] = tasks[j]
         /\ tasks'[k].status = IF new.status # v.status THEN new.status ELSE tasks[k].status
         /\ tasks'[k].running = IF new.running # v.running THEN new.running ELSE tasks[k].running
<1>1. tasks[k] \in TaskRow /\ tasks \in [Tasks -> TaskRow]
  BY DEF TypeOK
<1>2. tasks'[k] = Stored(new, v, tasks[k])
  BY <1>1 DEF WriteTask
<1>3. \A j \in Tasks \ {k} : tasks'[j] = tasks[j]
  BY <1>1 DEF WriteTask
<1> QED BY <1>1, <1>2, <1>3, StoredTask

LEMMA TaskStepEffect ==
  ASSUME TypeOK, NEW k \in Tasks, TaskStep(k)
  PROVE  Effect
<1> USE TaskAssumption, LooseAssumption
<1>o. TaskOrder[k] \in Orders
  OBVIOUS
<1>0. ASSUME UNCHANGED requests
      PROVE  KeepsParts /\ StaysGone
  BY <1>0 DEF KeepsParts, StaysGone, Gone
<1>r. ASSUME UNCHANGED receiving
      PROVE  ReceivesLive
  BY <1>r DEF ReceivesLive
<1>s. ASSUME \A j \in Tasks \ {k} : tasks'[j] = tasks[j],
             tasks'[k].running => tasks[k].running
      PROVE  StartsOne
  BY <1>s DEF StartsOne
<1>1. CASE ReadTask(k) \/ ForgetTask(k)
  <2>1. UNCHANGED <<orders, tasks, requests, receiving>>
    BY <1>1 DEF ReadTask, ForgetTask
  <2>2. SameOrders /\ StartsOne /\ StartsOnGround
    BY <2>1 DEF SameOrders, StartsOne, StartsOnGround
  <2> QED BY <2>1, <2>2, <1>0, <1>r, SameOrdersEffect DEF Effect
<1>2. ASSUME NEW v, StartTimer(k, v)
      PROVE  Effect
  <2> DEFINE new == [v EXCEPT !.running = TRUE, !.status = "en_progreso"]
  <2>1. v \in TaskRow
    BY <1>2, ReadsType DEF StartTimer
  <2>2. new \in TaskRow
    BY <2>1 DEF TaskRow, TaskStatus
  <2>3. /\ WriteTask(k, new, v) /\ SyncAfter(k, new) /\ UNCHANGED <<requests, receiving>>
        /\ Editable(TaskOrder[k]) /\ TechnicianIdle(TaskOrder[k]) /\ Workable(k)
    BY <1>2 DEF StartTimer
  <2>4. \A j \in Tasks \ {k} : tasks'[j] = tasks[j]
    BY <2>1, <2>2, <2>3, WritesOneTask
  <2>5. SameOrders
    BY <2>3, <1>o, SyncKeepsOrders DEF SyncAfter
  <2>6. StartsOne
    BY <2>3, <2>4 DEF StartsOne, Editable
  <2>7. StartsOnGround
    BY <2>3, <2>4 DEF StartsOnGround
  <2> QED BY <2>3, <2>5, <2>6, <2>7, <1>0, <1>r, SameOrdersEffect DEF Effect
<1>3. ASSUME NEW v, PauseTimer(k, v)
      PROVE  Effect
  <2>1. v \in TaskRow
    BY <1>3, ReadsType DEF PauseTimer
  <2>2. /\ WriteTask(k, Stopped(v), v) /\ v.running
        /\ UNCHANGED <<orders, requests, receiving>>
    BY <1>3 DEF PauseTimer
  <2>3. /\ \A j \in Tasks \ {k} : tasks'[j] = tasks[j]
        /\ tasks'[k].status = tasks[k].status /\ ~tasks'[k].running
    <3>1. /\ Stopped(v) \in TaskRow /\ Stopped(v).status = v.status
          /\ Stopped(v).running = FALSE /\ v.running = TRUE
      BY <2>1, <2>2, StoppedRow DEF TaskRow
    <3> QED BY <2>1, <2>2, <3>1, WritesOneTask
  <2>4. SameOrders
    BY <2>2 DEF SameOrders
  <2>5. StartsOnGround
    BY <2>3 DEF StartsOnGround, Started
  <2> QED BY <2>2, <2>3, <2>4, <2>5, <1>0, <1>r, <1>s, SameOrdersEffect DEF Effect
<1>4. ASSUME NEW v, NEW s \in TaskStatus, SetStatus(k, v, s)
      PROVE  Effect
  <2>1. v \in TaskRow
    BY <1>4, ReadsType DEF SetStatus
  <2>2. /\ WriteTask(k, Moved(v, s), v) /\ SyncAfter(k, Moved(v, s))
        /\ UNCHANGED <<requests, receiving>>
        /\ s \in {"en_progreso", "completada"} => Workable(k)
    BY <1>4 DEF SetStatus
  <2>3. Moved(v, s) \in TaskRow /\ Moved(v, s).status = s /\ (Moved(v, s).running => v.running)
    BY <2>1, MovedRow
  <2>4. /\ \A j \in Tasks \ {k} : tasks'[j] = tasks[j]
        /\ tasks'[k].status \in {s, tasks[k].status}
        /\ tasks'[k].running => tasks[k].running
    <3>1. v.running \in BOOLEAN /\ Moved(v, s).running \in BOOLEAN
      BY <2>1, <2>3 DEF TaskRow
    <3> QED BY <2>1, <2>2, <2>3, <3>1, WritesOneTask
  <2>5. SameOrders
    BY <2>2, <1>o, SyncKeepsOrders DEF SyncAfter
  <2>6. StartsOnGround
    BY <2>2, <2>4 DEF StartsOnGround, Started
  <2> QED BY <2>2, <2>4, <2>5, <2>6, <1>0, <1>r, <1>s, SameOrdersEffect DEF Effect
<1>5. ASSUME NEW v, DeleteTask(k, v)
      PROVE  Effect
  <2>1. /\ \A j \in Tasks \ {k} : tasks'[j] = tasks[j]
        /\ ~tasks'[k].running /\ tasks'[k].status = "borrada"
    BY <1>5 DEF DeleteTask, TypeOK, NoTask
  <2>2. ASSUME NEW r \in Requests
        PROVE  /\ requests'[r].lines \subseteq requests[r].lines \union {Loose}
               /\ requests'[r].picked = requests[r].picked
               /\ requests'[r].closed = requests[r].closed
               /\ requests'[r].status = requests[r].status
    BY <1>5 DEF DeleteTask, TypeOK, RequestRow
  <2>3. SameOrders
    BY <1>5, <1>o, SyncKeepsOrders DEF DeleteTask
  <2>4. StartsOnGround
    BY <2>1 DEF StartsOnGround, Started
  <2>5. KeepsParts /\ StaysGone
    BY <2>2 DEF KeepsParts, StaysGone, Gone
  <2>6. UNCHANGED receiving
    BY <1>5 DEF DeleteTask
  <2> QED BY <2>1, <2>3, <2>4, <2>5, <2>6, <1>r, <1>s, SameOrdersEffect DEF Effect
<1>6. ASSUME NEW into, AddTask(k, into)
      PROVE  Effect
  <2>1. /\ \A j \in Tasks \ {k} : tasks'[j] = tasks[j]
        /\ ~tasks'[k].running /\ tasks'[k].status = "pendiente"
    BY <1>6 DEF AddTask, TypeOK, NoTask
  <2>2. ASSUME NEW r \in Requests
        PROVE  /\ requests'[r].lines \subseteq requests[r].lines \union {k}
               /\ requests'[r].picked = requests[r].picked
               /\ Gone(r) => Gone(r)' \/ ~Delivered(RequestOrder[r])
    <3>1. /\ r \in into => RequestOrder[r] = TaskOrder[k]
          /\ Editable(TaskOrder[k])
          /\ requests' = [q \in Requests |-> IF q \in into
               THEN [requests[q] EXCEPT !.status = "pendiente", !.lines = @ \union {k}]
               ELSE requests[q]]
      BY <1>6 DEF AddTask
    <3>2. r \in into => ~Delivered(RequestOrder[r])
      BY <3>1 DEF Editable, Terminal, Delivered
    <3>3. requests[r] \in RequestRow
      BY DEF TypeOK
    <3>4. CASE r \in into
      <4>1. requests'[r] = [requests[r] EXCEPT !.status = "pendiente", !.lines = @ \union {k}]
        BY <3>1, <3>4
      <4> QED BY <4>1, <3>2, <3>3, <3>4 DEF RequestRow
    <3>5. CASE r \notin into
      BY <3>1, <3>5 DEF Gone
    <3> QED BY <3>4, <3>5
  <2>3. SameOrders
    BY <1>6, <1>o, SyncKeepsOrders DEF AddTask
  <2>4. StartsOnGround
    BY <2>1 DEF StartsOnGround, Started
  <2>5. KeepsParts /\ StaysGone
    BY <2>1, <2>2 DEF KeepsParts, StaysGone, Started
  <2>6. UNCHANGED receiving
    BY <1>6 DEF AddTask
  <2> QED BY <2>1, <2>3, <2>4, <2>5, <2>6, <1>r, <1>s, SameOrdersEffect DEF Effect
<1> QED BY <1>1, <1>2, <1>3, <1>4, <1>5, <1>6 DEF TaskStep

LEMMA RequestStepEffect ==
  ASSUME TypeOK, DeliveredHasNoPickup, NEW r \in Requests, RequestStep(r)
  PROVE  Effect
<1> USE RequestAssumption, LooseAssumption
<1>o. RequestOrder[r] \in Orders
  OBVIOUS
<1>t. ASSUME UNCHANGED tasks
      PROVE  StartsOne /\ StartsOnGround
  BY <1>t DEF StartsOne, StartsOnGround
<1>r. ASSUME receiving' \subseteq receiving
      PROVE  ReceivesLive
  BY <1>r DEF ReceivesLive
<1>s. ASSUME UNCHANGED orders
      PROVE  SameOrders
  BY <1>s DEF SameOrders
<1>q. ASSUME UNCHANGED tasks,
             \A q \in Requests : /\ requests'[q].lines \intersect Tasks \subseteq requests[q].lines
                                 /\ requests'[q].picked = requests[q].picked \/ requests'[q].lines = {}
                                 /\ Gone(q) => Gone(q)' \/ ~Delivered(RequestOrder[q])
      PROVE  KeepsParts /\ StaysGone
  BY <1>q DEF KeepsParts, StaysGone
<1>1. CASE AddPart(r)
  <2>1. /\ requests' = [requests EXCEPT ![r] =
             [requests[r] EXCEPT !.status = "pendiente", !.lines = @ \union {Loose}]]
        /\ Editable(RequestOrder[r]) /\ UNCHANGED <<orders, tasks, seen, receiving>>
    BY <1>1 DEF AddPart
  <2>2. /\ \A q \in Requests \ {r} : requests'[q] = requests[q]
        /\ requests'[r] = [requests[r] EXCEPT !.status = "pendiente", !.lines = @ \union {Loose}]
    BY <2>1 DEF TypeOK
  <2>3. /\ requests'[r].lines = requests[r].lines \union {Loose}
        /\ requests'[r].picked = requests[r].picked
    BY <2>2 DEF TypeOK, RequestRow
  <2>4. ~Delivered(RequestOrder[r])
    BY <2>1 DEF Delivered, Editable, Terminal
  <2>5. KeepsParts /\ StaysGone
    BY <1>q, <2>1, <2>2, <2>3, <2>4 DEF Gone
  <2> QED BY <2>1, <2>5, <1>t, <1>r, <1>s, SameOrdersEffect DEF Effect
<1>2. CASE SubmitRequest(r) \/ DispatchRequest(r) \/ DeleteRequest(r)
  <2>1. /\ \A q \in Requests \ {r} : requests'[q] = requests[q]
        /\ \/ requests'[r].lines = {}
           \/ /\ requests'[r].lines = requests[r].lines
              /\ requests'[r].picked = requests[r].picked
        /\ UNCHANGED <<orders, tasks, seen, receiving>>
    BY <1>2 DEF TypeOK, RequestRow, SubmitRequest, DispatchRequest, DeleteRequest, NoRequest
  <2>2. ~Delivered(RequestOrder[r])
    BY <1>2 DEF Delivered, Editable, Terminal, SubmitRequest, DispatchRequest, DeleteRequest
  <2>3. KeepsParts /\ StaysGone
    BY <1>q, <2>1, <2>2 DEF Gone
  <2> QED BY <2>1, <2>3, <1>t, <1>r, <1>s, SameOrdersEffect DEF Effect
<1>3. ASSUME NEW x, RemovePart(r, x)
      PROVE  Effect
  <2>1. /\ \A q \in Requests \ {r} : requests'[q] = requests[q]
        /\ requests'[r].lines \subseteq requests[r].lines
        /\ requests'[r].picked = requests[r].picked
        /\ UNCHANGED <<tasks, seen, receiving>>
    BY <1>3 DEF TypeOK, RequestRow, RemovePart
  <2>2. ~Delivered(RequestOrder[r])
    BY <1>3 DEF Delivered, Editable, Terminal, RemovePart
  <2>3. SameOrders
    BY <1>3, <1>o, SyncKeepsOrders DEF RemovePart
  <2>4. KeepsParts /\ StaysGone
    BY <1>q, <2>1, <2>2 DEF Gone
  <2> QED BY <2>1, <2>3, <2>4, <1>t, <1>r, SameOrdersEffect DEF Effect
<1>4. CASE BeginPickup(r)
  <2>1. /\ UNCHANGED <<orders, tasks, requests, seen>>
        /\ \A p \in receiving' : p.request = r
        /\ ~Gone(r)
    BY <1>4 DEF BeginPickup, Receivable, Gone
  <2>2. ReceivesLive
    BY <2>1 DEF ReceivesLive, DeliveredHasNoPickup
  <2>3. KeepsParts /\ StaysGone
    BY <1>q, <2>1 DEF Gone
  <2> QED BY <2>1, <2>2, <2>3, <1>t, <1>s, SameOrdersEffect DEF Effect
<1>5. ASSUME NEW row, Pickup(r, row)
      PROVE  Effect
  <2> DEFINE o == RequestOrder[r]
             R == [requests EXCEPT ![r].picked = TRUE]
             new == Synced(row, o, tasks, R)
  <2>1. /\ row = orders[o] \/ [request |-> r, order |-> row] \in receiving
        /\ receiving' = {} /\ UNCHANGED <<tasks, seen>>
        /\ requests' = R
        /\ orders' = [orders EXCEPT ![o] = Stored(new, row, @)]
    BY <1>5 DEF Pickup
  <2>2. row \in OrderRow /\ orders[o] \in OrderRow
    BY <2>1, <1>o DEF TypeOK, Receipt
  <2>3. /\ \A p \in Orders \ {o} : orders'[p] = orders[p]
        /\ orders'[o] = Stored(new, row, orders[o])
    BY <2>1, <1>o DEF TypeOK
  <2>4. /\ new \in OrderRow /\ new.technician = row.technician /\ new.inspected = row.inspected
        /\ new.status # row.status => new.status \in Working
    BY <2>2, SyncedRow
  <2>5. /\ orders'[o].status = orders[o].status \/ orders'[o].status \in Working
        /\ orders'[o].technician = orders[o].technician
        /\ orders'[o].inspected = orders[o].inspected
    BY <2>2, <2>3, <2>4, StoredOrder
  <2>6. orders[o].status = "orden_cerrada" => orders'[o].status = "orden_cerrada"
    <3>1. SUFFICES ASSUME orders[o].status = "orden_cerrada"
                   PROVE  orders'[o].status = "orden_cerrada"
      OBVIOUS
    <3>2. row = orders[o]
      BY <3>1, <2>1 DEF DeliveredHasNoPickup, Delivered
    <3>3. new = row
      BY <3>1, <3>2, <2>2, SyncedRow DEF Working
    <3> QED BY <3>1, <3>3, <2>2, <2>3, StoredOrder
  <2>7. HandsOver /\ EndsQuietly /\ KeepsInspected /\ StaysDelivered /\ DeliversAll
    BY <2>3, <2>5, <2>6 DEF HandsOver, EndsQuietly, KeepsInspected, StaysDelivered,
       DeliversAll, Terminal, Delivered, Working
  <2>8. \A q \in Requests : /\ requests'[q].lines = requests[q].lines
                            /\ requests[q].picked => requests'[q].picked
                            /\ requests'[q].closed = requests[q].closed
                            /\ requests'[q].status = requests[q].status
    BY <2>1 DEF TypeOK, RequestRow
  <2>9. KeepsParts /\ StaysGone
    BY <2>1, <2>8 DEF KeepsParts, StaysGone, Gone
  <2> QED BY <2>1, <2>7, <2>9, <1>t, <1>r DEF Effect
<1> QED BY <1>1, <1>2, <1>3, <1>4, <1>5 DEF RequestStep

LEMMA OrderStepEffect ==
  ASSUME TypeOK, NEW o \in Orders, FloorStep(o) \/ EndStep(o)
  PROVE  Effect
<1>t. ASSUME \/ UNCHANGED tasks
             \/ tasks' = StopAll(o)
      PROVE  StartsOne /\ StartsOnGround
  BY <1>t, StopAllType DEF StartsOne, StartsOnGround, Started
<1>r. ASSUME UNCHANGED receiving
      PROVE  ReceivesLive
  BY <1>r DEF ReceivesLive
<1>q. ASSUME UNCHANGED requests
      PROVE  KeepsParts /\ StaysGone
  BY <1>q DEF KeepsParts, StaysGone, Gone
<1>a. \A p \in Orders : orders[p] \in OrderRow
  BY DEF TypeOK
<1>1. CASE CompleteInspections(o)
  <2>1. UNCHANGED <<tasks, requests, seen, receiving>>
    BY <1>1 DEF CompleteInspections
  <2>2. \A p \in Orders : /\ orders'[p].technician = orders[p].technician
                          /\ orders'[p].status = orders[p].status
                          /\ orders[p].inspected => orders'[p].inspected
    BY <1>1, <1>a DEF TypeOK, CompleteInspections, OrderRow
  <2>3. HandsOver /\ EndsQuietly /\ KeepsInspected /\ StaysDelivered /\ DeliversAll
    BY <2>2 DEF HandsOver, EndsQuietly, KeepsInspected, StaysDelivered, DeliversAll,
       Terminal, Delivered
  <2> QED BY <2>1, <2>3, <1>t, <1>r, <1>q DEF Effect
<1>2. ASSUME NEW t, Reassign(o, t)
      PROVE  Effect
  <2>1. UNCHANGED <<tasks, requests, seen, receiving>> /\ Quiet(o)'
    BY <1>2 DEF Reassign, Running, TasksOf, Quiet
  <2>2. /\ \A p \in Orders \ {o} : orders'[p] = orders[p]
        /\ orders'[o].status = orders[o].status
        /\ orders'[o].inspected = orders[o].inspected
    BY <1>2, <1>a DEF TypeOK, Reassign, OrderRow
  <2>3. HandsOver /\ EndsQuietly /\ KeepsInspected /\ StaysDelivered /\ DeliversAll
    BY <2>1, <2>2 DEF HandsOver, EndsQuietly, KeepsInspected, StaysDelivered, DeliversAll,
       Terminal, Delivered
  <2> QED BY <2>1, <2>3, <1>t, <1>r, <1>q DEF Effect
<1>3. CASE ForceComplete(o) \/ Invoice(o) \/ Reopen(o)
  <2>1. /\ UNCHANGED <<requests, seen, receiving>>
        /\ tasks' = StopAll(o) \/ UNCHANGED tasks
    BY <1>3 DEF ForceComplete, Invoice, Reopen
  <2>2. /\ \A p \in Orders \ {o} : orders'[p] = orders[p]
        /\ orders'[o].technician = orders[o].technician
        /\ orders'[o].inspected = orders[o].inspected
        /\ orders'[o].status \in Working /\ orders[o].status # "orden_cerrada"
    <3>1. CASE ForceComplete(o)
      <4> DEFINE row == [orders[o] EXCEPT !.status = "completado",
                           !.pending = Unfinished(o) \/ AwaitsPickup(o, requests)]
      <4>1. orders' = [orders EXCEPT ![o] = row] /\ orders[o].status \in {"pendiente", "en_progreso"}
        BY <3>1 DEF ForceComplete
      <4>2. orders'[o] = row /\ \A p \in Orders \ {o} : orders'[p] = orders[p]
        BY <4>1 DEF TypeOK
      <4> HIDE DEF row
      <4>3. /\ row.technician = orders[o].technician /\ row.inspected = orders[o].inspected
            /\ row.status = "completado"
        BY <1>a DEF row, OrderRow
      <4> QED BY <4>1, <4>2, <4>3 DEF Working
    <3>2. CASE Invoice(o)
      BY <3>2, <1>a DEF TypeOK, Invoice, OrderRow, Working
    <3>3. CASE Reopen(o)
      BY <3>3, <1>a DEF TypeOK, Reopen, OrderRow, Working
    <3> QED BY <1>3, <3>1, <3>2, <3>3
  <2>3. HandsOver /\ EndsQuietly /\ KeepsInspected /\ StaysDelivered /\ DeliversAll
    BY <2>2 DEF HandsOver, EndsQuietly, KeepsInspected, StaysDelivered, DeliversAll,
       Terminal, Delivered, Working
  <2> QED BY <2>1, <2>3, <1>t, <1>r, <1>q DEF Effect
<1>4. CASE Close(o) \/ Cancel(o)
  <2>1. tasks' = StopAll(o) /\ Quiet(o)' /\ UNCHANGED receiving
    <3>1. tasks' = StopAll(o) /\ UNCHANGED receiving
      BY <1>4 DEF Close, Cancel
    <3> QED BY <3>1, StopAllType DEF Quiet
  <2>2. /\ \A p \in Orders \ {o} : orders'[p] = orders[p]
        /\ orders'[o].technician = orders[o].technician
        /\ orders'[o].inspected = orders[o].inspected
        /\ orders[o].status # "orden_cerrada"
    <3>1. CASE Close(o)
      <4> DEFINE row == [orders[o] EXCEPT !.status = "orden_cerrada", !.pending = FALSE]
      <4>1. orders' = [orders EXCEPT ![o] = row] /\ orders[o].status = "completado"
        BY <3>1 DEF Close
      <4>2. orders'[o] = row /\ \A p \in Orders \ {o} : orders'[p] = orders[p]
        BY <4>1 DEF TypeOK
      <4>3. row.technician = orders[o].technician /\ row.inspected = orders[o].inspected
        BY <1>a DEF OrderRow
      <4> QED BY <4>1, <4>2, <4>3
    <3>2. CASE Cancel(o)
      BY <3>2, <1>a DEF TypeOK, Cancel, OrderRow
    <3> QED BY <1>4, <3>1, <3>2
  <2>3. \A r \in Requests : /\ requests'[r].lines = requests[r].lines
                            /\ requests'[r].picked = requests[r].picked
                            /\ Gone(r) => Gone(r)'
    BY <1>4 DEF TypeOK, Close, Cancel, RequestRow, Gone
  <2>4. KeepsParts /\ StaysGone
    BY <2>3 DEF KeepsParts, StaysGone
  <2>5. HandsOver /\ EndsQuietly /\ KeepsInspected /\ StaysDelivered
    BY <2>1, <2>2 DEF HandsOver, EndsQuietly, KeepsInspected, StaysDelivered,
       Terminal, Delivered
  <2>6. DeliversAll
    <3>1. CASE Close(o)
      <4>1. receiving' = {} /\ \A r \in Requests : RequestOrder[r] = o => Gone(r)'
        BY <3>1 DEF TypeOK, Close, FilialFree, RequestRow, Gone
      <4> QED BY <4>1, <2>2 DEF DeliversAll, Delivered
    <3>2. CASE Cancel(o)
      <4>1. orders'[o].status = "cancelado"
        BY <3>2, <1>a DEF TypeOK, Cancel, OrderRow
      <4> QED BY <4>1, <2>2 DEF DeliversAll, Delivered
    <3> QED BY <1>4, <3>1, <3>2
  <2> QED BY <2>1, <2>4, <2>5, <2>6, <1>t, <1>r DEF Effect
<1> QED BY <1>1, <1>2, <1>3, <1>4 DEF FloorStep, EndStep

LEMMA AbandonEffect ==
  ASSUME AbandonPickup \/ UNCHANGED vars
  PROVE  Effect
<1>1. UNCHANGED <<orders, tasks, requests>> /\ receiving' \subseteq receiving
  BY DEF AbandonPickup, vars
<1>2. SameOrders
  BY <1>1 DEF SameOrders
<1>3. StartsOne /\ StartsOnGround /\ KeepsParts /\ StaysGone /\ ReceivesLive
  BY <1>1 DEF StartsOne, StartsOnGround, KeepsParts, StaysGone, Gone, ReceivesLive
<1> QED BY <1>2, <1>3, SameOrdersEffect DEF Effect

LEMMA StepEffect ==
  ASSUME TypeOK, DeliveredHasNoPickup, [Next]_vars
  PROVE  Effect
<1>1. CASE \E k \in Tasks : TaskStep(k)
  BY <1>1, TaskStepEffect
<1>2. CASE \E r \in Requests : RequestStep(r)
  BY <1>2, RequestStepEffect
<1>3. CASE \E o \in Orders : FloorStep(o) \/ EndStep(o)
  BY <1>3, OrderStepEffect
<1>4. CASE AbandonPickup \/ UNCHANGED vars
  BY <1>4, AbandonEffect
<1> QED BY <1>1, <1>2, <1>3, <1>4 DEF Next

-----------------------------------------------------------------------------
(* The invariants *)

\* Two running timers of one technician: one of them started last, and then
\* the technician was idle; or an order changed hands, and then it had none.
LEMMA TimersStayApart ==
  ASSUME TypeOK, OneTimerPerTechnician, Effect
  PROVE  OneTimerPerTechnician'
<1> USE TaskAssumption
<1>1. SUFFICES ASSUME NEW j \in Tasks, NEW k \in Tasks, j # k,
                      tasks'[j].running, tasks'[k].running,
                      orders'[TaskOrder[j]].technician = orders'[TaskOrder[k]].technician,
                      orders'[TaskOrder[j]].technician # Nobody
               PROVE  FALSE
  BY DEF OneTimerPerTechnician
<1>2. ASSUME NEW i \in {j, k}
      PROVE  orders'[TaskOrder[i]].technician = orders[TaskOrder[i]].technician
  BY <1>1, <1>2 DEF Effect, HandsOver, Quiet
<1>3. orders[TaskOrder[j]].technician = orders[TaskOrder[k]].technician
      /\ orders[TaskOrder[j]].technician # Nobody
  BY <1>1, <1>2
<1>4. ~(tasks[j].running /\ tasks[k].running)
  BY <1>1, <1>3 DEF OneTimerPerTechnician
<1>5. ASSUME NEW i \in Tasks, NEW l \in Tasks, i # l,
             tasks'[i].running, ~tasks[i].running, tasks'[l].running,
             orders[TaskOrder[i]].technician = orders[TaskOrder[l]].technician,
             orders[TaskOrder[i]].technician # Nobody
      PROVE  FALSE
  <2>1. TechnicianIdle(TaskOrder[i]) /\ tasks[l].running
    BY <1>5 DEF Effect, StartsOne
  <2> QED BY <1>5, <2>1 DEF TechnicianIdle, Running, TasksOf
<1> QED BY <1>1, <1>3, <1>4, <1>5

LEMMA TerminalStaysQuiet ==
  ASSUME TypeOK, TerminalHasNoTimer, Effect
  PROVE  TerminalHasNoTimer'
<1> USE TaskAssumption
<1>1. SUFFICES ASSUME NEW o \in Orders, Terminal(o)', NEW k \in Tasks,
                      TaskOrder[k] = o, tasks'[k].running
               PROVE  FALSE
  BY DEF TerminalHasNoTimer, Running, TasksOf
<1>2. Terminal(o)
  BY <1>1 DEF Effect, EndsQuietly, Quiet
<1>3. ~tasks[k].running
  BY <1>1, <1>2 DEF TerminalHasNoTimer, Running, TasksOf
<1> QED BY <1>1, <1>2, <1>3 DEF Effect, StartsOne

LEMMA PartsStayReceived ==
  ASSUME TypeOK, PartsBeforeWork, Effect
  PROVE  PartsBeforeWork'
<1> USE TaskAssumption
<1>1. SUFFICES ASSUME NEW k \in Tasks, Started(tasks'[k])
               PROVE  /\ orders'[TaskOrder[k]].inspected
                      /\ \A r \in Requests : k \in requests'[r].lines => requests'[r].picked
  BY DEF PartsBeforeWork, Started
<1>2. /\ orders[TaskOrder[k]].inspected
      /\ \A r \in Requests : k \in requests[r].lines => requests[r].picked
  BY <1>1 DEF Effect, StartsOnGround, PartsBeforeWork, Started, Workable, PartsReceived
<1> QED BY <1>1, <1>2 DEF Effect, KeepsInspected, KeepsParts

LEMMA NoPickupStays ==
  ASSUME TypeOK, DeliveredHasNoPickup, Effect, TypeOK'
  PROVE  DeliveredHasNoPickup'
<1> USE RequestAssumption
<1>1. ASSUME NEW r \in Requests, Delivered(RequestOrder[r])'
      PROVE  Gone(r)'
  BY <1>1 DEF Effect, DeliversAll, StaysGone, DeliveredHasNoPickup
<1>2. ASSUME NEW p \in receiving', Delivered(RequestOrder[p.request])'
      PROVE  FALSE
  <2>1. RequestOrder[p.request] \in Orders
    BY DEF TypeOK, Receipt
  <2> QED BY <1>2, <2>1 DEF Effect, DeliversAll, ReceivesLive, DeliveredHasNoPickup
<1> QED BY <1>1, <1>2 DEF DeliveredHasNoPickup

IInv == TypeOK /\ OneTimerPerTechnician /\ TerminalHasNoTimer /\ PartsBeforeWork
        /\ DeliveredHasNoPickup

LEMMA InvariantInductive ==
  ASSUME IInv, [Next]_vars
  PROVE  IInv'
BY TypeInductive, StepEffect, TimersStayApart, TerminalStaysQuiet, PartsStayReceived,
   NoPickupStays DEF IInv

LEMMA InvariantHolds == Spec => []IInv
<1>1. Init => IInv
  <2> SUFFICES ASSUME Init
               PROVE  IInv
    OBVIOUS
  <2>1. TypeOK
    BY DEF Init, TypeOK, NewOrder, NoTask, NoRequest, OrderRow, TaskRow, RequestRow, Working
  <2>2. OneTimerPerTechnician /\ TerminalHasNoTimer /\ PartsBeforeWork
    BY DEF Init, NoTask, NewOrder, OneTimerPerTechnician, TerminalHasNoTimer, Terminal,
       Running, TasksOf, PartsBeforeWork
  <2>3. DeliveredHasNoPickup
    BY RequestAssumption DEF Init, NewOrder, DeliveredHasNoPickup, Delivered
  <2> QED BY <2>1, <2>2, <2>3 DEF IInv
<1> QED BY <1>1, InvariantInductive, PTL DEF Spec

\* However many handlers overlap and orders are reassigned, no technician has
\* two timers running.
THEOREM TimersExclusive == Spec => []OneTimerPerTechnician
<1>1. IInv => OneTimerPerTechnician
  BY DEF IInv
<1> QED BY <1>1, InvariantHolds, PTL

\* A delivered or cancelled order has no timer running.
THEOREM EndedIsQuiet == Spec => []TerminalHasNoTimer
<1>1. IInv => TerminalHasNoTimer
  BY DEF IInv
<1> QED BY <1>1, InvariantHolds, PTL

\* No task is under way before its parts are received and the inspections done.
THEOREM PartsReceivedFirst == Spec => []PartsBeforeWork
<1>1. IInv => PartsBeforeWork
  BY DEF IInv
<1> QED BY <1>1, InvariantHolds, PTL

\* A delivered order stays delivered, although a pickup writes a status derived
\* from an order it read without a lock.
THEOREM DeliveryIsFinal == Spec => DeliveredIsFinal
<1>1. IInv /\ [Next]_vars =>
        [\A o \in Orders : orders[o].status = "orden_cerrada" => orders'[o].status = "orden_cerrada"]_vars
  <2> SUFFICES ASSUME IInv, [Next]_vars
               PROVE  \A o \in Orders : orders[o].status = "orden_cerrada"
                                          => orders'[o].status = "orden_cerrada"
    OBVIOUS
  <2> QED BY StepEffect DEF IInv, Effect, StaysDelivered, Delivered
<1> QED BY <1>1, InvariantHolds, PTL DEF Spec, DeliveredIsFinal
-----------------------------------------------------------------------------
(* The second group: what an order's status says of its tasks, when no     *)
(* handler is caught between its read and its lock.                        *)

Left(o, T)       == \E k \in TasksOf(o) : T[k].status \in TaskStatus \ Finished
AllPending(o, T) == \A k \in TasksOf(o) :
  T[k].status \in TaskStatus => T[k].status \in {"pendiente", "cancelada"}
HasTask(o, T)    == \E k \in TasksOf(o) : T[k].status \in TaskStatus

\* The strengthening: nobody invoices a cancelled order, so that reopening it
\* does not bring back an invoiced order whose work is done.
Truthful(o, row, T) ==
  /\ row.status = "en_progreso" => Left(o, T) /\ ~AllPending(o, T)
  /\ row.status = "completado" => row.pending \/ ~Left(o, T)
  /\ row.status = "pendiente" => row.reopened \/ AllPending(o, T)
  /\ row.pending => row.status = "completado"
  /\ row.status = "cancelado" => ~row.invoiced
  /\ row.invoiced /\ row.status \in Working /\ ~Left(o, T) /\ HasTask(o, T)
       => row.status = "completado"

Alone == receiving = {} /\ \A k \in Tasks : seen[k] = {}
AloneInv == Alone /\ FinishedHasNoTimer /\ \A o \in Orders : Truthful(o, orders[o], tasks)

\* The derived status is the truth about the tasks it is derived from, whatever
\* the order's row said before; a terminal row says nothing of them.
LEMMA SyncedTruth ==
  ASSUME NEW row \in OrderRow, NEW o, NEW T, NEW S, NEW R, Truthful(o, row, S)
  PROVE  Truthful(o, Synced(row, o, T, R), T)
<1>1. CASE row.status \notin Working
  <2>1. Synced(row, o, T, R) = row /\ row.status \in {"orden_cerrada", "cancelado"}
    BY <1>1, SyncedRow DEF OrderRow
  <2> QED BY <2>1 DEF Truthful, Working
<1>2. CASE row.status \in Working
  <2> DEFINE s == Synced(row, o, T, R)
  <2>1. /\ s.status = Derived(o, T) /\ s \in OrderRow
        /\ s.pending => Derived(o, T) = "completado"
        /\ s.status \in Working
    BY <1>2, SyncedRow DEF Synced, OrderRow, Done
  <2>2. /\ Derived(o, T) = "en_progreso" => Left(o, T) /\ ~AllPending(o, T)
        /\ Derived(o, T) = "completado" => ~Left(o, T)
        /\ Derived(o, T) = "pendiente" => AllPending(o, T)
        /\ ~Left(o, T) /\ HasTask(o, T) => Derived(o, T) = "completado"
    BY DEF Derived, Done, Relevant, Left, AllPending, HasTask, TaskStatus, Finished
  <2> HIDE DEF s
  <2>3. Truthful(o, s, T)
    BY <2>1, <2>2 DEF Truthful, Working
  <2> QED BY <2>3 DEF s
<1> QED BY <1>1, <1>2

\* It depends on nothing but the statuses of the order's tasks.
LEMMA SameTruth ==
  ASSUME NEW o \in Orders, NEW row, NEW S, NEW T, Truthful(o, row, S),
         \A k \in TasksOf(o) : T[k].status = S[k].status
  PROVE  Truthful(o, row, T)
<1>1. (Left(o, S) <=> Left(o, T)) /\ (AllPending(o, S) <=> AllPending(o, T))
      /\ (HasTask(o, S) <=> HasTask(o, T))
  BY DEF Left, AllPending, HasTask
<1> QED BY <1>1 DEF Truthful

\* A handler that derives the status of one order keeps all of them truthful.
LEMMA SyncStaysTruthful ==
  ASSUME TypeOK, \A p \in Orders : Truthful(p, orders[p], tasks), NEW o \in Orders, NEW T, NEW R,
         orders' = [orders EXCEPT ![o] = Synced(@, o, T, R)],
         \A k \in Tasks : IF TaskOrder[k] = o THEN tasks'[k].status = T[k].status
                                              ELSE tasks'[k].status = tasks[k].status
  PROVE  \A p \in Orders : Truthful(p, orders'[p], tasks')
<1>1. orders[o] \in OrderRow /\ orders'[o] = Synced(orders[o], o, T, R)
      /\ \A p \in Orders \ {o} : orders'[p] = orders[p]
  BY DEF TypeOK
<1>2. Truthful(o, orders'[o], T)
  BY <1>1, SyncedTruth
<1>3. Truthful(o, orders'[o], tasks')
  BY <1>2, SameTruth DEF TasksOf
<1>4. ASSUME NEW p \in Orders \ {o} PROVE Truthful(p, orders'[p], tasks')
  BY <1>1, SameTruth DEF TasksOf
<1> QED BY <1>3, <1>4

\* One that does not touch the orders, nor any task's status, does too.
LEMMA FrameStaysTruthful ==
  ASSUME \A p \in Orders : Truthful(p, orders[p], tasks), UNCHANGED orders,
         \A k \in Tasks : tasks'[k].status = tasks[k].status
  PROVE  \A p \in Orders : Truthful(p, orders'[p], tasks')
BY SameTruth DEF TasksOf

\* What a task operation stores, when it works on the row it reads now.
LEMMA WritesNow ==
  ASSUME TypeOK, NEW k \in Tasks, NEW new \in TaskRow, WriteTask(k, new, tasks[k])
  PROVE  /\ tasks'[k].status = new.status /\ tasks'[k].running = new.running
         /\ \A j \in Tasks \ {k} : tasks'[j] = tasks[j]
<1>1. tasks[k] \in TaskRow
  BY DEF TypeOK
<1> QED BY <1>1, WritesOneTask

\* A task operation that is not caught in between.
LEMMA TaskStepAlone ==
  ASSUME TypeOK, AloneInv, SlowHandlers = 0, NEW k \in Tasks, TaskStep(k)
  PROVE  AloneInv'
<1> USE TaskAssumption
<1>o. /\ TaskOrder[k] \in Orders /\ tasks[k] \in TaskRow
      /\ tasks \in [Tasks -> TaskRow]
  BY DEF TypeOK
<1>a. \A p \in Orders : Truthful(p, orders[p], tasks)
  BY DEF AloneInv
<1>0. ASSUME NEW v, Reads(k, v)
      PROVE  v = tasks[k] /\ UNCHANGED seen
  BY <1>0 DEF Reads, AloneInv, Alone
<1>w. ASSUME NEW new \in TaskRow, WriteTask(k, new, tasks[k]), SyncAfter(k, new)
      PROVE  \A p \in Orders : Truthful(p, orders'[p], tasks')
  <2> DEFINE T == [tasks EXCEPT ![k] = new]
  <2>1. \A j \in Tasks : tasks'[j].status = T[j].status
    BY <1>o, <1>w, WritesNow
  <2>2. \A j \in Tasks : IF TaskOrder[j] = TaskOrder[k] THEN tasks'[j].status = T[j].status
                                              ELSE tasks'[j].status = tasks[j].status
    BY <1>o, <2>1
  <2>3. orders' = [orders EXCEPT ![TaskOrder[k]] = Synced(@, TaskOrder[k], T, requests)]
    BY <1>w DEF SyncAfter
  <2> HIDE DEF T
  <2> DEFINE o == TaskOrder[k]
  <2>4. /\ o \in Orders /\ orders' = [orders EXCEPT ![o] = Synced(@, o, T, requests)]
        /\ \A j \in Tasks : IF TaskOrder[j] = o THEN tasks'[j].status = T[j].status
                                                ELSE tasks'[j].status = tasks[j].status
    BY <1>o, <2>2, <2>3
  <2> HIDE DEF o
  <2> QED BY <1>a, <2>4, SyncStaysTruthful
<1>1. CASE ReadTask(k)
  <2>1. {j \in Tasks : seen[j] # {}} = {}
    BY DEF AloneInv, Alone
  <2> QED BY <1>1, <2>1, FS_EmptySet DEF ReadTask
<1>2. CASE ForgetTask(k)
  BY <1>2 DEF ForgetTask, AloneInv, Alone
<1>3. ASSUME NEW v, StartTimer(k, v)
      PROVE  AloneInv'
  <2> DEFINE new == [v EXCEPT !.running = TRUE, !.status = "en_progreso"]
  <2>1. v = tasks[k] /\ UNCHANGED <<seen, receiving>>
    BY <1>0, <1>3 DEF StartTimer
  <2>2. new \in TaskRow /\ new.status = "en_progreso"
    BY <1>o, <2>1 DEF TaskRow, TaskStatus
  <2>3. WriteTask(k, new, tasks[k]) /\ SyncAfter(k, new)
    BY <1>3, <2>1 DEF StartTimer
  <2> HIDE DEF new
  <2>4. FinishedHasNoTimer'
    BY <2>2, <2>3, WritesNow DEF AloneInv, FinishedHasNoTimer, Finished
  <2>5. \A p \in Orders : Truthful(p, orders'[p], tasks')
    BY <1>w, <2>2, <2>3
  <2> QED BY <2>1, <2>4, <2>5 DEF AloneInv, Alone
<1>4. ASSUME NEW v, PauseTimer(k, v)
      PROVE  AloneInv'
  <2>1. v = tasks[k] /\ UNCHANGED <<seen, receiving, orders>>
        /\ WriteTask(k, Stopped(tasks[k]), tasks[k])
    BY <1>0, <1>4 DEF PauseTimer
  <2>2. /\ tasks'[k].status = tasks[k].status /\ ~tasks'[k].running
        /\ \A j \in Tasks \ {k} : tasks'[j] = tasks[j]
    BY <1>o, <2>1, StoppedRow, WritesNow
  <2>3. FinishedHasNoTimer'
    BY <2>2 DEF AloneInv, FinishedHasNoTimer
  <2>4. \A j \in Tasks : tasks'[j].status = tasks[j].status
    BY <2>2
  <2> QED BY <1>a, <2>1, <2>3, <2>4, FrameStaysTruthful DEF AloneInv, Alone
<1>5. ASSUME NEW v, NEW s \in TaskStatus, SetStatus(k, v, s)
      PROVE  AloneInv'
  <2> DEFINE new == Moved(v, s)
  <2>1. v = tasks[k] /\ UNCHANGED <<seen, receiving>>
    BY <1>0, <1>5 DEF SetStatus
  <2>2. new \in TaskRow /\ new.status = s /\ (s \in Finished => ~new.running)
    BY <1>o, <2>1, MovedRow, StoppedRow DEF Moved, Stopped, TaskRow
  <2>3. WriteTask(k, new, tasks[k]) /\ SyncAfter(k, new)
    BY <1>5, <2>1 DEF SetStatus
  <2> HIDE DEF new
  <2>4. FinishedHasNoTimer'
    BY <2>2, <2>3, WritesNow DEF AloneInv, FinishedHasNoTimer
  <2>5. \A p \in Orders : Truthful(p, orders'[p], tasks')
    BY <1>w, <2>2, <2>3
  <2> QED BY <2>1, <2>4, <2>5 DEF AloneInv, Alone
<1>6. ASSUME NEW row \in TaskRow, ~row.running, NEW R,
             tasks' = [tasks EXCEPT ![k] = row],
             orders' = [orders EXCEPT ![TaskOrder[k]] =
                          Synced(@, TaskOrder[k], [tasks EXCEPT ![k] = row], R)],
             UNCHANGED <<seen, receiving>>
      PROVE  AloneInv'
  <2>1. FinishedHasNoTimer'
    BY <1>o, <1>6 DEF AloneInv, FinishedHasNoTimer
  <2>2. \A j \in Tasks : IF TaskOrder[j] = TaskOrder[k]
                         THEN tasks'[j].status = [tasks EXCEPT ![k] = row][j].status
                         ELSE tasks'[j].status = tasks[j].status
    BY <1>o, <1>6
  <2>3. \A p \in Orders : Truthful(p, orders'[p], tasks')
    BY <1>o, <1>a, <1>6, <2>2, SyncStaysTruthful
  <2> QED BY <1>6, <2>1, <2>3 DEF AloneInv, Alone
<1>7. ASSUME NEW v, DeleteTask(k, v)
      PROVE  AloneInv'
  <2>1. [NoTask EXCEPT !.status = "borrada"] \in TaskRow
        /\ ~[NoTask EXCEPT !.status = "borrada"].running
    BY DEF NoTask, TaskRow
  <2>2. UNCHANGED seen
    BY <1>0, <1>7 DEF DeleteTask
  <2> QED BY <1>6, <1>7, <2>1, <2>2 DEF DeleteTask
<1>8. ASSUME NEW into, AddTask(k, into)
      PROVE  AloneInv'
  <2>1. [NoTask EXCEPT !.status = "pendiente"] \in TaskRow
        /\ ~[NoTask EXCEPT !.status = "pendiente"].running
    BY DEF NoTask, TaskRow, TaskStatus
  <2> QED BY <1>6, <1>8, <2>1 DEF AddTask
<1> QED BY <1>1, <1>2, <1>3, <1>4, <1>5, <1>7, <1>8 DEF TaskStep

\* An operation on an ODT, a pickup included, that is not caught in between.
LEMMA RequestStepAlone ==
  ASSUME TypeOK, AloneInv, SlowHandlers = 0, NEW r \in Requests, RequestStep(r)
  PROVE  AloneInv'
<1> USE RequestAssumption
<1>o. /\ RequestOrder[r] \in Orders /\ orders \in [Orders -> OrderRow]
      /\ \A p \in Orders : Truthful(p, orders[p], tasks)
  BY DEF TypeOK, AloneInv
<1>1. ASSUME UNCHANGED <<tasks, seen, receiving, orders>>
      PROVE  AloneInv'
  BY <1>1 DEF AloneInv, Alone, FinishedHasNoTimer
<1>2. ASSUME NEW R, UNCHANGED <<tasks, seen>>, receiving' = {},
             orders' = [orders EXCEPT ![RequestOrder[r]] = Synced(@, RequestOrder[r], tasks, R)]
      PROVE  AloneInv'
  <2>1. \A p \in Orders : Truthful(p, orders'[p], tasks')
    BY <1>o, <1>2, SyncStaysTruthful
  <2> QED BY <1>2, <2>1 DEF AloneInv, Alone, FinishedHasNoTimer
<1>3. CASE AddPart(r) \/ SubmitRequest(r) \/ DispatchRequest(r) \/ DeleteRequest(r)
  BY <1>1, <1>3 DEF AddPart, SubmitRequest, DispatchRequest, DeleteRequest
<1>4. ASSUME NEW x, RemovePart(r, x)
      PROVE  AloneInv'
  BY <1>2, <1>4 DEF RemovePart, AloneInv, Alone
<1>5. CASE BeginPickup(r)
  BY <1>5 DEF BeginPickup
<1>6. ASSUME NEW row, Pickup(r, row)
      PROVE  AloneInv'
  <2> DEFINE R == [requests EXCEPT ![r].picked = TRUE]
             new == Synced(row, RequestOrder[r], tasks, R)
  <2>1. row = orders[RequestOrder[r]] /\ receiving' = {} /\ UNCHANGED <<tasks, seen>>
    BY <1>6 DEF Pickup, AloneInv, Alone
  <2>2. new \in OrderRow /\ row \in OrderRow
    BY <1>o, <2>1, SyncedRow
  <2>3. Stored(new, row, row) = new
    BY <2>2 DEF Stored, OrderRow
  <2>4. orders' = [orders EXCEPT ![RequestOrder[r]] = Stored(new, row, @)]
    BY <1>6 DEF Pickup
  <2>5. orders' = [orders EXCEPT ![RequestOrder[r]] = new]
    BY <1>o, <2>1, <2>3, <2>4
  <2>6. orders' = [orders EXCEPT ![RequestOrder[r]] = Synced(@, RequestOrder[r], tasks, R)]
    BY <1>o, <2>1, <2>5
  <2> QED BY <1>2, <2>1, <2>6
<1> QED BY <1>3, <1>4, <1>5, <1>6 DEF RequestStep

\* An operation on the order itself.
LEMMA OrderStepAlone ==
  ASSUME TypeOK, AloneInv, NEW o \in Orders, FloorStep(o) \/ EndStep(o)
  PROVE  AloneInv'
<1>a. /\ orders \in [Orders -> OrderRow] /\ orders[o] \in OrderRow
      /\ Truthful(o, orders[o], tasks)
      /\ \A p \in Orders : Truthful(p, orders[p], tasks)
  BY DEF TypeOK, AloneInv
<1>0. ASSUME NEW row, orders' = [orders EXCEPT ![o] = row], Truthful(o, row, tasks),
             UNCHANGED <<seen, receiving>>,
             tasks' = tasks \/ tasks' = StopAll(o)
      PROVE  AloneInv'
  <2>1. \A k \in Tasks : /\ tasks'[k].status = tasks[k].status
                         /\ tasks'[k].running => tasks[k].running
    BY <1>0, StopAllType
  <2>2. FinishedHasNoTimer'
    BY <2>1 DEF AloneInv, FinishedHasNoTimer
  <2>3. \A p \in Orders : Truthful(p, orders'[p], tasks)
    BY <1>a, <1>0
  <2>4. \A p \in Orders : Truthful(p, orders'[p], tasks')
    BY <2>1, <2>3, SameTruth DEF TasksOf
  <2> QED BY <1>0, <2>2, <2>4 DEF AloneInv, Alone
<1>1. CASE CompleteInspections(o)
  <2>1. Truthful(o, [orders[o] EXCEPT !.inspected = TRUE], tasks)
    BY <1>a DEF Truthful, OrderRow
  <2> QED BY <1>0, <1>1, <2>1, <1>a DEF CompleteInspections
<1>2. ASSUME NEW t, Reassign(o, t)
      PROVE  AloneInv'
  <2>1. Truthful(o, [orders[o] EXCEPT !.technician = t], tasks)
    BY <1>a DEF Truthful, OrderRow
  <2> QED BY <1>0, <1>2, <2>1, <1>a DEF Reassign
<1>3. CASE ForceComplete(o)
  <2>1. Unfinished(o) <=> Left(o, tasks)
    BY DEF Unfinished, Left, Exists, TasksOf
  <2>2. Truthful(o, [orders[o] EXCEPT !.status = "completado",
                       !.pending = Unfinished(o) \/ AwaitsPickup(o, requests)], tasks)
    BY <1>a, <2>1 DEF Truthful, OrderRow, Working
  <2> QED BY <1>0, <1>3, <2>2 DEF ForceComplete
<1>4. CASE Invoice(o)
  <2>1. Truthful(o, [orders[o] EXCEPT !.invoiced = TRUE], tasks)
    BY <1>4, <1>a DEF Invoice, Truthful, OrderRow
  <2> QED BY <1>0, <1>4, <2>1, <1>a DEF Invoice
<1>5. CASE Close(o)
  <2>1. Truthful(o, [orders[o] EXCEPT !.status = "orden_cerrada", !.pending = FALSE], tasks)
    BY <1>a DEF Truthful, OrderRow, Working
  <2> QED BY <1>0, <1>5, <2>1 DEF Close
<1>6. CASE Cancel(o)
  <2>1. Truthful(o, [orders[o] EXCEPT !.status = "cancelado", !.reopened = FALSE], tasks)
    BY <1>6, <1>a DEF Cancel, Editable, Truthful, OrderRow, Working
  <2> QED BY <1>0, <1>6, <2>1 DEF Cancel
<1>7. CASE Reopen(o)
  <2>1. Truthful(o, [orders[o] EXCEPT !.status = "pendiente", !.reopened = TRUE], tasks)
    BY <1>7, <1>a DEF Reopen, Truthful, OrderRow, Working
  <2> QED BY <1>0, <1>7, <2>1 DEF Reopen
<1> QED BY <1>1, <1>2, <1>3, <1>4, <1>5, <1>6, <1>7 DEF FloorStep, EndStep

LEMMA AloneHolds ==
  ASSUME SlowHandlers = 0
  PROVE  Spec => [](TypeOK /\ AloneInv)
<1>1. Init => AloneInv
  <2> SUFFICES ASSUME Init PROVE AloneInv
    OBVIOUS
  <2>1. \A o \in Orders : Truthful(o, orders[o], tasks)
    BY DEF Init, NewOrder, NoTask, Truthful, AllPending, Left, HasTask, TaskStatus, TasksOf, Finished
  <2> QED BY <2>1 DEF Init, NoTask, AloneInv, Alone, FinishedHasNoTimer, Finished
<1>2. TypeOK /\ AloneInv /\ [Next]_vars => AloneInv'
  <2> SUFFICES ASSUME TypeOK, AloneInv, [Next]_vars PROVE AloneInv'
    OBVIOUS
  <2>1. CASE AbandonPickup
    BY <2>1 DEF AbandonPickup, AloneInv, Alone
  <2>2. CASE UNCHANGED vars
    BY <2>2 DEF vars, AloneInv, Alone, FinishedHasNoTimer
  <2> QED BY <2>1, <2>2, TaskStepAlone, RequestStepAlone, OrderStepAlone DEF Next
<1> QED BY <1>1, <1>2, OrderTypeCorrect, PTL DEF Spec

\* When handlers do not overlap, a working status is the truth about the tasks,
\* but for orders completed by force or reopened (_sync_status_from_tasks).
THEOREM StatusIsTrue ==
  ASSUME SlowHandlers = 0
  PROVE  Spec => []StatusFollowsTasks
<1>1. AloneInv => StatusFollowsTasks
  BY DEF AloneInv, StatusFollowsTasks, Truthful, Left, AllPending, Unfinished, Exists, TasksOf,
         Finished
<1> QED BY <1>1, AloneHolds, PTL

\* ... a task that was completed or dropped has no timer on ...
THEOREM FinishedIsStopped ==
  ASSUME SlowHandlers = 0
  PROVE  Spec => []FinishedHasNoTimer
<1>1. AloneInv => FinishedHasNoTimer
  BY DEF AloneInv
<1> QED BY <1>1, AloneHolds, PTL

\* ... and an invoiced order whose work is done can be delivered, whatever parts
\* are picked up late (close_order, _sync_status_from_tasks).
THEOREM InvoicedCanBeDelivered ==
  ASSUME SlowHandlers = 0
  PROVE  Spec => []InvoicedIsDeliverable
<1>1. TypeOK /\ AloneInv => InvoicedIsDeliverable
  <2> SUFFICES ASSUME TypeOK, AloneInv, NEW o \in Orders, orders[o].invoiced, ~Terminal(o),
                      ~Unfinished(o), \E k \in TasksOf(o) : Exists(k)
               PROVE  orders[o].status = "completado"
    BY DEF InvoicedIsDeliverable
  <2>1. orders[o].status \in Working
    BY DEF TypeOK, OrderRow, Terminal
  <2>2. ~Left(o, tasks) /\ HasTask(o, tasks)
    BY DEF Left, HasTask, Unfinished, Exists
  <2> QED BY <2>1, <2>2 DEF AloneInv, Truthful
<1> QED BY <1>1, AloneHolds, PTL
=============================================================================
