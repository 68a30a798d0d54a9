---------------------------- MODULE ServiceOrder ----------------------------
(***************************************************************************)
(* A service order (ODS) seen from the workshop floor: its tasks and their *)
(* timers, the technician it is assigned to, the part requests (ODT) its   *)
(* tasks wait for, and the working status derived from the tasks.          *)
(*                                                                         *)
(* An action is one committed transaction; almost all of them hold the     *)
(* order's row lock from their first check to their commit.  Two kinds of  *)
(* handler read before they lock.  A task operation loads the task, and    *)
(* only then waits for the order (seen); a pickup holds the filial and the *)
(* ODT, but loads the order without locking it and stores a photograph     *)
(* before it writes (receiving).  SQLAlchemy writes the columns that       *)
(* differ from what was loaded, so a stale handler overwrites those and    *)
(* leaves the others.                                                      *)
(*                                                                         *)
(* Left out: drafts, bays and schedules, prices, notes, photographs,       *)
(* notifications, and completed_at.  What the shelf does when an ODT is    *)
(* submitted or dispatched is module Workshop's subject.                   *)
(*                                                                         *)
(* An operator marked "Wrong" is used nowhere: it is the bug that one of   *)
(* the properties below is there to catch (README, "Mutants").             *)
(***************************************************************************)
EXTENDS Integers, FiniteSets

CONSTANTS
  Orders,       \* service orders, already sent to the workshop
  Tasks,        \* task ids, each used once
  TaskOrder,    \* the order a task belongs to
  Requests,     \* ODT ids, each used once
  RequestOrder, \* the order an ODT belongs to
  Technicians,
  Nobody,       \* an order without a technician
  Loose,        \* in an ODT: the lines no task asked for
  SlowHandlers, \* bound: task operations caught between their read and their lock
  Marks,        \* bound: the statuses users set a task to
  Ending        \* bound: the orders users force, invoice, deliver, cancel and reopen

ASSUME TaskAssumption    == TaskOrder \in [Tasks -> Orders]
ASSUME RequestAssumption == RequestOrder \in [Requests -> Orders]
ASSUME NobodyAssumption  == Nobody \notin Technicians
ASSUME LooseAssumption   == Loose \notin Tasks

VARIABLES
  orders,     \* service_orders
  tasks,      \* service_order_tasks
  requests,   \* service_order_transfers and the tasks their lines serve
  seen,       \* the row an open task operation read, if there is one
  receiving   \* the open pickup of the filial, if any: its ODT and the order it read

vars == <<orders, tasks, requests, seen, receiving>>

Working  == {"pendiente", "en_progreso", "completado"}
Finished == {"completada", "cancelada"}

OrderRow == [status : Working \union {"orden_cerrada", "cancelado"},
             invoiced : BOOLEAN,
             pending : BOOLEAN,     \* completed_with_pending_items
             technician : Technicians \union {Nobody},
             inspected : BOOLEAN,   \* both inspections are complete
             reopened : BOOLEAN]    \* reopened_at is set
TaskStatus == {"pendiente", "en_espera", "en_progreso"} \union Finished
TaskRow == [status : TaskStatus \union {"ninguna", "borrada"},
            running : BOOLEAN,      \* timer_started_at is set
            worked : BOOLEAN]       \* timer_accumulated_seconds > 0
RequestRow == [status : {"ninguna", "pendiente", "pedido", "completado", "borrada"},
               lines : SUBSET (Tasks \union {Loose}),
               picked : BOOLEAN, closed : BOOLEAN]
Receipt == [request : Requests, order : OrderRow]

TypeOK ==
  /\ orders \in [Orders -> OrderRow]
  /\ tasks \in [Tasks -> TaskRow]
  /\ requests \in [Requests -> RequestRow]
  /\ seen \in [Tasks -> SUBSET TaskRow]
  /\ receiving \in SUBSET Receipt

NewOrder   == [status |-> "pendiente", invoiced |-> FALSE, pending |-> FALSE,
               technician |-> Nobody, inspected |-> FALSE, reopened |-> FALSE]
NoTask     == [status |-> "ninguna", running |-> FALSE, worked |-> FALSE]
NoRequest  == [status |-> "ninguna", lines |-> {}, picked |-> FALSE, closed |-> FALSE]

Init ==
  /\ orders = [o \in Orders |-> NewOrder]
  /\ tasks = [k \in Tasks |-> NoTask]
  /\ requests = [r \in Requests |-> NoRequest]
  /\ seen = [k \in Tasks |-> {}]
  /\ receiving = {}

-----------------------------------------------------------------------------
(* Guards *)

Terminal(o) == orders[o].status \in {"orden_cerrada", "cancelado"}
Editable(o) == ~Terminal(o) /\ ~orders[o].invoiced

\* Wrong: a pickup in progress stops nobody.
FilialBusy == receiving \in SUBSET Receipt
\* The filial's row lock, which a pickup holds until it commits.
FilialFree == receiving = {}

TasksOf(o) == {k \in Tasks : TaskOrder[k] = o}
Running(o) == \E k \in TasksOf(o) : tasks[k].running

\* Wrong: looks at the timers of this order only.
OrderIdle(o) == ~Running(o)
\* The technician has no timer running, on this order or on any other.
TechnicianIdle(o) ==
  orders[o].technician # Nobody =>
    \A p \in Orders : orders[p].technician = orders[o].technician => ~Running(p)

\* Wrong: dispatched by the warehouse is enough.
PartsDispatched(k) == \A r \in Requests :
  k \in requests[r].lines => requests[r].status = "completado"
\* Every line the task asked for was picked up.
PartsReceived(k) == \A r \in Requests : k \in requests[r].lines => requests[r].picked
Workable(k) == PartsReceived(k) /\ orders[TaskOrder[k]].inspected

-----------------------------------------------------------------------------
(* The status of an order, derived from its tasks *)

\* Wrong: a dropped task still counts as unfinished work.
EveryTask(S, T) == S
\* Dropped tasks do not keep an order open.
Relevant(S, T) == {k \in S : T[k].status # "cancelada"}
\* Wrong: the word that tasks use.
DoneTask == "completada"
Done == "completado"
Derived(o, T) ==
  LET all == {k \in TasksOf(o) : T[k].status \in TaskStatus} IN
  IF all = {} THEN "pendiente"
  ELSE IF \A k \in Relevant(all, T) : T[k].status = "completada" THEN Done
  ELSE IF \A k \in Relevant(all, T) : T[k].status = "pendiente" THEN "pendiente"
  ELSE "en_progreso"

AwaitsPickup(o, R) == \E r \in Requests :
  RequestOrder[r] = o /\ R[r].lines # {} /\ ~R[r].picked

\* The order's row after _sync_status_from_tasks, from the row the handler has
\* in hand, the tasks as it sees them and the ODTs as they will be.
Synced(row, o, T, R) ==
  IF row.status \notin Working THEN row
  ELSE LET target == Derived(o, T) IN
    [row EXCEPT !.status = target,
                !.pending = target = Done /\ AwaitsPickup(o, R)]

\* What is stored when a handler that loaded "old" flushes "new".
Stored(new, old, row) == [f \in DOMAIN row |-> IF new[f] # old[f] THEN new[f] ELSE row[f]]

\* Wrong: the elapsed time is added, the timer is not cleared.
Accumulated(task) == [task EXCEPT !.worked = @ \/ task.running]
Stopped(task) == [task EXCEPT !.running = FALSE, !.worked = @ \/ task.running]
StopAll(o) == [k \in Tasks |-> IF TaskOrder[k] = o THEN Stopped(tasks[k]) ELSE tasks[k]]

-----------------------------------------------------------------------------
(* Tasks and timers *)

Exists(k) == tasks[k].status \in TaskStatus

\* A task operation works on the row it reads now, or on one read earlier.
Reads(k, v) ==
  /\ Exists(k)
  /\ \/ v = tasks[k] /\ UNCHANGED seen
     \/ v \in seen[k] /\ seen' = [seen EXCEPT ![k] = {}]

ReadTask(k) ==
  /\ Exists(k)
  /\ seen[k] = {}
  /\ Cardinality({j \in Tasks : seen[j] # {}}) < SlowHandlers
  /\ seen' = [seen EXCEPT ![k] = {tasks[k]}]
  /\ UNCHANGED <<orders, tasks, requests, receiving>>

\* The operation is refused once it has the lock, or its client gave up.
ForgetTask(k) ==
  /\ seen[k] # {}
  /\ seen' = [seen EXCEPT ![k] = {}]
  /\ UNCHANGED <<orders, tasks, requests, receiving>>

WriteTask(k, new, old) == tasks' = [tasks EXCEPT ![k] = Stored(new, old, @)]
SyncAfter(k, new) ==
  LET o == TaskOrder[k] IN
  orders' = [orders EXCEPT ![o] = Synced(@, o, [tasks EXCEPT ![k] = new], requests)]

StartTimer(k, v) ==
  LET new == [v EXCEPT !.running = TRUE, !.status = "en_progreso"] IN
  /\ Reads(k, v)
  /\ Editable(TaskOrder[k])
  /\ TechnicianIdle(TaskOrder[k])
  /\ ~v.running
  /\ v.status \notin Finished
  /\ Workable(k)
  /\ WriteTask(k, new, v)
  /\ SyncAfter(k, new)
  /\ UNCHANGED <<requests, receiving>>

PauseTimer(k, v) ==
  /\ Reads(k, v)
  /\ Editable(TaskOrder[k])
  /\ v.running
  /\ WriteTask(k, Stopped(v), v)
  /\ UNCHANGED <<orders, requests, receiving>>

\* Wrong: dropping a task leaves its timer on.
StoppedWhenDone(v, s) == [(IF s = "completada" THEN Stopped(v) ELSE v) EXCEPT !.status = s]
Moved(v, s) == [(IF s \in Finished THEN Stopped(v) ELSE v) EXCEPT !.status = s]

SetStatus(k, v, s) ==
  /\ Reads(k, v)
  /\ Editable(TaskOrder[k])
  /\ s \in {"en_progreso", "completada"} => Workable(k)
  /\ s = "completada" /\ v.status # s => v.running \/ v.worked
  /\ WriteTask(k, Moved(v, s), v)
  /\ SyncAfter(k, Moved(v, s))
  /\ UNCHANGED <<requests, receiving>>

\* add_task, by hand or from an approved upsell: its catalog parts go to a
\* pending ODT of the order, or to a new one.
AddTask(k, into) ==
  LET o == TaskOrder[k]
      T == [tasks EXCEPT ![k] = [NoTask EXCEPT !.status = "pendiente"]]
      R == [r \in Requests |-> IF r \in into
              THEN [requests[r] EXCEPT !.status = "pendiente", !.lines = @ \union {k}]
              ELSE requests[r]]
  IN
  /\ Editable(o)
  /\ tasks[k].status = "ninguna"
  /\ \A r \in into : RequestOrder[r] = o /\ requests[r].status \in {"ninguna", "pendiente"}
  /\ tasks' = T
  /\ requests' = R
  /\ orders' = [orders EXCEPT ![o] = Synced(@, o, T, R)]
  /\ UNCHANGED <<seen, receiving>>

\* The lines of a deleted task stay in their ODT, without a task.
DeleteTask(k, v) ==
  LET o == TaskOrder[k]
      T == [tasks EXCEPT ![k] = [NoTask EXCEPT !.status = "borrada"]]
      R == [r \in Requests |-> IF k \in requests[r].lines
              THEN [requests[r] EXCEPT !.lines = (@ \ {k}) \union {Loose}]
              ELSE requests[r]]
  IN
  /\ Reads(k, v)
  /\ Editable(o)
  /\ tasks' = T
  /\ requests' = R
  /\ orders' = [orders EXCEPT ![o] = Synced(@, o, T, R)]
  /\ UNCHANGED receiving

-----------------------------------------------------------------------------
(* Part requests *)

\* add_transfer_line: the order's status is not derived again.
AddPart(r) ==
  /\ Editable(RequestOrder[r])
  /\ \/ requests[r].status = "pendiente"
     \/ /\ requests[r].status = "ninguna"
        /\ \A s \in Requests :
             RequestOrder[s] = RequestOrder[r] => requests[s].status # "pendiente"
  /\ requests' = [requests EXCEPT ![r] =
       [requests[r] EXCEPT !.status = "pendiente", !.lines = @ \union {Loose}]]
  /\ UNCHANGED <<orders, tasks, seen, receiving>>

RemovePart(r, x) ==
  LET o == RequestOrder[r]
      R == [requests EXCEPT ![r].lines = @ \ {x}]
  IN
  /\ Editable(o)
  /\ requests[r].status = "pendiente"
  /\ x \in requests[r].lines
  /\ requests' = R
  /\ orders' = [orders EXCEPT ![o] = Synced(@, o, tasks, R)]
  /\ UNCHANGED <<tasks, seen, receiving>>

SubmitRequest(r) ==
  /\ FilialFree
  /\ Editable(RequestOrder[r])
  /\ ~requests[r].closed
  /\ requests[r].status = "pendiente"
  /\ requests[r].lines # {}
  /\ requests' = [requests EXCEPT ![r].status = "pedido"]
  /\ UNCHANGED <<orders, tasks, seen, receiving>>

DispatchRequest(r) ==
  /\ FilialFree
  /\ ~Terminal(RequestOrder[r])
  /\ ~requests[r].closed
  /\ requests[r].status = "pedido"
  /\ requests' = [requests EXCEPT ![r].status = "completado"]
  /\ UNCHANGED <<orders, tasks, seen, receiving>>

DeleteRequest(r) ==
  /\ FilialFree
  /\ Editable(RequestOrder[r])
  /\ ~requests[r].closed
  /\ requests[r].status = "pendiente"
  /\ requests' = [requests EXCEPT ![r] = [NoRequest EXCEPT !.status = "borrada"]]
  /\ UNCHANGED <<orders, tasks, seen, receiving>>

Receivable(r) ==
  /\ FilialFree
  /\ ~requests[r].closed
  /\ requests[r].status = "completado"
  /\ ~requests[r].picked

\* The pickup has its locks and the order's row, and uploads the photograph.
BeginPickup(r) ==
  /\ SlowHandlers > 0
  /\ Receivable(r)
  /\ receiving' = {[request |-> r, order |-> orders[RequestOrder[r]]]}
  /\ UNCHANGED <<orders, tasks, requests, seen>>

\* ... and derives the order's status from the row it read, unless no other
\* transaction came in between whatever that order's status allows by now.
Pickup(r, row) ==
  LET o == RequestOrder[r]
      R == [requests EXCEPT ![r].picked = TRUE]
  IN
  /\ \/ Receivable(r) /\ row = orders[o]
     \/ [request |-> r, order |-> row] \in receiving
  /\ receiving' = {}
  /\ requests' = R
  /\ orders' = [orders EXCEPT ![o] = Stored(Synced(row, o, tasks, R), row, @)]
  /\ UNCHANGED <<tasks, seen>>

\* The photograph is refused or its storage fails: everything rolls back.
AbandonPickup ==
  /\ receiving # {}
  /\ receiving' = {}
  /\ UNCHANGED <<orders, tasks, requests, seen>>

-----------------------------------------------------------------------------
(* The order itself *)

CompleteInspections(o) ==
  /\ ~orders[o].inspected
  /\ orders' = [orders EXCEPT ![o].inspected = TRUE]
  /\ UNCHANGED <<tasks, requests, seen, receiving>>

Reassign(o, t) ==
  /\ Editable(o)
  /\ t # orders[o].technician
  /\ ~Running(o)
  /\ orders' = [orders EXCEPT ![o].technician = t]
  /\ UNCHANGED <<tasks, requests, seen, receiving>>

Unfinished(o) == \E k \in TasksOf(o) : Exists(k) /\ tasks[k].status \notin Finished

ForceComplete(o) ==
  /\ Editable(o)
  /\ orders[o].status \in {"pendiente", "en_progreso"}
  /\ tasks' = StopAll(o)
  /\ orders' = [orders EXCEPT ![o] = [orders[o] EXCEPT
       !.status = "completado", !.pending = Unfinished(o) \/ AwaitsPickup(o, requests)]]
  /\ UNCHANGED <<requests, seen, receiving>>

Invoice(o) ==
  /\ Editable(o)
  /\ orders[o].status = "completado"
  /\ orders' = [orders EXCEPT ![o].invoiced = TRUE]
  /\ UNCHANGED <<tasks, requests, seen, receiving>>

Close(o) ==
  /\ FilialFree
  /\ orders[o].status = "completado"
  /\ orders[o].invoiced
  /\ tasks' = StopAll(o)
  /\ orders' = [orders EXCEPT ![o] = [orders[o] EXCEPT !.status = "orden_cerrada", !.pending = FALSE]]
  /\ requests' = [r \in Requests |->
       IF RequestOrder[r] = o /\ requests[r].status \notin {"ninguna", "borrada"}
       THEN [requests[r] EXCEPT !.closed = TRUE] ELSE requests[r]]
  /\ UNCHANGED <<seen, receiving>>

Cancel(o) ==
  /\ Editable(o)
  /\ orders[o].status \in {"pendiente", "en_progreso"}
  /\ tasks' = StopAll(o)
  /\ orders' = [orders EXCEPT ![o] = [orders[o] EXCEPT !.status = "cancelado", !.reopened = FALSE]]
  /\ UNCHANGED <<requests, seen, receiving>>

Reopen(o) ==
  /\ orders[o].status = "cancelado"
  /\ orders' = [orders EXCEPT ![o] = [orders[o] EXCEPT !.status = "pendiente", !.reopened = TRUE]]
  /\ UNCHANGED <<tasks, requests, seen, receiving>>

-----------------------------------------------------------------------------
TaskStep(k) ==
  \/ ReadTask(k) \/ ForgetTask(k)
  \/ \E v \in {tasks[k]} \union seen[k] :
       \/ StartTimer(k, v) \/ PauseTimer(k, v) \/ DeleteTask(k, v)
       \/ \E s \in Marks \cap TaskStatus : SetStatus(k, v, s)
  \/ AddTask(k, {}) \/ \E r \in Requests : AddTask(k, {r})

RequestStep(r) ==
  \/ AddPart(r) \/ SubmitRequest(r) \/ DispatchRequest(r) \/ DeleteRequest(r)
  \/ \E x \in requests[r].lines : RemovePart(r, x)
  \/ BeginPickup(r)
  \/ \E row \in {orders[RequestOrder[r]]} \union {p.order : p \in receiving} : Pickup(r, row)

FloorStep(o) ==
  \/ CompleteInspections(o)
  \/ \E t \in Technicians \union {Nobody} : Reassign(o, t)

EndStep(o) ==
  \/ ForceComplete(o) \/ Invoice(o) \/ Close(o) \/ Cancel(o) \/ Reopen(o)

Next ==
  \/ \E k \in Tasks : TaskStep(k)
  \/ \E r \in Requests : RequestStep(r)
  \/ \E o \in Orders : FloorStep(o)
  \/ \E o \in Ending \cap Orders : EndStep(o)
  \/ AbandonPickup

Spec == Init /\ [][Next]_vars

-----------------------------------------------------------------------------
(* Safety.  The first group holds however the handlers overlap. *)

\* "Si otro cronometro del mismo tecnico esta corriendo, start responde 409":
\* a technician never has two timers running, not even on two orders whose
\* handlers and reassignments interleave (start_task_timer, update_order).
OneTimerPerTechnician == \A j, k \in Tasks :
  /\ j # k
  /\ tasks[j].running /\ tasks[k].running
  => \/ orders[TaskOrder[j]].technician # orders[TaskOrder[k]].technician
     \/ orders[TaskOrder[j]].technician = Nobody

\* No timer counts on a delivered or cancelled order, not even one that was
\* being started when the order ended (close_order, cancel_order).
TerminalHasNoTimer == \A o \in Orders : Terminal(o) => ~Running(o)

\* Work only starts when the task's parts were picked up and the order's
\* inspections are complete; nothing takes that back under a started task
\* (_require_task_parts_received, _require_work_inspections).
PartsBeforeWork == \A k \in Tasks :
  tasks[k].running \/ tasks[k].status \in {"en_progreso", "completada"} =>
    /\ orders[TaskOrder[k]].inspected
    /\ \A r \in Requests : k \in requests[r].lines => requests[r].picked

\* A delivered order stays delivered: no handler that read it before the
\* delivery writes a working status over it (close_order takes the filial's
\* lock, which a pickup holds).
DeliveredIsFinal == [][\A o \in Orders :
  orders[o].status = "orden_cerrada" => orders'[o].status = "orden_cerrada"]_vars

-----------------------------------------------------------------------------
(* The second group needs handlers that do not overlap (SlowHandlers = 0). *)

\* A working status tells the truth about the tasks, but for an order that was
\* completed by force with something pending, and one reopened and not touched
\* since (_sync_status_from_tasks, force_complete_order, reopen_order).
StatusFollowsTasks == \A o \in Orders :
  LET kept == {k \in TasksOf(o) : Exists(k) /\ tasks[k].status # "cancelada"} IN
  /\ orders[o].status = "en_progreso" =>
       Unfinished(o) /\ \E k \in kept : tasks[k].status # "pendiente"
  /\ orders[o].status = "completado" => orders[o].pending \/ ~Unfinished(o)
  /\ orders[o].status = "pendiente" =>
       orders[o].reopened \/ \A k \in kept : tasks[k].status = "pendiente"
  /\ orders[o].pending => orders[o].status = "completado"

\* A task that was completed or dropped has no timer left on
\* (update_task_status, start_task_timer).
FinishedHasNoTimer == \A k \in Tasks : tasks[k].status \in Finished => ~tasks[k].running

\* An invoiced order with its work done can always be delivered: late pickups
\* do not send it back to a status from which close_order refuses it, and in
\* which nothing else may edit it either.
InvoicedIsDeliverable == \A o \in Orders :
  /\ orders[o].invoiced /\ ~Terminal(o)
  /\ ~Unfinished(o)
  /\ \E k \in TasksOf(o) : Exists(k)
  => orders[o].status = "completado"

-----------------------------------------------------------------------------
\* What the documentation says of every invoiced order: "completado can only
\* ever move forward to orden_cerrada" (models.py), "las ordenes facturadas
\* mantienen sus restricciones de edicion".
InvoicedStaysCompleted == [][\A o \in Orders :
  orders[o].invoiced /\ orders[o].status = "completado"
    => orders'[o].status \in {"completado", "orden_cerrada"}]_vars
=============================================================================
