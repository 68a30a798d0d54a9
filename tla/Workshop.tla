------------------------------ MODULE Workshop ------------------------------
(***************************************************************************)
(* One filial, one part: the shelf (FIFO lots in several warehouses), the  *)
(* part requests of the workshop (ODT), the automatic transfers a request  *)
(* starts when its parts are in another warehouse, and the warehouse's own *)
(* stock entries, stock exits and transfers.                               *)
(*                                                                         *)
(* An action is one committed transaction of the service layer: the row    *)
(* locks the code takes (filial, request, order, part, lots) serialise     *)
(* what the action reads with what it writes.  Two handlers read outside   *)
(* those locks, and are split where they do: the preview of an ODT line is *)
(* computed before its commit, and the quantity edit reads the request     *)
(* before it has the order's lock (variable edit).  A line has at most one  *)
(* such transaction open at a time here.                                   *)
(*                                                                         *)
(* Left out: prices and costs, the movement journal, user ids, drafts (a   *)
(* draft cannot submit) and inactive warehouses.  PENDIENTE, EN_PROGRESO   *)
(* and COMPLETADO orders are one status here, "abierta": nothing on the    *)
(* shelf tells them apart.                                                 *)
(*                                                                         *)
(* An operator marked "Wrong" is used nowhere: it is the bug that one of   *)
(* the properties below is there to catch (README, "Mutants").             *)
(***************************************************************************)
EXTENDS Integers, FiniteSets, Functions

CONSTANTS
  Warehouses,          \* the filial's active warehouses
  Shop,                \* the one flagged is_workshop_default
  Orders,              \* service orders (ODS), already sent to the workshop
  Requests,            \* ODT ids, each used once, with at most one line
  OrderOf,             \* the order an ODT belongs to
  Relocations,         \* slots for transfers created by warehouse staff
  MaxLots,             \* bound: lots ever created
  MaxEntered,          \* bound: no stock entry once so many lots exist
  MaxQty,              \* bound: units per line, entry, exit or transfer
  MaxEdits,            \* bound: line edits open at once
  MaxReopens,          \* bound: times one cancelled order is reopened
  Entries,             \* bound: the <<warehouse, units>> a stock entry may be
  Exits,               \* bound: the <<warehouse, units>> a stock exit may be
  Ending,              \* bound: the orders users cancel, or invoice and deliver
  EditsOverlapSubmit   \* may a quantity edit straddle a submission?

ASSUME ShopAssumption    == Shop \in Warehouses
ASSUME RequestAssumption == IsFiniteSet(Requests)
ASSUME OrderAssumption   == OrderOf \in [Requests -> Orders]
ASSUME BoundAssumption   ==
  {MaxLots, MaxEntered, MaxQty, MaxEdits, MaxReopens} \subseteq Nat
ASSUME EntryAssumption   == Entries \union Exits \subseteq Warehouses \X Nat
ASSUME OverlapAssumption == EditsOverlapSubmit \in BOOLEAN

VARIABLES
  lots,      \* part_lots, in received_at order
  nlots,     \* how many of them exist
  stock,     \* parts.stock_quantity, the counter shown to users
  orders,    \* service_orders: status and invoiced_at
  requests,  \* service_order_transfers with their line and its allocations
  linked,    \* transfers whose workshop_request_id is the ODT, by origin
  manual,    \* the other transfers
  edit       \* the open transaction editing an ODT's line, if any

shelf == <<lots, nlots, stock>>
vars  == <<lots, nlots, stock, orders, requests, linked, manual, edit>>

LotIds == 1..MaxLots

LotRow == [wh : Warehouses, remaining : Nat]
OrderRow == [status : {"abierta", "cancelado", "orden_cerrada"},
             invoiced : BOOLEAN, reopens : 0..MaxReopens]
RequestRow == [status : {"ninguna", "pendiente", "pedido", "completado", "eliminada"},
               qty : Nat, alloc : [LotIds -> Nat], shortfall : Nat,
               fresh : BOOLEAN, deducted : BOOLEAN, closed : BOOLEAN]
TransferStatus == {"ninguno", "pedido", "en_proceso", "completada", "cancelada"}
LinkedRow == [status : TransferStatus, qty : Nat]
ManualRow == [status : TransferStatus, qty : Nat, from : Warehouses, to : Warehouses]
EditRow == [stage : {"libre", "leido", "bloqueado"}, qty : Nat, alloc : [LotIds -> Nat]]

NoUnits    == [l \in LotIds |-> 0]
NoLot      == [wh |-> Shop, remaining |-> 0]
NoRequest  == [status |-> "ninguna", qty |-> 0, alloc |-> NoUnits, shortfall |-> 0,
               fresh |-> FALSE, deducted |-> FALSE, closed |-> FALSE]
NoLinked   == [status |-> "ninguno", qty |-> 0]
NoManual   == [status |-> "ninguno", qty |-> 0, from |-> Shop, to |-> Shop]
NoEdit     == [stage |-> "libre", qty |-> 0, alloc |-> NoUnits]

TypeOK ==
  /\ lots \in [LotIds -> LotRow]
  /\ nlots \in 0..MaxLots
  /\ stock \in Nat
  /\ orders \in [Orders -> OrderRow]
  /\ requests \in [Requests -> RequestRow]
  /\ linked \in [Requests -> [Warehouses -> LinkedRow]]
  /\ manual \in [Relocations -> ManualRow]
  /\ edit \in [Requests -> EditRow]

Init ==
  /\ lots = [l \in LotIds |-> NoLot]
  /\ nlots = 0
  /\ stock = 0
  /\ orders = [o \in Orders |-> [status |-> "abierta", invoiced |-> FALSE, reopens |-> 0]]
  /\ requests = [r \in Requests |-> NoRequest]
  /\ linked = [r \in Requests |-> [w \in Warehouses |-> NoLinked]]
  /\ manual = [t \in Relocations |-> NoManual]
  /\ edit = [r \in Requests |-> NoEdit]

-----------------------------------------------------------------------------
(* FIFO allocation and reservations *)

\* Wrong: nothing keeps x in range.
Unclamped(x, hi) == x
\* x brought into 0..hi.
Clamp(x, hi) == IF x \in 0..hi THEN x ELSE IF x < 0 THEN 0 ELSE hi

LotsIn(w) == {l \in LotIds : lots[l].wh = w}
Units(f, S) == SumFunctionOnSet(f, S)

\* An order that no longer works: its requests reserve nothing.
Terminal(o) == orders[o].status \in {"cancelado", "orden_cerrada"}
Live(r) == ~Terminal(OrderOf[r]) /\ ~requests[r].deducted /\ ~requests[r].closed

\* A submitted request reserves its allocations until it is dispatched; a
\* pending one only while its preview is under five minutes old (fresh).
FirmHold(r) == Live(r) /\ requests[r].status = "pedido"
SoftHold(r) == Live(r) /\ requests[r].status = "pendiente" /\ requests[r].fresh
\* Wrong: counts pending requests only.
ReservedByPreviews(l, others) ==
  Units([r \in Requests |-> requests[r].alloc[l]], {r \in others : SoftHold(r)})
Reserved(l, others) ==
  Units([r \in Requests |-> requests[r].alloc[l]],
        {r \in others : FirmHold(r) \/ SoftHold(r)})

\* Units of each lot that r may take: what is left there after the holds of
\* every other request.  None is for consumers that own no reservation.
None == {}
FreeAt(l, own) ==
  Clamp(lots[l].remaining - Reserved(l, Requests \ own), lots[l].remaining)
Free(own) == [l \in LotIds |-> FreeAt(l, own)]
\* Wrong: forgets every reservation.
RemainingIn(w, own) == [l \in LotIds |-> IF lots[l].wh = w THEN lots[l].remaining ELSE 0]
FreeIn(w, own) == [l \in LotIds |-> IF lots[l].wh = w THEN FreeAt(l, own) ELSE 0]

\* Lot order of a pick: the preferred warehouses first, older lots first.
Ahead(m, l, preferred) ==
  IF (lots[m].wh \in preferred) = (lots[l].wh \in preferred)
  THEN m < l ELSE lots[m].wh \in preferred
Pick(free, preferred, q) == [l \in LotIds |->
  Clamp(q - Units(free, {m \in LotIds : Ahead(m, l, preferred)}), free[l])]

\* The lots a received transfer creates: one per lot consumed, in lot order.
Sources(take) == {l \in LotIds : take[l] > 0}
Heirs(take, n) == {l \in Sources(take) : n = nlots + Cardinality({m \in Sources(take) : m <= l})}
\* Wrong: a transfer that splits creates only its first lot.
FirstArriving(take) == [n \in LotIds |->
  IF n = nlots + 1 /\ Heirs(take, n) # {} THEN take[CHOOSE l \in Heirs(take, n) : TRUE] ELSE 0]
Arriving(take) == [n \in LotIds |->
  IF Heirs(take, n) = {} THEN 0 ELSE take[CHOOSE l \in Heirs(take, n) : TRUE]]

Consume(take) == [l \in LotIds |-> [lots[l] EXCEPT !.remaining = @ - take[l]]]
\* Wrong: the units stay at the origin too.
Duplicate(take, to) == LET new == Arriving(take) IN [n \in LotIds |->
  IF new[n] > 0 THEN [wh |-> to, remaining |-> new[n]] ELSE lots[n]]
Relocate(take, to) == LET new == Arriving(take) IN [n \in LotIds |->
  IF new[n] > 0 THEN [wh |-> to, remaining |-> new[n]]
  ELSE [lots[n] EXCEPT !.remaining = @ - take[n]]]

-----------------------------------------------------------------------------
(* Locks and guards *)

\* Wrong: nobody waits for an open edit.
Unserialized(o) == o \in Orders
OrderUnlocked(o) == \A r \in Requests : OrderOf[r] = o => edit[r].stage # "bloqueado"
Editable(o) == OrderUnlocked(o) /\ ~Terminal(o) /\ ~orders[o].invoiced

CanOpenEdit(r) ==
  /\ edit[r].stage = "libre"
  /\ Cardinality({s \in Requests : edit[s].stage # "libre"}) < MaxEdits

(* Warehouse: entries, exits and transfers requested by its own staff *)

StockIn(w, q) ==
  /\ nlots < MaxLots
  /\ nlots < MaxEntered
  /\ lots' = [lots EXCEPT ![nlots + 1] = [wh |-> w, remaining |-> q]]
  /\ nlots' = nlots + 1
  /\ stock' = stock + q
  /\ UNCHANGED <<orders, requests, linked, manual, edit>>

\* An exit takes free units only; a short shelf refuses the whole exit.
StockOut(w, q) ==
  LET take == Pick(FreeIn(w, None), None, q) IN
  /\ Units(take, LotIds) = q
  /\ lots' = Consume(take)
  /\ stock' = Clamp(stock - q, stock)
  /\ UNCHANGED <<nlots, orders, requests, linked, manual, edit>>

RequestRelocation(t, from, to, q) ==
  /\ manual[t].status = "ninguno"
  /\ from # to
  /\ manual' = [manual EXCEPT ![t] = [status |-> "pedido", qty |-> q, from |-> from, to |-> to]]
  /\ UNCHANGED <<lots, nlots, stock, orders, requests, linked, edit>>

StartRelocation(t) ==
  /\ manual[t].status = "pedido"
  /\ manual' = [manual EXCEPT ![t].status = "en_proceso"]
  /\ UNCHANGED <<lots, nlots, stock, orders, requests, linked, edit>>

CancelRelocation(t) ==
  /\ manual[t].status \in {"pedido", "en_proceso"}
  /\ manual' = [manual EXCEPT ![t].status = "cancelada"]
  /\ UNCHANGED <<lots, nlots, stock, orders, requests, linked, edit>>

DeleteRelocation(t) ==
  /\ manual[t].status \in {"pedido", "en_proceso", "cancelada"}
  /\ manual' = [manual EXCEPT ![t] = NoManual]
  /\ UNCHANGED <<lots, nlots, stock, orders, requests, linked, edit>>

ReceiveRelocation(t) ==
  LET take == Pick(FreeIn(manual[t].from, None), None, manual[t].qty) IN
  /\ manual[t].status = "en_proceso"
  /\ Units(take, LotIds) = manual[t].qty
  /\ nlots + Cardinality(Sources(take)) <= MaxLots
  /\ lots' = Relocate(take, manual[t].to)
  /\ nlots' = nlots + Cardinality(Sources(take))
  /\ manual' = [manual EXCEPT ![t].status = "completada"]
  /\ UNCHANGED <<stock, orders, requests, linked, edit>>

-----------------------------------------------------------------------------
(* The ODT's line: added, resized or dropped by the advisor *)

\* add_transfer_line: under the order's lock, on the order's pending ODT or on
\* a new one; the preview reads the shelf without locking it.
AddLine(r, q) ==
  LET total == requests[r].qty + q IN
  /\ CanOpenEdit(r)
  /\ Editable(OrderOf[r])
  /\ \/ requests[r].status = "pendiente"
     \/ /\ requests[r].status = "ninguna"
        /\ \A s \in Requests :
             OrderOf[s] = OrderOf[r] => requests[s].status # "pendiente"
  /\ total <= MaxQty
  /\ edit' = [edit EXCEPT ![r] =
       [stage |-> "bloqueado", qty |-> total, alloc |-> Pick(Free({r}), None, total)]]
  /\ UNCHANGED <<lots, nlots, stock, orders, requests, linked, manual>>

\* set_transfer_line_quantity and remove_transfer_line load the line and its
\* request first ...
\* Wrong: a submitted line too.
ResizableWhenSent(r) == requests[r].status \in {"pendiente", "pedido"} /\ requests[r].qty > 0
Resizable(r) == requests[r].status = "pendiente" /\ requests[r].qty > 0
ReadLine(r) ==
  /\ CanOpenEdit(r)
  /\ Resizable(r)
  /\ edit' = [edit EXCEPT ![r].stage = "leido"]
  /\ UNCHANGED <<lots, nlots, stock, orders, requests, linked, manual>>

\* ... and take the order's lock afterwards: the PENDIENTE they test is the
\* one of the first read, so the row's current status is no guard.
ResizeLine(r, q) ==
  /\ edit[r].stage = "leido"
  /\ Editable(OrderOf[r])
  /\ requests[r].status # "eliminada"
  /\ edit' = [edit EXCEPT ![r] =
       [stage |-> "bloqueado", qty |-> q, alloc |-> Pick(Free({r}), None, q)]]
  /\ UNCHANGED <<lots, nlots, stock, orders, requests, linked, manual>>

RemoveLine(r) ==
  /\ edit[r].stage = "leido"
  /\ Editable(OrderOf[r])
  /\ requests[r].status # "eliminada"
  /\ requests' = [requests EXCEPT ![r] =
       [@ EXCEPT !.qty = 0, !.alloc = NoUnits, !.shortfall = 0]]
  /\ edit' = [edit EXCEPT ![r] = NoEdit]
  /\ UNCHANGED <<lots, nlots, stock, orders, linked, manual>>

\* The order turned read-only, or the ODT went away, between the two.
AbandonEdit(r) ==
  /\ edit[r].stage = "leido"
  /\ OrderUnlocked(OrderOf[r])
  /\ ~Editable(OrderOf[r]) \/ requests[r].status = "eliminada"
  /\ edit' = [edit EXCEPT ![r] = NoEdit]
  /\ UNCHANGED <<lots, nlots, stock, orders, requests, linked, manual>>

\* An edit drops the allocations it read.  If the ODT was submitted since, the
\* ones the submission reserved stay, and the edit's come on top of them.
Kept(r) == IF requests[r].status \in {"ninguna", "pendiente"} THEN NoUnits ELSE requests[r].alloc
Edited(r) == [requests[r] EXCEPT
  !.status = IF @ = "ninguna" THEN "pendiente" ELSE @,
  !.qty    = edit[r].qty,
  !.alloc  = [l \in LotIds |-> Kept(r)[l] + edit[r].alloc[l]],
  !.fresh  = TRUE]

CommitLine(r) ==
  /\ edit[r].stage = "bloqueado"
  /\ requests' = [requests EXCEPT ![r] = Edited(r)]
  /\ edit' = [edit EXCEPT ![r] = NoEdit]
  /\ UNCHANGED <<lots, nlots, stock, orders, linked, manual>>

\* Five minutes pass over a pending preview.
HoldExpires(r) ==
  /\ requests[r].status = "pendiente"
  /\ requests[r].fresh
  /\ requests' = [requests EXCEPT ![r].fresh = FALSE]
  /\ UNCHANGED <<lots, nlots, stock, orders, linked, manual, edit>>

-----------------------------------------------------------------------------
(* The ODT: submitted, moved, dispatched, deleted *)

\* Wrong: a dispatched request too.
Resubmittable(r) == requests[r].status \in {"pendiente", "completado"} /\ requests[r].qty > 0
Submittable(r) == requests[r].status = "pendiente" /\ requests[r].qty > 0

\* Wrong: the shortfall is not written.
SubmittedUncounted(r, take) == [requests[r] EXCEPT
  !.status = "pedido", !.alloc = take, !.deducted = FALSE, !.fresh = TRUE]
Submitted(r, take) == [requests[r] EXCEPT
  !.status = "pedido", !.alloc = take, !.deducted = FALSE, !.fresh = TRUE,
  !.shortfall = Clamp(requests[r].qty - Units(take, LotIds), requests[r].qty)]

\* Reserve what there is, the workshop's warehouse first, and ask for one
\* transfer from each other warehouse that holds part of it.
Submit(r) ==
  LET take == Pick(Free({r}), {Shop}, requests[r].qty)
      from(w) == Clamp(Units(take, LotsIn(w)), requests[r].qty)
  IN
  /\ Editable(OrderOf[r])
  /\ ~requests[r].closed
  /\ Submittable(r)
  /\ EditsOverlapSubmit \/ edit[r].stage = "libre"
  /\ requests' = [requests EXCEPT ![r] = Submitted(r, take)]
  /\ linked' = [linked EXCEPT ![r] = [w \in Warehouses |->
       IF w # Shop /\ from(w) > 0 THEN [status |-> "pedido", qty |-> from(w)] ELSE @[w]]]
  /\ UNCHANGED <<lots, nlots, stock, orders, manual, edit>>

StartLinked(r, w) ==
  /\ linked[r][w].status = "pedido"
  /\ ~Terminal(OrderOf[r])
  /\ linked' = [linked EXCEPT ![r][w].status = "en_proceso"]
  /\ UNCHANGED <<lots, nlots, stock, orders, requests, manual, edit>>

\* Wrong: reservations stay at the origin.
MovedNot(r, w, q, new) == requests[r].alloc
\* The ODT's allocations in w become allocations of the lots that arrive.
Moved(r, w, q, new) ==
  LET there == [l \in LotIds |-> IF lots[l].wh = w THEN requests[r].alloc[l] ELSE 0]
      left  == Pick(there, None, q)
  IN  [l \in LotIds |-> requests[r].alloc[l] - left[l] + new[l]]

\* The units leave the origin FIFO, past every reservation but the ODT's own.
ReceiveLinked(r, w) ==
  LET q    == linked[r][w].qty
      take == Pick(FreeIn(w, {r}), None, q)
  IN
  /\ linked[r][w].status = "en_proceso"
  /\ ~Terminal(OrderOf[r])
  /\ Units(take, LotIds) = q
  /\ nlots + Cardinality(Sources(take)) <= MaxLots
  /\ lots' = Relocate(take, Shop)
  /\ nlots' = nlots + Cardinality(Sources(take))
  /\ requests' = [requests EXCEPT ![r].alloc =
       IF requests[r].qty = 0 THEN @   \* its line was removed meanwhile
       ELSE Moved(r, w, q, Arriving(take))]
  /\ linked' = [linked EXCEPT ![r][w].status = "completada"]
  /\ UNCHANGED <<stock, orders, manual, edit>>

\* Wrong: the request's own reservation is in its way.
DispatchableByAnyone(r) == FreeIn(Shop, None)
\* What may leave for r: the workshop's lots, past the holds of the others.
Dispatchable(r) == FreeIn(Shop, {r})

\* Only a complete line leaves, from the workshop's warehouse, and once.
Dispatch(r) ==
  LET q    == requests[r].qty
      take == Pick(Dispatchable(r), None, q)
  IN
  /\ requests[r].status = "pedido"
  /\ ~requests[r].closed
  /\ OrderUnlocked(OrderOf[r])
  /\ ~Terminal(OrderOf[r])
  /\ \A w \in Warehouses : linked[r][w].status \in {"ninguno", "completada"}
  /\ Units(take, LotIds) = q
  /\ lots' = Consume(take)
  /\ stock' = Clamp(stock - q, stock)
  /\ requests' = [requests EXCEPT ![r] = [@ EXCEPT
       !.status = "completado", !.alloc = take, !.shortfall = 0, !.deducted = TRUE]]
  /\ UNCHANGED <<nlots, orders, linked, manual, edit>>

DeleteRequest(r) ==
  /\ Editable(OrderOf[r])
  /\ ~requests[r].closed
  /\ ~requests[r].deducted
  /\ requests[r].status = "pendiente"
  /\ requests' = [requests EXCEPT ![r] = [NoRequest EXCEPT !.status = "eliminada"]]
  /\ linked' = [linked EXCEPT ![r] = [w \in Warehouses |-> NoLinked]]
  /\ UNCHANGED <<lots, nlots, stock, orders, manual, edit>>

-----------------------------------------------------------------------------
(* The order around it *)

Invoice(o) ==
  /\ Editable(o)
  /\ orders' = [orders EXCEPT ![o].invoiced = TRUE]
  /\ UNCHANGED <<lots, nlots, stock, requests, linked, manual, edit>>

Closable(o) == OrderUnlocked(o) /\ ~Terminal(o) /\ orders[o].invoiced

\* Wrong: only dispatched requests are closed.
ClosedIfDispatched(o, r) == IF OrderOf[r] = o /\ requests[r].deducted
  THEN [requests[r] EXCEPT !.closed = TRUE] ELSE requests[r]
ClosedRow(o, r) ==
  IF OrderOf[r] = o /\ requests[r].status \notin {"ninguna", "eliminada"}
  THEN [requests[r] EXCEPT !.closed = TRUE] ELSE requests[r]

\* Wrong: the transfers are left to be received.
KeptLink(o, r, w) == linked[r][w]
ClosedLink(o, r, w) ==
  IF OrderOf[r] = o /\ linked[r][w].status \in {"pedido", "en_proceso"}
  THEN [linked[r][w] EXCEPT !.status = "cancelada"] ELSE linked[r][w]

\* Delivery closes the order's ODTs as they are and cancels the transfers
\* that have not been received.
Close(o) ==
  /\ Closable(o)
  /\ orders' = [orders EXCEPT ![o].status = "orden_cerrada"]
  /\ requests' = [r \in Requests |-> ClosedRow(o, r)]
  /\ linked' = [r \in Requests |-> [w \in Warehouses |-> ClosedLink(o, r, w)]]
  /\ UNCHANGED <<lots, nlots, stock, manual, edit>>

Cancel(o) ==
  /\ Editable(o)
  /\ orders' = [orders EXCEPT ![o].status = "cancelado"]
  /\ UNCHANGED <<lots, nlots, stock, requests, linked, manual, edit>>

\* A cancelled order goes back to work with its ODTs as it left them.
Reopen(o) ==
  /\ OrderUnlocked(o)
  /\ orders[o].status = "cancelado"
  /\ orders[o].reopens < MaxReopens
  /\ orders' = [orders EXCEPT ![o].status = "abierta", ![o].reopens = @ + 1]
  /\ UNCHANGED <<lots, nlots, stock, requests, linked, manual, edit>>

-----------------------------------------------------------------------------
WarehouseStep ==
  \/ \E e \in Entries : StockIn(e[1], e[2])
  \/ \E e \in Exits : StockOut(e[1], e[2])
  \/ \E t \in Relocations :
       \/ \E from, to \in Warehouses, q \in 1..MaxQty : RequestRelocation(t, from, to, q)
       \/ StartRelocation(t) \/ CancelRelocation(t) \/ DeleteRelocation(t)
       \/ ReceiveRelocation(t)

LineStep(r) ==
  \/ \E q \in 1..MaxQty : AddLine(r, q) \/ ResizeLine(r, q)
  \/ ReadLine(r) \/ RemoveLine(r) \/ AbandonEdit(r) \/ CommitLine(r) \/ HoldExpires(r)

RequestStep(r) ==
  \/ Submit(r) \/ Dispatch(r) \/ DeleteRequest(r)
  \/ \E w \in Warehouses : StartLinked(r, w) \/ ReceiveLinked(r, w)

OrderStep(o) == Invoice(o) \/ Close(o) \/ Cancel(o) \/ Reopen(o)

Next ==
  \/ WarehouseStep
  \/ \E r \in Requests : LineStep(r) \/ RequestStep(r)
  \/ \E o \in Ending \cap Orders : OrderStep(o)

Spec == Init /\ [][Next]_vars

\* Open transactions end, previews grow old, and the warehouse's staff keep at
\* what a submitted ODT asks of them: a receipt or a dispatch that a preview
\* or a lock keeps refusing is tried again until it goes through.
FairSpec ==
  /\ Spec
  /\ \A r \in Requests :
       /\ WF_vars(CommitLine(r)) /\ WF_vars(HoldExpires(r)) /\ SF_vars(Dispatch(r))
       /\ \A w \in Warehouses : WF_vars(StartLinked(r, w)) /\ SF_vars(ReceiveLinked(r, w))

-----------------------------------------------------------------------------
(* Safety.  The first group holds whatever the users do. *)

\* The counter users see is the sum of the lots: no entry, exit, transfer or
\* dispatch, in any order, changes one without the other
\* (parts.stock_quantity against part_lots.quantity_remaining).
StockMatchesLots == stock = Units([l \in LotIds |-> lots[l].remaining], LotIds)

Pending(r, w) == linked[r][w].status \in {"pedido", "en_proceso"}

\* A transfer that staff can still receive for an ODT belongs to one that was
\* submitted, that has not left the warehouse and that nobody closed: dispatch
\* waits for the transfers and delivery cancels them (dispatch.py, closure.py).
NoOrphanTransfer == \A r \in Requests, w \in Warehouses :
  Pending(r, w) => /\ requests[r].status = "pedido"
                   /\ ~requests[r].deducted /\ ~requests[r].closed
                   /\ orders[OrderOf[r]].status # "orden_cerrada"

\* An ODT is closed exactly when its order is delivered; none is left open
\* behind a delivered order, none is closed under a working one.
ClosedWithOrder == \A r \in Requests :
  requests[r].status \in {"pendiente", "pedido", "completado"} =>
    (requests[r].closed <=> orders[OrderOf[r]].status = "orden_cerrada")

\* A dispatched ODT stays dispatched: no retry, edit, reopening or deletion
\* sends it back where its units would leave the shelf again.
DispatchIsFinal == [][\A r \in Requests :
  requests[r].deducted => requests'[r].deducted /\ requests'[r].status = "completado"]_vars

\* Once delivery closed an ODT, nothing about it or its transfers moves but
\* the age of its preview, not even a line edit that was already open
\* (close_order_transfers).
ClosedIsSettled == [][\A r \in Requests : requests[r].closed =>
  /\ requests'[r] = [requests[r] EXCEPT !.fresh = requests'[r].fresh]
  /\ linked'[r] = linked[r]]_vars

-----------------------------------------------------------------------------
(* The second group is about reservations; reopening a cancelled order and  *)
(* quantity edits that straddle a submission break it.                      *)

FirmUnits(l, S) ==
  Units([r \in Requests |-> requests[r].alloc[l]], {r \in S : FirmHold(r)})

\* No lot is promised to submitted ODTs beyond what is in it (submit,
\* dispatch, _consume_fifo and transfers all subtract reserved_by_lot).
ReservationsCovered == \A l \in LotIds : FirmUnits(l, Requests) <= lots[l].remaining

\* What a submitted ODT reserves in another warehouse is what its pending
\* transfer from there will bring, no more and no less.
TransfersCarryReservation == \A r \in Requests, w \in Warehouses \ {Shop} :
  FirmHold(r) => Units(requests[r].alloc, LotsIn(w)) =
                   IF Pending(r, w) THEN linked[r][w].qty ELSE 0

\* Every unit of a submitted ODT is either reserved in a lot or counted in
\* the shortfall that Compras sees as a backorder.
ShortfallAccounts == \A r \in Requests : FirmHold(r) =>
  Units(requests[r].alloc, LotIds) + requests[r].shortfall = requests[r].qty

\* "Las reservas enviadas permanecen vigentes hasta el despacho": a submitted
\* ODT without shortfall whose transfers arrived can be dispatched now, the
\* five-minute previews of other orders aside.
PromiseKept == \A r \in Requests :
  /\ FirmHold(r)
  /\ requests[r].shortfall = 0
  /\ \A w \in Warehouses : ~Pending(r, w)
  => requests[r].qty <=
       Units([l \in LotIds |-> lots[l].remaining - FirmUnits(l, Requests \ {r})], LotsIn(Shop))

\* Only while the ODT is Pendiente may its quantity change; afterwards the
\* line is frozen (set_transfer_line_quantity, remove_transfer_line).
SubmittedIsFrozen == [][\A r \in Requests :
  requests[r].status \in {"pedido", "completado"} => requests'[r].qty = requests[r].qty]_vars

\* What was reserved without shortfall is served, transfers, other orders'
\* previews and stock exits notwithstanding, unless its order ends first.
SubmittedIsServed == \A r \in Requests :
  FirmHold(r) /\ requests[r].shortfall = 0
    ~> requests[r].deducted \/ Terminal(OrderOf[r])
=============================================================================
