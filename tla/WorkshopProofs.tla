--------------------------- MODULE WorkshopProofs ---------------------------
(***************************************************************************)
(* Theorems about Workshop for any number of orders, ODTs, warehouses,     *)
(* lots and units: its types and the life of an ODT.  Facts that are sums  *)
(* over lots or requests (StockMatchesLots, ReservationsCovered, ...) are  *)
(* in ShelfProofs, which rests on these.                                   *)
(***************************************************************************)
EXTENDS Workshop, FiniteSetTheorems, TLAPS

-----------------------------------------------------------------------------
(* What the shelf's operators return. *)

\* Whatever is clamped lands between zero and the limit.
LEMMA ClampRange ==
  ASSUME NEW x, NEW hi \in Nat
  PROVE  Clamp(x, hi) \in 0..hi /\ Clamp(x, hi) \in Nat
BY DEF Clamp

\* A pick takes from each lot between nothing and what is free in it.
LEMMA PickRange ==
  ASSUME NEW free \in [LotIds -> Nat], NEW preferred, NEW q
  PROVE  /\ Pick(free, preferred, q) \in [LotIds -> Nat]
         /\ \A l \in LotIds : Pick(free, preferred, q)[l] <= free[l]
<1>1. ASSUME NEW l \in LotIds
      PROVE  Clamp(q - Units(free, {m \in LotIds : Ahead(m, l, preferred)}), free[l])
               \in 0..free[l]
  BY ClampRange
<1>2. \A l \in LotIds : free[l] \in Nat
  OBVIOUS
<1> QED BY <1>1, <1>2 DEF Pick

\* What is free in a lot is between nothing and what remains in it.
LEMMA FreeRange ==
  ASSUME TypeOK, NEW own
  PROVE  /\ Free(own) \in [LotIds -> Nat]
         /\ \A l \in LotIds : Free(own)[l] <= lots[l].remaining
         /\ \A w \in Warehouses :
              /\ FreeIn(w, own) \in [LotIds -> Nat]
              /\ \A l \in LotIds : FreeIn(w, own)[l] <= lots[l].remaining
<1>1. \A l \in LotIds : lots[l].remaining \in Nat
  BY DEF TypeOK, LotRow
<1>2. ASSUME NEW l \in LotIds
      PROVE  FreeAt(l, own) \in Nat /\ FreeAt(l, own) <= lots[l].remaining
  BY <1>1, ClampRange DEF FreeAt
<1> QED BY <1>1, <1>2 DEF Free, FreeIn

\* The lots a transfer creates hold whole units.
LEMMA ArrivingRange ==
  ASSUME NEW take \in [LotIds -> Nat]
  PROVE  Arriving(take) \in [LotIds -> Nat]
<1>1. ASSUME NEW n \in LotIds, Heirs(take, n) # {}
      PROVE  take[CHOOSE l \in Heirs(take, n) : TRUE] \in Nat
  <2>1. (CHOOSE l \in Heirs(take, n) : TRUE) \in Heirs(take, n)
    BY <1>1
  <2>2. Heirs(take, n) \subseteq LotIds
    BY DEF Heirs, Sources
  <2> QED BY <2>1, <2>2
<1> QED BY <1>1 DEF Arriving

\* How many lots a transfer creates is a number.
LEMMA SourcesCount ==
  ASSUME NEW take
  PROVE  Cardinality(Sources(take)) \in Nat
<1>1. MaxLots \in Nat
  BY BoundAssumption
<1>2. IsFiniteSet(LotIds)
  BY <1>1, FS_Interval DEF LotIds
<1>3. IsFiniteSet(Sources(take))
  BY <1>2, FS_Subset DEF Sources
<1> QED BY <1>3, FS_CardinalityType

\* Units taken from the shelf leave a shelf of lots.
LEMMA ConsumeType ==
  ASSUME TypeOK, NEW take \in [LotIds -> Nat],
         \A l \in LotIds : take[l] <= lots[l].remaining
  PROVE  Consume(take) \in [LotIds -> LotRow]
BY DEF TypeOK, Consume, LotRow

\* Units moved between warehouses leave a shelf of lots.
LEMMA RelocateType ==
  ASSUME TypeOK, NEW take \in [LotIds -> Nat], NEW to \in Warehouses,
         \A l \in LotIds : take[l] <= lots[l].remaining
  PROVE  Relocate(take, to) \in [LotIds -> LotRow]
<1>1. Arriving(take) \in [LotIds -> Nat]
  BY ArrivingRange
<1> QED BY <1>1 DEF TypeOK, Relocate, LotRow

\* Reservations moved with a transfer are whole units.
LEMMA MovedType ==
  ASSUME TypeOK, NEW r \in Requests, NEW w, NEW q, NEW new \in [LotIds -> Nat]
  PROVE  Moved(r, w, q, new) \in [LotIds -> Nat]
<1> DEFINE there == [l \in LotIds |-> IF lots[l].wh = w THEN requests[r].alloc[l] ELSE 0]
           left  == Pick(there, None, q)
<1>1. requests[r].alloc \in [LotIds -> Nat]
  BY DEF TypeOK, RequestRow
<1>2. there \in [LotIds -> Nat] /\ \A l \in LotIds : there[l] <= requests[r].alloc[l]
  BY <1>1
<1>3. left \in [LotIds -> Nat] /\ \A l \in LotIds : left[l] <= there[l]
  BY <1>2, PickRange
<1>4. \A l \in LotIds : requests[r].alloc[l] - left[l] + new[l] \in Nat
  <2> HIDE DEF there, left
  <2> QED BY <1>1, <1>2, <1>3
<1> QED BY <1>4 DEF Moved

-----------------------------------------------------------------------------
(* Type correctness *)

\* Every pick from free units is a whole take that its lots can bear.
LEMMA TakeType ==
  ASSUME TypeOK, NEW w \in Warehouses, NEW own, NEW preferred, NEW q
  PROVE  LET take == Pick(FreeIn(w, own), preferred, q) IN
         take \in [LotIds -> Nat] /\ \A l \in LotIds : take[l] <= lots[l].remaining
<1> DEFINE free == FreeIn(w, own)
           take == Pick(free, preferred, q)
<1>1. free \in [LotIds -> Nat] /\ \A l \in LotIds : free[l] <= lots[l].remaining
  BY FreeRange
<1>2. take \in [LotIds -> Nat] /\ \A l \in LotIds : take[l] <= free[l]
  <2> HIDE DEF free
  <2> QED BY <1>1, PickRange
<1>3. \A l \in LotIds : lots[l].remaining \in Nat
  BY DEF TypeOK, LotRow
<1> HIDE DEF free, take
<1>4. \A l \in LotIds : take[l] <= lots[l].remaining
  BY <1>1, <1>2, <1>3
<1> QED BY <1>2, <1>4 DEF take, free

\* The warehouse's own operations keep the types.
LEMMA WarehouseStepType ==
  ASSUME TypeOK, WarehouseStep
  PROVE  TypeOK'
<1> USE DEF TypeOK
<1>1. ASSUME NEW e \in Entries, StockIn(e[1], e[2])
      PROVE  TypeOK'
  <2>1. e[1] \in Warehouses /\ e[2] \in Nat
    BY EntryAssumption
  <2>2. nlots + 1 \in LotIds /\ nlots' \in 0..MaxLots
    BY <1>1, BoundAssumption DEF StockIn, LotIds
  <2> QED BY <1>1, <2>1, <2>2 DEF StockIn, LotRow
<1>2. ASSUME NEW e \in Exits, StockOut(e[1], e[2])
      PROVE  TypeOK'
  <2> DEFINE take == Pick(FreeIn(e[1], None), None, e[2])
  <2>1. e[1] \in Warehouses /\ e[2] \in Nat
    BY EntryAssumption
  <2>2. take \in [LotIds -> Nat] /\ \A l \in LotIds : take[l] <= lots[l].remaining
    BY <2>1, TakeType
  <2>3. lots' \in [LotIds -> LotRow]
    <3>1. lots' = Consume(take)
      BY <1>2 DEF StockOut
    <3> HIDE DEF take
    <3> QED BY <2>2, <3>1, ConsumeType
  <2>4. stock' \in Nat
    BY <1>2, ClampRange DEF StockOut
  <2> QED BY <1>2, <2>3, <2>4 DEF StockOut
<1>3. ASSUME NEW t \in Relocations, NEW from \in Warehouses, NEW to \in Warehouses,
             NEW q \in 1..MaxQty, RequestRelocation(t, from, to, q)
      PROVE  TypeOK'
  BY <1>3, BoundAssumption DEF RequestRelocation, ManualRow, TransferStatus
<1>4. ASSUME NEW t \in Relocations, StartRelocation(t) \/ CancelRelocation(t)
      PROVE  TypeOK'
  BY <1>4 DEF StartRelocation, CancelRelocation, ManualRow, TransferStatus
<1>5. ASSUME NEW t \in Relocations, DeleteRelocation(t)
      PROVE  TypeOK'
  BY <1>5, ShopAssumption DEF DeleteRelocation, NoManual, ManualRow, TransferStatus
<1>6. ASSUME NEW t \in Relocations, ReceiveRelocation(t)
      PROVE  TypeOK'
  <2> DEFINE take == Pick(FreeIn(manual[t].from, None), None, manual[t].qty)
  <2>1. manual[t].from \in Warehouses /\ manual[t].to \in Warehouses
    BY DEF ManualRow
  <2>2. take \in [LotIds -> Nat] /\ \A l \in LotIds : take[l] <= lots[l].remaining
    BY <2>1, TakeType
  <2>3. lots' \in [LotIds -> LotRow]
    <3>1. lots' = Relocate(take, manual[t].to)
      BY <1>6 DEF ReceiveRelocation
    <3> HIDE DEF take
    <3> QED BY <2>1, <2>2, <3>1, RelocateType
  <2>4. nlots' \in 0..MaxLots
    <3>1. Cardinality(Sources(take)) \in Nat
      BY SourcesCount
    <3>2. nlots' = nlots + Cardinality(Sources(take)) /\ nlots' <= MaxLots
      BY <1>6 DEF ReceiveRelocation
    <3> HIDE DEF take
    <3> QED BY <3>1, <3>2, BoundAssumption
  <2>5. manual' \in [Relocations -> ManualRow]
    BY <1>6 DEF ReceiveRelocation, ManualRow, TransferStatus
  <2> QED BY <1>6, <2>3, <2>4, <2>5 DEF ReceiveRelocation
<1> QED BY <1>1, <1>2, <1>3, <1>4, <1>5, <1>6 DEF WarehouseStep

\* Editing a line keeps the types.
LEMMA LineStepType ==
  ASSUME TypeOK, NEW r \in Requests, LineStep(r)
  PROVE  TypeOK'
<1> USE DEF TypeOK
<1>1. requests[r] \in RequestRow /\ edit[r] \in EditRow
  OBVIOUS
<1>2. NoUnits \in [LotIds -> Nat] /\ NoEdit \in EditRow
  BY DEF NoUnits, NoEdit, EditRow
<1>3. \A q : Pick(Free({r}), None, q) \in [LotIds -> Nat]
  <2>1. Free({r}) \in [LotIds -> Nat]
    BY FreeRange
  <2> QED BY <2>1, PickRange
<1>4. ASSUME NEW q \in 1..MaxQty, AddLine(r, q)
      PROVE  TypeOK'
  <2>1. requests[r].qty + q \in Nat
    BY <1>1, BoundAssumption DEF RequestRow
  <2> QED BY <1>3, <1>4, <2>1 DEF AddLine, EditRow
<1>5. ASSUME NEW q \in 1..MaxQty, ResizeLine(r, q)
      PROVE  TypeOK'
  <2>1. q \in Nat
    BY BoundAssumption
  <2> QED BY <1>3, <1>5, <2>1 DEF ResizeLine, EditRow
<1>6. CASE ReadLine(r)
  BY <1>1, <1>6 DEF ReadLine, EditRow
<1>7. CASE RemoveLine(r)
  BY <1>1, <1>2, <1>7 DEF RemoveLine, RequestRow
<1>8. CASE AbandonEdit(r)
  BY <1>2, <1>8 DEF AbandonEdit
<1>9. CASE CommitLine(r)
  <2>1. Kept(r) \in [LotIds -> Nat] /\ edit[r].alloc \in [LotIds -> Nat]
    BY <1>1, <1>2 DEF Kept, RequestRow, EditRow
  <2>2. [l \in LotIds |-> Kept(r)[l] + edit[r].alloc[l]] \in [LotIds -> Nat]
    BY <2>1
  <2>3. Edited(r) \in RequestRow
    BY <1>1, <2>2 DEF Edited, RequestRow, EditRow
  <2> QED BY <1>2, <1>9, <2>3 DEF CommitLine
<1>10. CASE HoldExpires(r)
  BY <1>1, <1>10 DEF HoldExpires, RequestRow
<1> QED BY <1>4, <1>5, <1>6, <1>7, <1>8, <1>9, <1>10 DEF LineStep

\* A linked transfer that changes status stays a transfer.
LEMMA LinkedType ==
  ASSUME TypeOK, NEW r \in Requests, NEW w \in Warehouses, NEW s \in TransferStatus
  PROVE  /\ [linked[r][w] EXCEPT !.status = s] \in LinkedRow
         /\ [linked EXCEPT ![r][w].status = s] \in [Requests -> [Warehouses -> LinkedRow]]
<1>1. linked \in [Requests -> [Warehouses -> LinkedRow]]
  BY DEF TypeOK
<1>2. linked[r] \in [Warehouses -> LinkedRow] /\ linked[r][w] \in LinkedRow
  BY <1>1
<1> DEFINE row == [linked[r][w] EXCEPT !.status = s]
<1>3. row \in LinkedRow
  BY <1>2 DEF LinkedRow
<1>4. [linked EXCEPT ![r][w].status = s] = [linked EXCEPT ![r] = [linked[r] EXCEPT ![w] = row]]
  BY <1>1, <1>2
<1>5. [linked[r] EXCEPT ![w] = row] \in [Warehouses -> LinkedRow]
  <2> HIDE DEF row
  <2> QED BY <1>2, <1>3
<1> QED BY <1>1, <1>3, <1>4, <1>5

\* Submitting, moving, dispatching and deleting an ODT keeps the types.
LEMMA RequestStepType ==
  ASSUME TypeOK, NEW r \in Requests, RequestStep(r)
  PROVE  TypeOK'
<1> USE DEF TypeOK
<1>1. requests[r] \in RequestRow
  OBVIOUS
<1>2. CASE Submit(r)
  <2> DEFINE take == Pick(Free({r}), {Shop}, requests[r].qty)
             from(w) == Clamp(Units(take, LotsIn(w)), requests[r].qty)
  <2>1. take \in [LotIds -> Nat]
    <3>1. Free({r}) \in [LotIds -> Nat]
      BY FreeRange
    <3> QED BY <3>1, PickRange
  <2>2. \A w : from(w) \in Nat
    BY <1>1, ClampRange DEF RequestRow
  <2>3. requests' \in [Requests -> RequestRow]
    <3>1. Submitted(r, take) \in RequestRow
      <4>1. Clamp(requests[r].qty - Units(take, LotIds), requests[r].qty) \in Nat
        BY <1>1, ClampRange DEF RequestRow
      <4> HIDE DEF take
      <4> QED BY <1>1, <2>1, <4>1 DEF Submitted, RequestRow
    <3>2. requests' = [requests EXCEPT ![r] = Submitted(r, take)]
      BY <1>2 DEF Submit
    <3> HIDE DEF take
    <3> QED BY <3>1, <3>2
  <2>4. linked' \in [Requests -> [Warehouses -> LinkedRow]]
    <3>1. linked' = [linked EXCEPT ![r] = [w \in Warehouses |->
            IF w # Shop /\ from(w) > 0 THEN [status |-> "pedido", qty |-> from(w)] ELSE @[w]]]
      BY <1>2 DEF Submit
    <3> HIDE DEF from, take
    <3> QED BY <2>2, <3>1 DEF LinkedRow, TransferStatus
  <2> QED BY <1>2, <2>3, <2>4 DEF Submit
<1>3. ASSUME NEW w \in Warehouses, StartLinked(r, w)
      PROVE  TypeOK'
  BY <1>3, LinkedType DEF StartLinked, TransferStatus
<1>4. ASSUME NEW w \in Warehouses, ReceiveLinked(r, w)
      PROVE  TypeOK'
  <2> DEFINE take == Pick(FreeIn(w, {r}), None, linked[r][w].qty)
  <2>1. take \in [LotIds -> Nat] /\ \A l \in LotIds : take[l] <= lots[l].remaining
    BY TakeType
  <2>2. lots' \in [LotIds -> LotRow]
    <3>1. lots' = Relocate(take, Shop)
      BY <1>4 DEF ReceiveLinked
    <3> HIDE DEF take
    <3> QED BY <2>1, <3>1, RelocateType, ShopAssumption
  <2>3. nlots' \in 0..MaxLots
    <3>1. Cardinality(Sources(take)) \in Nat
      BY SourcesCount
    <3>2. nlots' = nlots + Cardinality(Sources(take)) /\ nlots' <= MaxLots
      BY <1>4 DEF ReceiveLinked
    <3> HIDE DEF take
    <3> QED BY <3>1, <3>2, BoundAssumption
  <2>4. requests' \in [Requests -> RequestRow]
    <3> DEFINE moved == Moved(r, w, linked[r][w].qty, Arriving(take))
    <3>1. moved \in [LotIds -> Nat]
      BY <2>1, ArrivingRange, MovedType
    <3>2. requests' = [requests EXCEPT ![r].alloc =
            IF requests[r].qty = 0 THEN @ ELSE moved]
      BY <1>4 DEF ReceiveLinked
    <3> HIDE DEF moved
    <3> QED BY <1>1, <3>1, <3>2 DEF RequestRow
  <2>5. linked' \in [Requests -> [Warehouses -> LinkedRow]]
    BY <1>4, LinkedType DEF ReceiveLinked, TransferStatus
  <2> QED BY <1>4, <2>2, <2>3, <2>4, <2>5 DEF ReceiveLinked
<1>5. CASE Dispatch(r)
  <2> DEFINE take == Pick(FreeIn(Shop, {r}), None, requests[r].qty)
  <2>1. take \in [LotIds -> Nat] /\ \A l \in LotIds : take[l] <= lots[l].remaining
    BY TakeType, ShopAssumption
  <2>2. lots' \in [LotIds -> LotRow]
    <3>1. lots' = Consume(take)
      BY <1>5 DEF Dispatch, Dispatchable
    <3> HIDE DEF take
    <3> QED BY <2>1, <3>1, ConsumeType
  <2>3. requests' \in [Requests -> RequestRow]
    <3>1. requests' = [requests EXCEPT ![r] = [@ EXCEPT
            !.status = "completado", !.alloc = take, !.shortfall = 0, !.deducted = TRUE]]
      BY <1>5 DEF Dispatch, Dispatchable
    <3> HIDE DEF take
    <3> QED BY <1>1, <2>1, <3>1 DEF RequestRow
  <2>4. stock' \in Nat
    BY <1>5, ClampRange DEF Dispatch
  <2> QED BY <1>5, <2>2, <2>3, <2>4 DEF Dispatch
<1>6. CASE DeleteRequest(r)
  BY <1>6 DEF DeleteRequest, NoRequest, RequestRow, NoUnits, NoLinked, LinkedRow, TransferStatus
<1> QED BY <1>2, <1>3, <1>4, <1>5, <1>6 DEF RequestStep

\* Invoicing, delivering, cancelling and reopening an order keeps the types.
LEMMA OrderStepType ==
  ASSUME TypeOK, NEW o \in Orders, OrderStep(o)
  PROVE  TypeOK'
<1> USE DEF TypeOK
<1>1. CASE Invoice(o)
  BY <1>1 DEF Invoice, OrderRow
<1>2. CASE Close(o)
  <2>1. \A r \in Requests : ClosedRow(o, r) \in RequestRow
    BY DEF ClosedRow, RequestRow
  <2>2. ASSUME NEW r \in Requests, NEW w \in Warehouses
        PROVE  ClosedLink(o, r, w) \in LinkedRow
    <3>1. linked[r][w] \in LinkedRow
      OBVIOUS
    <3>2. [linked[r][w] EXCEPT !.status = "cancelada"] \in LinkedRow
      BY LinkedType DEF TransferStatus
    <3> QED BY <3>1, <3>2 DEF ClosedLink
  <2> QED BY <1>2, <2>1, <2>2 DEF Close, OrderRow
<1>3. CASE Cancel(o)
  BY <1>3 DEF Cancel, OrderRow
<1>4. CASE Reopen(o)
  BY <1>4, BoundAssumption DEF Reopen, OrderRow
<1> QED BY <1>1, <1>2, <1>3, <1>4 DEF OrderStep

\* Whatever the bounds and however many users, every lot, counter, ODT and
\* transfer keeps a value the database could hold; no lot is ever negative.
THEOREM TypeCorrect == Spec => []TypeOK
<1>1. Init => TypeOK
  <2> SUFFICES ASSUME Init PROVE TypeOK
    OBVIOUS
  <2>1. NoUnits \in [LotIds -> Nat]
    BY DEF NoUnits
  <2> QED BY <2>1, BoundAssumption, ShopAssumption
          DEF Init, TypeOK, NoLot, LotRow, OrderRow, NoRequest, RequestRow, NoLinked, LinkedRow,
              NoManual, ManualRow, TransferStatus, NoEdit, EditRow
<1>2. TypeOK /\ [Next]_vars => TypeOK'
  <2> SUFFICES ASSUME TypeOK, [Next]_vars PROVE TypeOK'
    OBVIOUS
  <2>1. CASE Next
    BY <2>1, WarehouseStepType, LineStepType, RequestStepType, OrderStepType DEF Next
  <2>2. CASE UNCHANGED vars
    BY <2>2 DEF vars, TypeOK
  <2> QED BY <2>1, <2>2
<1> QED BY <1>1, <1>2, PTL DEF Spec

-----------------------------------------------------------------------------
(* The life of an ODT.  NoOrphanTransfer and ClosedWithOrder are not        *)
(* inductive: they follow from Lifecycle, which is.                         *)

Life == <<orders, requests, linked, edit>>

DispatchedOnce == \A r \in Requests :
  requests[r].deducted <=> requests[r].status = "completado"

LinkedIfSubmitted == \A r \in Requests, w \in Warehouses :
  linked[r][w].status # "ninguno" => requests[r].status \in {"pedido", "completado"}

NothingToReceive == \A r \in Requests, w \in Warehouses :
  requests[r].deducted \/ requests[r].closed => ~Pending(r, w)

ClosedBehindOrder == \A r \in Requests : requests[r].closed =>
  /\ requests[r].status \in {"pendiente", "pedido", "completado"}
  /\ orders[OrderOf[r]].status = "orden_cerrada"

EditHoldsOrder == \A r \in Requests :
  edit[r].stage = "bloqueado" => ~Terminal(OrderOf[r])

Lifecycle ==
  /\ DispatchedOnce
  /\ LinkedIfSubmitted
  /\ NothingToReceive
  /\ ClosedBehindOrder
  /\ EditHoldsOrder
  /\ ClosedWithOrder

\* The only thing a straddling edit could reach: an ODT already submitted.
EditsOnlyPending == \A r \in Requests :
  edit[r].stage # "libre" => requests[r].status \notin {"pedido", "completado"}

\* The warehouse's own operations do not touch orders or ODTs.
LEMMA WarehouseFrame ==
  ASSUME WarehouseStep
  PROVE  UNCHANGED Life
BY DEF WarehouseStep, StockIn, StockOut, RequestRelocation, StartRelocation, CancelRelocation,
       DeleteRelocation, ReceiveRelocation, Life

\* Editing a line keeps the life of every ODT.
LEMMA LineStepLifecycle ==
  ASSUME TypeOK, Lifecycle, NEW r \in Requests, LineStep(r)
  PROVE  Lifecycle'
<1> USE DEF Lifecycle, DispatchedOnce, LinkedIfSubmitted, NothingToReceive, ClosedBehindOrder,
            EditHoldsOrder, ClosedWithOrder, Pending, Terminal
<1>1. /\ requests \in [Requests -> RequestRow] /\ edit \in [Requests -> EditRow]
      /\ OrderOf[r] \in Orders
  BY OrderAssumption DEF TypeOK
<1>2. ASSUME NEW q \in 1..MaxQty, AddLine(r, q) \/ ResizeLine(r, q)
      PROVE  Lifecycle'
  BY <1>1, <1>2 DEF AddLine, ResizeLine, Editable, EditRow
<1>3. CASE ReadLine(r)
  BY <1>1, <1>3 DEF ReadLine, EditRow
<1>4. CASE AbandonEdit(r)
  BY <1>1, <1>4 DEF AbandonEdit, NoEdit, EditRow
<1>5. CASE RemoveLine(r) \/ HoldExpires(r)
  <2>1. \A s \in Requests : /\ requests'[s].status = requests[s].status
                             /\ requests'[s].deducted = requests[s].deducted
                             /\ requests'[s].closed = requests[s].closed
    <3>1. CASE RemoveLine(r)
      BY <1>1, <3>1 DEF RemoveLine, RequestRow
    <3>2. CASE HoldExpires(r)
      BY <1>1, <3>2 DEF HoldExpires, RequestRow
    <3> QED BY <1>5, <3>1, <3>2
  <2>2. \A s \in Requests : edit'[s].stage = "bloqueado" => edit[s].stage = "bloqueado"
    BY <1>1, <1>5 DEF RemoveLine, HoldExpires, NoEdit, EditRow
  <2>3. UNCHANGED <<orders, linked>>
    BY <1>5 DEF RemoveLine, HoldExpires
  <2>4. DispatchedOnce' /\ LinkedIfSubmitted'
    BY <2>1, <2>2, <2>3
  <2>5. NothingToReceive' /\ EditHoldsOrder'
    BY <2>1, <2>2, <2>3
  <2>6. ClosedBehindOrder' /\ ClosedWithOrder'
    BY <2>1, <2>2, <2>3
  <2> QED BY <2>4, <2>5, <2>6
<1>6. CASE CommitLine(r)
  <2>1. \A s \in Requests :
          /\ \/ requests'[s].status = requests[s].status
             \/ /\ s = r /\ requests[r].status = "ninguna"
                /\ requests'[r].status = "pendiente"
          /\ requests'[s].deducted = requests[s].deducted
          /\ requests'[s].closed = requests[s].closed
    BY <1>1, <1>6 DEF CommitLine, Edited, RequestRow
  <2>2. \A s \in Requests : edit'[s].stage = "bloqueado" => edit[s].stage = "bloqueado"
    BY <1>1, <1>6 DEF CommitLine, NoEdit, EditRow
  <2>3. edit[r].stage = "bloqueado" /\ UNCHANGED <<orders, linked>>
    BY <1>6 DEF CommitLine
  <2>4. DispatchedOnce' /\ LinkedIfSubmitted'
    BY <2>1, <2>2, <2>3
  <2>5. NothingToReceive' /\ EditHoldsOrder'
    BY <2>1, <2>2, <2>3
  <2>6. ClosedBehindOrder' /\ ClosedWithOrder'
    BY <2>1, <2>2, <2>3
  <2> QED BY <2>4, <2>5, <2>6
<1> QED BY <1>2, <1>3, <1>4, <1>5, <1>6 DEF LineStep

\* Submitting, moving, dispatching and deleting an ODT keeps the life of every ODT.
LEMMA RequestStepLifecycle ==
  ASSUME TypeOK, Lifecycle, NEW r \in Requests, RequestStep(r)
  PROVE  Lifecycle'
<1> USE DEF Lifecycle, DispatchedOnce, LinkedIfSubmitted, NothingToReceive, ClosedBehindOrder,
            EditHoldsOrder, ClosedWithOrder, Pending, Terminal
<1>1. /\ requests \in [Requests -> RequestRow] /\ OrderOf[r] \in Orders
      /\ linked \in [Requests -> [Warehouses -> LinkedRow]]
  BY OrderAssumption DEF TypeOK
<1>2. CASE Submit(r)
  BY <1>1, <1>2 DEF Submit, Submittable, Submitted, Editable, RequestRow, LinkedRow
<1>3. ASSUME NEW w \in Warehouses, StartLinked(r, w)
      PROVE  Lifecycle'
  BY <1>1, <1>3 DEF StartLinked, LinkedRow
<1>4. ASSUME NEW w \in Warehouses, ReceiveLinked(r, w)
      PROVE  Lifecycle'
  BY <1>1, <1>4 DEF ReceiveLinked, LinkedRow, RequestRow
<1>5. CASE Dispatch(r)
  BY <1>1, <1>5 DEF Dispatch, LinkedRow, RequestRow
<1>6. CASE DeleteRequest(r)
  BY <1>1, <1>6 DEF DeleteRequest, NoRequest, NoLinked, LinkedRow, RequestRow
<1> QED BY <1>2, <1>3, <1>4, <1>5, <1>6 DEF RequestStep

\* Invoicing, delivering, cancelling and reopening keeps the life of every ODT.
LEMMA OrderStepLifecycle ==
  ASSUME TypeOK, Lifecycle, NEW o \in Orders, OrderStep(o)
  PROVE  Lifecycle'
<1> USE DEF Lifecycle, DispatchedOnce, LinkedIfSubmitted, NothingToReceive, ClosedBehindOrder,
            EditHoldsOrder, ClosedWithOrder, Pending, Terminal
<1>1. /\ requests \in [Requests -> RequestRow] /\ OrderOf \in [Requests -> Orders]
      /\ orders \in [Orders -> OrderRow]
      /\ linked \in [Requests -> [Warehouses -> LinkedRow]]
  BY OrderAssumption DEF TypeOK
<1>2. CASE Invoice(o)
  BY <1>1, <1>2 DEF Invoice, OrderRow
<1>3. CASE Close(o)
  BY <1>1, <1>3 DEF Close, Closable, OrderUnlocked, ClosedRow, ClosedLink, OrderRow, RequestRow,
                    LinkedRow
<1>4. CASE Cancel(o)
  BY <1>1, <1>4 DEF Cancel, Editable, OrderUnlocked, OrderRow
<1>5. CASE Reopen(o)
  BY <1>1, <1>5 DEF Reopen, OrderRow
<1> QED BY <1>2, <1>3, <1>4, <1>5 DEF OrderStep

\* Dispatch and its flag, transfers and their ODT, closing and its order go
\* together in every reachable state, reopenings and straddling edits included.
THEOREM LifecycleInvariant == Spec => []Lifecycle
<1>1. Init => Lifecycle
  BY OrderAssumption DEF Init, Lifecycle, DispatchedOnce, LinkedIfSubmitted, NothingToReceive,
     ClosedBehindOrder, EditHoldsOrder, ClosedWithOrder, Pending, NoRequest, NoLinked, NoEdit
<1>2. TypeOK /\ Lifecycle /\ [Next]_vars => Lifecycle'
  <2> SUFFICES ASSUME TypeOK, Lifecycle, [Next]_vars PROVE Lifecycle'
    OBVIOUS
  <2>1. ASSUME UNCHANGED Life
        PROVE  Lifecycle'
    BY <2>1 DEF Life, Lifecycle, DispatchedOnce, LinkedIfSubmitted, NothingToReceive,
       ClosedBehindOrder, EditHoldsOrder, ClosedWithOrder, Pending, Terminal
  <2>2. CASE Next
    BY <2>1, <2>2, WarehouseFrame, LineStepLifecycle, RequestStepLifecycle, OrderStepLifecycle
    DEF Next
  <2>3. CASE UNCHANGED vars
    BY <2>1, <2>3 DEF vars, Life
  <2> QED BY <2>2, <2>3
<1> QED BY <1>1, <1>2, TypeCorrect, PTL DEF Spec

\* A transfer still to be received belongs to a submitted, undelivered ODT.
THEOREM NoOrphans == Spec => []NoOrphanTransfer
<1>1. TypeOK /\ Lifecycle => NoOrphanTransfer
  BY DEF TypeOK, LinkedRow, RequestRow, Lifecycle, DispatchedOnce, LinkedIfSubmitted,
     NothingToReceive, ClosedWithOrder, NoOrphanTransfer, Pending
<1> QED BY <1>1, TypeCorrect, LifecycleInvariant, PTL

\* An ODT is closed exactly when its order is delivered.
THEOREM ClosedTogether == Spec => []ClosedWithOrder
<1>1. Lifecycle => ClosedWithOrder
  BY DEF Lifecycle
<1> QED BY <1>1, LifecycleInvariant, PTL

\* No step takes a dispatched ODT out of "completado", whoever takes it.
LEMMA DispatchedStays ==
  ASSUME TypeOK, Lifecycle, Next, NEW s \in Requests, requests[s].deducted
  PROVE  requests'[s].deducted /\ requests'[s].status = "completado"
<1>1. /\ requests \in [Requests -> RequestRow] /\ requests[s] \in RequestRow
      /\ requests[s].status = "completado" /\ requests[s].deducted = TRUE
  BY DEF TypeOK, RequestRow, Lifecycle, DispatchedOnce
<1>2. CASE UNCHANGED requests
  BY <1>1, <1>2
<1>3. ASSUME NEW r \in Requests, LineStep(r)
      PROVE  requests'[s].deducted /\ requests'[s].status = "completado"
  <2>1. CASE RemoveLine(r)
    BY <1>1, <2>1 DEF RemoveLine, RequestRow
  <2>2. CASE CommitLine(r)
    BY <1>1, <2>2 DEF CommitLine, Edited, RequestRow
  <2>3. CASE HoldExpires(r)
    BY <1>1, <2>3 DEF HoldExpires, RequestRow
  <2>4. CASE UNCHANGED requests
    BY <1>2, <2>4
  <2> QED BY <1>3, <2>1, <2>2, <2>3, <2>4
          DEF LineStep, AddLine, ReadLine, ResizeLine, AbandonEdit
<1>4. ASSUME NEW r \in Requests, RequestStep(r)
      PROVE  requests'[s].deducted /\ requests'[s].status = "completado"
  <2>1. CASE Submit(r)
    BY <1>1, <2>1 DEF Submit, Submittable
  <2>2. CASE Dispatch(r)
    BY <1>1, <2>2 DEF Dispatch
  <2>3. CASE DeleteRequest(r)
    BY <1>1, <2>3 DEF DeleteRequest
  <2>4. ASSUME NEW w \in Warehouses, StartLinked(r, w)
        PROVE  UNCHANGED requests
    BY <2>4 DEF StartLinked
  <2>5. ASSUME NEW w \in Warehouses, ReceiveLinked(r, w)
        PROVE  requests'[s].deducted /\ requests'[s].status = "completado"
    BY <1>1, <2>5 DEF ReceiveLinked, RequestRow
  <2> QED BY <1>2, <1>4, <2>1, <2>2, <2>3, <2>4, <2>5 DEF RequestStep
<1>5. ASSUME NEW o \in Orders, OrderStep(o)
      PROVE  requests'[s].deducted /\ requests'[s].status = "completado"
  <2>1. CASE Close(o)
    BY <1>1, <2>1 DEF Close, ClosedRow, RequestRow
  <2>2. CASE UNCHANGED requests
    BY <1>2, <2>2
  <2> QED BY <1>5, <2>1, <2>2 DEF OrderStep, Invoice, Cancel, Reopen
<1> QED BY <1>2, <1>3, <1>4, <1>5, WarehouseFrame DEF Next, Life

\* A dispatched ODT stays dispatched, so its units leave the shelf once.
THEOREM DispatchOnce == Spec => DispatchIsFinal
<1>1. TypeOK /\ Lifecycle /\ [Next]_vars =>
        [\A r \in Requests : requests[r].deducted =>
           requests'[r].deducted /\ requests'[r].status = "completado"]_vars
  BY DispatchedStays
<1> QED BY <1>1, TypeCorrect, LifecycleInvariant, PTL DEF Spec, DispatchIsFinal

\* No step moves an ODT that delivery closed, nor its transfers.
LEMMA ClosedStays ==
  ASSUME TypeOK, Lifecycle, Next, NEW s \in Requests, requests[s].closed
  PROVE  /\ requests'[s] = [requests[s] EXCEPT !.fresh = requests'[s].fresh]
         /\ linked'[s] = linked[s]
<1> DEFINE Settled == /\ requests'[s] = [requests[s] EXCEPT !.fresh = requests'[s].fresh]
                      /\ linked'[s] = linked[s]
<1>1. /\ requests \in [Requests -> RequestRow] /\ requests[s] \in RequestRow
      /\ linked \in [Requests -> [Warehouses -> LinkedRow]]
      /\ Terminal(OrderOf[s]) /\ orders[OrderOf[s]].status = "orden_cerrada"
      /\ edit[s].stage # "bloqueado"
      /\ OrderOf[s] \in Orders
  BY OrderAssumption DEF TypeOK, Lifecycle, ClosedBehindOrder, EditHoldsOrder, Terminal
<1>2. ASSUME requests'[s] = requests[s], linked'[s] = linked[s]
      PROVE  Settled
  BY <1>1, <1>2 DEF RequestRow
<1>3. ASSUME NEW r \in Requests, LineStep(r)
      PROVE  Settled
  <2>1. CASE RemoveLine(r)
    BY <1>1, <1>2, <2>1 DEF RemoveLine, Editable
  <2>2. CASE CommitLine(r)
    BY <1>1, <1>2, <2>2 DEF CommitLine
  <2>3. CASE HoldExpires(r)
    <3>1. linked'[s] = linked[s]
      BY <2>3 DEF HoldExpires
    <3>2. CASE r = s
      BY <1>1, <2>3, <3>1, <3>2 DEF HoldExpires, RequestRow
    <3>3. CASE r # s
      BY <1>1, <1>2, <2>3, <3>1, <3>3 DEF HoldExpires
    <3> QED BY <3>2, <3>3
  <2>4. CASE UNCHANGED <<requests, linked>>
    BY <1>2, <2>4
  <2> QED BY <1>3, <2>1, <2>2, <2>3, <2>4
          DEF LineStep, AddLine, ReadLine, ResizeLine, AbandonEdit
<1>4. ASSUME NEW r \in Requests, RequestStep(r)
      PROVE  Settled
  <2>1. CASE Submit(r)
    BY <1>1, <1>2, <2>1 DEF Submit, Editable
  <2>2. CASE Dispatch(r)
    BY <1>1, <1>2, <2>2 DEF Dispatch
  <2>3. CASE DeleteRequest(r)
    BY <1>1, <1>2, <2>3 DEF DeleteRequest
  <2>4. ASSUME NEW w \in Warehouses, StartLinked(r, w)
        PROVE  Settled
    BY <1>1, <1>2, <2>4 DEF StartLinked
  <2>5. ASSUME NEW w \in Warehouses, ReceiveLinked(r, w)
        PROVE  Settled
    BY <1>1, <1>2, <2>5 DEF ReceiveLinked
  <2> QED BY <1>4, <2>1, <2>2, <2>3, <2>4, <2>5 DEF RequestStep
<1>5. ASSUME NEW o \in Orders, OrderStep(o)
      PROVE  Settled
  <2>1. CASE Close(o)
    <3>1. OrderOf[s] # o
      BY <1>1, <2>1 DEF Close, Closable
    <3>2. ClosedRow(o, s) = requests[s] /\ \A w : ClosedLink(o, s, w) = linked[s][w]
      BY <3>1 DEF ClosedRow, ClosedLink
    <3>3. requests'[s] = requests[s] /\ linked'[s] = linked[s]
      BY <1>1, <2>1, <3>2 DEF Close
    <3> QED BY <1>2, <3>3
  <2>2. CASE UNCHANGED <<requests, linked>>
    BY <1>2, <2>2
  <2> QED BY <1>5, <2>1, <2>2 DEF OrderStep, Invoice, Cancel, Reopen
<1> QED BY <1>2, <1>3, <1>4, <1>5, WarehouseFrame DEF Next, Life

\* Once delivery closed an ODT nothing about it moves, not even an edit that
\* was open when the order was delivered.
THEOREM DeliveredIsSettled == Spec => ClosedIsSettled
<1>1. TypeOK /\ Lifecycle /\ [Next]_vars =>
        [\A r \in Requests : requests[r].closed =>
           /\ requests'[r] = [requests[r] EXCEPT !.fresh = requests'[r].fresh]
           /\ linked'[r] = linked[r]]_vars
  BY ClosedStays
<1> QED BY <1>1, TypeCorrect, LifecycleInvariant, PTL DEF Spec, ClosedIsSettled

-----------------------------------------------------------------------------
(* A submitted line, when no quantity edit straddles the submission.        *)

\* Then an open edit is of an ODT that has not been submitted.
LEMMA EditsOnlyPendingStep ==
  ASSUME ~EditsOverlapSubmit, TypeOK, EditsOnlyPending, Next
  PROVE  EditsOnlyPending'
<1> USE DEF EditsOnlyPending
<1>1. /\ requests \in [Requests -> RequestRow] /\ edit \in [Requests -> EditRow]
  BY DEF TypeOK
<1>2. CASE UNCHANGED <<requests, edit>>
  BY <1>2
<1>3. ASSUME NEW r \in Requests, LineStep(r)
      PROVE  EditsOnlyPending'
  <2>1. ASSUME NEW q \in 1..MaxQty, AddLine(r, q)
        PROVE  EditsOnlyPending'
    BY <1>1, <2>1 DEF AddLine, EditRow
  <2>2. CASE ReadLine(r)
    BY <1>1, <2>2 DEF ReadLine, Resizable, EditRow
  <2>3. ASSUME NEW q \in 1..MaxQty, ResizeLine(r, q)
        PROVE  EditsOnlyPending'
    BY <1>1, <2>3 DEF ResizeLine, EditRow
  <2>4. CASE AbandonEdit(r)
    BY <1>1, <2>4 DEF AbandonEdit, NoEdit, EditRow
  <2>5. CASE RemoveLine(r)
    BY <1>1, <2>5 DEF RemoveLine, NoEdit, EditRow, RequestRow
  <2>6. CASE CommitLine(r)
    BY <1>1, <2>6 DEF CommitLine, Edited, NoEdit, EditRow, RequestRow
  <2>7. CASE HoldExpires(r)
    BY <1>1, <2>7 DEF HoldExpires, RequestRow
  <2> QED BY <1>3, <2>1, <2>2, <2>3, <2>4, <2>5, <2>6, <2>7 DEF LineStep
<1>4. ASSUME NEW r \in Requests, RequestStep(r)
      PROVE  EditsOnlyPending'
  <2>1. CASE Submit(r)
    BY <1>1, <2>1 DEF Submit, Submitted, RequestRow
  <2>2. CASE Dispatch(r)
    BY <1>1, <2>2 DEF Dispatch, RequestRow
  <2>3. CASE DeleteRequest(r)
    BY <1>1, <2>3 DEF DeleteRequest, NoRequest, RequestRow
  <2>4. ASSUME NEW w \in Warehouses, StartLinked(r, w)
        PROVE  UNCHANGED <<requests, edit>>
    BY <2>4 DEF StartLinked
  <2>5. ASSUME NEW w \in Warehouses, ReceiveLinked(r, w)
        PROVE  EditsOnlyPending'
    BY <1>1, <2>5 DEF ReceiveLinked, RequestRow
  <2> QED BY <1>2, <1>4, <2>1, <2>2, <2>3, <2>4, <2>5 DEF RequestStep
<1>5. ASSUME NEW o \in Orders, OrderStep(o)
      PROVE  EditsOnlyPending'
  <2>1. CASE Close(o)
    BY <1>1, <2>1 DEF Close, ClosedRow, RequestRow
  <2>2. CASE UNCHANGED <<requests, edit>>
    BY <1>2, <2>2
  <2> QED BY <1>5, <2>1, <2>2 DEF OrderStep, Invoice, Cancel, Reopen
<1> QED BY <1>2, <1>3, <1>4, <1>5, WarehouseFrame DEF Next, Life

\* A step that changes a quantity is of a pending ODT.
LEMMA QuantityStays ==
  ASSUME TypeOK, EditsOnlyPending, Next, NEW s \in Requests,
         requests[s].status \in {"pedido", "completado"}
  PROVE  requests'[s].qty = requests[s].qty
<1>1. /\ requests \in [Requests -> RequestRow] /\ requests[s] \in RequestRow
      /\ edit[s].stage = "libre"
  BY DEF TypeOK, EditsOnlyPending
<1>2. CASE requests'[s] = requests[s]
  BY <1>2
<1>3. ASSUME NEW r \in Requests, LineStep(r)
      PROVE  requests'[s].qty = requests[s].qty
  <2>1. CASE RemoveLine(r) \/ CommitLine(r)
    BY <1>1, <2>1 DEF RemoveLine, CommitLine
  <2>2. CASE HoldExpires(r)
    BY <1>1, <2>2 DEF HoldExpires, RequestRow
  <2>3. CASE UNCHANGED requests
    BY <2>3
  <2> QED BY <1>3, <2>1, <2>2, <2>3 DEF LineStep, AddLine, ReadLine, ResizeLine, AbandonEdit
<1>4. ASSUME NEW r \in Requests, RequestStep(r)
      PROVE  requests'[s].qty = requests[s].qty
  <2>1. CASE Submit(r) \/ DeleteRequest(r)
    BY <1>1, <2>1 DEF Submit, Submittable, DeleteRequest
  <2>2. CASE Dispatch(r)
    BY <1>1, <2>2 DEF Dispatch, RequestRow
  <2>3. ASSUME NEW w \in Warehouses, StartLinked(r, w)
        PROVE  UNCHANGED requests
    BY <2>3 DEF StartLinked
  <2>4. ASSUME NEW w \in Warehouses, ReceiveLinked(r, w)
        PROVE  requests'[s].qty = requests[s].qty
    BY <1>1, <2>4 DEF ReceiveLinked, RequestRow
  <2> QED BY <1>2, <1>4, <2>1, <2>2, <2>3, <2>4 DEF RequestStep
<1>5. ASSUME NEW o \in Orders, OrderStep(o)
      PROVE  requests'[s].qty = requests[s].qty
  <2>1. CASE Close(o)
    BY <1>1, <2>1 DEF Close, ClosedRow, RequestRow
  <2>2. CASE UNCHANGED requests
    BY <2>2
  <2> QED BY <1>5, <2>1, <2>2 DEF OrderStep, Invoice, Cancel, Reopen
<1> QED BY <1>2, <1>3, <1>4, <1>5, WarehouseFrame DEF Next, Life

\* The freeze the quantity editor promises holds whenever no edit straddles a
\* submission: the straddling read is the only way round it.
THEOREM FrozenUnlessStraddled ==
  ASSUME ~EditsOverlapSubmit
  PROVE  Spec => SubmittedIsFrozen
<1>1. Init => EditsOnlyPending
  BY DEF Init, EditsOnlyPending, NoEdit
<1>2. TypeOK /\ EditsOnlyPending /\ [Next]_vars => EditsOnlyPending'
  <2>1. CASE Next
    BY <2>1, EditsOnlyPendingStep
  <2>2. CASE UNCHANGED vars
    BY <2>2 DEF vars, EditsOnlyPending
  <2> QED BY <2>1, <2>2
<1>3. TypeOK /\ EditsOnlyPending /\ [Next]_vars =>
        [\A r \in Requests : requests[r].status \in {"pedido", "completado"} =>
           requests'[r].qty = requests[r].qty]_vars
  BY QuantityStays
<1> QED BY <1>1, <1>2, <1>3, TypeCorrect, PTL DEF Spec, SubmittedIsFrozen
=============================================================================
