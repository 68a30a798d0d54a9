------------------------------- MODULE Counter -------------------------------
(***************************************************************************)
(* The parts counter of a filial, for one part in one warehouse: walk-in   *)
(* sales that take units from the lots first in, first out, their dispatch *)
(* by the warehouse, hand-over, cancellation and collection, returns, the  *)
(* bulk import of lots, and parts.stock_quantity, the counter that all of  *)
(* them keep beside the lots.                                              *)
(*                                                                         *)
(* A sale, a stock entry and a stock exit lock the part before they read   *)
(* its counter.  A cancellation, a return and a bulk import read it without*)
(* a lock and write later what they read plus what they add; between the   *)
(* two, others commit (variable unlocked).  A cancellation holds its sale  *)
(* and the sale's lots meanwhile.                                          *)
(*                                                                         *)
(* Left out: discounts, costs, quotes, clients, photographs, several lines *)
(* per sale, and the reservations of the workshop (module Workshop).       *)
(***************************************************************************)
EXTENDS Money, FiniteSets, Functions

CONSTANTS
  Sales,         \* sale ids, each used once
  Writers,       \* slots for the handlers that write without a lock
  MaxShelf,      \* bound: lots ever created
  LotSizes,      \* bound: units of a new lot
  SaleSizes,     \* bound: units of a sale
  Price,         \* cents of a unit
  Bcv            \* bolivars of a dollar

ASSUME CounterAssumption ==
  /\ {MaxShelf, Price} \subseteq Nat
  /\ Bcv \in Nat \ {0}
  /\ LotSizes \union SaleSizes \subseteq Nat \ {0}
  /\ IsFiniteSet(Sales)

VARIABLES
  partLots,        \* part_lots by received_at: units received and remaining
  stockQuantity,   \* parts.stock_quantity
  sales,           \* part_sales with their line and its allocations
  saleReceipts,    \* operation_receipts of collections, by request id
  unlocked,        \* what an open unlocked writer read and will add
  overwritten      \* history: a writer wrote over a counter that was no longer what it read

counterVars == <<partLots, stockQuantity, sales, saleReceipts, unlocked, overwritten>>

ShelfIds == 1..MaxShelf
SaleStatus == {"pendiente", "pedido", "completado", "cancelado"}
SaleRow == [status : SaleStatus \union {"ninguna"},
            quantity : Nat, takes : [ShelfIds -> Nat],
            dispatched : Nat,    \* what the warehouse says it pulled
            warranted : Nat,     \* units with a counter warranty
            igtf : Nat, collected : Nat]
\* No receipt, or the sale it collected, the tender and what it brought.
SaleReceipt == [sale : Sales, tender : Tenders, income : Nat]
Writer == [kind : {"cancel", "return", "bulk"}, read : Nat, adds : Nat, sale : SUBSET Sales]

CounterTypeOK ==
  /\ partLots \in [ShelfIds -> [received : Nat, remaining : Nat]]
  /\ stockQuantity \in Nat
  /\ sales \in [Sales -> SaleRow]
  /\ saleReceipts \in [RequestIds -> SUBSET SaleReceipt]
  /\ unlocked \in [Writers -> SUBSET Writer] /\ overwritten \in BOOLEAN

NoTakes == [l \in ShelfIds |-> 0]
NoSale  == [status |-> "ninguna", quantity |-> 0, takes |-> NoTakes, dispatched |-> 0,
            warranted |-> 0, igtf |-> 0, collected |-> 0]

CounterInit ==
  /\ partLots = [l \in ShelfIds |-> [received |-> 0, remaining |-> 0]]
  /\ stockQuantity = 0
  /\ sales = [s \in Sales |-> NoSale]
  /\ saleReceipts = [k \in RequestIds |-> {}]
  /\ unlocked = [w \in Writers |-> {}] /\ overwritten = FALSE

-----------------------------------------------------------------------------
(* The shelf *)

OnShelf == SumFunction([l \in ShelfIds |-> partLots[l].remaining])
Received(l) == partLots[l].received

\* A new lot goes into the first free slot.
FreeSlots == {l \in ShelfIds : Received(l) = 0}
NextSlot  == CHOOSE l \in FreeSlots : \A m \in FreeSlots : l <= m
WithLot(n) == [partLots EXCEPT ![NextSlot] = [received |-> n, remaining |-> n]]

\* First in, first out: a lot gives what is asked and not yet taken.
Before(l) == SumFunction([m \in 1..(l - 1) |-> partLots[m].remaining])
Least(a, b) == IF a < b THEN a ELSE b
Most(a, b)  == IF a > b THEN a ELSE b
Fifo(q) == [l \in ShelfIds |-> Least(partLots[l].remaining, Most(0, q - Before(l)))]

\* Lots and sales whose rows an open cancellation holds.
HeldSales == UNION {w.sale : w \in UNION {unlocked[x] : x \in Writers}}
HeldLots  == {l \in ShelfIds : \E s \in HeldSales : sales[s].takes[l] > 0}
LotsFree  == \A l \in ShelfIds : partLots[l].remaining > 0 => l \notin HeldLots
SaleFree(s) == s \notin HeldSales

-----------------------------------------------------------------------------
(* Sales *)

\* A stock entry: the part is locked while its counter is read and written.
EnterStock == \E n \in LotSizes :
  /\ FreeSlots # {}
  /\ partLots' = WithLot(n)
  /\ stockQuantity' = stockQuantity + n
  /\ UNCHANGED <<sales, saleReceipts, unlocked, overwritten>>

\* The part, then its lots with units left, are locked; a cancellation that
\* holds one of them makes the sale wait.
CreateSale(s, q) ==
  /\ sales[s].status = "ninguna"
  /\ LotsFree /\ q <= OnShelf
  /\ partLots' = [l \in ShelfIds |->
       [partLots[l] EXCEPT !.remaining = partLots[l].remaining - Fifo(q)[l]]]
  /\ stockQuantity' = Most(0, stockQuantity - q)
  /\ sales' = [sales EXCEPT ![s] =
       [NoSale EXCEPT !.status = "pendiente", !.quantity = q, !.takes = Fifo(q)]]
  /\ UNCHANGED <<saleReceipts, unlocked, overwritten>>

\* The warehouse's count must be what was sold.
Pulled(s, n) == n = sales[s].quantity

\* pendiente -> pedido: the warehouse confirms what it pulled.
DispatchSale(s, n) ==
  /\ SaleFree(s) /\ sales[s].status = "pendiente"
  /\ Pulled(s, n)
  /\ sales' = [sales EXCEPT ![s].status = "pedido", ![s].dispatched = n]
  /\ UNCHANGED <<partLots, stockQuantity, saleReceipts, unlocked, overwritten>>

\* A warranty per allocation, on the lot it came from.
UnitsWarranted(s) == SumFunction(sales[s].takes)

\* pedido -> completado: handed over.
HandOver(s) ==
  /\ SaleFree(s) /\ sales[s].status = "pedido" /\ sales[s].dispatched > 0
  /\ sales' = [sales EXCEPT ![s].status = "completado",
                            ![s].warranted = UnitsWarranted(s)]
  /\ UNCHANGED <<partLots, stockQuantity, saleReceipts, unlocked, overwritten>>

-----------------------------------------------------------------------------
(* Collection *)

Subtotal(s) == sales[s].quantity * Price
SaleTotal(s) == Subtotal(s) + Percent(Subtotal(s), Iva) + sales[s].igtf
Collected(s) == sales[s].collected
SalePending(s) == Most(0, SaleTotal(s) - Collected(s))

\* Wrong: the receipt is looked for under another key.
Forgotten(k) == FALSE
Remembered(k) == saleReceipts[k] # {}

\* The tender <<method, share, usd, bs>> pays no more than is due of each currency.
NotMoreThanDue(s, t) ==
  /\ t[3] <= DueUsd(SalePending(s), t[1], t[2], Igtf)
  /\ t[4] <= DueBs(SalePending(s), t[1], t[2], Bcv)

\* One collection in the sale's row lock.  A repeated request id answers what
\* the first one did, and changes nothing.
CollectSale(s, k, t) ==
  /\ SaleFree(s) /\ ~Remembered(k)
  /\ sales[s].status \notin {"ninguna", "cancelado"}
  /\ t[3] + t[4] > 0 /\ SalePending(s) > 0
  /\ Splits(SalePending(s), t[1], t[2], Bcv)
  /\ NotMoreThanDue(s, t)
  /\ LET income == t[3] + InUsd(t[4], Bcv) IN
     /\ sales' = [sales EXCEPT
          ![s].igtf = sales[s].igtf + t[3] - WithoutIgtf(t[3], Igtf),
          ![s].collected = sales[s].collected + income]
     /\ saleReceipts' = [saleReceipts EXCEPT
          ![k] = saleReceipts[k] \union {[sale |-> s, tender |-> t, income |-> income]}]
  /\ UNCHANGED <<partLots, stockQuantity, unlocked, overwritten>>

-----------------------------------------------------------------------------
(* Writers without the part's lock *)

MayCancel(s) == sales[s].status \in {"pendiente", "pedido"} /\ Collected(s) = 0

\* The sale and its lots are locked; the part's counter is only read.
ReadToCancel(w, s) ==
  /\ unlocked[w] = {} /\ SaleFree(s) /\ MayCancel(s)
  /\ \A l \in ShelfIds : sales[s].takes[l] > 0 => l \notin HeldLots
  /\ unlocked' = [unlocked EXCEPT ![w] = {[kind |-> "cancel", read |-> stockQuantity,
       adds |-> sales[s].quantity, sale |-> {s}]}]
  /\ UNCHANGED <<partLots, stockQuantity, sales, saleReceipts, overwritten>>

\* Wrong: only the lots that still had units are given theirs back.
RestoredOpen(s) == [l \in ShelfIds |-> [partLots[l] EXCEPT !.remaining =
  IF partLots[l].remaining = 0 THEN 0 ELSE partLots[l].remaining + sales[s].takes[l]]]
\* Each allocation goes back to the lot it came from.
Restored(s) == [l \in ShelfIds |->
  [partLots[l] EXCEPT !.remaining = partLots[l].remaining + sales[s].takes[l]]]

\* The counter as it was read, and what comes back.
WriteCounter(r) ==
  /\ stockQuantity' = r.read + r.adds
  /\ overwritten' = (overwritten \/ r.read # stockQuantity)

CommitCancel(w) == \E r \in unlocked[w] : \E s \in r.sale :
  /\ r.kind = "cancel"
  /\ partLots' = Restored(s)
  /\ WriteCounter(r)
  /\ sales' = [sales EXCEPT ![s].status = "cancelado"]
  /\ unlocked' = [unlocked EXCEPT ![w] = {}]
  /\ UNCHANGED saleReceipts

\* A return to a sellable destination, or a row of a bulk import.
ReadToAdd(w, kind, n) ==
  /\ unlocked[w] = {}
  /\ unlocked' = [unlocked EXCEPT ![w] =
       {[kind |-> kind, read |-> stockQuantity, adds |-> n, sale |-> {}]}]
  /\ UNCHANGED <<partLots, stockQuantity, sales, saleReceipts, overwritten>>

CommitReturn(w) == \E r \in unlocked[w] :
  /\ r.kind = "return" /\ FreeSlots # {}
  /\ partLots' = WithLot(r.adds)
  /\ WriteCounter(r)
  /\ unlocked' = [unlocked EXCEPT ![w] = {}]
  /\ UNCHANGED <<sales, saleReceipts>>

CommitBulk(w) == \E r \in unlocked[w] :
  /\ r.kind = "bulk" /\ FreeSlots # {}
  /\ partLots' = WithLot(r.adds)
  /\ WriteCounter(r)
  /\ unlocked' = [unlocked EXCEPT ![w] = {}]
  /\ UNCHANGED <<sales, saleReceipts>>

\* A connection dies, or the database breaks a deadlock: nothing was written.
AbandonWrite(w) ==
  /\ unlocked[w] # {}
  /\ unlocked' = [unlocked EXCEPT ![w] = {}]
  /\ UNCHANGED <<partLots, stockQuantity, sales, saleReceipts, overwritten>>

SaleRoutes ==
  \/ \E s \in Sales :
       \/ \E q \in SaleSizes : CreateSale(s, q)
       \/ \E n \in SaleSizes : DispatchSale(s, n)
       \/ HandOver(s)
       \/ \E w \in Writers : ReadToCancel(w, s)
  \/ \E w \in Writers : CommitCancel(w)
PaymentRoutes == \E s \in Sales, k \in RequestIds, t \in Tenders : CollectSale(s, k, t)
ReturnRoutes ==
  \E w \in Writers : CommitReturn(w) \/ \E n \in LotSizes : ReadToAdd(w, "return", n)

CounterNext ==
  \/ EnterStock
  \/ SaleRoutes \/ PaymentRoutes \/ ReturnRoutes
  \/ \E w \in Writers :
       \/ \E n \in LotSizes : ReadToAdd(w, "bulk", n)
       \/ CommitBulk(w)
       \/ AbandonWrite(w)

CounterSpec == CounterInit /\ [][CounterNext]_counterVars

-----------------------------------------------------------------------------
(* Properties *)

\* Every unit ever received is on its lot or with one sale that was not
\* cancelled, however sales, cancellations and returns overlap: a cancellation
\* gives each lot its units back exactly once (update_sale_status,
\* service.py:982-1011).
UnitsAccountedFor == \A l \in ShelfIds :
  Received(l) = partLots[l].remaining
    + SumFunction([s \in Sales |-> IF sales[s].status = "cancelado" THEN 0 ELSE sales[s].takes[l]])

\* A sale is never collected beyond its total with taxes, in any mix of
\* currencies and of part payments, each with its rounding; a cancelled sale
\* has no money; and what entered is what the receipts say, one per request id
\* (service.py:1112-1213).
CollectedOnce == \A s \in Sales :
  /\ sales[s].collected <= SaleTotal(s)
  /\ sales[s].status = "cancelado" => sales[s].collected = 0
  /\ sales[s].collected = SumFunction([k \in RequestIds |->
       SumFunction([r \in saleReceipts[k] |-> IF r.sale = s THEN r.income ELSE 0])])
  /\ \A k \in RequestIds : Cardinality(saleReceipts[k]) <= 1

\* What a comment says of the counter: it "can't drift out of sync with the
\* actual quantity on the shelf" (service.py:72-74).
CounterInSync == stockQuantity = OnShelf

\* Nothing else makes it drift: until a cancellation, a return or an import writes over a counter
\* that moved since it read it, the counter is what the lots hold (service.py:1009-1011, 1311;
\* warehouse/service.py:415).
DriftsByOverwrite == ~overwritten => CounterInSync

\* What a sale takes, what it is paid for and what is left, together (create_sale,
\* update_sale_status and collect_sale_payment of parts/service.py).
SalesAccounted == UnitsAccountedFor /\ CollectedOnce /\ DriftsByOverwrite
=============================================================================
