---------------------------- MODULE Interfilial ----------------------------
(***************************************************************************)
(* The registers of a holding that move stock and money between its        *)
(* filiales, and taxes paid from them.                                     *)
(*                                                                         *)
(* The holding's lock serializes registers, the part's and the account's   *)
(* what else moves them: each operation is one step.  A request repeated   *)
(* returns the register it made, and changes nothing.                      *)
(*                                                                         *)
(* Left out: the registers that only record (targets, opportunities,       *)
(* journals, counts of cash, deliveries, policies); one warehouse, one part *)
(* and one account stand for those of each filial, and a transfer has one   *)
(* line.  What else moves the accounts is in module Books.                 *)
(***************************************************************************)
EXTENDS Integers, Sequences, FiniteSets, SequencesExt, FiniteSetsExt

CONSTANTS
  Branches,       \* the holding's filiales
  FirstLots,      \* lots each has at first: units, unit cost
  FirstCash,      \* balance each has at first
  Shipments,      \* bound: units of a transfer or of an exit
  Payments,       \* bound: amounts of transfers of funds, taxes and payments
  MaxRegisters,   \* bound: registers
  MaxExits        \* bound: exits of stock

ASSUME InterfilialAssumption ==
  /\ IsFiniteSet(Branches)
  /\ FirstLots \in [Branches -> Seq((Nat \ {0}) \X Nat)] /\ FirstCash \in [Branches -> Nat]
  /\ Shipments \subseteq Nat \ {0} /\ Payments \subseteq Nat \ {0} /\ MaxRegisters \in Nat /\ MaxExits \in Nat

VARIABLES
  registers,          \* holding_registers, in the order of their creation
  branchLots,         \* lots of each filial's part, oldest first
  branchStock,        \* Part.stock_quantity
  unitsIn, unitsOut,  \* units that stock_movements records
  branchCash,         \* balance of each account
  openBranches,       \* filiales whose warehouse is active
  stockExits          \* units and cost of the exits so far

interfilialVars == <<registers, branchLots, branchStock, unitsIn, unitsOut, branchCash, openBranches, stockExits>>

StockLot == [units : Nat, held : Nat, cost : Nat]
Taken == [units : Nat \ {0}, cost : Nat]
Moves == [requested |-> [approve |-> "approved", reject |-> "rejected"],
          approved |-> [dispatch |-> "dispatched", reject |-> "rejected"],
          dispatched |-> [receive |-> "received"]]
StockTransfer == [kind : {"stock_transfer"}, from : Branches, to : Branches, units : Shipments]
Action == [kind : {"stock_transfer_action"}, of : 1..MaxRegisters,
           action : {"approve", "reject", "dispatch", "receive"},
           stage : {"approved", "rejected", "dispatched", "received"}, taken : Seq(Taken)]
FundsTransfer == [kind : {"funds_transfer"}, from : Branches, to : Branches, amount : Payments]
Tax == [kind : {"tax"}, by : Branches, amount : Payments]
TaxPayment == [kind : {"tax_payment"}, of : 1..MaxRegisters, amount : Payments]
RegisterRow == StockTransfer \union Action \union FundsTransfer \union Tax \union TaxPayment

InterfilialTypeOK ==
  /\ \A r \in DOMAIN registers : registers[r] \in RegisterRow
  /\ \A b \in Branches : \A l \in DOMAIN branchLots[b] : branchLots[b][l] \in StockLot
  /\ branchStock \in [Branches -> Nat] /\ unitsIn \in [Branches -> Nat] /\ unitsOut \in [Branches -> Nat]
  /\ branchCash \in [Branches -> Nat] /\ openBranches \subseteq Branches

\* What a filial has at first, and the units of a list of lots.
FirstUnits(b) == SumFunction([l \in DOMAIN FirstLots[b] |-> FirstLots[b][l][1]])
UnitsOf(list) == SumFunction([l \in DOMAIN list |-> list[l].units])

InterfilialInit ==
  /\ registers = <<>> /\ stockExits = <<>> /\ openBranches = Branches
  /\ branchLots = [b \in Branches |-> [l \in DOMAIN FirstLots[b] |->
               [units |-> FirstLots[b][l][1], held |-> 0, cost |-> FirstLots[b][l][2]]]]
  /\ branchStock = [b \in Branches |-> FirstUnits(b)]
  /\ unitsIn = [b \in Branches |-> 0] /\ unitsOut = [b \in Branches |-> 0]
  /\ branchCash = FirstCash

-----------------------------------------------------------------------------
(* Registers *)

Registers(kind) == {r \in DOMAIN registers : registers[r].kind = kind}
Register(row) == Len(registers) < MaxRegisters /\ registers' = Append(registers, row)

\* The actions registered on a transfer, and the stage the last of them left it in.
History(t) == {r \in Registers("stock_transfer_action") : registers[r].of = t}
\* Wrong: the first action is read.
FirstTransferStage(t) == IF History(t) = {} THEN "requested" ELSE registers[Min(History(t))].stage
TransferStage(t) == IF History(t) = {} THEN "requested" ELSE registers[Max(History(t))].stage

-----------------------------------------------------------------------------
(* Stock: first in, first out *)

Available(l) == l.units - l.held
AvailableAt(b) == SumFunction([l \in DOMAIN branchLots[b] |-> Available(branchLots[b][l])])
Lesser(m, n) == IF m < n THEN m ELSE n
NotBelowZero(n) == IF n < 0 THEN 0 ELSE n
\* Wrong: what orders reserve is taken too.
FromAny(b, l, units) ==
  LET before == SumFunction([k \in 1..l - 1 |-> branchLots[b][k].units])
  IN Lesser(branchLots[b][l].units, NotBelowZero(units - before))
\* Units taken from each of a filial's lots, of those no order reserves.
FromLot(b, l, units) ==
  LET before == SumFunction([k \in 1..l - 1 |-> Available(branchLots[b][k])])
  IN Lesser(Available(branchLots[b][l]), NotBelowZero(units - before))
Consumed(b, units) == [l \in DOMAIN branchLots[b] |-> [branchLots[b][l] EXCEPT !.units = @ - FromLot(b, l, units)]]
\* What is taken, lot by lot.  The lots it becomes have one time of arrival and random
\* numbers, so that among themselves any may be the first.
Allocated(b, units) ==
  LET lots == {l \in DOMAIN branchLots[b] : FromLot(b, l, units) > 0}
  IN {[k \in DOMAIN order |-> [units |-> FromLot(b, order[k], units), cost |-> branchLots[b][order[k]].cost]] :
        order \in SetToSeqs(lots)}

Take(b, units) ==
  /\ AvailableAt(b) >= units
  /\ branchLots' = [branchLots EXCEPT ![b] = Consumed(b, units)]
  /\ branchStock' = [branchStock EXCEPT ![b] = NotBelowZero(@ - units)]
  /\ unitsOut' = [unitsOut EXCEPT ![b] = @ + units]

\* Every lot taken becomes a lot of the destination, at its own cost.
Arrivals(taken) == [k \in DOMAIN taken |-> [units |-> taken[k].units, held |-> 0, cost |-> taken[k].cost]]
Bring(b, taken) ==
  /\ branchLots' = [branchLots EXCEPT ![b] = @ \o Arrivals(taken)]
  /\ branchStock' = [branchStock EXCEPT ![b] = @ + UnitsOf(taken)]
  /\ unitsIn' = [unitsIn EXCEPT ![b] = @ + UnitsOf(taken)]

-----------------------------------------------------------------------------
(* Transfers of stock *)

RequestTransfer(b, c, units) ==
  /\ b # c /\ {b, c} \subseteq openBranches
  /\ Register([kind |-> "stock_transfer", from |-> b, to |-> c, units |-> units])
  /\ UNCHANGED <<branchLots, branchStock, unitsIn, unitsOut, branchCash, openBranches, stockExits>>

\* An action of the transfer's stage, while both warehouses are active.
Act(t, action, taken) ==
  /\ TransferStage(t) \in DOMAIN Moves /\ action \in DOMAIN Moves[TransferStage(t)]
  /\ {registers[t].from, registers[t].to} \subseteq openBranches
  /\ Register([kind |-> "stock_transfer_action", of |-> t, action |-> action,
               stage |-> Moves[TransferStage(t)][action], taken |-> taken])

Decide(t, action) ==
  /\ action \in {"approve", "reject"} /\ Act(t, action, <<>>)
  /\ UNCHANGED <<branchLots, branchStock, unitsIn, unitsOut, branchCash, openBranches, stockExits>>

DispatchTransfer(t) ==
  /\ \E taken \in Allocated(registers[t].from, registers[t].units) : Act(t, "dispatch", taken)
  /\ Take(registers[t].from, registers[t].units)
  /\ UNCHANGED <<unitsIn, branchCash, openBranches, stockExits>>

\* What its last dispatch took.
Sent(t) == registers[Max({r \in History(t) : registers[r].action = "dispatch"})].taken
ReceiveTransfer(t) ==
  /\ Act(t, "receive", <<>>)
  /\ Bring(registers[t].to, Sent(t))
  /\ UNCHANGED <<unitsOut, branchCash, openBranches, stockExits>>

\* Stock leaves a filial otherwise.
StockOut(b, units) ==
  /\ Len(stockExits) < MaxExits
  /\ Take(b, units)
  /\ \E taken \in Allocated(b, units) : stockExits' = stockExits \o taken
  /\ UNCHANGED <<registers, unitsIn, branchCash, openBranches>>

\* Orders of the workshop reserve units and release them (module Workshop).
HoldUnit(b, l) ==
  /\ branchLots[b][l].held < branchLots[b][l].units
  /\ branchLots' = [branchLots EXCEPT ![b][l].held = @ + 1]
  /\ UNCHANGED <<registers, branchStock, unitsIn, unitsOut, branchCash, openBranches, stockExits>>
ReleaseUnit(b, l) ==
  /\ branchLots[b][l].held > 0
  /\ branchLots' = [branchLots EXCEPT ![b][l].held = @ - 1]
  /\ UNCHANGED <<registers, branchStock, unitsIn, unitsOut, branchCash, openBranches, stockExits>>

SwitchWarehouse(b) ==
  /\ openBranches' = IF b \in openBranches THEN openBranches \ {b} ELSE openBranches \union {b}
  /\ UNCHANGED <<registers, branchLots, branchStock, unitsIn, unitsOut, branchCash, stockExits>>

-----------------------------------------------------------------------------
(* Money *)

\* Wrong: an account pays what it does not have.
OnCredit(b, amount) == TRUE
\* The account's balance covers an amount.
Covered(b, amount) == branchCash[b] >= amount

TransferFunds(b, c, amount) ==
  /\ b # c /\ Covered(b, amount)
  /\ Register([kind |-> "funds_transfer", from |-> b, to |-> c, amount |-> amount])
  /\ branchCash' = [branchCash EXCEPT ![b] = @ - amount, ![c] = @ + amount]
  /\ UNCHANGED <<branchLots, branchStock, unitsIn, unitsOut, openBranches, stockExits>>

OweTax(b, amount) ==
  /\ Register([kind |-> "tax", by |-> b, amount |-> amount])
  /\ UNCHANGED <<branchLots, branchStock, unitsIn, unitsOut, branchCash, openBranches, stockExits>>

Amounts == [r \in Registers("tax_payment") |-> registers[r].amount]
PaymentsOf(t) == {r \in Registers("tax_payment") : registers[r].of = t}
Paid(t) == SumFunctionOnSet(Amounts, PaymentsOf(t))
PayTax(t, amount) ==
  /\ Paid(t) + amount <= registers[t].amount
  /\ Covered(registers[t].by, amount)
  /\ Register([kind |-> "tax_payment", of |-> t, amount |-> amount])
  /\ branchCash' = [branchCash EXCEPT ![registers[t].by] = @ - amount]
  /\ UNCHANGED <<branchLots, branchStock, unitsIn, unitsOut, openBranches, stockExits>>

-----------------------------------------------------------------------------
(* The specification *)

RegisterRoutes ==
  \/ \E b, c \in Branches, n \in Shipments : RequestTransfer(b, c, n)
  \/ \E t \in Registers("stock_transfer") :
       Decide(t, "approve") \/ Decide(t, "reject") \/ DispatchTransfer(t) \/ ReceiveTransfer(t)
  \/ \E b, c \in Branches, n \in Payments : TransferFunds(b, c, n)
  \/ \E b \in Branches, n \in Payments : OweTax(b, n)
  \/ \E t \in Registers("tax"), n \in Payments : PayTax(t, n)

InterfilialNext ==
  \/ RegisterRoutes
  \/ \E b \in Branches : SwitchWarehouse(b) \/ (\E n \in Shipments : StockOut(b, n))
  \/ \E b \in Branches : \E l \in DOMAIN branchLots[b] : HoldUnit(b, l) \/ ReleaseUnit(b, l)

InterfilialSpec == InterfilialInit /\ [][InterfilialNext]_interfilialVars

-----------------------------------------------------------------------------
(* Properties *)

Costs == UNION {{FirstLots[b][l][2] : l \in DOMAIN FirstLots[b]} : b \in Branches}
UnitsAt(list, cost) == SumFunction([k \in DOMAIN list |-> IF list[k].cost = cost THEN list[k].units ELSE 0])
FirstAt(b, cost) == SumFunction([l \in DOMAIN FirstLots[b] |-> IF FirstLots[b][l][2] = cost THEN FirstLots[b][l][1] ELSE 0])
Loads(cost) == [r \in Registers("stock_transfer_action") |-> UnitsAt(registers[r].taken, cost)]
OnTheWay == {r \in Registers("stock_transfer_action") : TransferStage(registers[r].of) = "dispatched"}
Travelling(cost) == SumFunctionOnSet(Loads(cost), OnTheWay)

\* At every cost, the units that the filiales started with are on their shelves, on the way, or
\* were taken out.
UnitsKept(c) ==
  SumFunction([b \in Branches |-> FirstAt(b, c)])
    = SumFunction([b \in Branches |-> UnitsAt(branchLots[b], c)]) + Travelling(c) + UnitsAt(stockExits, c)
\* The recorded movements explain a shelf and its counter, and what orders reserve is there.
ShelfExplained(b) ==
  /\ branchStock[b] = UnitsOf(branchLots[b])
  /\ branchStock[b] + unitsOut[b] = FirstUnits(b) + unitsIn[b]
  /\ \A l \in DOMAIN branchLots[b] : branchLots[b][l].held <= branchLots[b][l].units
CashKept == SumFunction(FirstCash) = SumFunction(branchCash) + SumFunction(Amounts)
NotOverpaid == \A t \in Registers("tax") : Paid(t) <= registers[t].amount

\* A transfer between filiales neither loses nor makes units, and keeps what each of them cost; the
\* recorded movements explain each shelf and its counter, and what orders reserve is never taken;
\* money moves between accounts or pays taxes, none of them twice.
StockKept ==
  /\ \A c \in Costs : UnitsKept(c)
  /\ \A b \in Branches : ShelfExplained(b)
  /\ CashKept /\ NotOverpaid
=============================================================================
