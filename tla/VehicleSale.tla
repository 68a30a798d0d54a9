----------------------------- MODULE VehicleSale -----------------------------
(***************************************************************************)
(* The dealership: units, opportunities (deals), quotes, reservations with *)
(* a deposit, credit requests, sales, the pre-delivery inspection and the  *)
(* delivery.                                                               *)
(*                                                                         *)
(* Every operation locks the unit, or the deal with the version its caller *)
(* read, before it decides: one on an older version changes nothing, so    *)
(* each is one step.  Deals are numbered in the order of their creation.   *)
(*                                                                         *)
(* Left out: who acts, taxes and currencies of a payment (module           *)
(* Receivables), the accounts' balances, and prices that change.           *)
(***************************************************************************)
EXTENDS Integers, FiniteSets, Sequences, SequencesExt

CONSTANTS
  Units,        \* vehicles on sale
  Buyers,       \* registered clients
  Deals,        \* deal numbers, 1..n
  UnitPrice,    \* what a quote asks
  Deposit,      \* what a reservation takes
  Retention,    \* per cent of it kept when the client withdraws
  Creditable,   \* bound: deals quoted for a financed sale
  MaxRequests   \* bound: credit requests of a deal

ASSUME VehicleSaleAssumption ==
  /\ Deals \subseteq Nat \ {0} /\ IsFiniteSet(Units)
  /\ UnitPrice \in Nat /\ Deposit \in 1..UnitPrice /\ Retention \in 0..100 /\ MaxRequests \in Nat

VARIABLES
  units,       \* dealership_vehicles
  deals,       \* vehicle_opportunities
  quoteOrder,  \* quoted deals, the latest quote last
  unitSales,   \* vehicle_sales
  answers,     \* what the financier decided on each request of a deal
  dealLedger   \* income minus expenses posted for a deal and for the sale of its quote

saleVars == <<units, deals, quoteOrder, unitSales, answers, dealLedger>>

UnitStatus == {"en_transito", "en_preparacion", "disponible", "reservado", "vendido"}
Transitions == [en_transito |-> {"disponible", "en_preparacion"}, en_preparacion |-> {"disponible"},
                disponible |-> {"en_preparacion", "reservado", "vendido"},
                reservado |-> {"disponible", "vendido"}, vendido |-> {}]
Unit == [status : UnitStatus, for : SUBSET Buyers, expired : BOOLEAN]
SaleTypes == {"contado", "financiado"}
DealRow == [client : Buyers, unit : SUBSET Units, stage : {"prospecto", "financiamiento", "perdida"},
            workflow : BOOLEAN,                       \* FALSE: the flow before workflows
            quote : SaleTypes \union {"none"}, lapsed : BOOLEAN,
            deposit : {"none", "registrado", "devuelto"},
            files : SUBSET {"recaudos", "cierre", "acta"}, insured : BOOLEAN,
            financing : {"none", "enviada", "aprobado", "rechazado"}, request : 0..MaxRequests,
            sold : BOOLEAN, pdi : {"none", "borrador", "lista"}, checked : BOOLEAN]
SaleRow == [quote : SUBSET Deals, type : SaleTypes, delivered : BOOLEAN, warranties : 0..2]

SaleTypeOK ==
  /\ units \in [Units -> Unit]
  /\ deals \in [Deals -> SUBSET DealRow]
  /\ Range(quoteOrder) \subseteq Deals
  /\ unitSales \in [Units -> SUBSET SaleRow]
  /\ answers \in [Deals -> [1..MaxRequests -> {"none", "aprobado", "rechazado"}]]
  /\ dealLedger \in [Deals -> Int]

SaleInit ==
  /\ units = [u \in Units |-> [status |-> "en_transito", for |-> {}, expired |-> FALSE]]
  /\ deals = [d \in Deals |-> {}]
  /\ quoteOrder = <<>>
  /\ unitSales = [u \in Units |-> {}]
  /\ answers = [d \in Deals |-> [r \in 1..MaxRequests |-> "none"]]
  /\ dealLedger = [d \in Deals |-> 0]

Retained == (Deposit * Retention) \div 100
SetDeal(d, x) == deals' = [deals EXCEPT ![d] = {x}]
Free == [status |-> "disponible", for |-> {}, expired |-> FALSE]

HasReservation(x) == \E u \in x.unit :
  units[u].status = "reservado" /\ units[u].for = {x.client} /\ ~units[u].expired
Mutable(x) == ~x.sold /\ x.stage # "perdida"
\* The client's open deals for the unit.
ActiveFor(c, u) == {d \in Deals : \E x \in deals[d] : x.client = c /\ x.unit = {u} /\ Mutable(x)}

-----------------------------------------------------------------------------
(* Deals *)

NewDeal(c, us, workflow) ==
  [client |-> c, unit |-> us, stage |-> "prospecto", workflow |-> workflow, quote |-> "none",
   lapsed |-> FALSE, deposit |-> "none", files |-> {}, insured |-> FALSE, financing |-> "none",
   request |-> 0, sold |-> FALSE, pdi |-> "none", checked |-> FALSE]
FreshDeals == {d \in Deals : deals[d] = {} /\ \A e \in Deals : e < d => deals[e] # {}}

Prospect(c) == \E d \in FreshDeals :
  /\ SetDeal(d, NewDeal(c, {}, TRUE))
  /\ UNCHANGED <<units, quoteOrder, unitSales, answers, dealLedger>>

LoseDeal(d) == \E x \in deals[d] :
  /\ ~x.sold /\ x.deposit # "registrado" /\ ~HasReservation(x)
  /\ SetDeal(d, [x EXCEPT !.stage = "perdida"])
  /\ UNCHANGED <<units, quoteOrder, unitSales, answers, dealLedger>>

\* Also a lost deal, whose deposit may have been given back.
StartFinancing(d) == \E x \in deals[d] :
  /\ ~x.sold /\ x.quote = "financiado"
  /\ SetDeal(d, [x EXCEPT !.stage = "financiamiento"])
  /\ UNCHANGED <<units, quoteOrder, unitSales, answers, dealLedger>>

\* No other open deal of the client for the unit is looked for.
Reopen(d) == \E x \in deals[d] :
  /\ ~x.sold /\ x.stage = "perdida" /\ x.deposit # "devuelto"
  /\ SetDeal(d, [x EXCEPT !.stage = "prospecto"])
  /\ UNCHANGED <<units, quoteOrder, unitSales, answers, dealLedger>>

\* The quotes' order without a deal's.
QuotesBut(d) ==
  LET place == {i \in DOMAIN quoteOrder : quoteOrder[i] = d}
  IN IF place = {} THEN quoteOrder ELSE RemoveAt(quoteOrder, CHOOSE i \in place : TRUE)

QuoteUnit(d, u, type) == \E x \in deals[d] :
  /\ type = "financiado" => d \in Creditable
  /\ Mutable(x) /\ x.deposit # "registrado"
  /\ units[u].status # "vendido"
  /\ units[u].status = "reservado" => units[u].for = {x.client}
  /\ HasReservation(x) => x.unit = {u}
  /\ ActiveFor(x.client, u) \subseteq {d}     \* no duplicate
  /\ SetDeal(d, [x EXCEPT !.unit = {u}, !.quote = type, !.lapsed = FALSE, !.stage = "prospecto"])
  /\ quoteOrder' = Append(QuotesBut(d), d)
  /\ UNCHANGED <<units, unitSales, answers, dealLedger>>

\* The days pass: the quotes in force lapse (bound: all of them together), a reservation expires.
QuotesLapse ==
  /\ deals' = [d \in Deals |-> {[x EXCEPT !.lapsed = @ \/ (x.quote # "none" /\ Mutable(x))] : x \in deals[d]}]
  /\ deals' # deals
  /\ UNCHANGED <<units, quoteOrder, unitSales, answers, dealLedger>>
Expire(u) ==
  /\ units[u].status = "reservado" /\ ~units[u].expired
  /\ units' = [units EXCEPT ![u].expired = TRUE]
  /\ UNCHANGED <<deals, quoteOrder, unitSales, answers, dealLedger>>

-----------------------------------------------------------------------------
(* Reservations *)

Newest(ds) == {d \in ds : \A e \in ds : e <= d}

\* The deal a reservation or a sale joins: the client's newest open one for the unit, else
\* the newest without unit, else a new one.
Joined(c, u) ==
  LET open == ActiveFor(c, u)
      loose == {d \in Deals : \E x \in deals[d] : x.client = c /\ x.unit = {} /\ Mutable(x)}
  IN IF open # {} THEN Newest(open) ELSE IF loose # {} THEN Newest(loose) ELSE FreshDeals
JoinedRow(d, c, u) == IF deals[d] = {} THEN {NewDeal(c, {u}, FALSE)}
                      ELSE {[x EXCEPT !.unit = {u}] : x \in deals[d]}

\* The open deal quoted last, or any one never quoted; none if none is open.
QuotesFor(c, u) ==
  LET quoted == {i \in DOMAIN quoteOrder : quoteOrder[i] \in ActiveFor(c, u)}
  IN IF ActiveFor(c, u) = {} THEN {{}}
     ELSE IF quoted = {} THEN {{d} : d \in ActiveFor(c, u)}
     ELSE {{quoteOrder[i]} : i \in Newest(quoted)}

TakesDeposit(q) == \E d \in q : \E x \in deals[d] : x.workflow

Reserve(u, c) == \E q \in QuotesFor(c, u) :
  /\ "reservado" \in Transitions[units[u].status]
  /\ \A d \in q : \A x \in deals[d] : ~x.lapsed /\ (x.workflow => x.deposit = "none")
  /\ units' = [units EXCEPT ![u] = [status |-> "reservado", for |-> {c}, expired |-> FALSE]]
  /\ \E j \in Joined(c, u) :
       deals' = [d \in Deals |->
         LET rows == IF d = j THEN JoinedRow(d, c, u) ELSE deals[d]
         IN IF d \in q /\ TakesDeposit(q) THEN {[x EXCEPT !.deposit = "registrado"] : x \in rows} ELSE rows]
  /\ dealLedger' = [d \in Deals |-> IF d \in q /\ TakesDeposit(q) THEN dealLedger[d] + Deposit ELSE dealLedger[d]]
  /\ UNCHANGED <<quoteOrder, unitSales, answers>>

\* Wrong: a reserved unit is released whatever was paid to hold it.
AnyReservation(u) == TRUE
\* A reservation paid for is cancelled from its deal.
Releasable(u) == \A c \in units[u].for : \A d \in ActiveFor(c, u) : \A x \in deals[d] :
  ~(x.workflow /\ x.deposit # "none")

ChangeStatus(u, status) ==
  /\ status \in Transitions[units[u].status] \ {"reservado", "vendido"}
  /\ units[u].status = "reservado" => Releasable(u)
  /\ units' = [units EXCEPT ![u] = [Free EXCEPT !.status = status]]
  /\ UNCHANGED <<deals, quoteOrder, unitSales, answers, dealLedger>>

CancelReservation(d) == \E x \in deals[d] : \E u \in x.unit :
  /\ x.workflow /\ Mutable(x) /\ x.deposit = "registrado"
  /\ units[u].status = "reservado" /\ units[u].for = {x.client}
  /\ units' = [units EXCEPT ![u] = Free]
  /\ SetDeal(d, [x EXCEPT !.deposit = "devuelto", !.stage = "perdida"])
  /\ dealLedger' = [dealLedger EXCEPT ![d] = @ - (Deposit - Retained)]
  /\ UNCHANGED <<quoteOrder, unitSales, answers>>

-----------------------------------------------------------------------------
(* Credit *)

File(d, kind) == \E x \in deals[d] :
  /\ x.workflow /\ kind \notin x.files
  /\ CASE kind = "recaudos" -> Mutable(x) /\ x.quote = "financiado" /\ x.financing \notin {"enviada", "aprobado"}
       [] kind = "cierre" -> Mutable(x) /\ x.financing = "aprobado"
       [] kind = "acta" -> x.sold /\ \A u \in x.unit : \A s \in unitSales[u] : ~s.delivered
  /\ SetDeal(d, [x EXCEPT !.files = @ \union {kind}])
  /\ UNCHANGED <<units, quoteOrder, unitSales, answers, dealLedger>>

\* Each request has a reference of its own.
SubmitFinancing(d) == \E x \in deals[d] :
  /\ x.workflow /\ Mutable(x) /\ x.quote = "financiado"
  /\ HasReservation(x) /\ x.deposit # "none" /\ "recaudos" \in x.files
  /\ x.financing \notin {"enviada", "aprobado"} /\ x.request < MaxRequests
  /\ SetDeal(d, [x EXCEPT !.financing = "enviada", !.stage = "financiamiento", !.request = @ + 1])
  /\ UNCHANGED <<units, quoteOrder, unitSales, answers, dealLedger>>

FinancierAnswers(d, decision) == \E x \in deals[d] :
  /\ x.request > 0 /\ answers[d][x.request] = "none"
  /\ answers' = [answers EXCEPT ![d][x.request] = decision]
  /\ UNCHANGED <<units, deals, quoteOrder, unitSales, dealLedger>>

\* Wrong: an answer to an earlier request is taken.
AnyRequest(x, r) == x.financing = "enviada"
\* One request is pending and the answer names it.
Pending(x, r) == x.financing = "enviada" /\ x.request = r

\* From the integration, which may repeat it late, or entered by administration.
Decision(d, r) == \E x \in deals[d] :
  /\ x.workflow /\ Mutable(x)
  /\ answers[d][r] # "none" /\ Pending(x, r)
  /\ SetDeal(d, [x EXCEPT !.financing = answers[d][r]])
  /\ UNCHANGED <<units, quoteOrder, unitSales, answers, dealLedger>>

Closing(d) == \E x \in deals[d] :
  /\ x.workflow /\ Mutable(x) /\ x.financing = "aprobado" /\ ~x.insured
  /\ SetDeal(d, [x EXCEPT !.insured = TRUE])
  /\ UNCHANGED <<units, quoteOrder, unitSales, answers, dealLedger>>

-----------------------------------------------------------------------------
(* Sale and delivery *)

ValidSale(x) ==
  /\ x.quote = "financiado" => x.financing = "aprobado" /\ "cierre" \in x.files /\ x.insured /\ x.deposit # "none"
  /\ x.deposit # "devuelto"

\* Wrong: what the reservation took is collected again.
WholePrice(x) == UnitPrice
\* What is left to pay in cash; a credit is not a receipt.
BalanceDue(x) == UnitPrice - (IF x.deposit = "none" THEN 0 ELSE Deposit)
SaleReceipts(x) ==
  CASE ~x.workflow -> UnitPrice
    [] x.workflow /\ x.quote = "contado" -> BalanceDue(x)
    [] x.workflow /\ x.quote = "financiado" -> 0

AcceptedQuote(x, c, u, type) ==
  /\ x.client = c /\ x.unit = {u} /\ Mutable(x) /\ x.quote = type /\ ~x.lapsed
  /\ x.workflow => ValidSale(x)

Sellable(u, c) ==
  /\ "vendido" \in Transitions[units[u].status]
  /\ units[u].status = "reservado" => units[u].for = {c}

\* A new unit's warranty starts with the sale, or with the delivery in the workflow.
NewSale(q, type) ==
  [quote |-> q, type |-> type, delivered |-> FALSE, warranties |-> IF TakesDeposit(q) THEN 0 ELSE 1]

\* A sale of the workflow creates the inspection of its unit.
Invoiced(x) == [x EXCEPT !.sold = TRUE, !.pdi = IF x.workflow THEN "borrador" ELSE @]

\* With the quote q of a deal, or from the catalogue without one, at the whole list price.
Sell(u, c, q, type) ==
  /\ Sellable(u, c)
  /\ \A d \in q : deals[d] # {} /\ \A x \in deals[d] : AcceptedQuote(x, c, u, type)
  /\ units' = [units EXCEPT ![u] = [Free EXCEPT !.status = "vendido"]]
  /\ \E j \in Joined(c, u) : deals' = [deals EXCEPT ![j] = {Invoiced(x) : x \in JoinedRow(j, c, u)}]
  /\ unitSales' = [unitSales EXCEPT ![u] = {NewSale(q, type)}]
  /\ dealLedger' = [d \in Deals |->
       IF d \in q THEN dealLedger[d] + SaleReceipts(CHOOSE x \in deals[d] : TRUE) ELSE dealLedger[d]]
  /\ UNCHANGED <<quoteOrder, answers>>

\* The workshop completes the inspection's tasks.
FinishPdi(d) == \E x \in deals[d] :
  /\ x.pdi = "borrador"
  /\ SetDeal(d, [x EXCEPT !.pdi = "lista"])
  /\ UNCHANGED <<units, quoteOrder, unitSales, answers, dealLedger>>

DeliveryChecks(d) == \E x \in deals[d] : \E u \in x.unit : \E s \in unitSales[u] :
  /\ x.workflow /\ x.sold /\ ~s.delivered /\ ~x.checked
  /\ SetDeal(d, [x EXCEPT !.checked = TRUE])
  /\ UNCHANGED <<units, quoteOrder, unitSales, answers, dealLedger>>

DeliveryReady(x) == x.pdi = "lista" /\ x.checked /\ "acta" \in x.files

\* Wrong: what was delivered is delivered again.
AnySold(x, s) == x.sold /\ (x.workflow => DeliveryReady(x))
Deliverable(x, s) == x.sold /\ ~s.delivered /\ (x.workflow => DeliveryReady(x))
Deliver(d) == \E x \in deals[d] : \E u \in x.unit : \E s \in unitSales[u] :
  /\ Deliverable(x, s)
  /\ unitSales' = [unitSales EXCEPT ![u] = {[s EXCEPT !.delivered = TRUE,
       !.warranties = IF x.workflow THEN @ + 1 ELSE @]}]
  /\ UNCHANGED <<units, deals, quoteOrder, answers, dealLedger>>

DealRoutes ==
  \/ \E c \in Buyers : Prospect(c)
  \/ \E d \in Deals : LoseDeal(d) \/ StartFinancing(d) \/ Reopen(d) \/ Deliver(d)
  \/ \E d \in Deals, u \in Units, type \in SaleTypes : QuoteUnit(d, u, type)
UnitRoutes ==
  \E u \in Units :
    \/ \E status \in UnitStatus : ChangeStatus(u, status)
    \/ \E c \in Buyers : Reserve(u, c)
    \/ \E c \in Buyers, type \in SaleTypes : \E q \in {{}} \union {{d} : d \in Deals} : Sell(u, c, q, type)
FileRoutes == \E d \in Deals, kind \in {"recaudos", "cierre", "acta"} : File(d, kind)
WorkflowRoutes ==
  \E d \in Deals :
    \/ SubmitFinancing(d) \/ Closing(d) \/ CancelReservation(d) \/ DeliveryChecks(d)
    \/ \E r \in 1..MaxRequests : Decision(d, r)

SaleNext ==
  \/ DealRoutes \/ UnitRoutes \/ FileRoutes \/ WorkflowRoutes
  \/ QuotesLapse
  \/ \E u \in Units : Expire(u)
  \/ \E d \in Deals : FinishPdi(d) \/ \E y \in {"aprobado", "rechazado"} : FinancierAnswers(d, y)

SaleSpec == SaleInit /\ [][SaleNext]_saleVars

-----------------------------------------------------------------------------
(* Properties *)

\* The stage the board shows.
EffectiveStage(x) ==
  CASE x.sold /\ (\E u \in x.unit : \E s \in unitSales[u] : s.delivered) -> "entregada"
    [] x.sold /\ ~(\E u \in x.unit : \E s \in unitSales[u] : s.delivered) -> "facturada"
    [] ~x.sold /\ x.stage # "prospecto" -> x.stage
    [] OTHER -> IF HasReservation(x) THEN "reservada"
                ELSE IF x.quote # "none" THEN "cotizada" ELSE "prospecto"

OnlyDeal(d, x) == \A e \in Deals \ {d} : \A y \in deals[e] : ~(y.client = x.client /\ y.unit = x.unit)

(***************************************************************************)
(* A deposit that was neither given back nor followed by a sale holds the  *)
(* unit for its client, whatever is done to the unit in between.  A client *)
(* with two deals for the unit, which reopening a lost one allows, is      *)
(* excluded: the sale may join the other one.                              *)
(***************************************************************************)
DepositHolds == \A d \in Deals : \A x \in deals[d] :
  x.deposit = "registrado" /\ EffectiveStage(x) \notin {"facturada", "entregada"} /\ OnlyDeal(d, x) =>
    \E u \in x.unit : units[u].status = "reservado" /\ units[u].for = {x.client}

(***************************************************************************)
(* What the books keep of a deal is the price of each unit sold with its   *)
(* quote and not paid by a financier, once, and, while its present unit is *)
(* not among them, the deposit, or the part retained of one given back: no *)
(* path collects a deposit twice or gives back more.  (With two deals for  *)
(* a unit, the sale may join the other one, and the one whose quote was    *)
(* sold goes on to another unit.)                                          *)
(***************************************************************************)
PaidUnits(d, x) == {u \in Units : \E s \in unitSales[u] :
  s.quote = {d} /\ (s.type = "contado" \/ ~x.workflow)}
Kept(d, x) ==
  IF x.unit \intersect PaidUnits(d, x) # {} THEN 0
  ELSE CASE x.deposit = "devuelto" -> Retained
         [] x.deposit = "registrado" -> Deposit
         [] x.deposit = "none" -> 0
DealEarnsOnce == \A d \in Deals : \A x \in deals[d] :
  dealLedger[d] = UnitPrice * Cardinality(PaidUnits(d, x)) + Kept(d, x)

\* A credit is decided by the financier's answer to the pending request, never by a late
\* answer to an earlier one.
DecidedAsAnswered == \A d \in Deals : \A x \in deals[d] :
  x.financing \in {"aprobado", "rechazado"} => x.financing = answers[d][x.request]

\* What a deal promises its client: the unit, one price and the answer that its credit got
\* (concesionario/service.py, sales_workflow.py and financing.py).
DealsHonoured == DepositHolds /\ DealEarnsOnce /\ DecidedAsAnswered
=============================================================================
