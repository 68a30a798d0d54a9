------------------------------ MODULE Purchases ------------------------------
(***************************************************************************)
(* Purchases of parts: the request to a supplier, its quote, the receipt of*)
(* the goods in one or several deliveries, the reconciliation with the     *)
(* supplier's invoice, and the payments and their reversals.               *)
(*                                                                         *)
(* Every operation locks the filial and then the purchase before it reads  *)
(* what it decides on, so an operation is one step.  A grouped payment pays*)
(* the whole balance of several purchases with one expense and leaves the  *)
(* expense without a source: a reversal finds its purchases by the expense *)
(* each of them paid last.                                                 *)
(*                                                                         *)
(* Left out: several lines per purchase, the currency of a payment (amounts*)
(* are in dollars, converted when paid) and the lots (module Workshop).    *)
(***************************************************************************)
EXTENDS Money, FiniteSets, Functions

CONSTANTS
  Purchases,      \* purchase ids
  LegacyPaid,     \* those paid before invoices were reconciled
  LegacyAmount,   \* what the expense of such a payment says
  Ordered,        \* units of a purchase
  InvoiceCosts,   \* bound: cents per unit that an invoice may bring
  PurchaseShares, \* bound: part payments, in cents
  Expenses        \* bound: expense entries, numbered in order

ASSUME PurchasesAssumption ==
  /\ LegacyPaid \subseteq Purchases
  /\ {LegacyAmount, Ordered} \subseteq Nat \ {0}
  /\ InvoiceCosts \union PurchaseShares \subseteq Nat
  /\ Expenses \in Nat /\ Cardinality(LegacyPaid) <= Expenses

VARIABLES
  purchases,       \* purchase_requests
  expenses,        \* expense_entries, in the order they were posted
  purchaseReceipts \* operation_receipts of deliveries and payments

purchaseVars == <<purchases, expenses, purchaseReceipts>>

PurchaseStatus == {"enviada", "cotizada", "pagada", "recibida", "conciliada", "cancelada"}
NoExpense == 0
ExpenseIds == 1..Expenses
PurchaseRow == [status : PurchaseStatus, quoted : BOOLEAN, received : 0..Ordered,
                invoice : SUBSET Nat,         \* invoice_total, once reconciled
                paid : Nat, paidAt : BOOLEAN,
                lastExpense : 0..Expenses]    \* payment_expense_entry_id
\* What the expense paid of each purchase, as their activity says; its source;
\* and how often it was reversed.
ExpenseRow == [shares : [Purchases -> Nat], source : SUBSET Purchases, reversals : 0..1]
PurchaseReceipt == [purchase : Purchases, kind : {"receive", "pay"}, amount : Nat]

PurchasesTypeOK ==
  /\ purchases \in [Purchases -> PurchaseRow]
  /\ expenses \in [ExpenseIds -> SUBSET ExpenseRow]
  /\ purchaseReceipts \in [RequestIds -> SUBSET PurchaseReceipt]

NoShares == [p \in Purchases |-> 0]
NewPurchase == [status |-> "enviada", quoted |-> FALSE, received |-> 0, invoice |-> {},
                paid |-> 0, paidAt |-> FALSE, lastExpense |-> NoExpense]
\* Paid by the old workflow: the expense, without a source, is all that is known.
LegacyPurchase(e) == [NewPurchase EXCEPT !.status = "pagada", !.quoted = TRUE,
                                         !.paidAt = TRUE, !.lastExpense = e]

PurchasesInit == \E old \in [LegacyPaid -> ExpenseIds] :
  /\ \A p, q \in LegacyPaid : p # q => old[p] # old[q]
  /\ Range(old) = 1..Cardinality(LegacyPaid)
  /\ purchases = [p \in Purchases |-> IF p \in LegacyPaid THEN LegacyPurchase(old[p]) ELSE NewPurchase]
  /\ expenses = [e \in ExpenseIds |->
       {[shares |-> [NoShares EXCEPT ![p] = LegacyAmount], source |-> {}, reversals |-> 0] :
          p \in {x \in LegacyPaid : old[x] = e}}]
  /\ purchaseReceipts = [k \in RequestIds |-> {}]

Status(p) == purchases[p].status
Reconciled(p) == purchases[p].invoice # {}
InvoiceTotal(p) == CHOOSE n \in purchases[p].invoice : TRUE
Balance(p) == InvoiceTotal(p) - purchases[p].paid

FreeExpenses == {e \in ExpenseIds : expenses[e] = {}}
NextExpense == CHOOSE e \in FreeExpenses : \A f \in FreeExpenses : e <= f

-----------------------------------------------------------------------------
(* Quote, delivery, cancellation *)

QuotePurchase(p) ==
  /\ Status(p) = "enviada"
  /\ purchases' = [purchases EXCEPT ![p].status = "cotizada", ![p].quoted = TRUE]
  /\ UNCHANGED <<expenses, purchaseReceipts>>

\* Wrong: goods received go with the cancelled purchase.
AnyCancellable(p) == Status(p) \in {"enviada", "cotizada", "pagada"}
Cancellable(p) == Status(p) \in {"enviada", "cotizada", "pagada"} /\ purchases[p].received = 0

CancelPurchase(p) ==
  /\ Cancellable(p)
  /\ purchases' = [purchases EXCEPT ![p].status = "cancelada"]
  /\ UNCHANGED <<expenses, purchaseReceipts>>

\* Wrong: a repeated request id is not recognised.
NotReplayed(k) == TRUE
FirstRequest(k) == purchaseReceipts[k] = {}
Remember(k, p, kind, n) == [purchaseReceipts EXCEPT
  ![k] = purchaseReceipts[k] \union {[purchase |-> p, kind |-> kind, amount |-> n]}]

\* A delivery of n units; the last one receives the purchase.
ReceivePurchase(p, k, n) ==
  /\ FirstRequest(k)
  /\ Status(p) \in {"enviada", "cotizada", "pagada"} /\ purchases[p].quoted
  /\ n <= Ordered - purchases[p].received
  /\ purchases' = [purchases EXCEPT
       ![p].received = purchases[p].received + n,
       ![p].status = IF purchases[p].received + n = Ordered THEN "recibida" ELSE Status(p)]
  /\ purchaseReceipts' = Remember(k, p, "receive", n)
  /\ UNCHANGED expenses

\* The old way, without a request id: everything that is missing at once.
ReceiveAll(p) ==
  /\ Status(p) = "pagada" /\ purchases[p].quoted
  /\ purchases' = [purchases EXCEPT ![p].received = Ordered, ![p].status = "recibida"]
  /\ UNCHANGED <<expenses, purchaseReceipts>>

-----------------------------------------------------------------------------
(* Invoice and payments *)

\* What was paid before reconciling, from the expense linked to it.
PriorPaid(p) ==
  IF purchases[p].paidAt /\ purchases[p].paid = 0
  THEN (CHOOSE x \in expenses[purchases[p].lastExpense] : TRUE).shares[p]
  ELSE purchases[p].paid

TotalWithIva(cost) == Ordered * cost + Percent(Ordered * cost, Iva)

Reconcile(p, cost) ==
  LET total == TotalWithIva(cost)
      prior == PriorPaid(p) IN
  /\ ~Reconciled(p) /\ Status(p) \in {"recibida", "conciliada"}
  /\ prior <= total
  /\ purchases' = [purchases EXCEPT
       ![p].invoice = {total}, ![p].paid = prior, ![p].status = "conciliada",
       ![p].paidAt = IF prior < total THEN FALSE ELSE IF total = 0 THEN TRUE ELSE purchases[p].paidAt]
  /\ UNCHANGED <<expenses, purchaseReceipts>>

\* A part payment, or the last one.
PayPurchase(p, k, n) ==
  /\ FirstRequest(k)
  /\ Reconciled(p) /\ ~purchases[p].paidAt
  /\ n > 0 /\ n <= Balance(p)
  /\ FreeExpenses # {}
  /\ expenses' = [expenses EXCEPT ![NextExpense] =
       {[shares |-> [NoShares EXCEPT ![p] = n], source |-> {p}, reversals |-> 0]}]
  /\ purchases' = [purchases EXCEPT ![p].paid = purchases[p].paid + n,
       ![p].lastExpense = NextExpense, ![p].paidAt = Balance(p) = n]
  /\ purchaseReceipts' = Remember(k, p, "pay", n)

\* One expense pays the whole balance of the purchases of one supplier.
PayTogether(ps) ==
  /\ ps # {} /\ FreeExpenses # {}
  /\ \A p \in ps : Status(p) = "conciliada" /\ ~purchases[p].paidAt /\ Reconciled(p)
  /\ expenses' = [expenses EXCEPT ![NextExpense] =
       {[shares |-> [p \in Purchases |-> IF p \in ps THEN Balance(p) ELSE 0],
         source |-> IF Cardinality(ps) = 1 THEN ps ELSE {}, reversals |-> 0]}]
  /\ purchases' = [p \in Purchases |-> IF p \in ps
       THEN [purchases[p] EXCEPT !.paid = InvoiceTotal(p), !.paidAt = TRUE, !.lastExpense = NextExpense]
       ELSE purchases[p]]
  /\ UNCHANGED purchaseReceipts

\* The purchases of an expense: its source, or those it was the last to pay.
Paying(e) == UNION {IF x.source # {} THEN x.source
                    ELSE {p \in Purchases : purchases[p].lastExpense = e} : x \in expenses[e]}

\* Wrong: an expense may be reversed again.
AnyTime(x) == TRUE
NotReversed(x) == x.reversals = 0

\* The counter-entry, and each purchase owes again what the expense paid of it.
\* The reversal is looked for after the purchases are locked.
ReverseExpense(e) == \E x \in expenses[e] :
  /\ NotReversed(x)
  /\ expenses' = [expenses EXCEPT ![e] = {[x EXCEPT !.reversals = x.reversals + 1]}]
  /\ purchases' = [p \in Purchases |-> IF p \in Paying(e)
       THEN [purchases[p] EXCEPT
               !.paid = IF purchases[p].paid < x.shares[p] THEN 0 ELSE purchases[p].paid - x.shares[p],
               !.paidAt = FALSE,
               !.lastExpense = IF purchases[p].lastExpense = e THEN NoExpense ELSE purchases[p].lastExpense]
       ELSE purchases[p]]
  /\ UNCHANGED purchaseReceipts

RequestRoutes == \E p \in Purchases : QuotePurchase(p) \/ CancelPurchase(p) \/ ReceiveAll(p)
PurchaseRoutes ==
  \E p \in Purchases :
    \/ \E k \in RequestIds, n \in 1..Ordered : ReceivePurchase(p, k, n)
    \/ \E cost \in InvoiceCosts : Reconcile(p, cost)
    \/ \E k \in RequestIds, n \in PurchaseShares : PayPurchase(p, k, n)
ExpenseRoutes ==
  (\E ps \in SUBSET Purchases : PayTogether(ps)) \/ \E e \in ExpenseIds : ReverseExpense(e)

PurchasesNext == RequestRoutes \/ PurchaseRoutes \/ ExpenseRoutes

PurchasesSpec == PurchasesInit /\ [][PurchasesNext]_purchaseVars

-----------------------------------------------------------------------------
(* Properties *)

\* What the expenses not reversed paid of a purchase.
Posted(p) == SumFunction([e \in ExpenseIds |->
  SumFunction([x \in expenses[e] |-> IF x.reversals > 0 THEN 0 ELSE x.shares[p]])])

\* The supplier is never paid twice: a reconciled purchase says that at least
\* what the expenses not reversed paid of it was paid, whatever the order of
\* part payments, grouped payments, payments of the old workflow and reversals,
\* each of them retried or not; this never exceeds the invoice, and the purchase
\* counts as paid exactly when it reaches it
\* (administracion/service.py:1258-1505, purchase_workflow.py:215-384).
NeverPaidTwice == \A p \in Purchases : Reconciled(p) =>
  /\ Posted(p) <= purchases[p].paid
  /\ purchases[p].paid <= InvoiceTotal(p)
  /\ purchases[p].paidAt <=> purchases[p].paid = InvoiceTotal(p)

\* What test_bs_payment_reversal_restores_invoice_balance says of one payment:
\* its reversal gives the balance back.  The code does not keep it for a grouped
\* or an old payment reversed after a later one, which it no longer finds.
PaidAsPosted == \A p \in Purchases : Reconciled(p) => Posted(p) = purchases[p].paid

\* A cancelled purchase brought nothing to the shelf, and a retried delivery
\* enters its units once (purchase_workflow.py:83-173, service.py:358-361).
CancelledBroughtNothing == \A p \in Purchases :
  /\ Status(p) = "cancelada" => purchases[p].received = 0
  /\ Status(p) \in {"recibida", "conciliada"} => purchases[p].received = Ordered

\* What a purchase costs and what it brings, together (purchase_workflow.py and
\* administracion/service.py).
PurchasesSettled == NeverPaidTwice /\ CancelledBroughtNothing
=============================================================================
