----------------------------- MODULE Receivables -----------------------------
(***************************************************************************)
(* Invoicing of the workshop's completed orders and the collection of what *)
(* an invoice leaves pending.                                              *)
(*                                                                         *)
(* The cashier first asks for a quote and later issues the invoice with its*)
(* hash; the order's amounts and the day's rate may change in between.  An *)
(* invoice may be issued with part of it paid: the rest, less what the     *)
(* client retains, is a receivable that several collections settle, each   *)
(* in the invoice's row lock and with a request id.                        *)
(*                                                                         *)
(* Issuing (orders opened before settings were frozen) or closing (all     *)
(* others) creates the workshop's warranties of an order, when its vehicle *)
(* has a VIN.                                                              *)
(***************************************************************************)
EXTENDS Money, FiniteSets, Functions

CONSTANTS
  Invoiceable,   \* completed orders, each with at most one invoice
  LegacyOrders,  \* those opened before settings were frozen in the order
  Subtotals,     \* bound: cents of an order before taxes
  Rates,         \* bound: bolivars of a dollar, day by day
  Retentions,    \* bound: <<per cent of the IVA, per cent of the subtotal>>
  Collections    \* bound: <<dollars, bolivars, withheld>> of one collection

ASSUME ReceivablesAssumption ==
  /\ LegacyOrders \subseteq Invoiceable
  /\ Subtotals \union Rates \subseteq Nat \ {0}
  /\ Retentions \subseteq (0..100) \X (0..100)
  /\ Collections \subseteq Nat \X Nat \X Nat

VARIABLES
  rateToday,     \* exchange_rates of the day
  priced,        \* what the order's tasks and parts add up to
  quotes,        \* the quote the cashier holds, if any
  invoices,      \* service_order_invoices, by order
  collectionOf,  \* service_order_collection_requests
  incomeOf,      \* income_entries of the order, in dollars
  vinOf,         \* the order's vehicle has a VIN
  closedOrders,
  warrantySets   \* times workshop_warranties were created for the order

receivableVars == <<rateToday, priced, quotes, invoices, collectionOf, incomeOf,
                    vinOf, closedOrders, warrantySets>>

Quote == [subtotal : Subtotals, rate : Rates \union {NoRate}]
InvoiceRow == [total : Nat, retained : Nat, atIssue : Nat, withheld : Nat,
               net : Nat, collected : BOOLEAN]
CollectionRequest == [order : Invoiceable, paid : Collections, income : Nat]

ReceivablesTypeOK ==
  /\ rateToday \in Rates \union {NoRate}
  /\ priced \in [Invoiceable -> Subtotals]
  /\ quotes \in [Invoiceable -> SUBSET Quote]
  /\ invoices \in [Invoiceable -> SUBSET InvoiceRow]
  /\ collectionOf \in [RequestIds -> SUBSET CollectionRequest]
  /\ incomeOf \in [Invoiceable -> Nat]
  /\ vinOf \in [Invoiceable -> BOOLEAN]
  /\ closedOrders \subseteq Invoiceable
  /\ warrantySets \in [Invoiceable -> Nat]

ReceivablesInit ==
  /\ rateToday \in Rates \union {NoRate}
  /\ priced \in [Invoiceable -> Subtotals]
  /\ quotes = [o \in Invoiceable |-> {}]
  /\ invoices = [o \in Invoiceable |-> {}]
  /\ collectionOf = [k \in RequestIds |-> {}]
  /\ incomeOf = [o \in Invoiceable |-> 0]
  /\ vinOf \in [Invoiceable -> BOOLEAN]
  /\ closedOrders = {}
  /\ warrantySets = [o \in Invoiceable |-> 0]

Issued(o) == invoices[o] # {}
RowOf(o)  == CHOOSE i \in invoices[o] : TRUE

\* The day's official rate is published, or the next day begins without one.
PublishRate(r) ==
  /\ r # rateToday
  /\ rateToday' = r
  /\ UNCHANGED <<priced, quotes, invoices, collectionOf, incomeOf, vinOf, closedOrders, warrantySets>>

\* Tasks or parts of an order not yet invoiced change.
Reprice(o, n) ==
  /\ ~Issued(o) /\ n # priced[o]
  /\ priced' = [priced EXCEPT ![o] = n]
  /\ UNCHANGED <<rateToday, quotes, invoices, collectionOf, incomeOf, vinOf, closedOrders, warrantySets>>

\* Reception corrects the vehicle's record.
SetVin(o) ==
  /\ ~vinOf[o]
  /\ vinOf' = [vinOf EXCEPT ![o] = TRUE]
  /\ UNCHANGED <<rateToday, priced, quotes, invoices, collectionOf, incomeOf, closedOrders, warrantySets>>

-----------------------------------------------------------------------------
(* Issuing *)

TotalOf(n) == n + Percent(n, Iva)
Retained(n, ret) == Percent(Percent(n, Iva), ret[1]) + Percent(n, ret[2])
NewQuote(o) == [subtotal |-> priced[o], rate |-> rateToday]

AskQuote(o) ==
  /\ ~Issued(o) /\ quotes[o] # {NewQuote(o)}
  /\ quotes' = [quotes EXCEPT ![o] = {NewQuote(o)}]
  /\ UNCHANGED <<rateToday, priced, invoices, collectionOf, incomeOf, vinOf, closedOrders, warrantySets>>

\* Wrong: any quote the cashier once saw.
AnyQuote(o) == quotes[o] # {}
\* The hash sent back is that of the quote as it would be now.
SameQuote(o) == quotes[o] = {NewQuote(o)}

\* Wrong: does not look for warranties already given.
EveryTime(o) == TRUE
Unwarranted(o) == warrantySets[o] = 0
WarrantiesGiven(o) ==
  [warrantySets EXCEPT ![o] = IF Unwarranted(o) /\ vinOf[o] THEN warrantySets[o] + 1 ELSE warrantySets[o]]

\* What is paid at the counter, valued at today's rate.
PaidNow(t) == t[3] + (IF t[4] > 0 /\ rateToday # NoRate THEN InUsd(t[4], rateToday) ELSE 0)

Issue(o, t, ret) ==
  LET base  == TotalOf(priced[o])
      total == base + Percent(UsdBase(base, t[1], t[2]), Igtf)
      kept  == Retained(priced[o], ret)
  IN
  /\ ~Issued(o) /\ SameQuote(o)
  /\ Splits(base, t[1], t[2], rateToday)
  /\ t[3] <= DueUsd(base, t[1], t[2], Igtf)
  /\ t[4] <= DueBs(base, t[1], t[2], rateToday)
  /\ invoices' = [invoices EXCEPT ![o] =
       {[total |-> total, retained |-> kept, atIssue |-> PaidNow(t), withheld |-> 0, net |-> 0,
         collected |-> PaidNow(t) >= total - kept]}]
  /\ incomeOf' = [incomeOf EXCEPT ![o] = PaidNow(t)]
  /\ warrantySets' = IF o \in LegacyOrders THEN WarrantiesGiven(o) ELSE warrantySets
  /\ UNCHANGED <<rateToday, priced, quotes, collectionOf, vinOf, closedOrders>>

\* Delivery: nothing but an invoice is required, whatever was collected.
CloseInvoiced(o) ==
  /\ Issued(o) /\ o \notin closedOrders
  /\ closedOrders' = closedOrders \union {o}
  /\ warrantySets' = WarrantiesGiven(o)
  /\ UNCHANGED <<rateToday, priced, quotes, invoices, collectionOf, incomeOf, vinOf>>

-----------------------------------------------------------------------------
(* Collecting *)

NetExpected(i) == i.total - i.retained
NotBelowZero(n) == IF n < 0 THEN 0 ELSE n
InvoicePending(i) == NotBelowZero(NetExpected(i) - i.atIssue - i.net - i.withheld)

\* Wrong: a retried request is taken for a new one.
NeverSeen(k) == TRUE
FirstTime(k) == collectionOf[k] = {}

\* One collection is all in dollars or all in bolivars, by its account.
CollectedUsd(c) == c[1] + InUsd(c[2], rateToday)

CollectInvoice(o, k, c) ==
  /\ Issued(o) /\ FirstTime(k)
  /\ c[2] > 0 => c[1] = 0 /\ rateToday # NoRate
  /\ LET i == RowOf(o)
         usd == CollectedUsd(c)
         j == [i EXCEPT !.withheld = i.withheld + c[3], !.net = i.net + usd]
     IN
     /\ ~i.collected
     /\ usd + c[3] \in 1..InvoicePending(i)
     /\ invoices' = [invoices EXCEPT ![o] = {[j EXCEPT !.collected = InvoicePending(j) = 0]}]
     /\ incomeOf' = [incomeOf EXCEPT ![o] = incomeOf[o] + usd]
     /\ collectionOf' = [collectionOf EXCEPT ![k] =
          collectionOf[k] \union {[order |-> o, paid |-> c, income |-> usd]}]
  /\ UNCHANGED <<rateToday, priced, quotes, vinOf, closedOrders, warrantySets>>

BillingRoutes ==
  \E o \in Invoiceable :
    AskQuote(o) \/ \E t \in Tenders, ret \in Retentions : Issue(o, t, ret)
CollectionRoutes ==
  \E o \in Invoiceable, k \in RequestIds, c \in Collections : CollectInvoice(o, k, c)

ReceivablesNext ==
  \/ \E r \in Rates \union {NoRate} : PublishRate(r)
  \/ BillingRoutes \/ CollectionRoutes
  \/ \E o \in Invoiceable :
       \/ \E n \in Subtotals : Reprice(o, n)
       \/ SetVin(o)
       \/ CloseInvoiced(o)

ReceivablesSpec == ReceivablesInit /\ [][ReceivablesNext]_receivableVars

-----------------------------------------------------------------------------
(* Properties *)

\* An invoice is marked collected exactly when nothing of it is pending, and
\* however it was split between payments, withholdings and rates, later
\* collections never bring more than was expected; what they brought is what
\* the request receipts and the income entries say, each retry counted once
\* (billing.py:607-632, 723-835).
InvoiceSettled == \A o \in Invoiceable : \A i \in invoices[o] :
  /\ i.collected <=> InvoicePending(i) = 0
  /\ i.net + i.withheld <= NotBelowZero(NetExpected(i) - i.atIssue)
  /\ incomeOf[o] = i.atIssue + i.net
  /\ i.net = SumFunction([k \in RequestIds |->
       SumFunction([c \in collectionOf[k] |-> IF c.order = o THEN c.income ELSE 0])])

\* The invoice has the amounts the cashier showed the client, at the rate
\* shown, though both may change between the quote and the invoice
\* (billing.py:264-270).
InvoiceAsQuoted == [][\A o \in Invoiceable :
  invoices[o] = {} /\ invoices'[o] # {} =>
    \E q \in quotes[o] : \A i \in invoices'[o] :
      /\ q.rate = rateToday
      /\ i.total - TotalOf(q.subtotal) \in 0..Percent(TotalOf(q.subtotal), Igtf)]_receivableVars

\* Warranties are given once per order, at its invoice or at its delivery, and
\* a delivered order whose vehicle had a VIN then has them
\* (billing.py:443-466, service.py:904).
WarrantedOnce == \A o \in Invoiceable : warrantySets[o] <= 1

\* What a comment says of retentions: "A withheld amount is never collected
\* as cash" (billing.py:373-375).
WithheldNotCollected == \A o \in Invoiceable : \A i \in invoices[o] :
  i.atIssue + i.net + i.withheld + i.retained <= i.total

\* What an invoice brings and the warranties it gives, together (billing.py).
InvoicesSettled == InvoiceSettled /\ WarrantedOnce
=============================================================================
