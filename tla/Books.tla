------------------------------- MODULE Books -------------------------------
(***************************************************************************)
(* The books of a filial: its accounts, their income and expense entries,  *)
(* corrections by counter-entry and transfers between own accounts, with   *)
(* the dashboard and the balances computed from them.                      *)
(*                                                                         *)
(* Entries are only added, in the current month, without a lock: a         *)
(* correction looks for an earlier one of the same entry and commits later *)
(* (variable reversing).                                                   *)
(*                                                                         *)
(* Left out: bolivars and frozen rates, attachments, counterparties, and   *)
(* the entries of purchases and of claims (modules Purchases, Absorption). *)
(***************************************************************************)
EXTENDS Integers, FiniteSets, Functions

CONSTANTS
  Accounts,     \* accounts by creation order
  Months,       \* bound: months of the run, 1..n
  Clerks,       \* slots for handlers that have read and not yet written
  MaxEntries,   \* bound: entries in the books
  Amount        \* of an entry

ASSUME BooksAssumption ==
  /\ Accounts \subseteq Nat \ {0} /\ Months \subseteq Nat \ {0} /\ 1 \in Months
  /\ IsFiniteSet(Accounts) /\ IsFiniteSet(Months)
  /\ {MaxEntries, Amount} \subseteq Nat

VARIABLES
  thisMonth,        \* the open period
  openAccounts,     \* accounts with is_active
  entries,          \* income_entries and expense_entries, in order
  reversing         \* the entry that an open correction found not reversed

booksVars == <<thisMonth, openAccounts, entries, reversing>>

EntryIds == 1..MaxEntries
NoEntry == 0
EntryRow == [side : {"income", "expense"}, amount : Int, account : Accounts, month : Months,
             source : {"none", "automatic", "transfer"}, reverses : 0..MaxEntries]

BooksTypeOK ==
  /\ thisMonth \in Months /\ openAccounts \subseteq Accounts
  /\ entries \in [EntryIds -> SUBSET EntryRow]
  /\ reversing \in [Clerks -> 0..MaxEntries]

BooksInit ==
  /\ thisMonth = 1
  /\ openAccounts = Accounts
  /\ entries = [e \in EntryIds |-> {}]
  /\ reversing = [h \in Clerks |-> NoEntry]

Booked(e) == entries[e] # {}
FreeEntries == {e \in EntryIds : ~Booked(e)}
NewEntry == CHOOSE e \in FreeEntries : \A f \in FreeEntries : e <= f

Entry(side, n, a, source, rev) ==
  [side |-> side, amount |-> n, account |-> a, month |-> thisMonth, source |-> source, reverses |-> rev]
Post(r) == [entries EXCEPT ![NewEntry] = {r}]

-----------------------------------------------------------------------------
(* Entries *)

\* Manual entries are dated in the current month, never later.
RecordEntry(side, a) ==
  /\ FreeEntries # {}
  /\ entries' = Post(Entry(side, Amount, a, "none", NoEntry))
  /\ UNCHANGED <<thisMonth, openAccounts, reversing>>

\* Other modules post to the first active account; without one, nothing is posted.
FirstOpen == CHOOSE a \in openAccounts : \A b \in openAccounts : a <= b
RecordAutomaticIncome ==
  /\ openAccounts # {} /\ FreeEntries # {}
  /\ entries' = Post(Entry("income", Amount, FirstOpen, "automatic", NoEntry))
  /\ UNCHANGED <<thisMonth, openAccounts, reversing>>

\* Money between two accounts: an expense and an income, linked.
TransferMoney(a, b) ==
  /\ a # b /\ Cardinality(FreeEntries) > 1
  /\ entries' = [entries EXCEPT
       ![NewEntry] = {Entry("expense", Amount, a, "transfer", NoEntry)},
       ![NewEntry + 1] = {Entry("income", Amount, b, "transfer", NoEntry)}]
  /\ UNCHANGED <<thisMonth, openAccounts, reversing>>

UpdateAccount(a) ==
  /\ openAccounts' = IF a \in openAccounts THEN openAccounts \ {a} ELSE openAccounts \union {a}
  /\ UNCHANGED <<thisMonth, entries, reversing>>

NextMonth ==
  /\ thisMonth + 1 \in Months
  /\ thisMonth' = thisMonth + 1
  /\ UNCHANGED <<openAccounts, entries, reversing>>

-----------------------------------------------------------------------------
(* Corrections *)

IsReversed(e) == \E f \in EntryIds : \E r \in entries[f] : r.reverses = e

ReadReverse(h, e) ==
  /\ reversing[h] = NoEntry /\ Booked(e) /\ ~IsReversed(e)
  /\ reversing' = [reversing EXCEPT ![h] = e]
  /\ UNCHANGED <<thisMonth, openAccounts, entries>>

\* Wrong: the correction carries the date of what it corrects.
AsOriginal(x, e) == [x EXCEPT !.amount = 0 - x.amount, !.source = "none", !.reverses = e]
\* The counter-entry: dated today, without the source of the original.
CounterEntry(x, e) == Entry(x.side, 0 - x.amount, x.account, "none", e)

CommitReverse(h) ==
  /\ reversing[h] # NoEntry /\ FreeEntries # {}
  /\ \E x \in entries[reversing[h]] : entries' = Post(CounterEntry(x, reversing[h]))
  /\ reversing' = [reversing EXCEPT ![h] = NoEntry]
  /\ UNCHANGED <<thisMonth, openAccounts>>

AccountRoutes == (\E a, b \in Accounts : TransferMoney(a, b)) \/ \E a \in Accounts : UpdateAccount(a)
EntryRoutes ==
  \/ \E side \in {"income", "expense"}, a \in Accounts : RecordEntry(side, a)
  \/ \E h \in Clerks : CommitReverse(h) \/ \E e \in EntryIds : ReadReverse(h, e)

BooksNext == RecordAutomaticIncome \/ AccountRoutes \/ EntryRoutes \/ NextMonth

BooksSpec == BooksInit /\ [][BooksNext]_booksVars

-----------------------------------------------------------------------------
(* The reports, and properties *)

BooksTotal(es, side) == SumFunction([e \in es |->
  SumFunction([r \in entries[e] |-> IF r.side = side THEN r.amount ELSE 0])])
AccountBalance(a) ==
  LET of == {e \in EntryIds : \E r \in entries[e] : r.account = a} IN
  BooksTotal(of, "income") - BooksTotal(of, "expense")

\* Wrong: only the income of a transfer is left out of the dashboard.
NotTransferIncome(r) == ~(r.source = "transfer" /\ r.side = "income")
\* Transfers between own accounts are neither income nor expense.
OnDashboard(r) == r.source # "transfer"
NetFlow(m) ==
  LET es == {e \in EntryIds : \E r \in entries[e] : r.month = m /\ OnDashboard(r)} IN
  BooksTotal(es, "income") - BooksTotal(es, "expense")

\* The months' net flow adds up to what the accounts hold, whatever was moved
\* between them and reversed, in any order: the dashboard and the balances are
\* computed by different queries (service.py:934-955, 1610-1675).
FlowMatchesBalances ==
  SumFunction([m \in Months |-> NetFlow(m)]) = SumFunction([a \in Accounts |-> AccountBalance(a)])

\* A month that is over keeps its result: every operation, corrections of old
\* entries included, posts to the current month
\* (service.py:1152-1160, 1235-1275, 1413-1518).
ClosedBooksStay == [][\A m \in Months : m < thisMonth => NetFlow(m)' = NetFlow(m)]_booksVars
=============================================================================
