----------------------------- MODULE MCCommerce -----------------------------
(***************************************************************************)
(* The instance of the components where the money of a filial moves.  They *)
(* share no state: each behaviour is one component's, the one in active.   *)
(***************************************************************************)
EXTENDS Counter, Receivables, Purchases, Books, Absorption, Quotes, TLC

CONSTANTS k1, k2, a1, a2

VARIABLE active

CommerceTenders == {<<"usd", 0, 116, 0>>, <<"usd", 0, 60, 0>>, <<"mixed", 50, 55, 33>>, <<"bs", 0, 0, 100>>}
LaterPayments == {<<10, 0, 2>>, <<0, 61, 0>>}
FiledRetentions == {<<75, 2>>}
TwoLayers == <<101, 133>>

\* One of its initial states is enough for a component that never moves.
ReceivablesAtRest == rateToday = NoRate /\ (\A o \in Invoiceable : priced[o] = 50 /\ vinOf[o])

CommerceInit ==
  /\ active \in {"counter", "receivables", "purchases", "books", "absorption", "quotes"}
  /\ CounterInit /\ ReceivablesInit /\ PurchasesInit /\ BooksInit /\ AbsorptionInit /\ QuotesInit
  /\ active # "receivables" => ReceivablesAtRest

CounterMoves ==
  /\ active = "counter" /\ UNCHANGED <<active, receivableVars, purchaseVars, booksVars, absorptionVars, quoteVars>>
  /\ CounterNext
ReceivablesMove ==
  /\ active = "receivables" /\ UNCHANGED <<active, counterVars, purchaseVars, booksVars, absorptionVars, quoteVars>>
  /\ ReceivablesNext
PurchasesMove ==
  /\ active = "purchases" /\ UNCHANGED <<active, counterVars, receivableVars, booksVars, absorptionVars, quoteVars>>
  /\ PurchasesNext
BooksMove ==
  /\ active = "books" /\ UNCHANGED <<active, counterVars, receivableVars, purchaseVars, absorptionVars, quoteVars>>
  /\ BooksNext
AbsorptionMoves ==
  /\ active = "absorption" /\ UNCHANGED <<active, counterVars, receivableVars, purchaseVars, booksVars, quoteVars>>
  /\ AbsorptionNext
QuotesMove ==
  /\ active = "quotes" /\ UNCHANGED <<active, counterVars, receivableVars, purchaseVars, booksVars, absorptionVars>>
  /\ QuotesNext

CommerceNext ==
  CounterMoves \/ ReceivablesMove \/ PurchasesMove \/ BooksMove \/ AbsorptionMoves \/ QuotesMove

commerceVars == <<active, counterVars, receivableVars, purchaseVars, booksVars, absorptionVars, quoteVars>>
CommerceSpec == CommerceInit /\ [][CommerceNext]_commerceVars

\* Every component keeps the types of its state.
CommerceTypeOK ==
  /\ CounterTypeOK /\ ReceivablesTypeOK /\ PurchasesTypeOK
  /\ BooksTypeOK /\ AbsorptionTypeOK /\ QuotesTypeOK

\* What the accounts show is what was posted: of every entry (Books) and of every claim settled on the
\* workshop's account (Absorption).
AccountsAgree == FlowMatchesBalances /\ SettledIsPosted

Symmetric == Permutations(RequestIds) \union Permutations(Clerks)
=============================================================================
