-------------------------- MODULE VehicleSaleProofs ---------------------------
(***************************************************************************)
(* Theorems about VehicleSale for any number of units, buyers, deals and   *)
(* credit requests, and any price, deposit and retention: what a deal      *)
(* promises its client is kept.                                            *)
(*                                                                         *)
(* The argument is one inductive invariant, SaleInv.  DealsHonoured alone  *)
(* is not inductive: a deposit is only safe because one unsold deal of a   *)
(* unit holds one at most (OneDepositIn), because the unit stays with its  *)
(* client when another deal takes the sale (HeldIn), and because a deal not *)
(* yet created earned nothing and no sale names it (EarnedIn).             *)
(***************************************************************************)
EXTENDS VehicleSale, FiniteSetTheorems, TLAPS

-----------------------------------------------------------------------------

\* The state, its parts given: D, U, S, L and A stand for deals, units, unitSales, dealLedger
\* and answers, so that a step that changes them in two moves is followed move by move.
DealsIn(D) ==
  /\ D \in [Deals -> SUBSET DealRow]
  /\ \A d \in Deals : \A x, y \in D[d] : x = y
  /\ \A d \in Deals : \A x \in D[d] :
       (\A u, v \in x.unit : u = v) /\ (x.deposit # "none" => x.workflow)

\* Another deal of the client for the unit was sold.
SoldByAnother(D, d, x, u) == \E e \in Deals \ {d} : \E y \in D[e] : y.sold /\ y.client = x.client /\ y.unit = {u}

HeldFor(D, U, d, x, u) ==
  \/ x.sold
  \/ U[u].status = "reservado" /\ U[u].for = {x.client}
  \/ U[u].status = "vendido" /\ SoldByAnother(D, d, x, u)

HeldIn(D, U) == \A d \in Deals : \A x \in D[d] :
  x.deposit = "registrado" => x.stage # "perdida" /\ \E u \in Units : x.unit = {u} /\ HeldFor(D, U, d, x, u)

OneDepositIn(D) == \A d, e \in Deals : \A x \in D[d], y \in D[e] :
  x.deposit = "registrado" /\ y.deposit = "registrado" /\ ~x.sold /\ ~y.sold /\ x.unit = y.unit => d = e

PaidIn(S, d, workflow) == {u \in Units : \E s \in S[u] : s.quote = {d} /\ (s.type = "contado" \/ ~workflow)}
KeptIn(S, d, x) ==
  IF x.unit \intersect PaidIn(S, d, x.workflow) # {} THEN 0
  ELSE IF x.deposit = "devuelto" THEN Retained ELSE IF x.deposit = "registrado" THEN Deposit ELSE 0

EarnedIn(D, S, L) ==
  /\ \A d \in Deals : D[d] = {} => L[d] = 0 /\ \A u \in Units : \A s \in S[u] : s.quote # {d}
  /\ \A d \in Deals : \A x \in D[d] :
       /\ L[d] = UnitPrice * Cardinality(PaidIn(S, d, x.workflow)) + KeptIn(S, d, x)
       /\ x.unit \intersect PaidIn(S, d, x.workflow) # {} => x.deposit # "devuelto"

Decided(A, d, x) ==
  /\ x.financing # "none" => x.request \in 1..MaxRequests
  /\ x.financing \in {"aprobado", "rechazado"} => x.financing = A[d][x.request]
DecidedIn(D, A) == \A d \in Deals : \A x \in D[d] : Decided(A, d, x)

SalesIn(U, S) ==
  /\ U \in [Units -> Unit] /\ S \in [Units -> SUBSET SaleRow]
  /\ \A u \in Units : S[u] # {} => U[u].status = "vendido"
  /\ \A u \in Units : \A s, t \in S[u] : s = t
  /\ \A u \in Units : \A s \in S[u] : ~s.delivered => s.warranties <= 1

SaleInv ==
  /\ DealsIn(deals) /\ HeldIn(deals, units) /\ OneDepositIn(deals)
  /\ EarnedIn(deals, unitSales, dealLedger) /\ DecidedIn(deals, answers) /\ SalesIn(units, unitSales)
  /\ quoteOrder \in Seq(Deals) /\ dealLedger \in [Deals -> Int]
  /\ answers \in [Deals -> [1..MaxRequests -> {"none", "aprobado", "rechazado"}]]

\* What is retained of a deposit is a number.
LEMMA RetainedInt == Retained \in Int
<1>1. Deposit \in Int /\ Retention \in Int
  BY VehicleSaleAssumption
<1>2. Deposit * Retention \in Int
  BY <1>1
<1> DEFINE p == Deposit * Retention
<1>3. p \in Int
  BY <1>2
<1> HIDE DEF p
<1>4. p \div 100 \in Int
  BY <1>3
<1> QED BY <1>4 DEF Retained, p

\* What the assumptions say of prices and bounds.
LEMMA Numbers == UnitPrice \in Nat /\ Deposit \in Nat /\ Deposit <= UnitPrice /\ MaxRequests \in Nat
BY VehicleSaleAssumption

\* A deposit always is one of three.
LEMMA DepositOf ==
  ASSUME NEW x \in DealRow
  PROVE  x.deposit \in {"none", "registrado", "devuelto"}
BY DEF DealRow

-----------------------------------------------------------------------------
(* One deal changes *)

\* The row y of a deal whose row was x: as to the unit, the money and the credit.
Kin(d, y, x) ==
  /\ y.client = x.client /\ y.workflow = x.workflow /\ y.deposit = x.deposit /\ y.sold = x.sold
  /\ \/ y.unit = x.unit
     \/ x.deposit # "registrado" /\ ~x.sold /\ \E u \in Units : y.unit = {u} /\ units[u].status # "vendido"
  /\ x.deposit = "registrado" => y.stage # "perdida"
  /\ Decided(answers, d, y)

\* Each deal keeps its row, or has a row akin to it.
LEMMA KinKeeps ==
  ASSUME SaleInv, UNCHANGED <<units, unitSales, answers, dealLedger>>, quoteOrder' \in Seq(Deals),
         deals' \in [Deals -> SUBSET DealRow], \A d \in Deals : \A x, y \in deals'[d] : x = y,
         \A d \in Deals : \A y \in deals'[d] : \E x \in deals[d] : Kin(d, y, x),
         \A d \in Deals : \A x \in deals[d] : \E y \in deals'[d] : Kin(d, y, x)
  PROVE  SaleInv'
<1>1. /\ DealsIn(deals) /\ HeldIn(deals, units) /\ OneDepositIn(deals)
      /\ EarnedIn(deals, unitSales, dealLedger) /\ DecidedIn(deals, answers) /\ SalesIn(units, unitSales)
  BY DEF SaleInv
<1>2. DealsIn(deals')
  <2>1. ASSUME NEW d \in Deals, NEW y \in deals'[d]
        PROVE  (\A u, v \in y.unit : u = v) /\ (y.deposit # "none" => y.workflow)
    <3>1. PICK x \in deals[d] : Kin(d, y, x)
      OBVIOUS
    <3>2. (\A u, v \in x.unit : u = v) /\ (x.deposit # "none" => x.workflow)
      BY <1>1 DEF DealsIn
    <3> QED BY <3>1, <3>2 DEF Kin
  <2> QED BY <2>1 DEF DealsIn
<1>3. HeldIn(deals', units)
  <2> SUFFICES ASSUME NEW d \in Deals, NEW y \in deals'[d], y.deposit = "registrado"
               PROVE  y.stage # "perdida" /\ \E u \in Units : y.unit = {u} /\ HeldFor(deals', units, d, y, u)
    BY DEF HeldIn
  <2>1. PICK x \in deals[d] : Kin(d, y, x)
    OBVIOUS
  <2>2. y.stage # "perdida" /\ x.deposit = "registrado" /\ y.unit = x.unit /\ y.client = x.client /\ y.sold = x.sold
    BY <2>1 DEF Kin
  <2>3. PICK u \in Units : x.unit = {u} /\ HeldFor(deals, units, d, x, u)
    BY <1>1, <2>2 DEF HeldIn
  <2>4. SoldByAnother(deals, d, x, u) => SoldByAnother(deals', d, y, u)
    <3> SUFFICES ASSUME NEW e \in Deals \ {d}, NEW z \in deals[e], z.sold, z.client = x.client, z.unit = {u}
                 PROVE  SoldByAnother(deals', d, y, u)
      BY DEF SoldByAnother
    <3>1. PICK w \in deals'[e] : Kin(e, w, z)
      OBVIOUS
    <3>2. w.sold /\ w.client = y.client /\ w.unit = {u}
      BY <2>2, <3>1 DEF Kin
    <3> QED BY <3>2 DEF SoldByAnother
  <2> QED BY <2>2, <2>3, <2>4 DEF HeldFor
<1>4. OneDepositIn(deals')
  <2> SUFFICES ASSUME NEW d \in Deals, NEW e \in Deals, NEW x \in deals'[d], NEW y \in deals'[e],
                      x.deposit = "registrado", y.deposit = "registrado", ~x.sold, ~y.sold, x.unit = y.unit
               PROVE  d = e
    BY DEF OneDepositIn
  <2>1. PICK p \in deals[d] : Kin(d, x, p)
    OBVIOUS
  <2>2. PICK q \in deals[e] : Kin(e, y, q)
    OBVIOUS
  <2>3. p.deposit = "registrado" /\ q.deposit = "registrado" /\ ~p.sold /\ ~q.sold /\ p.unit = q.unit
    BY <2>1, <2>2 DEF Kin
  <2> QED BY <1>1, <2>3 DEF OneDepositIn
<1>5. EarnedIn(deals', unitSales, dealLedger)
  <2>1. \A d \in Deals : deals'[d] = {} => deals[d] = {}
    OBVIOUS
  <2>2. ASSUME NEW d \in Deals, NEW y \in deals'[d]
        PROVE  /\ dealLedger[d] = UnitPrice * Cardinality(PaidIn(unitSales, d, y.workflow)) + KeptIn(unitSales, d, y)
               /\ y.unit \intersect PaidIn(unitSales, d, y.workflow) # {} => y.deposit # "devuelto"
    <3>1. PICK x \in deals[d] : Kin(d, y, x)
      OBVIOUS
    <3> DEFINE paid == PaidIn(unitSales, d, y.workflow)
    <3>2. /\ dealLedger[d] = UnitPrice * Cardinality(paid) + KeptIn(unitSales, d, x)
          /\ x.unit \intersect paid # {} => x.deposit # "devuelto"
          /\ paid = PaidIn(unitSales, d, x.workflow) /\ y.deposit = x.deposit
      BY <1>1, <3>1 DEF EarnedIn, Kin
    <3>3. \A u \in Units : units[u].status # "vendido" => u \notin paid
      BY <1>1 DEF SalesIn, PaidIn
    <3>4. x.deposit \in {"none", "registrado", "devuelto"}
      BY <1>1, DepositOf DEF DealsIn
    <3> HIDE DEF paid
    <3>5. KeptIn(unitSales, d, y) = KeptIn(unitSales, d, x) /\ (y.unit \intersect paid # {} => y.deposit # "devuelto")
      <4>1. CASE y.unit = x.unit
        BY <3>1, <3>2, <4>1 DEF KeptIn, Kin
      <4>2. CASE y.unit # x.unit
        <5>1. x.deposit # "registrado" /\ y.unit \intersect paid = {}
          BY <3>1, <3>3, <4>2 DEF Kin
        <5>2. x.unit \intersect paid # {} => x.deposit = "none"
          BY <3>2, <3>4, <5>1
        <5>3. KeptIn(unitSales, d, y) = IF x.deposit = "devuelto" THEN Retained ELSE 0
          BY <3>2, <3>4, <5>1 DEF KeptIn, paid
        <5>4. KeptIn(unitSales, d, x) = IF x.deposit = "devuelto" THEN Retained ELSE 0
          BY <3>2, <3>4, <5>1, <5>2 DEF KeptIn
        <5> QED BY <5>1, <5>3, <5>4
      <4> QED BY <4>1, <4>2
    <3> QED BY <3>2, <3>5 DEF paid
  <2> QED BY <1>1, <2>1, <2>2 DEF EarnedIn
<1>6. DecidedIn(deals', answers)
  BY DEF DecidedIn, Kin
<1> QED BY <1>1, <1>2, <1>3, <1>4, <1>5, <1>6 DEF SaleInv

\* The same for one deal.
LEMMA SetDealKeeps ==
  ASSUME SaleInv, NEW d \in Deals, NEW x \in deals[d], NEW y \in DealRow, SetDeal(d, y), Kin(d, y, x),
         UNCHANGED <<units, unitSales, answers, dealLedger>>, quoteOrder' \in Seq(Deals)
  PROVE  SaleInv'
<1>1. DealsIn(deals) /\ DecidedIn(deals, answers)
  BY DEF SaleInv
<1>2. deals'[d] = {y} /\ (\A e \in Deals \ {d} : deals'[e] = deals[e]) /\ deals' \in [Deals -> SUBSET DealRow]
  BY <1>1 DEF SetDeal, DealsIn
<1>3. \A e \in Deals : \A p, q \in deals'[e] : p = q
  BY <1>1, <1>2 DEF DealsIn
<1>4. ASSUME NEW e \in Deals, NEW p \in deals[e]
      PROVE  p.deposit = "registrado" => p.stage # "perdida"
  BY DEF SaleInv, HeldIn
<1>5. \A e \in Deals : \A p \in deals[e] : Kin(e, p, p)
  BY <1>1, <1>4 DEF Kin, DecidedIn
<1>6. \A e \in Deals : \A p \in deals'[e] : \E q \in deals[e] : Kin(e, p, q)
  BY <1>2, <1>5
<1>7. \A e \in Deals : \A q \in deals[e] : \E p \in deals'[e] : Kin(e, p, q)
  <2> SUFFICES ASSUME NEW e \in Deals, NEW q \in deals[e]
               PROVE  \E p \in deals'[e] : Kin(e, p, q)
    OBVIOUS
  <2>1. CASE e = d
    <3>1. q = x
      BY <1>1, <2>1 DEF DealsIn
    <3> QED BY <1>2, <2>1, <3>1
  <2>2. CASE e # d
    BY <1>2, <1>5, <2>2
  <2> QED BY <2>1, <2>2
<1> QED BY <1>2, <1>3, <1>6, <1>7, KinKeeps

\* What the invariant says of a deal's row.
LEMMA RowFacts ==
  ASSUME SaleInv, NEW d \in Deals, NEW x \in deals[d]
  PROVE  /\ x \in DealRow /\ Decided(answers, d, x) /\ (x.deposit = "registrado" => x.stage # "perdida")
         /\ quoteOrder \in Seq(Deals)
BY DEF SaleInv, DealsIn, HeldIn, DecidedIn

\* Losing, financing and reopening a deal keep the invariant.
LEMMA StageSteps ==
  ASSUME SaleInv, NEW d \in Deals, LoseDeal(d) \/ StartFinancing(d) \/ Reopen(d)
  PROVE  SaleInv'
<1>1. ASSUME NEW x \in deals[d], NEW stage \in {"prospecto", "financiamiento", "perdida"},
             x.deposit = "registrado" => stage # "perdida", SetDeal(d, [x EXCEPT !.stage = stage]),
             UNCHANGED <<units, quoteOrder, unitSales, answers, dealLedger>>
      PROVE  SaleInv'
  <2> DEFINE y == [x EXCEPT !.stage = stage]
  <2>1. x \in DealRow /\ Decided(answers, d, x) /\ quoteOrder \in Seq(Deals)
    BY RowFacts
  <2>2. /\ y \in DealRow /\ y.client = x.client /\ y.workflow = x.workflow /\ y.deposit = x.deposit
        /\ y.sold = x.sold /\ y.unit = x.unit /\ y.stage = stage /\ y.financing = x.financing /\ y.request = x.request
    BY <2>1 DEF DealRow
  <2>3. SetDeal(d, y)
    BY <1>1
  <2> HIDE DEF y
  <2>4. Kin(d, y, x)
    BY <1>1, <2>1, <2>2 DEF Kin, Decided
  <2> QED BY <1>1, <2>1, <2>2, <2>3, <2>4, SetDealKeeps
<1>2. CASE LoseDeal(d)
  BY <1>1, <1>2 DEF LoseDeal
<1>3. CASE StartFinancing(d)
  BY <1>1, <1>3 DEF StartFinancing
<1>4. CASE Reopen(d)
  BY <1>1, <1>4 DEF Reopen
<1> QED BY <1>2, <1>3, <1>4

\* The order of quotes stays a list of deals.
LEMMA QuotesButSeq ==
  ASSUME quoteOrder \in Seq(Deals), NEW d \in Deals
  PROVE  Append(QuotesBut(d), d) \in Seq(Deals)
<1> DEFINE place == {i \in DOMAIN quoteOrder : quoteOrder[i] = d}
<1>1. CASE place # {}
  <2> DEFINE i == CHOOSE i \in place : TRUE
  <2>1. i \in 1..Len(quoteOrder)
    BY <1>1
  <2> HIDE DEF i
  <2>2. SubSeq(quoteOrder, 1, i - 1) \in Seq(Deals) /\ SubSeq(quoteOrder, i + 1, Len(quoteOrder)) \in Seq(Deals)
    BY <2>1
  <2>3. RemoveAt(quoteOrder, i) \in Seq(Deals)
    BY <2>2 DEF RemoveAt
  <2> QED BY <1>1, <2>3 DEF QuotesBut, i
<1>2. CASE place = {}
  BY <1>2 DEF QuotesBut
<1> QED BY <1>1, <1>2

\* A quote for a unit that is not sold keeps the invariant.
LEMMA QuoteKeeps ==
  ASSUME SaleInv, NEW d \in Deals, NEW u \in Units, NEW type \in SaleTypes, QuoteUnit(d, u, type)
  PROVE  SaleInv'
<1>1. PICK x \in deals[d] :
        /\ Mutable(x) /\ x.deposit # "registrado" /\ units[u].status # "vendido"
        /\ SetDeal(d, [x EXCEPT !.unit = {u}, !.quote = type, !.lapsed = FALSE, !.stage = "prospecto"])
        /\ quoteOrder' = Append(QuotesBut(d), d)
        /\ UNCHANGED <<units, unitSales, answers, dealLedger>>
  BY DEF QuoteUnit
<1> DEFINE y == [x EXCEPT !.unit = {u}, !.quote = type, !.lapsed = FALSE, !.stage = "prospecto"]
<1>2. x \in DealRow /\ Decided(answers, d, x) /\ quoteOrder \in Seq(Deals)
  BY RowFacts
<1>3. /\ y \in DealRow /\ y.client = x.client /\ y.workflow = x.workflow /\ y.deposit = x.deposit
      /\ y.sold = x.sold /\ y.unit = {u} /\ y.financing = x.financing /\ y.request = x.request
  BY <1>2 DEF DealRow
<1>4. SetDeal(d, y)
  BY <1>1
<1> HIDE DEF y
<1>5. Kin(d, y, x)
  BY <1>1, <1>2, <1>3 DEF Kin, Decided, Mutable
<1>6. quoteOrder' \in Seq(Deals)
  BY <1>1, <1>2, QuotesButSeq
<1> QED BY <1>1, <1>3, <1>4, <1>5, <1>6, SetDealKeeps

\* So does the lapse of quotes.
LEMMA LapseKeeps ==
  ASSUME SaleInv, QuotesLapse
  PROVE  SaleInv'
<1> DEFINE now(x) == [x EXCEPT !.lapsed = @ \/ (x.quote # "none" /\ Mutable(x))]
<1>1. /\ deals' = [d \in Deals |-> {now(x) : x \in deals[d]}]
      /\ UNCHANGED <<units, quoteOrder, unitSales, answers, dealLedger>>
  BY DEF QuotesLapse
<1>2. ASSUME NEW d \in Deals, NEW x \in deals[d]
      PROVE  now(x) \in DealRow /\ Kin(d, now(x), x)
  <2>1. x \in DealRow /\ Decided(answers, d, x) /\ (x.deposit = "registrado" => x.stage # "perdida")
    BY RowFacts
  <2> DEFINE y == [x EXCEPT !.lapsed = x.lapsed \/ (x.quote # "none" /\ Mutable(x))]
  <2>2. (x.lapsed \/ (x.quote # "none" /\ Mutable(x))) \in BOOLEAN
    OBVIOUS
  <2>3. /\ y \in DealRow /\ y.client = x.client /\ y.workflow = x.workflow /\ y.deposit = x.deposit /\ y.stage = x.stage
        /\ y.sold = x.sold /\ y.unit = x.unit /\ y.financing = x.financing /\ y.request = x.request
    BY <2>1, <2>2 DEF DealRow
  <2>4. now(x) = y
    OBVIOUS
  <2> HIDE DEF y, now
  <2> QED BY <2>1, <2>3, <2>4 DEF Kin, Decided
<1> HIDE DEF now
<1>3. deals' \in [Deals -> SUBSET DealRow]
  BY <1>1, <1>2
<1>4. \A d \in Deals : \A x, y \in deals'[d] : x = y
  BY <1>1 DEF SaleInv, DealsIn
<1>5. quoteOrder' \in Seq(Deals)
  BY <1>1 DEF SaleInv
<1> QED BY <1>1, <1>2, <1>3, <1>4, <1>5, KinKeeps

\* So do the steps of a credit, the inspection and the checks before delivery.
LEMMA CreditSteps ==
  ASSUME SaleInv, NEW d \in Deals,
         \/ SubmitFinancing(d) \/ Closing(d) \/ FinishPdi(d) \/ DeliveryChecks(d)
         \/ \E kind \in {"recaudos", "cierre", "acta"} : File(d, kind)
         \/ \E r \in 1..MaxRequests : Decision(d, r)
  PROVE  SaleInv'
<1>a. ASSUME NEW x \in deals[d], NEW y \in DealRow, SetDeal(d, y),
             y.client = x.client, y.workflow = x.workflow, y.deposit = x.deposit, y.sold = x.sold, y.unit = x.unit,
             y.stage # x.stage => y.stage # "perdida", Decided(answers, d, y),
             UNCHANGED <<units, quoteOrder, unitSales, answers, dealLedger>>
      PROVE  SaleInv'
  <2>1. (x.deposit = "registrado" => x.stage # "perdida") /\ quoteOrder \in Seq(Deals)
    BY RowFacts
  <2>2. Kin(d, y, x)
    BY <1>a, <2>1 DEF Kin
  <2> QED BY <1>a, <2>1, <2>2, SetDealKeeps
<1>b. \A x \in deals[d] : x \in DealRow /\ Decided(answers, d, x)
  BY RowFacts
<1>1. CASE SubmitFinancing(d)
  <2>1. PICK x \in deals[d] :
          /\ x.request < MaxRequests
          /\ SetDeal(d, [x EXCEPT !.financing = "enviada", !.stage = "financiamiento", !.request = @ + 1])
          /\ UNCHANGED <<units, quoteOrder, unitSales, answers, dealLedger>>
    BY <1>1 DEF SubmitFinancing
  <2> DEFINE y == [x EXCEPT !.financing = "enviada", !.stage = "financiamiento", !.request = @ + 1]
  <2>2. x \in DealRow
    BY <1>b
  <2>3. x.request + 1 \in 1..MaxRequests /\ x.request + 1 \in 0..MaxRequests
    BY <2>1, <2>2, Numbers DEF DealRow
  <2>4. /\ y \in DealRow /\ y.client = x.client /\ y.workflow = x.workflow /\ y.deposit = x.deposit
        /\ y.stage = "financiamiento" /\ y.sold = x.sold /\ y.unit = x.unit
        /\ y.financing = "enviada" /\ y.request = x.request + 1
    BY <2>2, <2>3 DEF DealRow
  <2>5. SetDeal(d, y)
    BY <2>1
  <2> HIDE DEF y
  <2>6. Decided(answers, d, y)
    BY <2>3, <2>4 DEF Decided
  <2> QED BY <1>a, <2>1, <2>4, <2>5, <2>6
<1>2. CASE Closing(d)
  <2>1. PICK x \in deals[d] :
          SetDeal(d, [x EXCEPT !.insured = TRUE]) /\ UNCHANGED <<units, quoteOrder, unitSales, answers, dealLedger>>
    BY <1>2 DEF Closing
  <2> DEFINE y == [x EXCEPT !.insured = TRUE]
  <2>2. /\ y \in DealRow /\ y.client = x.client /\ y.workflow = x.workflow /\ y.deposit = x.deposit /\ y.stage = x.stage
        /\ y.sold = x.sold /\ y.unit = x.unit /\ y.financing = x.financing /\ y.request = x.request
    BY <1>b DEF DealRow
  <2>3. SetDeal(d, y)
    BY <2>1
  <2> HIDE DEF y
  <2> QED BY <1>a, <1>b, <2>1, <2>2, <2>3 DEF Decided
<1>3. CASE FinishPdi(d)
  <2>1. PICK x \in deals[d] :
          SetDeal(d, [x EXCEPT !.pdi = "lista"]) /\ UNCHANGED <<units, quoteOrder, unitSales, answers, dealLedger>>
    BY <1>3 DEF FinishPdi
  <2> DEFINE y == [x EXCEPT !.pdi = "lista"]
  <2>2. /\ y \in DealRow /\ y.client = x.client /\ y.workflow = x.workflow /\ y.deposit = x.deposit /\ y.stage = x.stage
        /\ y.sold = x.sold /\ y.unit = x.unit /\ y.financing = x.financing /\ y.request = x.request
    BY <1>b DEF DealRow
  <2>3. SetDeal(d, y)
    BY <2>1
  <2> HIDE DEF y
  <2> QED BY <1>a, <1>b, <2>1, <2>2, <2>3 DEF Decided
<1>4. CASE DeliveryChecks(d)
  <2>1. PICK x \in deals[d] :
          SetDeal(d, [x EXCEPT !.checked = TRUE]) /\ UNCHANGED <<units, quoteOrder, unitSales, answers, dealLedger>>
    BY <1>4 DEF DeliveryChecks
  <2> DEFINE y == [x EXCEPT !.checked = TRUE]
  <2>2. /\ y \in DealRow /\ y.client = x.client /\ y.workflow = x.workflow /\ y.deposit = x.deposit /\ y.stage = x.stage
        /\ y.sold = x.sold /\ y.unit = x.unit /\ y.financing = x.financing /\ y.request = x.request
    BY <1>b DEF DealRow
  <2>3. SetDeal(d, y)
    BY <2>1
  <2> HIDE DEF y
  <2> QED BY <1>a, <1>b, <2>1, <2>2, <2>3 DEF Decided
<1>5. ASSUME NEW kind \in {"recaudos", "cierre", "acta"}, File(d, kind)
      PROVE  SaleInv'
  <2>1. PICK x \in deals[d] :
          /\ SetDeal(d, [x EXCEPT !.files = @ \union {kind}])
          /\ UNCHANGED <<units, quoteOrder, unitSales, answers, dealLedger>>
    BY <1>5 DEF File
  <2> DEFINE y == [x EXCEPT !.files = @ \union {kind}]
  <2>2. x.files \union {kind} \in SUBSET {"recaudos", "cierre", "acta"}
    BY <1>b DEF DealRow
  <2>3. /\ y \in DealRow /\ y.client = x.client /\ y.workflow = x.workflow /\ y.deposit = x.deposit /\ y.stage = x.stage
        /\ y.sold = x.sold /\ y.unit = x.unit /\ y.financing = x.financing /\ y.request = x.request
    BY <1>b, <2>2 DEF DealRow
  <2>4. SetDeal(d, y)
    BY <2>1
  <2> HIDE DEF y
  <2> QED BY <1>a, <1>b, <2>1, <2>3, <2>4 DEF Decided
<1>6. ASSUME NEW r \in 1..MaxRequests, Decision(d, r)
      PROVE  SaleInv'
  <2>1. PICK x \in deals[d] :
          /\ answers[d][r] # "none" /\ x.request = r
          /\ SetDeal(d, [x EXCEPT !.financing = answers[d][r]])
          /\ UNCHANGED <<units, quoteOrder, unitSales, answers, dealLedger>>
    BY <1>6 DEF Decision, Pending
  <2> DEFINE y == [x EXCEPT !.financing = answers[d][r]]
  <2>2. answers[d][r] \in {"aprobado", "rechazado"}
    BY <2>1 DEF SaleInv
  <2>3. /\ y \in DealRow /\ y.client = x.client /\ y.workflow = x.workflow /\ y.deposit = x.deposit /\ y.stage = x.stage
        /\ y.sold = x.sold /\ y.unit = x.unit /\ y.financing = answers[d][r] /\ y.request = x.request
    BY <1>b, <2>2 DEF DealRow
  <2>4. SetDeal(d, y)
    BY <2>1
  <2> HIDE DEF y
  <2>5. Decided(answers, d, y)
    BY <2>1, <2>3 DEF Decided
  <2> QED BY <1>a, <2>1, <2>3, <2>4, <2>5
<1> QED BY <1>1, <1>2, <1>3, <1>4, <1>5, <1>6

-----------------------------------------------------------------------------
(* Answers, units and deliveries *)

\* An answer decides a request that had none, so no decision taken changes.
LEMMA AnswerKeeps ==
  ASSUME SaleInv, NEW d \in Deals, NEW decision \in {"aprobado", "rechazado"}, FinancierAnswers(d, decision)
  PROVE  SaleInv'
<1>1. PICK x \in deals[d] :
        /\ x.request > 0 /\ answers[d][x.request] = "none"
        /\ answers' = [answers EXCEPT ![d][x.request] = decision]
        /\ UNCHANGED <<units, deals, quoteOrder, unitSales, dealLedger>>
  BY DEF FinancierAnswers
<1>2. x.request \in 1..MaxRequests
  BY <1>1, RowFacts, Numbers DEF DealRow
<1>3. answers \in [Deals -> [1..MaxRequests -> {"none", "aprobado", "rechazado"}]]
  BY DEF SaleInv
<1>4. answers' \in [Deals -> [1..MaxRequests -> {"none", "aprobado", "rechazado"}]]
  BY <1>1, <1>2, <1>3
<1>5. \A e \in Deals, r \in 1..MaxRequests : ~(e = d /\ r = x.request) => answers'[e][r] = answers[e][r]
  BY <1>1, <1>2, <1>3
<1>6. ASSUME NEW e \in Deals, NEW y \in deals[e]
      PROVE  Decided(answers', e, y)
  <2>1. Decided(answers, e, y)
    BY RowFacts
  <2>2. CASE y.financing \in {"aprobado", "rechazado"}
    <3>1. y.request \in 1..MaxRequests /\ answers[e][y.request] # "none"
      BY <2>1, <2>2 DEF Decided
    <3>2. ~(e = d /\ y.request = x.request)
      BY <1>1, <3>1
    <3> QED BY <1>5, <2>1, <3>1, <3>2 DEF Decided
  <2>3. CASE y.financing \notin {"aprobado", "rechazado"}
    BY <2>1, <2>3 DEF Decided
  <2> QED BY <2>2, <2>3
<1>7. DecidedIn(deals, answers')
  BY <1>6 DEF DecidedIn
<1> QED BY <1>1, <1>4, <1>7 DEF SaleInv

\* A unit changes that holds no deposit, or stays reserved or sold as it is.
LEMMA UnitsKeep ==
  ASSUME SaleInv, UNCHANGED <<deals, quoteOrder, unitSales, answers, dealLedger>>, units' \in [Units -> Unit],
         \A u \in Units : units[u].status = "vendido" => units'[u].status = "vendido",
         \A u \in Units : units[u].status = "reservado" =>
           \/ units'[u].status = "reservado" /\ units'[u].for = units[u].for
           \/ \A d \in Deals : \A x \in deals[d] :
                x.deposit = "registrado" /\ x.unit = {u} /\ units[u].for = {x.client} => x.sold
  PROVE  SaleInv'
<1>1. HeldIn(deals, units')
  <2> SUFFICES ASSUME NEW d \in Deals, NEW x \in deals[d], x.deposit = "registrado"
               PROVE  x.stage # "perdida" /\ \E u \in Units : x.unit = {u} /\ HeldFor(deals, units', d, x, u)
    BY DEF HeldIn
  <2>1. PICK u \in Units : x.unit = {u} /\ HeldFor(deals, units, d, x, u)
    BY DEF SaleInv, HeldIn
  <2>2. HeldFor(deals, units', d, x, u)
    BY <2>1 DEF HeldFor
  <2> QED BY <2>1, <2>2 DEF SaleInv, HeldIn
<1>2. SalesIn(units', unitSales)
  BY DEF SaleInv, SalesIn
<1> QED BY <1>1, <1>2 DEF SaleInv

\* A reserved unit is released only when no open deal paid for it.
LEMMA ChangeStatusKeeps ==
  ASSUME SaleInv, NEW u \in Units, NEW status \in UnitStatus, ChangeStatus(u, status)
  PROVE  SaleInv'
<1>1. /\ status \in Transitions[units[u].status] \ {"reservado", "vendido"}
      /\ units[u].status = "reservado" => Releasable(u)
      /\ units' = [units EXCEPT ![u] = [Free EXCEPT !.status = status]]
      /\ UNCHANGED <<deals, quoteOrder, unitSales, answers, dealLedger>>
  BY DEF ChangeStatus
<1>2. units \in [Units -> Unit]
  BY DEF SaleInv, SalesIn
<1>3. [Free EXCEPT !.status = status] \in Unit
  BY DEF Free, Unit
<1>4. units' \in [Units -> Unit] /\ \A v \in Units \ {u} : units'[v] = units[v]
  BY <1>1, <1>2, <1>3
<1>5. units[u].status # "vendido"
  BY <1>1 DEF Transitions
<1>6. ASSUME units[u].status = "reservado", NEW d \in Deals, NEW x \in deals[d],
             x.deposit = "registrado", x.unit = {u}, units[u].for = {x.client}
      PROVE  x.sold
  <2> SUFFICES ASSUME ~x.sold PROVE FALSE
    OBVIOUS
  <2>1. x.stage # "perdida" /\ x.workflow
    BY <1>6, RowFacts DEF SaleInv, DealsIn
  <2>2. d \in ActiveFor(x.client, u)
    BY <1>6, <2>1 DEF ActiveFor, Mutable
  <2> QED BY <1>1, <1>6, <2>1, <2>2 DEF Releasable
<1> QED BY <1>1, <1>4, <1>5, <1>6, UnitsKeep

\* A reservation that expires stays with its client.
LEMMA ExpireKeeps ==
  ASSUME SaleInv, NEW u \in Units, Expire(u)
  PROVE  SaleInv'
<1>1. units \in [Units -> Unit]
  BY DEF SaleInv, SalesIn
<1>2. units' = [units EXCEPT ![u].expired = TRUE] /\ UNCHANGED <<deals, quoteOrder, unitSales, answers, dealLedger>>
  BY DEF Expire
<1>3. [units[u] EXCEPT !.expired = TRUE] \in Unit
  BY <1>1 DEF Unit
<1>4. units' = [units EXCEPT ![u] = [units[u] EXCEPT !.expired = TRUE]]
  BY <1>2
<1>5. units' \in [Units -> Unit] /\ \A v \in Units : units'[v].status = units[v].status /\ units'[v].for = units[v].for
  BY <1>1, <1>3, <1>4 DEF Unit
<1> QED BY <1>2, <1>5, UnitsKeep

\* A delivery changes nothing of what was sold or paid.
LEMMA DeliverKeeps ==
  ASSUME SaleInv, NEW d \in Deals, Deliver(d)
  PROVE  SaleInv'
<1>a. PICK x \in deals[d] : \E u \in x.unit : \E s \in unitSales[u] :
        /\ ~s.delivered
        /\ unitSales' = [unitSales EXCEPT ![u] = {[s EXCEPT !.delivered = TRUE,
             !.warranties = IF x.workflow THEN @ + 1 ELSE @]}]
        /\ UNCHANGED <<units, deals, quoteOrder, answers, dealLedger>>
  BY DEF Deliver, Deliverable
<1>b. PICK u \in x.unit : \E s \in unitSales[u] :
        /\ ~s.delivered
        /\ unitSales' = [unitSales EXCEPT ![u] = {[s EXCEPT !.delivered = TRUE,
             !.warranties = IF x.workflow THEN @ + 1 ELSE @]}]
        /\ UNCHANGED <<units, deals, quoteOrder, answers, dealLedger>>
  BY <1>a
<1>1. PICK s \in unitSales[u] :
        /\ ~s.delivered
        /\ unitSales' = [unitSales EXCEPT ![u] = {[s EXCEPT !.delivered = TRUE,
             !.warranties = IF x.workflow THEN @ + 1 ELSE @]}]
        /\ UNCHANGED <<units, deals, quoteOrder, answers, dealLedger>>
  BY <1>b
<1> DEFINE t == [s EXCEPT !.delivered = TRUE, !.warranties = IF x.workflow THEN @ + 1 ELSE @]
<1>2. u \in Units
  BY RowFacts DEF DealRow
<1>3. SalesIn(units, unitSales) /\ s \in SaleRow /\ s.warranties <= 1
  BY <1>1, <1>2 DEF SaleInv, SalesIn
<1>4. (IF x.workflow THEN s.warranties + 1 ELSE s.warranties) \in 0..2
  BY <1>3 DEF SaleRow
<1>5. t \in SaleRow /\ t.quote = s.quote /\ t.type = s.type /\ t.delivered
  BY <1>3, <1>4 DEF SaleRow
<1>6. unitSales' = [unitSales EXCEPT ![u] = {t}]
  BY <1>1
<1> HIDE DEF t
<1>7. unitSales' \in [Units -> SUBSET SaleRow] /\ unitSales'[u] = {t} /\ \A v \in Units \ {u} : unitSales'[v] = unitSales[v]
  BY <1>2, <1>3, <1>5, <1>6 DEF SalesIn
<1>8. SalesIn(units, unitSales')
  BY <1>3, <1>5, <1>7 DEF SalesIn
<1>9. unitSales[u] = {s}
  BY <1>1, <1>2, <1>3 DEF SalesIn
<1>10. \A e, w : PaidIn(unitSales', e, w) = PaidIn(unitSales, e, w)
  BY <1>2, <1>5, <1>7, <1>9 DEF PaidIn
<1>11. ASSUME NEW e \in Deals, deals[e] = {}, NEW v \in Units, NEW z \in unitSales'[v]
       PROVE  z.quote # {e}
  <2>1. \A y \in unitSales[v] : y.quote # {e}
    BY <1>11 DEF SaleInv, EarnedIn
  <2> QED BY <1>5, <1>7, <1>9, <1>11, <2>1
<1>12. EarnedIn(deals, unitSales, dealLedger)
  BY DEF SaleInv
<1>13. \A e, z : KeptIn(unitSales', e, z) = KeptIn(unitSales, e, z)
  BY <1>10 DEF KeptIn
<1>14. EarnedIn(deals, unitSales', dealLedger)
  BY <1>10, <1>11, <1>12, <1>13 DEF EarnedIn
<1> QED BY <1>1, <1>8, <1>14 DEF SaleInv

-----------------------------------------------------------------------------
(* New deals, and the deal a reservation or a sale joins *)

\* The rows of deals with one of them replaced by a row y that took no deposit yet, or is the same row
\* as to the money, and that is for the unit us.
Joins(y, d, D) ==
  \/ D[d] = {} /\ y.deposit = "none" /\ y.financing = "none"
  \/ \E x \in D[d] :
       /\ y.client = x.client /\ y.workflow = x.workflow /\ y.deposit = x.deposit /\ y.stage = x.stage
       /\ y.financing = x.financing /\ y.request = x.request /\ ~x.sold
       /\ y.unit = x.unit \/ x.unit = {}

\* The deal joined keeps what it held, earned and was answered.
LEMMA JoinKeeps ==
  ASSUME SaleInv, NEW d \in Deals, NEW y \in DealRow, Joins(y, d, deals), ~y.sold,
         \A u, v \in y.unit : u = v, \A u \in y.unit : units[u].status # "vendido",
         NEW D, D = [deals EXCEPT ![d] = {y}]
  PROVE  /\ DealsIn(D) /\ HeldIn(D, units) /\ OneDepositIn(D)
         /\ EarnedIn(D, unitSales, dealLedger) /\ DecidedIn(D, answers)
<1>1. /\ DealsIn(deals) /\ HeldIn(deals, units) /\ OneDepositIn(deals)
      /\ EarnedIn(deals, unitSales, dealLedger) /\ DecidedIn(deals, answers) /\ SalesIn(units, unitSales)
  BY DEF SaleInv
<1>2. /\ D \in [Deals -> SUBSET DealRow] /\ D[d] = {y} /\ \A e \in Deals \ {d} : D[e] = deals[e]
  BY <1>1 DEF DealsIn
<1>3. y.deposit # "none" => y.workflow
  BY <1>1 DEF DealsIn, Joins
<1>4. DealsIn(D)
  BY <1>1, <1>2, <1>3 DEF DealsIn
<1>5. ASSUME NEW e \in Deals \ {d}, NEW x \in deals[e], NEW u
      PROVE  SoldByAnother(deals, e, x, u) => SoldByAnother(D, e, x, u)
  <2> SUFFICES ASSUME NEW f \in Deals \ {e}, NEW z \in deals[f], z.sold, z.client = x.client, z.unit = {u}
               PROVE  SoldByAnother(D, e, x, u)
    BY DEF SoldByAnother
  <2>1. f # d
    BY <1>1 DEF Joins, DealsIn
  <2> QED BY <1>2, <2>1 DEF SoldByAnother
<1>6. ASSUME y.deposit = "registrado"
      PROVE  /\ y.stage # "perdida" /\ \E u \in Units : y.unit = {u} /\ HeldFor(D, units, d, y, u)
             /\ \E x \in deals[d] : x.deposit = "registrado" /\ ~x.sold /\ x.unit = y.unit
  <2>1. PICK x \in deals[d] : /\ y.client = x.client /\ y.deposit = x.deposit /\ y.stage = x.stage /\ ~x.sold
                              /\ y.unit = x.unit \/ x.unit = {}
    BY <1>6 DEF Joins
  <2>2. PICK u \in Units : x.unit = {u} /\ HeldFor(deals, units, d, x, u) /\ x.stage # "perdida"
    BY <1>1, <1>6, <2>1 DEF HeldIn
  <2>3. y.unit = {u} /\ units[u].status = "reservado" /\ units[u].for = {x.client}
    BY <2>1, <2>2 DEF HeldFor
  <2> QED BY <1>6, <2>1, <2>2, <2>3 DEF HeldFor
<1>7. HeldIn(D, units)
  <2> SUFFICES ASSUME NEW e \in Deals, NEW x \in D[e], x.deposit = "registrado"
               PROVE  x.stage # "perdida" /\ \E u \in Units : x.unit = {u} /\ HeldFor(D, units, e, x, u)
    BY DEF HeldIn
  <2>1. CASE e = d
    BY <1>2, <1>6, <2>1
  <2>2. CASE e # d
    <3>1. x \in deals[e]
      BY <1>2, <2>2
    <3>2. x.stage # "perdida" /\ \E u \in Units : x.unit = {u} /\ HeldFor(deals, units, e, x, u)
      BY <1>1, <3>1 DEF HeldIn
    <3> QED BY <1>5, <2>2, <3>1, <3>2 DEF HeldFor
  <2> QED BY <2>1, <2>2
<1>8. OneDepositIn(D)
  <2>1. ASSUME NEW e \in Deals, NEW x \in D[e], x.deposit = "registrado", ~x.sold
        PROVE  \E z \in deals[e] : z.deposit = "registrado" /\ ~z.sold /\ z.unit = x.unit
    BY <1>2, <1>6, <2>1
  <2> QED BY <1>1, <2>1 DEF OneDepositIn
<1>9. ASSUME NEW x \in deals[d], y.deposit = x.deposit, y.workflow = x.workflow, y.unit = x.unit \/ x.unit = {}
      PROVE  /\ KeptIn(unitSales, d, y) = KeptIn(unitSales, d, x)
             /\ y.unit \intersect PaidIn(unitSales, d, y.workflow) # {} => y.deposit # "devuelto"
  <2>1. CASE y.unit = x.unit
    BY <1>1, <1>9, <2>1 DEF KeptIn, EarnedIn
  <2>2. CASE x.unit = {}
    <3>1. y.unit \intersect PaidIn(unitSales, d, y.workflow) = {}
      BY <1>1 DEF PaidIn, SalesIn
    <3> QED BY <1>9, <2>2, <3>1 DEF KeptIn
  <2> QED BY <1>9, <2>1, <2>2
<1>10. ASSUME deals[d] = {}, y.deposit = "none"
       PROVE  /\ dealLedger[d] = UnitPrice * Cardinality(PaidIn(unitSales, d, y.workflow)) + KeptIn(unitSales, d, y)
              /\ y.unit \intersect PaidIn(unitSales, d, y.workflow) # {} => y.deposit # "devuelto"
  <2>1. dealLedger[d] = 0 /\ PaidIn(unitSales, d, y.workflow) = {}
    BY <1>1, <1>10 DEF EarnedIn, PaidIn
  <2>2. KeptIn(unitSales, d, y) = 0
    BY <1>10, <2>1 DEF KeptIn
  <2> QED BY <1>10, <2>1, <2>2, Numbers, FS_EmptySet
<1>11. /\ dealLedger[d] = UnitPrice * Cardinality(PaidIn(unitSales, d, y.workflow)) + KeptIn(unitSales, d, y)
       /\ y.unit \intersect PaidIn(unitSales, d, y.workflow) # {} => y.deposit # "devuelto"
  <2>1. CASE deals[d] = {}
    BY <1>10, <2>1 DEF Joins
  <2>2. CASE deals[d] # {}
    <3>1. PICK x \in deals[d] : y.deposit = x.deposit /\ y.workflow = x.workflow /\ (y.unit = x.unit \/ x.unit = {})
      BY <2>2 DEF Joins
    <3>2. dealLedger[d] = UnitPrice * Cardinality(PaidIn(unitSales, d, x.workflow)) + KeptIn(unitSales, d, x)
      BY <1>1 DEF EarnedIn
    <3> QED BY <1>9, <3>1, <3>2
  <2> QED BY <2>1, <2>2
<1>12. EarnedIn(D, unitSales, dealLedger)
  BY <1>1, <1>2, <1>11 DEF EarnedIn
<1>13. Decided(answers, d, y)
  BY <1>1 DEF DecidedIn, Decided, Joins
<1>14. DecidedIn(D, answers)
  BY <1>1, <1>2, <1>13 DEF DecidedIn
<1> QED BY <1>4, <1>7, <1>8, <1>12, <1>14

\* A new deal holds and earned nothing.
LEMMA ProspectKeeps ==
  ASSUME SaleInv, NEW c \in Buyers, Prospect(c)
  PROVE  SaleInv'
<1>1. PICK d \in FreshDeals :
        /\ deals' = [deals EXCEPT ![d] = {NewDeal(c, {}, TRUE)}]
        /\ UNCHANGED <<units, quoteOrder, unitSales, answers, dealLedger>>
  BY DEF Prospect, SetDeal
<1> DEFINE nowhere == {}
           y == NewDeal(c, nowhere, TRUE)
<1>a. nowhere \in SUBSET Units /\ nowhere = {} /\ TRUE \in BOOLEAN
  OBVIOUS
<1> HIDE DEF nowhere
<1>2. y \in DealRow /\ y.unit = {} /\ ~y.sold /\ y.deposit = "none" /\ y.financing = "none"
  BY <1>a, Numbers DEF NewDeal, DealRow, SaleTypes
<1>3. d \in Deals /\ deals[d] = {}
  BY DEF FreshDeals
<1>4. deals' = [deals EXCEPT ![d] = {y}]
  BY <1>1, <1>a
<1> HIDE DEF y
<1>5. Joins(y, d, deals)
  BY <1>2, <1>3 DEF Joins
<1>6. /\ DealsIn(deals') /\ HeldIn(deals', units) /\ OneDepositIn(deals')
      /\ EarnedIn(deals', unitSales, dealLedger) /\ DecidedIn(deals', answers)
  BY <1>2, <1>3, <1>4, <1>5, JoinKeeps
<1> QED BY <1>1, <1>6 DEF SaleInv

\* The row the joined deal gets.
LEMMA JoinedRowIs ==
  ASSUME SaleInv, NEW c \in Buyers, NEW u \in Units, NEW j \in Joined(c, u)
  PROVE  /\ j \in Deals /\ (ActiveFor(c, u) # {} => j \in ActiveFor(c, u))
         /\ \E y \in DealRow : /\ JoinedRow(j, c, u) = {y} /\ Joins(y, j, deals)
                               /\ ~y.sold /\ y.client = c /\ y.unit = {u} /\ y.stage # "perdida"
                               /\ \A x \in deals[j] : x.unit = {u} => y = x
<1> DEFINE loose == {d \in Deals : \E x \in deals[d] : x.client = c /\ x.unit = {} /\ Mutable(x)}
<1>1. DealsIn(deals)
  BY DEF SaleInv
<1>2. \/ j \in ActiveFor(c, u)
      \/ ActiveFor(c, u) = {} /\ j \in loose
      \/ ActiveFor(c, u) = {} /\ j \in FreshDeals
  BY DEF Joined, Newest
<1>3. CASE j \in ActiveFor(c, u) \/ j \in loose
  <2>1. PICK x \in deals[j] : x.client = c /\ (x.unit = {u} \/ x.unit = {}) /\ Mutable(x)
    BY <1>3 DEF ActiveFor
  <2>2. j \in Deals /\ x \in DealRow /\ deals[j] = {x}
    BY <1>1, <1>3, <2>1 DEF ActiveFor, DealsIn
  <2> DEFINE y == [x EXCEPT !.unit = {u}]
  <2>3. /\ y \in DealRow /\ y.client = x.client /\ y.workflow = x.workflow /\ y.deposit = x.deposit /\ y.stage = x.stage
        /\ y.financing = x.financing /\ y.request = x.request /\ y.sold = x.sold /\ y.unit = {u}
        /\ x.unit = {u} => y = x
    BY <2>2 DEF DealRow
  <2>4. JoinedRow(j, c, u) = {y}
    BY <2>2 DEF JoinedRow
  <2> HIDE DEF y
  <2>5. Joins(y, j, deals)
    BY <2>1, <2>3 DEF Joins, Mutable
  <2>6. y.stage # "perdida" /\ ~y.sold /\ y.client = c
    BY <2>1, <2>3 DEF Mutable
  <2> QED BY <1>2, <2>2, <2>3, <2>4, <2>5, <2>6
<1>4. CASE j \in FreshDeals /\ ActiveFor(c, u) = {}
  <2> DEFINE y == NewDeal(c, {u}, FALSE)
  <2>1. j \in Deals /\ deals[j] = {}
    BY <1>4 DEF FreshDeals
  <2>2. JoinedRow(j, c, u) = {y}
    BY <2>1 DEF JoinedRow
  <2>a. {u} \in SUBSET Units /\ FALSE \in BOOLEAN
    OBVIOUS
  <2>3. y \in DealRow /\ y.unit = {u} /\ ~y.sold /\ y.client = c /\ y.deposit = "none" /\ y.financing = "none" /\ y.stage = "prospecto"
    BY <2>a, Numbers DEF NewDeal, DealRow, SaleTypes
  <2> HIDE DEF y
  <2>4. Joins(y, j, deals)
    BY <2>1, <2>3 DEF Joins
  <2> QED BY <1>4, <2>1, <2>2, <2>3, <2>4
<1> QED BY <1>2, <1>3, <1>4

-----------------------------------------------------------------------------
(* Reservations, their cancellation and sales *)

\* A unit that was not reserved nor sold is not held, so it may become anything.
LEMMA FreeUnitHeld ==
  ASSUME NEW D, NEW U, NEW V, NEW u \in Units, HeldIn(D, U), U[u].status \notin {"reservado", "vendido"},
         \A v \in Units \ {u} : V[v] = U[v]
  PROVE  HeldIn(D, V) /\ \A d \in Deals : \A x \in D[d] : x.deposit = "registrado" /\ x.unit = {u} => x.sold
<1>1. ASSUME NEW d \in Deals, NEW x \in D[d], x.deposit = "registrado"
      PROVE  /\ x.stage # "perdida" /\ \E v \in Units : x.unit = {v} /\ HeldFor(D, V, d, x, v)
             /\ x.unit = {u} => x.sold
  <2>1. PICK v \in Units : x.unit = {v} /\ HeldFor(D, U, d, x, v) /\ x.stage # "perdida"
    BY <1>1 DEF HeldIn
  <2>2. CASE v = u
    <3>1. x.sold
      BY <2>1, <2>2 DEF HeldFor
    <3> QED BY <2>1, <3>1 DEF HeldFor
  <2>3. CASE v # u
    <3>1. HeldFor(D, V, d, x, v)
      BY <2>1, <2>3 DEF HeldFor
    <3> QED BY <2>1, <2>3, <3>1
  <2> QED BY <2>2, <2>3
<1> QED BY <1>1 DEF HeldIn

\* A deposit is taken for a unit that nobody held, which then is held for its client.
LEMMA DepositTaken ==
  ASSUME SaleInv, NEW d \in Deals, NEW x \in deals[d], NEW u \in Units, NEW y \in DealRow,
         x.workflow, x.deposit = "none", x.unit = {u}, ~x.sold, x.stage # "perdida",
         units[u].status \notin {"reservado", "vendido"},
         \A v \in Units \ {u} : units'[v] = units[v], units'[u].status = "reservado", units'[u].for = {x.client},
         y.client = x.client, y.workflow, y.deposit = "registrado", y.stage = x.stage, y.unit = {u}, ~y.sold,
         y.financing = x.financing, y.request = x.request,
         dealLedger' \in [Deals -> Int], dealLedger'[d] = dealLedger[d] + Deposit, \A e \in Deals \ {d} : dealLedger'[e] = dealLedger[e],
         deals' = [deals EXCEPT ![d] = {y}]
  PROVE  DealsIn(deals') /\ HeldIn(deals', units') /\ OneDepositIn(deals') /\ EarnedIn(deals', unitSales, dealLedger') /\ DecidedIn(deals', answers)
<1>1. /\ DealsIn(deals) /\ HeldIn(deals, units) /\ OneDepositIn(deals)
      /\ EarnedIn(deals, unitSales, dealLedger) /\ DecidedIn(deals, answers) /\ SalesIn(units, unitSales)
  BY DEF SaleInv
<1>2. deals' \in [Deals -> SUBSET DealRow] /\ deals'[d] = {y} /\ \A e \in Deals \ {d} : deals'[e] = deals[e]
  BY <1>1 DEF DealsIn
<1>3. deals[d] = {x}
  BY <1>1 DEF DealsIn
<1>4. DealsIn(deals')
  BY <1>1, <1>2 DEF DealsIn
<1>5. HeldIn(deals, units') /\ \A e \in Deals : \A z \in deals[e] : z.deposit = "registrado" /\ z.unit = {u} => z.sold
  <2> HIDE DEF SaleInv
  <2> QED BY <1>1, FreeUnitHeld
<1>6. ASSUME NEW e \in Deals \ {d}, NEW z \in deals[e], NEW v
      PROVE  SoldByAnother(deals, e, z, v) => SoldByAnother(deals', e, z, v)
  BY <1>2, <1>3 DEF SoldByAnother
<1>7. HeldIn(deals', units')
  <2> SUFFICES ASSUME NEW e \in Deals, NEW z \in deals'[e], z.deposit = "registrado"
               PROVE  z.stage # "perdida" /\ \E v \in Units : z.unit = {v} /\ HeldFor(deals', units', e, z, v)
    BY DEF HeldIn
  <2>1. CASE e = d
    <3>1. z = y
      BY <1>2, <2>1
    <3> QED BY <3>1 DEF HeldFor
  <2>2. CASE e # d
    <3>1. z \in deals[e]
      BY <1>2, <2>2
    <3>2. PICK v \in Units : z.unit = {v} /\ HeldFor(deals, units', e, z, v) /\ z.stage # "perdida"
      BY <1>5, <3>1 DEF HeldIn
    <3> QED BY <1>6, <2>2, <3>1, <3>2 DEF HeldFor
  <2> QED BY <2>1, <2>2
<1>8. OneDepositIn(deals')
  <2> SUFFICES ASSUME NEW e \in Deals, NEW f \in Deals, NEW p \in deals'[e], NEW q \in deals'[f],
                      p.deposit = "registrado", q.deposit = "registrado", ~p.sold, ~q.sold, p.unit = q.unit, e # f
               PROVE  FALSE
    BY DEF OneDepositIn
  <2>1. CASE e = d \/ f = d
    BY <1>2, <1>5, <2>1
  <2>2. CASE e # d /\ f # d
    BY <1>1, <1>2, <2>2 DEF OneDepositIn
  <2> QED BY <2>1, <2>2
<1>9. PaidIn(unitSales, d, y.workflow) = PaidIn(unitSales, d, x.workflow) /\ u \notin PaidIn(unitSales, d, x.workflow)
  BY <1>1 DEF PaidIn, SalesIn
<1>10. KeptIn(unitSales, d, y) = Deposit /\ KeptIn(unitSales, d, x) = 0
  BY <1>9 DEF KeptIn
<1> DEFINE n == Cardinality(PaidIn(unitSales, d, x.workflow))
<1>11. n \in Nat
  <2>1. PaidIn(unitSales, d, x.workflow) \subseteq Units /\ IsFiniteSet(Units)
    BY VehicleSaleAssumption DEF PaidIn
  <2> QED BY <2>1, FS_Subset, FS_CardinalityType
<1>12. n = Cardinality(PaidIn(unitSales, d, y.workflow)) /\ dealLedger[d] = UnitPrice * n + KeptIn(unitSales, d, x)
  BY <1>1, <1>9 DEF EarnedIn
<1> HIDE DEF n
<1>a. UnitPrice * n \in Int
  BY <1>11, Numbers
<1> DEFINE earned == UnitPrice * n
<1>b. earned \in Int /\ dealLedger[d] = earned + 0 /\ dealLedger'[d] = dealLedger[d] + Deposit
  BY <1>10, <1>12, <1>a
<1> HIDE DEF earned
<1>c. dealLedger'[d] = earned + Deposit
  BY <1>b, Numbers
<1>13. dealLedger'[d] = UnitPrice * Cardinality(PaidIn(unitSales, d, y.workflow)) + KeptIn(unitSales, d, y)
  BY <1>10, <1>12, <1>c DEF earned
<1>14. EarnedIn(deals', unitSales, dealLedger')
  <2>1. ASSUME NEW e \in Deals, deals'[e] = {}
        PROVE  dealLedger'[e] = 0 /\ \A v \in Units : \A s \in unitSales[v] : s.quote # {e}
    <3>1. e # d /\ deals[e] = {}
      BY <1>2, <2>1
    <3> QED BY <1>1, <3>1 DEF EarnedIn
  <2>2. ASSUME NEW e \in Deals, NEW z \in deals'[e]
        PROVE  /\ dealLedger'[e] = UnitPrice * Cardinality(PaidIn(unitSales, e, z.workflow)) + KeptIn(unitSales, e, z)
               /\ z.unit \intersect PaidIn(unitSales, e, z.workflow) # {} => z.deposit # "devuelto"
    <3>1. CASE e = d
      BY <1>2, <1>13, <3>1
    <3>2. CASE e # d
      <4>1. z \in deals[e] /\ dealLedger'[e] = dealLedger[e]
        BY <1>2, <3>2
      <4> QED BY <1>1, <4>1 DEF EarnedIn
    <3> QED BY <3>1, <3>2
  <2> QED BY <2>1, <2>2 DEF EarnedIn
<1>15. Decided(answers, d, y)
  BY <1>1 DEF DecidedIn, Decided
<1>16. DecidedIn(deals', answers)
  BY <1>1, <1>2, <1>15 DEF DecidedIn
<1> QED BY <1>4, <1>7, <1>8, <1>14, <1>16

\* The quote a reservation looks at is the client's, for the unit, and open.
LEMMA QuoteIsOpen ==
  ASSUME NEW c \in Buyers, NEW u \in Units, NEW q \in QuotesFor(c, u)
  PROVE  q = {} \/ \E d \in ActiveFor(c, u) : q = {d}
BY DEF QuotesFor, Newest

\* A reservation keeps the invariant, with a deposit or without.
LEMMA ReserveKeeps ==
  ASSUME SaleInv, NEW u \in Units, NEW c \in Buyers, Reserve(u, c)
  PROVE  SaleInv'
<1>1. PICK q \in QuotesFor(c, u) :
        /\ "reservado" \in Transitions[units[u].status]
        /\ \A d \in q : \A x \in deals[d] : ~x.lapsed /\ (x.workflow => x.deposit = "none")
        /\ units' = [units EXCEPT ![u] = [status |-> "reservado", for |-> {c}, expired |-> FALSE]]
        /\ \E j \in Joined(c, u) :
             deals' = [d \in Deals |->
               LET rows == IF d = j THEN JoinedRow(d, c, u) ELSE deals[d]
               IN IF d \in q /\ TakesDeposit(q) THEN {[x EXCEPT !.deposit = "registrado"] : x \in rows} ELSE rows]
        /\ dealLedger' = [d \in Deals |-> IF d \in q /\ TakesDeposit(q) THEN dealLedger[d] + Deposit ELSE dealLedger[d]]
        /\ UNCHANGED <<quoteOrder, unitSales, answers>>
  BY DEF Reserve
<1>2. PICK j \in Joined(c, u) :
        deals' = [d \in Deals |->
          LET rows == IF d = j THEN JoinedRow(d, c, u) ELSE deals[d]
          IN IF d \in q /\ TakesDeposit(q) THEN {[x EXCEPT !.deposit = "registrado"] : x \in rows} ELSE rows]
  BY <1>1
<1>3. PICK y \in DealRow : /\ JoinedRow(j, c, u) = {y} /\ Joins(y, j, deals)
                           /\ ~y.sold /\ y.client = c /\ y.unit = {u} /\ y.stage # "perdida"
                           /\ \A x \in deals[j] : x.unit = {u} => y = x
  BY JoinedRowIs
<1>4. j \in Deals /\ (ActiveFor(c, u) # {} => j \in ActiveFor(c, u))
  BY JoinedRowIs
<1>5. DealsIn(deals) /\ SalesIn(units, unitSales) /\ dealLedger \in [Deals -> Int] /\ SaleInv
  BY DEF SaleInv
<1>6. units[u].status = "disponible"
  <2>1. units[u].status \in UnitStatus
    BY <1>5 DEF SalesIn, Unit
  <2> QED BY <1>1, <2>1 DEF Transitions, UnitStatus
<1>7. [status |-> "reservado", for |-> {c}, expired |-> FALSE] \in Unit
  BY DEF Unit, UnitStatus
<1>8. /\ units' \in [Units -> Unit] /\ units'[u].status = "reservado" /\ units'[u].for = {c}
      /\ \A v \in Units \ {u} : units'[v] = units[v]
  BY <1>1, <1>5, <1>7 DEF SalesIn
<1>9. SalesIn(units', unitSales)
  BY <1>5, <1>6, <1>8 DEF SalesIn
<1>10. CASE ~TakesDeposit(q)
  <2>1. dealLedger' = dealLedger
    BY <1>1, <1>5, <1>10
  <2>2. deals' = [deals EXCEPT ![j] = {y}]
    BY <1>2, <1>3, <1>4, <1>5, <1>10 DEF DealsIn
  <2>3. /\ DealsIn(deals') /\ HeldIn(deals', units) /\ OneDepositIn(deals')
        /\ EarnedIn(deals', unitSales, dealLedger) /\ DecidedIn(deals', answers)
    BY <1>3, <1>4, <1>6, <2>2, JoinKeeps
  <2>4. HeldIn(deals', units')
    BY <1>6, <1>8, <2>3, FreeUnitHeld
  <2> QED BY <1>1, <1>9, <2>1, <2>3, <2>4 DEF SaleInv
<1>11. CASE TakesDeposit(q)
  <2>1. PICK d \in ActiveFor(c, u) : q = {d}
    BY <1>11, QuoteIsOpen DEF TakesDeposit
  <2>2. PICK x \in deals[d] : x.client = c /\ x.unit = {u} /\ Mutable(x) /\ d \in Deals
    BY <2>1 DEF ActiveFor
  <2>3. x \in DealRow /\ deals[d] = {x} /\ x.workflow /\ x.deposit = "none"
    BY <1>1, <1>5, <1>11, <2>1, <2>2 DEF DealsIn, TakesDeposit
  <2>4. deals[j] = {y}
    <3>1. PICK w \in deals[j] : w.unit = {u}
      BY <1>4, <2>1 DEF ActiveFor
    <3>2. w = y
      BY <1>3, <3>1
    <3> QED BY <1>4, <1>5, <3>2 DEF DealsIn
  <2> DEFINE z == [x EXCEPT !.deposit = "registrado"]
  <2>5. /\ z \in DealRow /\ z.client = x.client /\ z.workflow = x.workflow /\ z.deposit = "registrado" /\ z.stage = x.stage
        /\ z.sold = x.sold /\ z.unit = x.unit /\ z.financing = x.financing /\ z.request = x.request
    BY <2>3 DEF DealRow
  <2>a. \A e \in Deals : (IF e = j THEN JoinedRow(e, c, u) ELSE deals[e]) = deals[e]
    BY <1>3, <2>4
  <2>b. deals' = [e \in Deals |-> IF e \in q /\ TakesDeposit(q)
                                 THEN {[w EXCEPT !.deposit = "registrado"] : w \in deals[e]} ELSE deals[e]]
    BY <1>2, <2>a
  <2>c. {[w EXCEPT !.deposit = "registrado"] : w \in deals[d]} = {z}
    BY <2>3
  <2> HIDE DEF z
  <2>6. deals' = [deals EXCEPT ![d] = {z}]
    BY <1>5, <1>11, <2>1, <2>2, <2>b, <2>c DEF DealsIn
  <2>7. dealLedger' \in [Deals -> Int] /\ dealLedger'[d] = dealLedger[d] + Deposit
        /\ \A e \in Deals \ {d} : dealLedger'[e] = dealLedger[e]
    BY <1>1, <1>5, <1>11, <2>1, <2>2, Numbers
  <2>8. /\ DealsIn(deals') /\ HeldIn(deals', units') /\ OneDepositIn(deals')
        /\ EarnedIn(deals', unitSales, dealLedger') /\ DecidedIn(deals', answers)
    <3>1. /\ ~x.sold /\ x.stage # "perdida" /\ units[u].status \notin {"reservado", "vendido"}
          /\ units'[u].for = {x.client} /\ z.workflow /\ z.unit = {u} /\ ~z.sold /\ d \in Deals
      BY <1>6, <1>8, <2>2, <2>3, <2>5 DEF Mutable
    <3> HIDE DEF SaleInv
    <3> QED BY <1>5, <1>8, <2>2, <2>3, <2>5, <2>6, <2>7, <3>1, DepositTaken
  <2> QED BY <1>1, <1>5, <1>9, <2>7, <2>8 DEF SaleInv
<1> QED BY <1>10, <1>11

\* A cancelled reservation gives back the deposit but for what is retained.
LEMMA CancelKeeps ==
  ASSUME SaleInv, NEW d \in Deals, CancelReservation(d)
  PROVE  SaleInv'
<1>a. PICK x \in deals[d] : \E u \in x.unit :
        /\ x.workflow /\ Mutable(x) /\ x.deposit = "registrado"
        /\ units[u].status = "reservado" /\ units[u].for = {x.client}
        /\ units' = [units EXCEPT ![u] = Free]
        /\ SetDeal(d, [x EXCEPT !.deposit = "devuelto", !.stage = "perdida"])
        /\ dealLedger' = [dealLedger EXCEPT ![d] = @ - (Deposit - Retained)]
        /\ UNCHANGED <<quoteOrder, unitSales, answers>>
  BY DEF CancelReservation
<1>1. PICK u \in x.unit :
        /\ x.workflow /\ Mutable(x) /\ x.deposit = "registrado"
        /\ units[u].status = "reservado" /\ units[u].for = {x.client}
        /\ units' = [units EXCEPT ![u] = Free]
        /\ SetDeal(d, [x EXCEPT !.deposit = "devuelto", !.stage = "perdida"])
        /\ dealLedger' = [dealLedger EXCEPT ![d] = @ - (Deposit - Retained)]
        /\ UNCHANGED <<quoteOrder, unitSales, answers>>
  BY <1>a
<1>2. /\ DealsIn(deals) /\ HeldIn(deals, units) /\ OneDepositIn(deals)
      /\ EarnedIn(deals, unitSales, dealLedger) /\ DecidedIn(deals, answers) /\ SalesIn(units, unitSales)
      /\ quoteOrder \in Seq(Deals) /\ dealLedger \in [Deals -> Int]
  BY DEF SaleInv
<1>3. x \in DealRow /\ deals[d] = {x} /\ u \in Units /\ x.unit = {u}
  <2>1. x \in DealRow /\ deals[d] = {x} /\ \A v, w \in x.unit : v = w
    BY <1>2 DEF DealsIn
  <2> QED BY <2>1 DEF DealRow
<1> DEFINE y == [x EXCEPT !.deposit = "devuelto", !.stage = "perdida"]
<1>4. /\ y \in DealRow /\ y.client = x.client /\ y.workflow = x.workflow /\ y.deposit = "devuelto"
      /\ y.sold = x.sold /\ y.unit = x.unit /\ y.financing = x.financing /\ y.request = x.request
  BY <1>3 DEF DealRow
<1>5. deals' = [deals EXCEPT ![d] = {y}]
  BY <1>1 DEF SetDeal
<1> HIDE DEF y
<1>6. deals' \in [Deals -> SUBSET DealRow] /\ deals'[d] = {y} /\ \A e \in Deals \ {d} : deals'[e] = deals[e]
  BY <1>2, <1>4, <1>5 DEF DealsIn
<1>7. Free \in Unit
  BY DEF Free, Unit, UnitStatus
<1>8. units' \in [Units -> Unit] /\ units'[u] = Free /\ \A v \in Units \ {u} : units'[v] = units[v]
  BY <1>1, <1>2, <1>3, <1>7 DEF SalesIn
<1>9. SalesIn(units', unitSales)
  <2>1. unitSales[u] = {}
    BY <1>1, <1>2, <1>3 DEF SalesIn
  <2> QED BY <1>2, <1>8, <2>1 DEF SalesIn
<1>10. DealsIn(deals')
  <2>1. (\A v, w \in y.unit : v = w) /\ (y.deposit # "none" => y.workflow)
    BY <1>1, <1>3, <1>4
  <2>2. ASSUME NEW e \in Deals, NEW p \in deals'[e], NEW q \in deals'[e]
        PROVE  p = q /\ (\A v, w \in p.unit : v = w) /\ (p.deposit # "none" => p.workflow)
    <3>1. CASE e = d
      BY <1>6, <2>1, <3>1
    <3>2. CASE e # d
      <4>1. p \in deals[e] /\ q \in deals[e]
        BY <1>6, <3>2
      <4> QED BY <1>2, <4>1 DEF DealsIn
    <3> QED BY <3>1, <3>2
  <2> QED BY <1>6, <2>2 DEF DealsIn
<1>11. HeldIn(deals', units')
  <2> SUFFICES ASSUME NEW e \in Deals, NEW z \in deals'[e], z.deposit = "registrado"
               PROVE  z.stage # "perdida" /\ \E v \in Units : z.unit = {v} /\ HeldFor(deals', units', e, z, v)
    BY DEF HeldIn
  <2>1. e # d /\ z \in deals[e]
    BY <1>4, <1>6
  <2>2. PICK v \in Units : z.unit = {v} /\ HeldFor(deals, units, e, z, v) /\ z.stage # "perdida"
    BY <1>2, <2>1 DEF HeldIn
  <2>3. CASE v = u
    <3>1. z.sold
      BY <1>1, <1>2, <1>3, <2>1, <2>2, <2>3 DEF OneDepositIn, Mutable
    <3> QED BY <2>2, <3>1 DEF HeldFor
  <2>4. CASE v # u
    <3>1. SoldByAnother(deals, e, z, v) => SoldByAnother(deals', e, z, v)
      BY <1>1, <1>3, <1>6 DEF SoldByAnother, Mutable
    <3>2. HeldFor(deals', units', e, z, v)
      BY <1>8, <2>2, <2>4, <3>1 DEF HeldFor
    <3> QED BY <2>2, <3>2
  <2> QED BY <2>3, <2>4
<1>12. OneDepositIn(deals')
  <2>1. ASSUME NEW e \in Deals, NEW z \in deals'[e], z.deposit = "registrado"
        PROVE  z \in deals[e]
    BY <1>4, <1>6, <2>1
  <2> QED BY <1>2, <2>1 DEF OneDepositIn
<1> DEFINE n == Cardinality(PaidIn(unitSales, d, x.workflow))
<1>13. KeptIn(unitSales, d, x) = Deposit /\ KeptIn(unitSales, d, y) = Retained
       /\ y.unit \intersect PaidIn(unitSales, d, y.workflow) = {}
  <2>1. u \notin PaidIn(unitSales, d, x.workflow)
    BY <1>1, <1>2, <1>3 DEF PaidIn, SalesIn
  <2> QED BY <1>1, <1>3, <1>4, <2>1 DEF KeptIn
<1>14. n = Cardinality(PaidIn(unitSales, d, y.workflow)) /\ dealLedger[d] = UnitPrice * n + Deposit
  BY <1>2, <1>4, <1>13 DEF EarnedIn
<1>15. n \in Nat
  <2>1. PaidIn(unitSales, d, x.workflow) \subseteq Units /\ IsFiniteSet(Units)
    BY VehicleSaleAssumption DEF PaidIn
  <2> QED BY <2>1, FS_Subset, FS_CardinalityType
<1> HIDE DEF n
<1>16. UnitPrice * n \in Int
  BY <1>15, Numbers
<1> DEFINE earned == UnitPrice * n
<1>17. earned \in Int /\ dealLedger[d] = earned + Deposit /\ dealLedger'[d] = dealLedger[d] - (Deposit - Retained)
       /\ dealLedger' \in [Deals -> Int] /\ \A e \in Deals \ {d} : dealLedger'[e] = dealLedger[e]
  BY <1>1, <1>2, <1>14, <1>16, Numbers, RetainedInt
<1> HIDE DEF earned
<1>18. dealLedger'[d] = earned + Retained
  BY <1>17, Numbers, RetainedInt
<1>19. dealLedger'[d] = UnitPrice * Cardinality(PaidIn(unitSales, d, y.workflow)) + KeptIn(unitSales, d, y)
  BY <1>13, <1>14, <1>18 DEF earned
<1>20. EarnedIn(deals', unitSales, dealLedger')
  <2>1. ASSUME NEW e \in Deals, deals'[e] = {}
        PROVE  dealLedger'[e] = 0 /\ \A v \in Units : \A s \in unitSales[v] : s.quote # {e}
    <3>1. e # d /\ deals[e] = {}
      BY <1>6, <2>1
    <3> QED BY <1>2, <1>17, <3>1 DEF EarnedIn
  <2>2. ASSUME NEW e \in Deals, NEW z \in deals'[e]
        PROVE  /\ dealLedger'[e] = UnitPrice * Cardinality(PaidIn(unitSales, e, z.workflow)) + KeptIn(unitSales, e, z)
               /\ z.unit \intersect PaidIn(unitSales, e, z.workflow) # {} => z.deposit # "devuelto"
    <3>1. CASE e = d
      BY <1>6, <1>13, <1>19, <3>1
    <3>2. CASE e # d
      <4>1. z \in deals[e] /\ dealLedger'[e] = dealLedger[e]
        BY <1>6, <1>17, <3>2
      <4> QED BY <1>2, <4>1 DEF EarnedIn
    <3> QED BY <3>1, <3>2
  <2> QED BY <2>1, <2>2 DEF EarnedIn
<1>21. Decided(answers, d, y)
  BY <1>2, <1>4 DEF DecidedIn, Decided
<1>22. DecidedIn(deals', answers)
  BY <1>2, <1>6, <1>21 DEF DecidedIn
<1> QED BY <1>1, <1>2, <1>9, <1>10, <1>11, <1>12, <1>17, <1>20, <1>22 DEF SaleInv

-----------------------------------------------------------------------------
(* Sales *)

\* How many units a deal's quote was paid for, and with one more.
LEMMA PaidNumber ==
  ASSUME NEW S, NEW e, NEW w, NEW u
  PROVE  /\ Cardinality(PaidIn(S, e, w)) \in Nat
         /\ u \notin PaidIn(S, e, w) =>
              Cardinality(PaidIn(S, e, w) \union {u}) = Cardinality(PaidIn(S, e, w)) + 1
<1>1. PaidIn(S, e, w) \subseteq Units /\ IsFiniteSet(Units)
  BY VehicleSaleAssumption DEF PaidIn
<1>2. IsFiniteSet(PaidIn(S, e, w))
  BY <1>1, FS_Subset
<1> QED BY <1>2, FS_CardinalityType, FS_AddElement

\* What the sale of its unit with its quote brings a deal.
LEMMA SaleEarns ==
  ASSUME NEW u \in Units, NEW s, unitSales[u] = {}, unitSales'[u] = {s}, \A v \in Units \ {u} : unitSales'[v] = unitSales[v],
         NEW e \in Deals, NEW x \in DealRow, NEW before \in Int,
         s.quote = {e}, x.unit = {u}, x.quote = s.type, s.type \in SaleTypes,
         x.deposit # "none" => x.workflow, x.workflow => x.deposit # "devuelto",
         before = UnitPrice * Cardinality(PaidIn(unitSales, e, x.workflow)) + KeptIn(unitSales, e, x)
  PROVE  before + SaleReceipts(x) = UnitPrice * Cardinality(PaidIn(unitSales', e, x.workflow)) + KeptIn(unitSales', e, x)
<1> DEFINE n == Cardinality(PaidIn(unitSales, e, x.workflow))
           m == Cardinality(PaidIn(unitSales', e, x.workflow))
<1>1. x.workflow \in BOOLEAN /\ x.deposit \in {"none", "registrado"}
  BY DepositOf DEF DealRow
<1>2. /\ u \notin PaidIn(unitSales, e, x.workflow) /\ n \in Nat
      /\ s.type = "contado" \/ ~x.workflow => PaidIn(unitSales', e, x.workflow) = PaidIn(unitSales, e, x.workflow) \union {u}
      /\ ~(s.type = "contado" \/ ~x.workflow) => PaidIn(unitSales', e, x.workflow) = PaidIn(unitSales, e, x.workflow)
  <2> DEFINE w == x.workflow
  <2>1. w \in BOOLEAN
    BY <1>1
  <2> HIDE DEF w
  <2>2. /\ u \notin PaidIn(unitSales, e, w)
        /\ s.type = "contado" \/ ~w => PaidIn(unitSales', e, w) = PaidIn(unitSales, e, w) \union {u}
        /\ ~(s.type = "contado" \/ ~w) => PaidIn(unitSales', e, w) = PaidIn(unitSales, e, w)
    BY <2>1 DEF PaidIn
  <2>3. Cardinality(PaidIn(unitSales, e, w)) \in Nat
    BY PaidNumber
  <2> QED BY <2>2, <2>3 DEF w
<1>3. KeptIn(unitSales, e, x) = IF x.deposit = "registrado" THEN Deposit ELSE 0
  BY <1>1, <1>2 DEF KeptIn
<1>4. CASE s.type = "contado" \/ ~x.workflow
  <2>1. m = n + 1
    BY <1>2, <1>4, PaidNumber
  <2>2. KeptIn(unitSales', e, x) = 0
    BY <1>2, <1>4 DEF KeptIn
  <2>3. SaleReceipts(x) = UnitPrice - KeptIn(unitSales, e, x)
    <3>1. CASE ~x.workflow
      BY <1>1, <1>3, <3>1, Numbers DEF SaleReceipts
    <3>2. CASE x.workflow
      BY <1>1, <1>3, <1>4, <3>2 DEF SaleReceipts, BalanceDue
    <3> QED BY <3>1, <3>2
  <2> HIDE DEF n, m
  <2>4. UnitPrice * (n + 1) = UnitPrice * n + UnitPrice /\ UnitPrice * n \in Int
    BY <1>2, Numbers
  <2> DEFINE earned == UnitPrice * n
  <2>5. before = earned + KeptIn(unitSales, e, x) /\ earned \in Int /\ UnitPrice * m = earned + UnitPrice
    BY <2>1, <2>4 DEF n
  <2>6. KeptIn(unitSales, e, x) \in Int
    BY <1>3, Numbers
  <2> HIDE DEF earned
  <2>7. before + SaleReceipts(x) = earned + UnitPrice + KeptIn(unitSales', e, x)
    BY <2>2, <2>3, <2>5, <2>6, Numbers
  <2> QED BY <2>2, <2>5, <2>7, Numbers DEF m
<1>5. CASE ~(s.type = "contado" \/ ~x.workflow)
  <2>1. SaleReceipts(x) = 0
    BY <1>1, <1>5 DEF SaleReceipts, SaleTypes
  <2>2. KeptIn(unitSales', e, x) = KeptIn(unitSales, e, x) /\ PaidIn(unitSales', e, x.workflow) = PaidIn(unitSales, e, x.workflow)
    BY <1>2, <1>5 DEF KeptIn
  <2> QED BY <2>1, <2>2
<1> QED BY <1>4, <1>5

\* What a sale collects is a number.
LEMMA ReceiptsInt ==
  ASSUME NEW x \in DealRow, x.quote \in SaleTypes
  PROVE  SaleReceipts(x) \in Int
<1>1. UnitPrice \in Int /\ Deposit \in Int
  BY Numbers
<1>2. x.workflow \in BOOLEAN /\ x.quote \in {"contado", "financiado"}
  BY DEF DealRow, SaleTypes
<1> QED BY <1>1, <1>2 DEF SaleReceipts, BalanceDue

\* What every sale does: the deal j, whose row is y in the deals D, is sold.
LEMMA SoldHeld ==
  ASSUME NEW D, NEW j \in Deals, NEW y \in DealRow, NEW z \in DealRow, NEW u \in Units,
         DealsIn(D), HeldIn(D, units), OneDepositIn(D), DecidedIn(D, answers), D[j] = {y},
         deals' = [D EXCEPT ![j] = {z}], y.unit = {u},
         z.client = y.client, z.workflow = y.workflow, z.unit = y.unit, z.deposit = y.deposit, z.stage = y.stage,
         z.financing = y.financing, z.request = y.request, z.sold,
         units[u].status # "vendido", units[u].status = "reservado" => units[u].for = {y.client},
         units'[u].status = "vendido", \A v \in Units \ {u} : units'[v] = units[v]
  PROVE  DealsIn(deals') /\ HeldIn(deals', units') /\ OneDepositIn(deals') /\ DecidedIn(deals', answers)
<1>1. deals' \in [Deals -> SUBSET DealRow] /\ deals'[j] = {z} /\ \A e \in Deals \ {j} : deals'[e] = D[e]
  BY DEF DealsIn
<1>2. DealsIn(deals')
  <2>1. (\A v, w \in z.unit : v = w) /\ (z.deposit # "none" => z.workflow)
    BY DEF DealsIn
  <2>2. ASSUME NEW e \in Deals, NEW p \in deals'[e], NEW q \in deals'[e]
        PROVE  p = q /\ (\A v, w \in p.unit : v = w) /\ (p.deposit # "none" => p.workflow)
    <3>1. CASE e = j
      BY <1>1, <2>1, <3>1
    <3>2. CASE e # j
      <4>1. p \in D[e] /\ q \in D[e]
        BY <1>1, <3>2
      <4> QED BY <4>1 DEF DealsIn
    <3> QED BY <3>1, <3>2
  <2> QED BY <1>1, <2>2 DEF DealsIn
<1>3. HeldIn(deals', units')
  <2> SUFFICES ASSUME NEW e \in Deals, NEW p \in deals'[e], p.deposit = "registrado"
               PROVE  p.stage # "perdida" /\ \E v \in Units : p.unit = {v} /\ HeldFor(deals', units', e, p, v)
    BY DEF HeldIn
  <2>1. CASE e = j
    <3>1. p = z /\ y.deposit = "registrado" /\ z.unit = {u}
      BY <1>1, <2>1
    <3>2. y.stage # "perdida"
      BY <3>1 DEF HeldIn
    <3> QED BY <3>1, <3>2 DEF HeldFor
  <2>2. CASE e # j
    <3>1. p \in D[e]
      BY <1>1, <2>2
    <3>2. PICK v \in Units : p.unit = {v} /\ HeldFor(D, units, e, p, v) /\ p.stage # "perdida"
      BY <3>1 DEF HeldIn
    <3>3. ASSUME v # u
          PROVE  HeldFor(deals', units', e, p, v)
      <4>1. SoldByAnother(D, e, p, v) => SoldByAnother(deals', e, p, v)
        <5> SUFFICES ASSUME NEW f \in Deals \ {e}, NEW r \in D[f], r.sold, r.client = p.client, r.unit = {v}
                     PROVE  SoldByAnother(deals', e, p, v)
          BY DEF SoldByAnother
        <5>1. r \in deals'[f] \/ (f = j /\ r = y)
          BY <1>1
        <5>2. \E w \in deals'[f] : w.sold /\ w.client = p.client /\ w.unit = {v}
          BY <1>1, <5>1
        <5> QED BY <5>2 DEF SoldByAnother
      <4> QED BY <3>2, <3>3, <4>1 DEF HeldFor
    <3>4. ASSUME v = u
          PROVE  HeldFor(deals', units', e, p, v)
      <4>1. p.sold \/ p.client = y.client
        BY <3>2, <3>4 DEF HeldFor
      <4>2. p.client = y.client => SoldByAnother(deals', e, p, u)
        BY <1>1, <2>2 DEF SoldByAnother
      <4> QED BY <3>4, <4>1, <4>2 DEF HeldFor
    <3> QED BY <3>2, <3>3, <3>4
  <2> QED BY <2>1, <2>2
<1>4. OneDepositIn(deals')
  <2>1. ASSUME NEW e \in Deals, NEW p \in deals'[e], ~p.sold
        PROVE  p \in D[e]
    BY <1>1, <2>1
  <2> QED BY <2>1 DEF OneDepositIn
<1>5. DecidedIn(deals', answers)
  <2>1. Decided(answers, j, z)
    BY DEF DecidedIn, Decided
  <2> QED BY <1>1, <2>1 DEF DecidedIn
<1> QED BY <1>2, <1>3, <1>4, <1>5

\* A sale keeps the invariant, whichever deal of its client it joins.
LEMMA SellKeeps ==
  ASSUME SaleInv, NEW u \in Units, NEW c \in Buyers, NEW type \in SaleTypes,
         NEW q \in {{}} \union {{d} : d \in Deals}, Sell(u, c, q, type)
  PROVE  SaleInv'
<1>1. /\ Sellable(u, c)
      /\ \A d \in q : deals[d] # {} /\ \A x \in deals[d] : AcceptedQuote(x, c, u, type)
      /\ units' = [units EXCEPT ![u] = [Free EXCEPT !.status = "vendido"]]
      /\ unitSales' = [unitSales EXCEPT ![u] = {NewSale(q, type)}]
      /\ dealLedger' = [d \in Deals |->
           IF d \in q THEN dealLedger[d] + SaleReceipts(CHOOSE x \in deals[d] : TRUE) ELSE dealLedger[d]]
      /\ UNCHANGED <<quoteOrder, answers>>
  BY DEF Sell
<1>2. PICK j \in Joined(c, u) : deals' = [deals EXCEPT ![j] = {Invoiced(x) : x \in JoinedRow(j, c, u)}]
  BY DEF Sell
<1>3. PICK y \in DealRow : /\ JoinedRow(j, c, u) = {y} /\ Joins(y, j, deals)
                           /\ ~y.sold /\ y.client = c /\ y.unit = {u} /\ y.stage # "perdida"
                           /\ \A x \in deals[j] : x.unit = {u} => y = x
  BY JoinedRowIs
<1>4. j \in Deals
  BY JoinedRowIs
<1>5. /\ DealsIn(deals) /\ SalesIn(units, unitSales) /\ dealLedger \in [Deals -> Int]
      /\ quoteOrder \in Seq(Deals) /\ EarnedIn(deals, unitSales, dealLedger)
  BY DEF SaleInv
<1>6. /\ units[u].status # "vendido" /\ (units[u].status = "reservado" => units[u].for = {c})
      /\ unitSales[u] = {}
  <2>1. units[u].status \in UnitStatus
    BY <1>5 DEF SalesIn, Unit
  <2>2. units[u].status # "vendido"
    BY <1>1, <2>1 DEF Sellable, Transitions, UnitStatus
  <2> QED BY <1>1, <1>5, <2>2 DEF Sellable, SalesIn
<1> DEFINE s == NewSale(q, type)
<1>7. s \in SaleRow /\ s.quote = q /\ s.type = type /\ ~s.delivered /\ s.warranties <= 1
  BY DEF NewSale, SaleRow
<1>8. unitSales' = [unitSales EXCEPT ![u] = {s}]
  BY <1>1
<1> HIDE DEF s
<1>9. [Free EXCEPT !.status = "vendido"] \in Unit /\ [Free EXCEPT !.status = "vendido"].status = "vendido"
  BY DEF Free, Unit, UnitStatus
<1>10. /\ units' \in [Units -> Unit] /\ units'[u].status = "vendido" /\ \A v \in Units \ {u} : units'[v] = units[v]
       /\ unitSales' \in [Units -> SUBSET SaleRow] /\ unitSales'[u] = {s}
       /\ \A v \in Units \ {u} : unitSales'[v] = unitSales[v]
  <2>1. units \in [Units -> Unit] /\ unitSales \in [Units -> SUBSET SaleRow]
    BY <1>5 DEF SalesIn
  <2> DEFINE gone == [Free EXCEPT !.status = "vendido"]
  <2>2. gone \in Unit /\ gone.status = "vendido" /\ units' = [units EXCEPT ![u] = gone]
    BY <1>1, <1>9
  <2> HIDE DEF gone
  <2>3. units' \in [Units -> Unit] /\ units'[u].status = "vendido" /\ \A v \in Units \ {u} : units'[v] = units[v]
    BY <2>1, <2>2
  <2>4. /\ unitSales' \in [Units -> SUBSET SaleRow] /\ unitSales'[u] = {s}
        /\ \A v \in Units \ {u} : unitSales'[v] = unitSales[v]
    BY <1>7, <1>8, <2>1
  <2> QED BY <2>3, <2>4
<1>11. SalesIn(units', unitSales')
  <2>1. ASSUME NEW v \in Units, NEW t \in unitSales'[v], NEW r \in unitSales'[v]
        PROVE  units'[v].status = "vendido" /\ t = r /\ (~t.delivered => t.warranties <= 1)
    <3>1. CASE v = u
      BY <1>7, <1>10, <3>1
    <3>2. CASE v # u
      <4>1. t \in unitSales[v] /\ r \in unitSales[v] /\ units'[v] = units[v]
        BY <1>10, <3>2
      <4> QED BY <1>5, <4>1 DEF SalesIn
    <3> QED BY <3>1, <3>2
  <2> QED BY <1>10, <2>1 DEF SalesIn
<1> DEFINE D == [deals EXCEPT ![j] = {y}]
           z == Invoiced(y)
<1>12. /\ D \in [Deals -> SUBSET DealRow] /\ D[j] = {y} /\ \A e \in Deals \ {j} : D[e] = deals[e]
  BY <1>3, <1>4, <1>5 DEF DealsIn
<1>13. /\ z \in DealRow /\ z.client = y.client /\ z.workflow = y.workflow /\ z.unit = y.unit /\ z.deposit = y.deposit
       /\ z.stage = y.stage /\ z.financing = y.financing /\ z.request = y.request /\ z.sold
  <2> DEFINE pdi == IF y.workflow THEN "borrador" ELSE y.pdi
  <2>1. pdi \in {"none", "borrador", "lista"}
    BY <1>3 DEF DealRow
  <2>2. z = [y EXCEPT !.sold = TRUE, !.pdi = pdi]
    BY DEF Invoiced
  <2> HIDE DEF pdi
  <2> QED BY <1>3, <2>1, <2>2 DEF DealRow
<1>14. {Invoiced(x) : x \in JoinedRow(j, c, u)} = {z}
  BY <1>3
<1>15. deals' = [D EXCEPT ![j] = {z}]
  BY <1>2, <1>4, <1>5, <1>14 DEF DealsIn
<1> HIDE DEF D, z
<1>16. D = [deals EXCEPT ![j] = {y}]
  BY DEF D
<1>17. /\ DealsIn(D) /\ HeldIn(D, units) /\ OneDepositIn(D)
       /\ EarnedIn(D, unitSales, dealLedger) /\ DecidedIn(D, answers)
  <2>1. (\A v, w \in y.unit : v = w) /\ \A v \in y.unit : units[v].status # "vendido"
    BY <1>3, <1>6
  <2> HIDE DEF SaleInv
  <2> QED BY <1>3, <1>4, <1>16, <2>1, JoinKeeps
<1>18. DealsIn(deals') /\ HeldIn(deals', units') /\ OneDepositIn(deals') /\ DecidedIn(deals', answers)
  <2>1. units[u].status # "vendido" /\ (units[u].status = "reservado" => units[u].for = {y.client})
    BY <1>3, <1>6
  <2> QED BY <1>3, <1>4, <1>10, <1>12, <1>13, <1>15, <1>17, <2>1, SoldHeld
<1>19. deals'[j] = {z} /\ \A e \in Deals \ {j} : deals'[e] = D[e]
  BY <1>4, <1>12, <1>15
<1>20. ASSUME NEW d \in q
       PROVE  d \in Deals /\ q = {d} /\ \E x \in deals[d] : deals[d] = {x} /\ D[d] = {x} /\ AcceptedQuote(x, c, u, type)
  <2>1. d \in Deals /\ q = {d}
    OBVIOUS
  <2>2. PICK x \in deals[d] : AcceptedQuote(x, c, u, type)
    BY <1>1
  <2>3. deals[d] = {x}
    BY <1>5, <2>1 DEF DealsIn
  <2>4. D[d] = {x}
    <3>1. CASE j = d
      <4>1. x.unit = {u}
        BY <2>2 DEF AcceptedQuote
      <4> QED BY <1>3, <1>12, <3>1, <4>1
    <3>2. CASE j # d
      BY <1>12, <2>1, <2>3, <3>2
    <3> QED BY <3>1, <3>2
  <2> QED BY <2>1, <2>2, <2>3, <2>4
<1>21. ASSUME NEW d \in q
       PROVE  \E x \in deals[d] :
                /\ deals[d] = {x} /\ D[d] = {x} /\ AcceptedQuote(x, c, u, type) /\ x \in DealRow /\ SaleReceipts(x) \in Int
                /\ dealLedger'[d] = dealLedger[d] + SaleReceipts(x)
  <2>1. PICK x \in deals[d] : deals[d] = {x} /\ D[d] = {x} /\ AcceptedQuote(x, c, u, type)
    BY <1>20
  <2>2. x \in DealRow /\ d \in Deals
    BY <1>5, <1>20 DEF DealsIn
  <2>3. (CHOOSE p \in deals[d] : TRUE) = x
    BY <2>1
  <2>4. SaleReceipts(x) \in Int
    <3>1. x.quote \in SaleTypes
      BY <2>1 DEF AcceptedQuote
    <3> QED BY <2>2, <3>1, ReceiptsInt
  <2> QED BY <1>1, <2>1, <2>2, <2>3, <2>4
<1>22. dealLedger' \in [Deals -> Int] /\ \A e \in Deals \ q : dealLedger'[e] = dealLedger[e]
  <2>1. ASSUME NEW e \in Deals
        PROVE  dealLedger'[e] \in Int /\ (e \notin q => dealLedger'[e] = dealLedger[e])
    <3>1. CASE e \in q
      <4>1. PICK x \in deals[e] : SaleReceipts(x) \in Int /\ dealLedger'[e] = dealLedger[e] + SaleReceipts(x)
        BY <1>21, <3>1
      <4> QED BY <1>5, <3>1, <4>1
    <3>2. CASE e \notin q
      BY <1>1, <1>5, <3>2
    <3> QED BY <3>1, <3>2
  <2>2. DOMAIN dealLedger' = Deals /\ dealLedger' = [e \in Deals |-> dealLedger'[e]]
    BY <1>1
  <2> QED BY <2>1, <2>2
<1>23. ASSUME NEW e \in Deals, deals'[e] = {}
       PROVE  dealLedger'[e] = 0 /\ \A v \in Units : \A t \in unitSales'[v] : t.quote # {e}
  <2>1. e # j /\ deals[e] = {} /\ e \notin q
    BY <1>1, <1>12, <1>19, <1>23
  <2>2. dealLedger[e] = 0 /\ \A v \in Units : \A t \in unitSales[v] : t.quote # {e}
    BY <1>5, <2>1 DEF EarnedIn
  <2>3. s.quote # {e}
    BY <1>7, <2>1
  <2> QED BY <1>10, <1>22, <2>1, <2>2, <2>3
<1>24. ASSUME NEW e \in Deals, NEW r \in D[e]
       PROVE  /\ dealLedger'[e] = UnitPrice * Cardinality(PaidIn(unitSales', e, r.workflow)) + KeptIn(unitSales', e, r)
              /\ r.unit \intersect PaidIn(unitSales', e, r.workflow) # {} => r.deposit # "devuelto"
  <2>1. /\ dealLedger[e] = UnitPrice * Cardinality(PaidIn(unitSales, e, r.workflow)) + KeptIn(unitSales, e, r)
        /\ r.unit \intersect PaidIn(unitSales, e, r.workflow) # {} => r.deposit # "devuelto"
    BY <1>17 DEF EarnedIn
  <2>2. r \in DealRow /\ (r.deposit # "none" => r.workflow)
    BY <1>17 DEF DealsIn
  <2>3. CASE e \in q
    <3>1. AcceptedQuote(r, c, u, type) /\ dealLedger'[e] = dealLedger[e] + SaleReceipts(r)
      BY <1>21, <2>3
    <3>2. r.unit = {u} /\ r.quote = s.type /\ (r.workflow => r.deposit # "devuelto") /\ s.quote = {e} /\ s.type \in SaleTypes
      BY <1>7, <1>20, <2>3, <3>1 DEF AcceptedQuote, ValidSale
    <3>3. dealLedger[e] \in Int
      BY <1>5
    <3>4. dealLedger[e] + SaleReceipts(r)
            = UnitPrice * Cardinality(PaidIn(unitSales', e, r.workflow)) + KeptIn(unitSales', e, r)
      BY <1>6, <1>10, <2>1, <2>2, <3>2, <3>3, SaleEarns
    <3> QED BY <2>2, <3>1, <3>2, <3>4
  <2>4. CASE e \notin q
    <3>1. s.quote # {e}
      BY <1>7, <2>4
    <3>2. PaidIn(unitSales', e, r.workflow) = PaidIn(unitSales, e, r.workflow)
      BY <1>6, <1>10, <3>1 DEF PaidIn
    <3>3. KeptIn(unitSales', e, r) = KeptIn(unitSales, e, r)
      BY <3>2 DEF KeptIn
    <3> QED BY <1>22, <2>1, <2>4, <3>2, <3>3
  <2> QED BY <2>3, <2>4
<1>25. ASSUME NEW e \in Deals, NEW w \in deals'[e]
       PROVE  /\ dealLedger'[e] = UnitPrice * Cardinality(PaidIn(unitSales', e, w.workflow)) + KeptIn(unitSales', e, w)
              /\ w.unit \intersect PaidIn(unitSales', e, w.workflow) # {} => w.deposit # "devuelto"
  <2>1. PICK r \in D[e] : w.workflow = r.workflow /\ w.unit = r.unit /\ w.deposit = r.deposit
    <3>1. CASE e = j
      BY <1>12, <1>13, <1>19, <3>1
    <3>2. CASE e # j
      BY <1>19, <3>2
    <3> QED BY <3>1, <3>2
  <2>2. KeptIn(unitSales', e, w) = KeptIn(unitSales', e, r)
    BY <2>1 DEF KeptIn
  <2> QED BY <1>24, <2>1, <2>2
<1>26. EarnedIn(deals', unitSales', dealLedger')
  BY <1>23, <1>25 DEF EarnedIn
<1> QED BY <1>1, <1>5, <1>11, <1>18, <1>22, <1>26 DEF SaleInv

-----------------------------------------------------------------------------
(* Every step *)

\* Every step keeps the invariant.
LEMMA SaleStep ==
  ASSUME SaleInv, [SaleNext]_saleVars
  PROVE  SaleInv'
<1>1. CASE UNCHANGED saleVars
  BY <1>1 DEF SaleInv, saleVars
<1>2. CASE DealRoutes
  BY <1>2, ProspectKeeps, StageSteps, DeliverKeeps, QuoteKeeps DEF DealRoutes
<1>3. CASE UnitRoutes
  BY <1>3, ChangeStatusKeeps, ReserveKeeps, SellKeeps DEF UnitRoutes
<1>4. CASE FileRoutes
  BY <1>4, CreditSteps DEF FileRoutes
<1>5. CASE WorkflowRoutes
  BY <1>5, CreditSteps, CancelKeeps DEF WorkflowRoutes
<1>6. CASE QuotesLapse
  BY <1>6, LapseKeeps
<1>7. CASE \E u \in Units : Expire(u)
  BY <1>7, ExpireKeeps
<1>8. CASE \E d \in Deals : FinishPdi(d) \/ \E y \in {"aprobado", "rechazado"} : FinancierAnswers(d, y)
  BY <1>8, CreditSteps, AnswerKeeps
<1> QED BY <1>1, <1>2, <1>3, <1>4, <1>5, <1>6, <1>7, <1>8 DEF SaleNext

\* It holds at the start.
LEMMA SaleStart == SaleInit => SaleInv
<1> SUFFICES ASSUME SaleInit PROVE SaleInv
  OBVIOUS
<1>1. DealsIn(deals) /\ HeldIn(deals, units) /\ OneDepositIn(deals) /\ DecidedIn(deals, answers)
  BY DEF SaleInit, DealsIn, HeldIn, OneDepositIn, DecidedIn
<1>2. EarnedIn(deals, unitSales, dealLedger)
  BY DEF SaleInit, EarnedIn
<1>3. SalesIn(units, unitSales)
  BY DEF SaleInit, SalesIn, Unit, UnitStatus
<1>4. quoteOrder \in Seq(Deals) /\ dealLedger \in [Deals -> Int]
      /\ answers \in [Deals -> [1..MaxRequests -> {"none", "aprobado", "rechazado"}]]
  BY DEF SaleInit
<1> QED BY <1>1, <1>2, <1>3, <1>4 DEF SaleInv

\* The inductive invariant holds.
LEMMA SaleHolds == SaleSpec => []SaleInv
BY SaleStart, SaleStep, PTL DEF SaleSpec

\* It implies the type invariant and what a deal promises.
LEMMA SaleInvHonours == SaleInv => SaleTypeOK /\ DealsHonoured
<1> SUFFICES ASSUME SaleInv PROVE SaleTypeOK /\ DealsHonoured
  OBVIOUS
<1>1. /\ DealsIn(deals) /\ HeldIn(deals, units) /\ EarnedIn(deals, unitSales, dealLedger)
      /\ DecidedIn(deals, answers) /\ SalesIn(units, unitSales)
  BY DEF SaleInv
<1>2. SaleTypeOK
  <2>1. Range(quoteOrder) \subseteq Deals
    BY DEF SaleInv, Range
  <2> QED BY <1>1, <2>1 DEF SaleInv, SaleTypeOK, DealsIn, SalesIn
<1>3. DepositHolds
  <2> SUFFICES ASSUME NEW d \in Deals, NEW x \in deals[d], x.deposit = "registrado",
                      EffectiveStage(x) \notin {"facturada", "entregada"}, OnlyDeal(d, x)
               PROVE  \E u \in x.unit : units[u].status = "reservado" /\ units[u].for = {x.client}
    BY DEF DepositHolds
  <2>1. ~x.sold
    <3> SUFFICES ASSUME x.sold PROVE FALSE
      OBVIOUS
    <3> DEFINE delivered == \E u \in x.unit : \E s \in unitSales[u] : s.delivered
    <3>1. CASE delivered
      BY <3>1 DEF EffectiveStage
    <3>2. CASE ~delivered
      BY <3>2 DEF EffectiveStage
    <3> QED BY <3>1, <3>2
  <2>2. PICK u \in Units : x.unit = {u} /\ HeldFor(deals, units, d, x, u)
    BY <1>1 DEF HeldIn
  <2>3. ~SoldByAnother(deals, d, x, u)
    BY <2>2 DEF SoldByAnother, OnlyDeal
  <2> QED BY <2>1, <2>2, <2>3 DEF HeldFor
<1>4. DealEarnsOnce
  <2> SUFFICES ASSUME NEW d \in Deals, NEW x \in deals[d]
               PROVE  dealLedger[d] = UnitPrice * Cardinality(PaidUnits(d, x)) + Kept(d, x)
    BY DEF DealEarnsOnce
  <2>1. x.deposit \in {"none", "registrado", "devuelto"}
    BY <1>1, DepositOf DEF DealsIn
  <2>2. PaidUnits(d, x) = PaidIn(unitSales, d, x.workflow)
    BY DEF PaidUnits, PaidIn
  <2>3. Kept(d, x) = KeptIn(unitSales, d, x)
    BY <2>1, <2>2 DEF Kept, KeptIn
  <2> QED BY <1>1, <2>2, <2>3 DEF EarnedIn
<1>5. DecidedAsAnswered
  BY <1>1 DEF DecidedAsAnswered, DecidedIn, Decided
<1> QED BY <1>2, <1>3, <1>4, <1>5 DEF DealsHonoured

\* The tables of the dealership keep their columns' types.
THEOREM SaleTypeCorrect == SaleSpec => []SaleTypeOK
<1>1. SaleInv => SaleTypeOK
  BY SaleInvHonours
<1> QED BY <1>1, SaleHolds, PTL

\* Through quotes, reservations, cancellations, credits, sales and deliveries in any order: a
\* deposit that was neither given back nor followed by a sale holds the unit for its client, a
\* deal earns the price of each unit it sold and what is kept of its deposit and no more, and
\* a credit is decided by the answer to its pending request.
THEOREM DealsKept == SaleSpec => []DealsHonoured
<1>1. SaleInv => DealsHonoured
  BY SaleInvHonours
<1> QED BY <1>1, SaleHolds, PTL
=============================================================================
