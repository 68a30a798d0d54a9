------------------------------- MODULE Quotes -------------------------------
(***************************************************************************)
(* What the workshop quotes for work on a vehicle.  A job (a tempario) has *)
(* hours of labour and units of one part; its price is computed in two     *)
(* places: the preview that the advisor shows to the client                *)
(* (catalog_fifo_costs and _tempario_to_read) and the lines that add_task  *)
(* writes on the order (_add_line_to_transfer and _fifo_preview_cost).     *)
(* Both price the part by the lots that no other request has pledged.      *)
(* A finding (an upsell) proposes further work, which is priced when it is *)
(* found and priced again when the client approves it, perhaps months      *)
(* later on another order of the vehicle.                                  *)
(*                                                                         *)
(* The requests of an order pass through submission and dispatch in        *)
(* Workshop; here a line just leaves the shelf in one step.  All visits    *)
(* are of one vehicle and all lines of the client.                         *)
(***************************************************************************)
EXTENDS Money, Sequences, FiniteSets, Functions, FiniteSetsExt

CONSTANTS
  Visits,        \* service orders of the vehicle
  JobHours,      \* hours of the job
  JobUnits,      \* units of the part that the job needs
  JobEstimate,   \* cost of a unit that the job's author wrote, in cents
  HourlyRate,    \* cents of an hour, frozen in an order when it is opened
  CatalogPrices, \* bound: list prices of the part
  Tiers,         \* bound: discount tiers of a new order, see Multipliers
  LaterTiers,    \* bound: those an order may change to
  LayerCosts,    \* bound: cents of a unit in each lot to be received, in order
  LotUnits,      \* bound: units of a new lot
  ExtraUnits,    \* bound: units of a part added by hand
  MaxUnits,      \* bound: units of such a line
  MaxJobs,       \* bound: jobs ever added to an order
  MaxLines       \* bound: lines in all orders

Multipliers == {100, 110, 120, 130}
DefaultTier == 130

ASSUME QuotesAssumption ==
  /\ {JobHours, HourlyRate, JobEstimate, MaxUnits, MaxJobs, MaxLines} \subseteq Nat
  /\ JobUnits \in Nat \ {0} /\ ExtraUnits \subseteq Nat \ {0}
  /\ CatalogPrices \subseteq Nat \ {0}
  /\ LayerCosts \in Seq(Nat) /\ LotUnits \subseteq Nat \ {0}
  /\ Tiers \cup LaterTiers \subseteq Multipliers
  /\ IsFiniteSet(Visits)

VARIABLES
  layers,     \* part_lots of the part, by received_at
  listPrice,  \* parts.list_price
  visits,     \* service_orders
  quoteLines, \* service_order_transfer_lines, by visit and slot
  shown,      \* the preview the advisor has on the screen
  upsell      \* the finding of the vehicle

quoteVars == <<layers, listPrice, visits, quoteLines, shown, upsell>>

NoList == 0
MaxLots == Len(LayerCosts)
NoLine == [qty |-> 0]
NoPreview == [visit |-> "none", total |-> 0]

\* The lines an order may have: the parts of its job, a part added by hand,
\* and the same two once more for the request that an approved finding opens.
JobSlots == {"job", "upsellJob"}
Slots == JobSlots \cup {"part", "upsellPart"}
LineIds == Visits \X Slots

\* A line keeps the price of a unit as the fraction it was computed from.
LineRow ==
  [qty : Nat, total : Nat, perUnit : Nat \X Nat, cost : Nat,
   pledged : [1..MaxLots -> Nat], fresh : BOOLEAN, taken : BOOLEAN]

VisitStatus == {"none", "open", "invoiced"}
VisitRow ==
  [status : VisitStatus, tier : Multipliers, jobs : 0..MaxJobs, frozen : Nat]

UpsellStatus == {"none", "pendiente", "pospuesto", "aprobado", "rechazado"}
UpsellRow == [status : UpsellStatus, origin : Visits \cup {"none"}, units : Nat, quoted : Nat]

QuotesTypeOK ==
  /\ layers \in Seq([cost : Nat, left : Nat]) /\ Len(layers) <= MaxLots
  /\ listPrice \in CatalogPrices \cup {NoList}
  /\ visits \in [Visits -> VisitRow]
  /\ DOMAIN quoteLines = LineIds
  /\ \A k \in LineIds : quoteLines[k] = NoLine \/ quoteLines[k] \in LineRow
  /\ shown \in [visit : Visits \cup {"none"}, total : Nat]
  /\ upsell \in UpsellRow

QuotesInit ==
  /\ layers = << >> /\ listPrice = NoList
  /\ visits = [v \in Visits |->
                [status |-> "none", tier |-> DefaultTier, jobs |-> 0, frozen |-> 0]]
  /\ quoteLines = [k \in LineIds |-> NoLine]
  /\ shown = NoPreview
  /\ upsell = [status |-> "none", origin |-> "none", units |-> 0, quoted |-> 0]

Lots == DOMAIN layers
HasLine(k) == quoteLines[k] # NoLine
Total(f) == SumFunction(f)

(***************************************************************************)
(* Pledges and allocations.                                                *)
(***************************************************************************)

\* A line pledges its units while it is fresh and they are on the shelf.
Pledges(k) == HasLine(k) /\ ~quoteLines[k].taken /\ quoteLines[k].fresh

\* Units of a lot pledged to the lines other than one.
PledgedOf(l, but) ==
  LET others == {k \in LineIds \ but : Pledges(k)} IN
  Total([k \in others |-> quoteLines[k].pledged[l]])

Unpledged(but) ==
  [l \in Lots |-> Max({0, layers[l].left - PledgedOf(l, but)})]

\* What FIFO takes of each lot for n units, oldest first; a shortage is left.
Allocation(avail, n) ==
  [l \in 1..MaxLots |->
    IF l \notin DOMAIN avail THEN 0
    ELSE Min({avail[l], Max({0, n - Total([j \in 1..(l - 1) |-> avail[j]])})})]

CostOf(take) == Total([l \in Lots |-> layers[l].cost * take[l]])
LastTaken(take) == layers[Max({l \in Lots : take[l] > 0})].cost
LastReceived == layers[Len(layers)].cost

\* The cost of a unit that the shelf cannot cover: the last layer touched, or
\* the last one ever received, or what the caller knows.
LastKnownUnitCost(fallback) == IF layers = << >> THEN fallback ELSE LastReceived
CostBeyond(take, fallback) ==
  IF Total(take) > 0 THEN LastTaken(take) ELSE LastKnownUnitCost(fallback)

\* _fifo_preview_cost: lots with units left, net of other lines' pledges.
FifoPreviewCost(take, n, fallback) ==
  CostOf(take) + CostBeyond(take, fallback) * (n - Total(take))

(***************************************************************************)
(* Prices.                                                                 *)
(***************************************************************************)

PricePartsCost(cost, tier) == Percent(cost, tier)

\* With a list price the cost does not matter; the tier discounts the list.
PriceCatalog(cost, n, tier) ==
  IF listPrice = NoList THEN PricePartsCost(cost, tier)
  ELSE Rounded(listPrice * tier * n, DefaultTier)

\* The same price a unit, for another quantity.
AtUnitPrice(perUnit, n) == Rounded(perUnit[1] * n, perUnit[2])

WithTax(amount) == amount + Percent(amount, Iva)
Labour == JobHours * HourlyRate

\* catalog_fifo_costs: what the job's units cost by the lots available now.
ByEstimate(take) == JobEstimate  \* a mutant: the author's estimate, always
CatalogBeyond(take) ==
  IF Total(take) > 0 THEN LastTaken(take)
  ELSE IF layers # << >> THEN LastReceived ELSE JobEstimate
CatalogCost(take) == CostOf(take) + CatalogBeyond(take) * (JobUnits - Total(take))

\* The preview of the job for a tier, taxes included.
Preview(tier) ==
  WithTax(Labour
          + PriceCatalog(CatalogCost(Allocation(Unpledged({}), JobUnits)), JobUnits, tier))

\* The line for n units at a total, with the units it pledges.
Line(n, total, cost, take) ==
  [qty |-> n, total |-> total, perUnit |-> <<total, n>>, cost |-> cost,
   pledged |-> take, fresh |-> TRUE, taken |-> FALSE]

\* _add_line_to_transfer: a new line, or an existing one with more units, which
\* keeps its unit price.
Added(v, n, fallback, take) ==
  LET cost == FifoPreviewCost(take, n, fallback)
  IN Line(n, PriceCatalog(cost, n, visits[v].tier), cost, take)
Requoted(row, n, take) ==  \* a mutant: the units of today are priced again
  LET cost == FifoPreviewCost(take, n, 0) IN Line(n, PriceCatalog(cost, n, DefaultTier), cost, take)
Resized(row, n, take) ==
  [row EXCEPT !.qty = n, !.pledged = take, !.fresh = TRUE,
              !.total = AtUnitPrice(row.perUnit, n),
              !.cost = FifoPreviewCost(take, n, row.cost \div row.qty)]

JobLine(v) == Added(v, JobUnits, JobEstimate, Allocation(Unpledged({}), JobUnits))

\* What add_task charges for the job, as it sums up the lines it wrote.
Charged(v) ==
  WithTax(JobLine(v).total + Labour)

\* _build_order_summary: the lines and the labour of an order, taxes included.
Summary(v) ==
  WithTax(Total([s \in {s \in Slots : HasLine(<<v, s>>)} |-> quoteLines[<<v, s>>].total])
          + visits[v].jobs * Labour)

\* get_order_summary: an invoiced order shows what was invoiced.
OrderSummary(v) == IF visits[v].status = "invoiced" THEN visits[v].frozen ELSE Summary(v)

(***************************************************************************)
(* The shelf, the catalogue and the settings.                              *)
(***************************************************************************)

\* Bound: the shelf and the catalogue change until all visits are invoiced.
Ongoing == \E v \in Visits : visits[v].status # "invoiced"

ReceiveLayer(n) ==
  /\ Ongoing /\ Len(layers) < MaxLots
  /\ layers' = Append(layers, [cost |-> LayerCosts[Len(layers) + 1], left |-> n])
  /\ UNCHANGED <<listPrice, visits, quoteLines, shown, upsell>>

SetListPrice(p) ==
  /\ Ongoing /\ p # listPrice
  /\ listPrice' = p
  /\ UNCHANGED <<layers, visits, quoteLines, shown, upsell>>

\* Five minutes pass: the pledge of a pending line no longer counts.
PledgeLapses(k) ==
  /\ Ongoing /\ Pledges(k)
  /\ quoteLines' = [quoteLines EXCEPT ![k].fresh = FALSE]
  /\ UNCHANGED <<layers, listPrice, visits, shown, upsell>>

\* The line leaves the shelf, from the lots that no other line has pledged.
\* Its cost is what left; its price stays.
TakeLine(k) ==
  /\ HasLine(k) /\ ~quoteLines[k].taken /\ visits[k[1]].status = "open"
  /\ \E take \in {Allocation(Unpledged({k}), quoteLines[k].qty)} :
       /\ Total(take) = quoteLines[k].qty
       /\ layers' = [l \in Lots |-> [layers[l] EXCEPT !.left = @ - take[l]]]
       /\ quoteLines' = [quoteLines EXCEPT
            ![k] = [@ EXCEPT !.taken = TRUE, !.cost = CostOf(take), !.pledged = take]]
  /\ UNCHANGED <<listPrice, visits, shown, upsell>>

(***************************************************************************)
(* Orders and their lines.                                                 *)
(***************************************************************************)

Editable(v) == visits[v].status = "open"
Undecided == upsell.status \in {"pendiente", "pospuesto"}

\* Bound: an undecided finding keeps room for the two lines it may bring.
Room(n) ==
  Cardinality({k \in LineIds : HasLine(k)}) + n + (IF Undecided THEN 2 ELSE 0) <= MaxLines

Opened(tier) == [status |-> "open", tier |-> tier, jobs |-> 0, frozen |-> 0]

OpenVisit(v, tier) ==
  /\ visits[v].status = "none"
  /\ \A w \in Visits : ~Editable(w)
  /\ visits' = [visits EXCEPT ![v] = Opened(tier)]
  /\ UNCHANGED <<layers, listPrice, quoteLines, shown, upsell>>

\* Bound: an edit of the order refreshes the advisor's screen, so that what is
\* shown goes stale only by what others do.
\* The advisor previews the job for an order, and shows the client its price.
PreviewJob(v) ==
  /\ Editable(v)
  /\ shown' = [visit |-> v, total |-> Preview(visits[v].tier)]
  /\ UNCHANGED <<layers, listPrice, visits, quoteLines, upsell>>

\* The job is added at the price shown, or not at all; a client that sends no
\* price takes whatever it is.
AddJob(v, asShown) ==
  /\ Editable(v) /\ ~HasLine(<<v, "job">>) /\ Room(1) /\ visits[v].jobs < MaxJobs
  /\ asShown => shown = [visit |-> v, total |-> Charged(v)]
  /\ quoteLines' = [quoteLines EXCEPT ![<<v, "job">>] = JobLine(v)]
  /\ visits' = [visits EXCEPT ![v].jobs = @ + 1]
  /\ shown' = NoPreview
  /\ UNCHANGED <<layers, listPrice, upsell>>

AddPart(v, n) ==
  LET k == <<v, "part">> IN
  /\ Editable(v) /\ ~HasLine(k) /\ Room(1)
  /\ quoteLines' = [quoteLines EXCEPT ![k] = Added(v, n, 0, Allocation(Unpledged({}), n))]
  /\ shown' = NoPreview
  /\ UNCHANGED <<layers, listPrice, visits, upsell>>

\* More units of the part the order already asks for, while it is pending.
TopUpPart(v, n) ==
  LET k == <<v, "part">>
      qty == quoteLines[k].qty + n
  IN /\ Editable(v) /\ HasLine(k) /\ ~quoteLines[k].taken /\ qty <= MaxUnits
     /\ quoteLines' = [quoteLines EXCEPT
          ![k] = Resized(@, qty, Allocation(Unpledged({k}), qty))]
     /\ shown' = NoPreview
     /\ UNCHANGED <<layers, listPrice, visits, upsell>>

SetLineQuantity(k, n) ==
  /\ Editable(k[1]) /\ HasLine(k) /\ ~quoteLines[k].taken
  /\ quoteLines' = [quoteLines EXCEPT
       ![k] = Resized(@, n, Allocation(Unpledged({k}), n))]
  /\ shown' = NoPreview
  /\ UNCHANGED <<layers, listPrice, visits, upsell>>

RemoveLine(k) ==
  /\ Editable(k[1]) /\ HasLine(k) /\ ~quoteLines[k].taken
  /\ quoteLines' = [quoteLines EXCEPT ![k] = NoLine]
  /\ shown' = NoPreview
  /\ UNCHANGED <<layers, listPrice, visits, upsell>>

\* Another tier prices every line of the order again, taken ones too.
Repriced(k, tier) ==
  LET row == quoteLines[k]
      total == PriceCatalog(row.cost, row.qty, tier)
  IN [row EXCEPT !.total = total, !.perUnit = <<total, row.qty>>]

ChangeDiscount(v, tier) ==
  /\ Editable(v) /\ tier # visits[v].tier
  /\ visits' = [visits EXCEPT ![v].tier = tier]
  /\ quoteLines' = [k \in LineIds |->
       IF k[1] = v /\ HasLine(k) THEN Repriced(k, tier) ELSE quoteLines[k]]
  /\ shown' = NoPreview
  /\ UNCHANGED <<layers, listPrice, upsell>>

\* The invoice freezes the summary; nothing may be pending in the shop then.
InvoiceVisit(v) ==
  /\ Editable(v)
  /\ \A s \in Slots : HasLine(<<v, s>>) => quoteLines[<<v, s>>].taken
  /\ visits' = [visits EXCEPT ![v].status = "invoiced", ![v].frozen = Summary(v)]
  /\ shown' = NoPreview
  /\ UNCHANGED <<layers, listPrice, quoteLines, upsell>>

(***************************************************************************)
(* Findings.                                                               *)
(***************************************************************************)

\* The finding proposes the job and one part; its price is the labour and the
\* part, and not the part that the job itself would bring.
CreateUpsell(v, n) ==
  /\ Editable(v) /\ upsell.status = "none" /\ Room(2)
  /\ upsell' = [status |-> "pendiente", origin |-> v, units |-> n,
                quoted |-> Labour
                           + Added(v, n, 0, Allocation(Unpledged({}), n)).total]
  /\ shown' = NoPreview
  /\ UNCHANGED <<layers, listPrice, visits, quoteLines>>

\* Approved, the work is added to a request of its own as if by hand today:
\* first the job's part, then the other, which sees what the first pledged.
Approved(v, first, second) ==
  /\ quoteLines' = [quoteLines EXCEPT ![<<v, "upsellJob">>] = first,
                                      ![<<v, "upsellPart">>] = second]
  /\ visits' = [visits EXCEPT ![v].jobs = @ + 1]
  /\ upsell' = [upsell EXCEPT !.status = "aprobado"]

ApproveUpsell(v) ==
  /\ Undecided /\ Editable(v) /\ visits[v].jobs < MaxJobs
  /\ \E first \in {JobLine(v)} :
       LET free == Unpledged({})
           left == [l \in Lots |-> Max({0, free[l] - first.pledged[l]})]
       IN Approved(v, first, Added(v, upsell.units, 0, Allocation(left, upsell.units)))
  /\ shown' = NoPreview
  /\ UNCHANGED <<layers, listPrice>>

PutOffUpsell(status) ==
  /\ Undecided /\ status \in {"pospuesto", "rechazado"}
  /\ upsell' = [upsell EXCEPT !.status = status]
  /\ shown' = NoPreview
  /\ UNCHANGED <<layers, listPrice, visits, quoteLines>>

LineRoutes ==
  \/ \E v \in Visits, n \in ExtraUnits : AddPart(v, n) \/ TopUpPart(v, n)
  \/ \E k \in LineIds : RemoveLine(k) \/ \E n \in ExtraUnits : SetLineQuantity(k, n)
VisitRoutes ==
  \/ \E v \in Visits, t \in Tiers : OpenVisit(v, t)
  \/ \E v \in Visits : PreviewJob(v) \/ InvoiceVisit(v) \/ \E asShown \in BOOLEAN : AddJob(v, asShown)
UpsellRoutes ==
  \/ \E v \in Visits : ApproveUpsell(v) \/ \E n \in ExtraUnits : CreateUpsell(v, n)
  \/ \E s \in UpsellStatus : PutOffUpsell(s)

QuotesNext ==
  \/ \E n \in LotUnits : ReceiveLayer(n)
  \/ \E p \in CatalogPrices : SetListPrice(p)
  \/ \E k \in LineIds : PledgeLapses(k) \/ TakeLine(k)
  \/ \E v \in Visits, t \in LaterTiers : ChangeDiscount(v, t)
  \/ LineRoutes \/ VisitRoutes \/ UpsellRoutes

QuotesSpec == QuotesInit /\ [][QuotesNext]_quoteVars

(***************************************************************************)
(* Properties.                                                             *)
(***************************************************************************)

\* Whatever is on the shelf, pledged by other orders or already sold out, the
\* preview of a job for an open order is what add_task will charge for it
\* ("so a tempario's preview total matches exactly what the ODS that uses it
\* will charge"): the two computations pledge, fall back and round alike.
PreviewIsCharged ==
  \A v \in Visits : Editable(v) /\ ~HasLine(<<v, "job">>) =>
    Preview(visits[v].tier) = Charged(v)

\* The price of a unit that the client was quoted moves only with the order's
\* discount: no delivery, list price, lapse, top-up or dispatch changes it
\* ("Preserve the quoted unit price when only the requested quantity changes").
QuoteKept ==
  [][\A k \in LineIds :
       HasLine(k) /\ HasLine(k)' /\ visits[k[1]].tier' = visits[k[1]].tier =>
         quoteLines[k].perUnit' = quoteLines[k].perUnit]_quoteVars

=============================================================================
