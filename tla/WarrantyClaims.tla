--------------------------- MODULE WarrantyClaims ---------------------------
(***************************************************************************)
(* The warranty of one vehicle: its odometer readings, the coverage that   *)
(* closing an order or selling the vehicle gives, and the claims against   *)
(* it with the rework orders and supplier claims that come out of them.    *)
(*                                                                         *)
(* Every operation locks what it decides on (the vehicle for a reading,    *)
(* the claim for a review) and is one step, except the conversion of an    *)
(* authorised claim, which reads the claim without a lock: ConvertReads,   *)
(* then ConvertWrites.  Only a claim from before the reviews is ever left  *)
(* authorised.                                                             *)
(*                                                                         *)
(* Left out: photos, numbering, who acts, and the work of an order before  *)
(* it is closed (module ServiceOrder).  The vehicle is registered without  *)
(* a mileage, and has a VIN.                                               *)
(***************************************************************************)
EXTENDS Integers, FiniteSets, Sequences, SequencesExt

CONSTANTS
  Visited,       \* orders of the vehicle, completed and invoiced
  Kilometres,    \* what an odometer may read
  UsualKm,       \* above it a reading needs a reason
  LabourTerms,   \* terms of a task's warranty: <<days, km>>, NoLimit where there is none
  FactoryTerms,  \* terms of a factory warranty
  SaleTerms,     \* the terms a sale gives
  DispatchedLots,\* per order, the lots its claimed part came from
  PurchasedLots, \* lots bought from a supplier
  LegacyTypes,   \* types of an authorised claim from before the reviews
  Officers,      \* who converts authorised claims
  LastDay, MaxReadings, MaxClaims   \* bounds

NoLimit == -1
Terms == {NoLimit} \union Nat

ASSUME WarrantyClaimsAssumption ==
  /\ Kilometres \subseteq Nat /\ UsualKm \in Nat
  /\ LabourTerms \union FactoryTerms \union {SaleTerms} \subseteq Terms \X Terms
  /\ \A t \in FactoryTerms : t # <<NoLimit, NoLimit>>
  /\ Visited \subseteq DOMAIN DispatchedLots /\ \A o \in Visited : IsFiniteSet(DispatchedLots[o])
  /\ LegacyTypes \subseteq {"fabrica", "comeback", "repuesto_proveedor", "campana_recall"}
  /\ LastDay \in Nat /\ MaxReadings \in Nat /\ MaxClaims \in Nat \ {0}

VARIABLES
  claimDay,        \* today
  odometer,        \* inspections with a mileage and departures, in order of time
  visits,          \* service_orders of the vehicle
  workWarranties,  \* workshop_warranties
  factoryWarranty, \* vehicle_warranties of its VIN: at most one
  claims,          \* warranty_claims, in order of creation
  reworkOrders,    \* draft orders claims were converted to
  supplierClaims,  \* <<claim, lot>> per supplier_claims row, in order of creation
  converting,      \* <<officer, claim>>: read as authorised, not yet converted
  rewritten          \* history: a reading was edited, deleted, or followed by a lower one

claimVars == <<claimDay, odometer, visits, workWarranties, factoryWarranty, claims,
               reworkOrders, supplierClaims, converting, rewritten>>

ClaimTypes == {"fabrica", "comeback", "repuesto_proveedor", "campana_recall"}
ClaimStatus == {"solicitado", "autorizado", "rechazado", "convertido_a_ods"}
Reading == [kind : {"inspection", "departure"}, km : Kilometres, order : SUBSET Visited]
Warranty == [starts : 0..LastDay, days : Terms, km : Terms, base : Terms]
WorkWarranty == [order : Visited, terms : Warranty]
CoverageSnapshot == [kind : {"workshop", "factory"}, terms : Warranty]
ClaimRow == [type : ClaimTypes, km : Kilometres, day : 0..LastDay, source : SUBSET Visited,
             coverage : SUBSET CoverageSnapshot,    \* empty for a campaign
             status : ClaimStatus, result : Nat, legacy : BOOLEAN]
ReworkOrder == [claim : 1..MaxClaims, payer : {"garantia_fabrica", "garantia_taller", "proveedor"},
                type : {"garantia_fabrica", "retrabajo"}]

ClaimsTypeOK ==
  /\ claimDay \in 0..LastDay /\ rewritten \in BOOLEAN
  /\ Range(odometer) \subseteq Reading
  /\ visits \in [Visited -> [closed : BOOLEAN, intake : Terms]]
  /\ workWarranties \subseteq WorkWarranty /\ factoryWarranty \subseteq Warranty
  /\ Range(claims) \subseteq ClaimRow /\ Range(reworkOrders) \subseteq ReworkOrder
  /\ Range(supplierClaims) \subseteq (1..MaxClaims) \X UNION Range(DispatchedLots)
  /\ converting \subseteq Officers \X (1..MaxClaims)
-----------------------------------------------------------------------------
(* The odometer *)

LastReading(readings) == IF readings = <<>> THEN NoLimit ELSE Last(readings).km

\* A reading below the last one, or beyond the usual range, needs a reason.
ValidMileage(km, readings, reason) ==
  reason \/ (km <= UsualKm /\ km >= LastReading(readings))

Inspect(km, reason) ==
  /\ Len(odometer) < MaxReadings
  /\ ValidMileage(km, odometer, reason)
  /\ odometer' = Append(odometer, [kind |-> "inspection", km |-> km, order |-> {}])
  /\ rewritten' = (rewritten \/ km < LastReading(odometer))
  /\ UNCHANGED <<claimDay, visits, workWarranties, factoryWarranty, claims, reworkOrders,
                 supplierClaims, converting>>

EditableInspection(i) ==
  odometer[i].kind = "inspection" /\ \A o \in odometer[i].order : ~visits[o].closed

\* The order takes its intake mileage from the inspection.
LinkInspection(i, o) ==
  /\ odometer[i].kind = "inspection" /\ odometer[i].order = {} /\ ~visits[o].closed
  /\ odometer' = [odometer EXCEPT ![i].order = {o}]
  /\ visits' = [visits EXCEPT ![o].intake = odometer[i].km]
  /\ UNCHANGED <<claimDay, workWarranties, factoryWarranty, claims, reworkOrders,
                 supplierClaims, converting, rewritten>>

UnlinkInspection(i) ==
  /\ EditableInspection(i) /\ odometer[i].order # {}
  /\ odometer' = [odometer EXCEPT ![i].order = {}]
  /\ UNCHANGED <<claimDay, visits, workWarranties, factoryWarranty, claims, reworkOrders,
                 supplierClaims, converting, rewritten>>

\* The inspection itself does not count against its new mileage.
CorrectInspection(i, km, reason) ==
  /\ EditableInspection(i)
  /\ ValidMileage(km, RemoveAt(odometer, i), reason)
  /\ odometer' = [odometer EXCEPT ![i].km = km]
  /\ visits' = [o \in Visited |-> IF o \in odometer[i].order THEN [visits[o] EXCEPT !.intake = km]
                                  ELSE visits[o]]
  /\ rewritten' = (rewritten \/ km # odometer[i].km)
  /\ UNCHANGED <<claimDay, workWarranties, factoryWarranty, claims, reworkOrders,
                 supplierClaims, converting>>

DeleteInspection(i) ==
  /\ odometer[i].kind = "inspection" /\ odometer[i].order = {}
  /\ odometer' = RemoveAt(odometer, i)
  /\ rewritten' = TRUE
  /\ UNCHANGED <<claimDay, visits, workWarranties, factoryWarranty, claims, reworkOrders,
                 supplierClaims, converting>>
-----------------------------------------------------------------------------
(* Coverage *)

\* Distance counts from the reading at departure, or else from the intake.
TaskWarranty(terms, mileage) ==
  [starts |-> claimDay, days |-> terms[1], km |-> terms[2],
   base |-> IF terms[2] = NoLimit THEN NoLimit ELSE mileage]

CloseVisit(o, exit, terms) ==
  /\ ~visits[o].closed
  /\ exit # NoLimit => /\ Len(odometer) < MaxReadings
                       /\ ValidMileage(exit, odometer, FALSE) /\ exit >= visits[o].intake
  /\ odometer' = IF exit = NoLimit THEN odometer
                 ELSE Append(odometer, [kind |-> "departure", km |-> exit, order |-> {o}])
  /\ workWarranties' = workWarranties \union
       {[order |-> o,
         terms |-> TaskWarranty(terms, IF exit = NoLimit THEN visits[o].intake ELSE exit)]}
  /\ visits' = [visits EXCEPT ![o].closed = TRUE]
  /\ UNCHANGED <<claimDay, factoryWarranty, claims, reworkOrders, supplierClaims, converting,
                 rewritten>>

FactoryFrom(starts, terms) == [starts |-> starts, days |-> terms[1], km |-> terms[2], base |-> 0]

\* By hand or in bulk: a VIN that has one keeps it.
RegisterFactoryWarranty(starts, terms) ==
  /\ factoryWarranty = {}
  /\ factoryWarranty' = {FactoryFrom(starts, terms)}
  /\ UNCHANGED <<claimDay, odometer, visits, workWarranties, claims, reworkOrders, supplierClaims,
                 converting, rewritten>>

\* A sale starts the clock again, whether or not there was one.
SaleRenewsWarranty ==
  /\ factoryWarranty' = {FactoryFrom(claimDay, SaleTerms)}
  /\ UNCHANGED <<claimDay, odometer, visits, workWarranties, claims, reworkOrders, supplierClaims,
                 converting, rewritten>>

\* Past its last day, or at its last kilometre, a warranty is over.
KmPassed(w, km) == w.km # NoLimit /\ w.base # NoLimit /\ km > w.base + w.km    \* mutant of KmOver
DayOver(w, day) == w.days # NoLimit /\ day > w.starts + w.days
KmOver(w, km) == w.km # NoLimit /\ w.base # NoLimit /\ km >= w.base + w.km
InForce(w, day, km) == w.starts <= day /\ ~DayOver(w, day) /\ ~KmOver(w, km)

\* What a claim's page says of its coverage on the day of the claim.
AssessCoverage(s, day, km) ==
  LET w == s.terms IN
  IF \/ day < w.starts
     \/ w.days # NoLimit /\ ~(w.starts <= day /\ day <= w.starts + w.days)
     \/ w.km # NoLimit /\ w.base # NoLimit /\ ~(0 <= km - w.base /\ km - w.base < w.km)
  THEN "outside"
  ELSE IF w.km # NoLimit /\ w.base = NoLimit THEN "unknown" ELSE "covered"
\* What the lists show of a warranty at the vehicle's current mileage.
CurrentMileage == LastReading(odometer)
FactoryStatus(w) == IF DayOver(w, claimDay) \/ (w.km # NoLimit /\ CurrentMileage >= w.km)
                    THEN "vencida" ELSE "vigente"
WorkStatus(w) == IF DayOver(w.terms, claimDay) \/ KmOver(w.terms, CurrentMileage)
                 THEN "vencida" ELSE "vigente"
\* What an advisor sees before filing a claim for the work of an order.
ClaimContext(o) ==
  [mileage |-> CurrentMileage,
   factory |-> {w \in factoryWarranty : FactoryStatus(w) = "vigente"},
   work |-> {w \in workWarranties : w.order = o /\ WorkStatus(w) = "vigente"},
   open |-> {c \in DOMAIN claims : claims[c].source = {o} /\ claims[c].status \in {"solicitado", "autorizado"}}]
\* The assessments on a claim's page; none for a campaign.
ClaimPage(c) == {AssessCoverage(s, c.day, c.km) : s \in c.coverage}
-----------------------------------------------------------------------------
(* Claims *)

NewClaim(type, km, source, coverage) ==
  [type |-> type, km |-> km, day |-> claimDay, source |-> source, coverage |-> coverage,
   status |-> "solicitado", result |-> 0, legacy |-> FALSE]

Filed(c) ==
  /\ Len(claims) < MaxClaims
  /\ ValidMileage(c.km, odometer, FALSE)
  /\ claims' = Append(claims, c)
  /\ UNCHANGED <<claimDay, odometer, visits, workWarranties, factoryWarranty, reworkOrders,
                 supplierClaims, converting, rewritten>>

ClaimWork(w, km) ==
  /\ InForce(w.terms, claimDay, km)
  /\ Filed(NewClaim("comeback", km, {w.order}, {[kind |-> "workshop", terms |-> w.terms]}))

ClaimFactory(km) == \E w \in factoryWarranty :
  /\ InForce(w, claimDay, km)
  /\ Filed(NewClaim("fabrica", km, {}, {[kind |-> "factory", terms |-> w]}))

ClaimCampaign(km) == Filed(NewClaim("campana_recall", km, {}, {}))

\* By type, the vehicle's own warranty or the order's is found; a supplier is claimed against later.
ClaimByType(type, o, km) ==
  \/ type = "fabrica" /\ ClaimFactory(km)
  \/ type = "comeback" /\ \E w \in workWarranties : w.order = o /\ ClaimWork(w, km)
  \/ type = "campana_recall" /\ ClaimCampaign(km)

PayerOf(type) == [fabrica |-> "garantia_fabrica", campana_recall |-> "garantia_fabrica",
                  comeback |-> "garantia_taller", repuesto_proveedor |-> "proveedor"][type]

\* The suppliers of the lots the part came from are claimed against, once per lot.
FromSuppliers(c) ==
  {l \in UNION {DispatchedLots[o] : o \in claims[c].source} \intersect PurchasedLots :
     <<c, l>> \notin Range(supplierClaims)}
ClaimedOf(c, lots) == supplierClaims \o SetToSeq({<<c, l>> : l \in lots})

\* The claim becomes a draft order whose work its warranty pays.
Converted(c) ==
  /\ reworkOrders' = Append(reworkOrders,
       [claim |-> c, payer |-> PayerOf(claims[c].type),
        type |-> IF claims[c].type \in {"fabrica", "campana_recall"} THEN "garantia_fabrica"
                 ELSE "retrabajo"])
  /\ claims' = [claims EXCEPT ![c].status = "convertido_a_ods", ![c].result = Len(reworkOrders) + 1]
  /\ supplierClaims' = IF claims[c].type = "repuesto_proveedor"
                       THEN ClaimedOf(c, FromSuppliers(c)) ELSE supplierClaims

StillOpen(c) == claims[c].status # "rechazado"    \* mutant of Reviewable
Reviewable(c) == claims[c].status \in {"solicitado", "autorizado"} /\ claims[c].result = 0

\* Approving converts the claim at once; a comeback needs its failure confirmed.
Approve(c, confirmed) ==
  /\ Reviewable(c) /\ (claims[c].type = "comeback" => confirmed)
  /\ Converted(c)
  /\ UNCHANGED <<claimDay, odometer, visits, workWarranties, factoryWarranty, converting, rewritten>>

Reject(c) ==
  /\ Reviewable(c)
  /\ claims' = [claims EXCEPT ![c].status = "rechazado"]
  /\ UNCHANGED <<claimDay, odometer, visits, workWarranties, factoryWarranty, reworkOrders,
                 supplierClaims, converting, rewritten>>

ConvertReads(h, c) ==
  /\ claims[c].status = "autorizado" /\ claims[c].result = 0
  /\ \A t \in converting : t[1] # h
  /\ converting' = converting \union {<<h, c>>}
  /\ UNCHANGED <<claimDay, odometer, visits, workWarranties, factoryWarranty, claims,
                 reworkOrders, supplierClaims, rewritten>>

ConvertWrites(h, c) ==
  /\ <<h, c>> \in converting
  /\ converting' = converting \ {<<h, c>>}
  /\ Converted(c)
  /\ UNCHANGED <<claimDay, odometer, visits, workWarranties, factoryWarranty, rewritten>>

\* Refused when none of the part's lots has a supplier to claim against.
ClaimFromSupplier(c) ==
  /\ claims[c].type = "comeback" /\ claims[c].status = "convertido_a_ods"
  /\ supplierClaims' = ClaimedOf(c, FromSuppliers(c))
  /\ \E l \in PurchasedLots : <<c, l>> \in Range(supplierClaims')
  /\ UNCHANGED <<claimDay, odometer, visits, workWarranties, factoryWarranty, claims,
                 reworkOrders, converting, rewritten>>

\* The dashboard: claims to review, and the rework orders claims point to.
Overview ==
  [pending |-> {c \in DOMAIN claims : claims[c].status = "solicitado"},
   reworks |-> {claims[c].result : c \in {d \in DOMAIN claims : claims[d].type = "comeback"}} \ {0}]
-----------------------------------------------------------------------------
NextClaimDay ==
  /\ claimDay < LastDay
  /\ claimDay' = claimDay + 1
  /\ UNCHANGED <<odometer, visits, workWarranties, factoryWarranty, claims, reworkOrders,
                 supplierClaims, converting, rewritten>>

\* Authorised, and never converted, before there were reviews.
LegacyClaim(type, km) ==
  [type |-> type, km |-> km, day |-> 0, source |-> {}, coverage |-> {},
   status |-> "autorizado", result |-> 0, legacy |-> TRUE]

ClaimsInit ==
  /\ claimDay = 0 /\ odometer = <<>> /\ rewritten = FALSE
  /\ visits = [o \in Visited |-> [closed |-> FALSE, intake |-> NoLimit]]
  /\ workWarranties = {} /\ factoryWarranty = {} /\ converting = {}
  /\ claims \in {<<>>} \union {<<LegacyClaim(t, k)>> : t \in LegacyTypes, k \in Kilometres}
  /\ reworkOrders = <<>> /\ supplierClaims = <<>>

InspectionRoutes ==
  \/ \E km \in Kilometres, reason \in BOOLEAN : Inspect(km, reason)
  \/ \E i \in DOMAIN odometer :
       \/ \E o \in Visited : LinkInspection(i, o)
       \/ UnlinkInspection(i)
       \/ \E km \in Kilometres, reason \in BOOLEAN : CorrectInspection(i, km, reason)
       \/ DeleteInspection(i)
FactoryWarrantyRoutes ==
  \E starts \in 0..LastDay, t \in FactoryTerms : RegisterFactoryWarranty(starts, t)
ClaimRoutes ==
  \E km \in Kilometres :
    \/ \E w \in workWarranties : ClaimWork(w, km)
    \/ ClaimFactory(km)
    \/ ClaimCampaign(km)
    \/ \E type \in ClaimTypes, o \in Visited : ClaimByType(type, o, km)
ReviewRoutes ==
  \E c \in DOMAIN claims :
    \/ \E confirmed \in BOOLEAN : Approve(c, confirmed)
    \/ Reject(c)
    \/ \E h \in Officers : ConvertReads(h, c) \/ ConvertWrites(h, c)
    \/ ClaimFromSupplier(c)

ClaimsNext ==
  \/ NextClaimDay
  \/ \E o \in Visited, exit \in Kilometres \union {NoLimit}, t \in LabourTerms : CloseVisit(o, exit, t)
  \/ SaleRenewsWarranty
  \/ InspectionRoutes \/ FactoryWarrantyRoutes \/ ClaimRoutes \/ ReviewRoutes

-----------------------------------------------------------------------------
\* Four pieces of code judge a warranty, and agree.  A claim the workshop accepted is never
\* shown on its page as out of coverage on the day of the claim, by time or by distance; and
\* what can be filed now is among what the advisor's context shows as in force.  Only a mileage
\* below the warranty's base can be shown as outside, and only after a reading was corrected or
\* deleted (claim_coverage.py, post_ventas/service.py).
CoverageAgrees ==
  /\ \A i \in DOMAIN claims : \A s \in claims[i].coverage :
       "outside" \in ClaimPage(claims[i]) => rewritten /\ claims[i].km < s.terms.base
  /\ \A km \in Kilometres : ValidMileage(km, odometer, FALSE) =>
       /\ \A w \in factoryWarranty :
            InForce(w, claimDay, km) => \A o \in Visited : w \in ClaimContext(o).factory
       /\ \A w \in workWarranties :
            InForce(w.terms, claimDay, km) => w \in ClaimContext(w.order).work

\* A reviewed claim leads to one draft order or to none: whoever else reviews it, or tries to
\* convert it, changes nothing; the dashboard counts each rework, and each lot is claimed from
\* its supplier once per claim.  (An authorised claim from before the reviews may be converted
\* twice.)
OneRework ==
  /\ \A c \in DOMAIN claims : ~claims[c].legacy =>
       /\ {r \in DOMAIN reworkOrders : reworkOrders[r].claim = c} = {claims[c].result} \ {0}
       /\ claims[c].status = "convertido_a_ods" <=> claims[c].result # 0
  /\ \A r \in DOMAIN reworkOrders :
       reworkOrders[r].payer = "garantia_taller" /\ ~claims[reworkOrders[r].claim].legacy
         => r \in Overview.reworks
  /\ IsInjective(supplierClaims)

\* A claim is judged by the same coverage everywhere and is answered once (claims_workflow.py).
ClaimsAnswered == CoverageAgrees /\ OneRework

ClaimsSpec == ClaimsInit /\ [][ClaimsNext]_claimVars
=============================================================================
