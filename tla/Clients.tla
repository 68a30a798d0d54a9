------------------------------ MODULE Clients ------------------------------
(***************************************************************************)
(* The clients of a filial, their vehicles and the sales made to them.     *)
(*                                                                         *)
(* The filial's lock serializes what compares vehicles' identities, the    *)
(* client's lock its edits, and a document is unique in the table: each of *)
(* these operations is one step.  A sale looks for its client and is       *)
(* written later, and an edit is made on a form opened before: both meet   *)
(* whatever happened in between.  Identifiers are used again only once     *)
(* nothing names them, as if they were new.                                *)
(*                                                                         *)
(* Left out: contact data, a lead's notes, mileages (module                *)
(* WarrantyClaims) and maintenance plans.                                  *)
(***************************************************************************)
EXTENDS Integers, FiniteSets

CONSTANTS
  People,       \* identifiers of clients
  Documents,    \* document numbers
  Identities,   \* of vehicles: a VIN and a plate, each of which may be missing
  StockUnits,   \* identities of the dealership's units, all with a VIN
  Suppliers,    \* documents of suppliers: a subset of Documents
  Editors,      \* forms open at a time
  SaleIds,      \* sales with the document of their buyer
  MaxCars       \* bound: vehicles ever registered

ASSUME ClientsAssumption ==
  /\ Suppliers \subseteq Documents /\ StockUnits \subseteq Identities
  /\ MaxCars \in Nat
  /\ \A i \in StockUnits : i.vin # {}

VARIABLES
  people,    \* clients
  garage,    \* vehicles
  buys,      \* part_sales and vehicle_sales, as read and as written
  forms      \* client sheets being edited

clientVars == <<people, garage, buys, forms>>

CarIds == 1..MaxCars
Person == [doc : Documents, stands : SUBSET Suppliers]
Car == [owner : People, id : Identities, visited : BOOLEAN]   \* visited: has an order or an inspection
Buy == [doc : Documents, client : SUBSET People, saved : BOOLEAN, cancelled : BOOLEAN]
Form == [client : People, cars : SUBSET CarIds, stale : BOOLEAN]   \* stale: the version read has changed

ClientsTypeOK ==
  /\ people \in [People -> SUBSET Person] /\ garage \in [CarIds -> SUBSET Car]
  /\ buys \in [SaleIds -> SUBSET Buy] /\ forms \in [Editors -> SUBSET Form]
  /\ \A k \in CarIds : Cardinality(garage[k]) <= 1

-----------------------------------------------------------------------------
(* Who is who *)

HasDoc(doc) == {c \in People : \E p \in people[c] : p.doc = doc}
CarsOf(c) == {k \in CarIds : \E v \in garage[k] : v.owner = c}
NewCar == {k \in CarIds : garage[k] = {} /\ \A j \in CarIds : j < k => garage[j] # {}}

\* Wrong: vehicles are told apart by their plates.
PlateClash(i, j) == i.plate \intersect j.plate # {}
\* The same vehicle twice, by VIN or by plate.
Clash(i, j) == i.vin \intersect j.vin # {} \/ i.plate \intersect j.plate # {}
IdentityFree(id, self) == \A k \in CarIds \ self : \A v \in garage[k] : ~Clash(id, v.id)

\* A lead has bought nothing and brought nothing to the workshop.
IsLead(c) ==
  /\ \A k \in CarsOf(c) : \A v \in garage[k] : ~v.visited
  /\ \A s \in SaleIds : \A b \in buys[s] : b.saved /\ c \in b.client => b.cancelled
  /\ \A p \in people[c] : p.stands = {}

-----------------------------------------------------------------------------
(* The sheet of a client *)

\* Sales written with the document before it was registered.
LinkUnassigned(c, doc) ==
  buys' = [s \in SaleIds |->
    {IF b.saved /\ b.client = {} /\ b.doc = doc THEN [b EXCEPT !.client = {c}] ELSE b : b \in buys[s]}]

\* A lead is registered without vehicles.
RegisterClient(c, doc, cars) ==
  /\ people[c] = {} /\ HasDoc(doc) = {}
  /\ \A id \in cars : IdentityFree(id, {})
  /\ Cardinality(cars) <= Cardinality(NewCar)
  /\ people' = [people EXCEPT ![c] = {[doc |-> doc, stands |-> {}]}]
  /\ garage' = [k \in CarIds |-> IF k \in NewCar
                 THEN {[owner |-> c, id |-> id, visited |-> FALSE] : id \in cars} ELSE garage[k]]
  /\ LinkUnassigned(c, doc)
  /\ UNCHANGED forms

OpenForm(e, c) ==
  /\ people[c] # {}
  /\ forms' = [forms EXCEPT ![e] = {[client |-> c, cars |-> CarsOf(c), stale |-> FALSE]}]
  /\ UNCHANGED <<people, garage, buys>>

\* Wrong: the last save wins.
AnyVersion(f) == people[f.client] # {}
\* The form was opened on the sheet as it is.
Current(f) == people[f.client] # {} /\ ~f.stale
\* The version of a client moves on; vehicles that are gone are no longer on any form.
Revised(c, gone) ==
  [e \in Editors |-> {[f EXCEPT !.stale = @ \/ f.client = c, !.cars = @ \ gone] : f \in forms[e]}]

Reconciled(c, gone, kept, more) ==
  [k \in CarIds |->
     CASE k \in gone -> {}
       [] k \in DOMAIN kept -> {[v EXCEPT !.id = kept[k]] : v \in garage[k]}
       [] k \in NewCar -> {[owner |-> c, id |-> id, visited |-> FALSE] : id \in more}
       [] OTHER -> garage[k]]

\* The sheet is saved with the vehicles kept, changed or not, and at most one more; the others
\* are deleted, which the database refuses once they have visits.
SaveForm(e, doc, kept, more) == \E f \in forms[e] : \E p \in people[f.client] :
  LET c == f.client
      gone == CarsOf(c) \ DOMAIN kept
  IN /\ Current(f)
     /\ DOMAIN kept \subseteq f.cars \intersect CarsOf(c)
     /\ doc # p.doc => HasDoc(doc) = {}
     /\ \A k \in DOMAIN kept : IdentityFree(kept[k], {k})
     /\ \A j, k \in DOMAIN kept : j # k => ~Clash(kept[j], kept[k])
     /\ \A id \in more : IdentityFree(id, {}) /\ \A k \in DOMAIN kept : ~Clash(id, kept[k])
     /\ \A k \in gone : \A v \in garage[k] : ~v.visited
     /\ Cardinality(more) <= Cardinality(NewCar)
     /\ people' = [people EXCEPT ![c] = {[p EXCEPT !.doc = doc]}]
     /\ garage' = Reconciled(c, gone, kept, more)
     /\ forms' = [Revised(c, gone) EXCEPT ![e] = {}]
     /\ UNCHANGED buys

\* A follow-up of a lead; the client's lock serializes it with the sheet's edits.
UpdateLead(c) ==
  /\ people[c] # {} /\ IsLead(c)
  /\ forms' = Revised(c, {})
  /\ UNCHANGED <<people, garage, buys>>

\* The vehicles go with the client, unless one has visits; its sales lose it.
DeleteClient(c) ==
  /\ people[c] # {} /\ \A k \in CarsOf(c) : \A v \in garage[k] : ~v.visited
  /\ people' = [people EXCEPT ![c] = {}]
  /\ garage' = [k \in CarIds |-> IF k \in CarsOf(c) THEN {} ELSE garage[k]]
  /\ buys' = [s \in SaleIds |->
       {IF b.saved THEN [b EXCEPT !.client = @ \ {c}] ELSE b : b \in buys[s]}]
  /\ forms' = [e \in Editors |-> {f \in forms[e] : f.client # c}]

\* The client that stands for a supplier is created the first time work is billed to it.
BillSupplier(doc, c) ==
  /\ \A d \in People : \A p \in people[d] : doc \notin p.stands
  /\ people[c] = {} /\ HasDoc(doc) = {}
  /\ people' = [people EXCEPT ![c] = {[doc |-> doc, stands |-> {doc}]}]
  /\ UNCHANGED <<garage, buys, forms>>

-----------------------------------------------------------------------------
(* The workshop, the counter and the dealership *)

VisitWorkshop(k) == \E v \in garage[k] :
  /\ ~v.visited
  /\ garage' = [garage EXCEPT ![k] = {[v EXCEPT !.visited = TRUE]}]
  /\ UNCHANGED <<people, buys, forms>>

\* The inspection of a sold unit registers it to its buyer; only its VIN is looked for, and the
\* version of the client's sheet stays.
ReceiveUnit(c, id) ==
  LET same == {k \in CarIds : \E v \in garage[k] : v.id.vin \intersect id.vin # {}}
  IN /\ people[c] # {} /\ same \subseteq CarsOf(c)
     /\ same = {} => NewCar # {}
     /\ garage' = [k \in CarIds |->
          CASE k \in same -> {[v EXCEPT !.visited = TRUE] : v \in garage[k]}
            [] same = {} /\ k \in NewCar -> {[owner |-> c, id |-> id, visited |-> TRUE]}
            [] OTHER -> garage[k]]
     /\ UNCHANGED <<people, buys, forms>>

\* A sale names its buyer by document: the client is looked for, then the sale is written.
ResolveBuyer(s, doc) ==
  /\ buys[s] = {}
  /\ buys' = [buys EXCEPT ![s] = {[doc |-> doc, client |-> HasDoc(doc), saved |-> FALSE, cancelled |-> FALSE]}]
  /\ UNCHANGED <<people, garage, forms>>
SaveSale(s) == \E b \in buys[s] :
  /\ ~b.saved /\ \A c \in b.client : people[c] # {}
  /\ buys' = [buys EXCEPT ![s] = {[b EXCEPT !.saved = TRUE]}]
  /\ UNCHANGED <<people, garage, forms>>
DropSale(s) == \E b \in buys[s] :
  /\ buys' = [buys EXCEPT ![s] = IF b.saved THEN {[b EXCEPT !.cancelled = TRUE]} ELSE {}]
  /\ ~b.cancelled
  /\ UNCHANGED <<people, garage, forms>>

-----------------------------------------------------------------------------
ClientsInit ==
  /\ people = [c \in People |-> {}] /\ garage = [k \in CarIds |-> {}]
  /\ buys = [s \in SaleIds |-> {}] /\ forms = [e \in Editors |-> {}]

OneAtMost(S) == {{}} \union {{x} : x \in S}

ClientRoutes ==
  \/ \E c \in People, doc \in Documents, cars \in OneAtMost(Identities) : RegisterClient(c, doc, cars)
  \/ \E e \in Editors, c \in People : OpenForm(e, c)
  \/ \E e \in Editors, doc \in Documents, cars \in SUBSET CarIds, more \in OneAtMost(Identities) :
       \E kept \in [cars -> Identities] : SaveForm(e, doc, kept, more)
  \/ \E c \in People : UpdateLead(c) \/ DeleteClient(c)

ClientsNext ==
  \/ ClientRoutes
  \/ \E c \in People : (\E doc \in Suppliers : BillSupplier(doc, c)) \/ \E id \in StockUnits : ReceiveUnit(c, id)
  \/ \E k \in CarIds : VisitWorkshop(k)
  \/ \E s \in SaleIds : SaveSale(s) \/ DropSale(s) \/ \E doc \in Documents : ResolveBuyer(s, doc)

ClientsSpec == ClientsInit /\ [][ClientsNext]_clientVars
-----------------------------------------------------------------------------
\* A vehicle is registered once, to one client: the sheets, the registrations and the units the
\* dealership sells find it by its VIN in whatever order they are saved.
VehicleOnce ==
  \A j, k \in CarIds : \A v \in garage[j], w \in garage[k] :
    j # k => v.id.vin \intersect w.id.vin = {}

\* An edit takes off a client's sheet only the vehicles its editor saw there, and a vehicle
\* with visits never goes: not the one a sale registered while the form was open.
RemovedAsSeen ==
  [][\A k \in CarIds : \A v \in garage[k] :
       garage'[k] = {} =>
         /\ ~v.visited
         /\ people'[v.owner] # {} => \E e \in Editors : \E f \in forms[e] : k \in f.cars /\ f.client = v.owner
    ]_clientVars
=============================================================================
