--------------------------- MODULE DealershipProofs ---------------------------
(***************************************************************************)
(* Theorems about the modules Clients and WarrantyClaims, for any number of *)
(* clients, vehicles, forms, orders, readings, claims and lots, and about   *)
(* their composition with VehicleSale.  Each part proves one inductive     *)
(* invariant of its module, which implies the module's type invariant and  *)
(* what its run checks.                                                    *)
(***************************************************************************)
EXTENDS MCDealership, VehicleSaleProofs, FiniteSetTheorems, SequenceTheorems, TLAPS

-----------------------------------------------------------------------------
(* Clients: vehicles and the forms that edit them *)

\* A row holds one vehicle at most; a form is open on a client that exists, and
\* unless it is stale it shows every vehicle of the client that has no visits.
OneCar == \A k \in CarIds : \A v, w \in garage[k] : v = w
FormsLive == \A e \in Editors : \A f \in forms[e] : people[f.client] # {}
FormsShow == \A e \in Editors : \A f \in forms[e] : \A k \in CarIds : \A v \in garage[k] :
  v.owner = f.client /\ ~v.visited /\ ~f.stale => k \in f.cars
ClientTables ==
  /\ people \in [People -> SUBSET Person] /\ garage \in [CarIds -> SUBSET Car]
  /\ buys \in [SaleIds -> SUBSET Buy] /\ forms \in [Editors -> SUBSET Form]

ClientsInv == ClientTables /\ OneCar /\ VehicleOnce /\ FormsLive /\ FormsShow

\* One vehicle a row is what the type invariant counts.
LEMMA OneCarCounts ==
  ASSUME ClientTables, OneCar
  PROVE  ClientsTypeOK
<1>1. ASSUME NEW k \in CarIds PROVE Cardinality(garage[k]) <= 1
  <2>1. CASE garage[k] = {}
    BY <2>1, FS_EmptySet
  <2>2. CASE garage[k] # {}
    <3>1. PICK v : v \in garage[k]
      BY <2>2
    <3>2. garage[k] = {v}
      BY <3>1 DEF OneCar
    <3>3. Cardinality({v}) = 1
      BY FS_Singleton
    <3> QED BY <3>2, <3>3
  <2> QED BY <2>1, <2>2
<1> QED BY <1>1 DEF ClientTables, ClientsTypeOK

\* The row a new vehicle takes is empty, and there is one such row at most.
LEMMA OneNewCar ==
  /\ \A k \in NewCar : k \in CarIds /\ garage[k] = {}
  /\ \A j, k \in NewCar : j = k
BY ClientsAssumption DEF NewCar, CarIds

\* What the tables keep, part by part.
LEMMA RegisterTables ==
  ASSUME ClientTables, NEW c \in People, NEW doc \in Documents, NEW cars \in OneAtMost(Identities),
         RegisterClient(c, doc, cars)
  PROVE  ClientTables'
<1>1. people' \in [People -> SUBSET Person]
  BY DEF ClientTables, RegisterClient, Person
<1>2. garage' \in [CarIds -> SUBSET Car]
  <2>1. {[owner |-> c, id |-> id, visited |-> FALSE] : id \in cars} \subseteq Car
    <3>1. cars \subseteq Identities
      BY DEF OneAtMost
    <3>2. ASSUME NEW i \in cars PROVE [owner |-> c, id |-> i, visited |-> FALSE] \in Car
      BY <3>1 DEF Car
    <3> QED BY <3>2
  <2> QED BY <2>1 DEF ClientTables, RegisterClient
<1>3. buys' \in [SaleIds -> SUBSET Buy]
  <2>1. ASSUME NEW s \in SaleIds, NEW b \in buys[s] PROVE [b EXCEPT !.client = {c}] \in Buy /\ b \in Buy
    BY DEF ClientTables, Buy
  <2> QED BY <2>1 DEF RegisterClient, LinkUnassigned
<1> QED BY <1>1, <1>2, <1>3 DEF ClientTables, RegisterClient

\* A form that is revised loses what is gone, and is stale once its client changed.
LEMMA RevisedForms ==
  ASSUME ClientTables, NEW c, NEW gone
  PROVE  /\ Revised(c, gone) \in [Editors -> SUBSET Form]
         /\ \A e \in Editors : \A g \in Revised(c, gone)[e] : \E f \in forms[e] :
              /\ g.client = f.client /\ g.cars = f.cars \ gone
              /\ g.stale <=> f.stale \/ f.client = c
<1>1. ASSUME NEW e \in Editors, NEW f \in forms[e]
      PROVE  LET g == [f EXCEPT !.stale = @ \/ f.client = c, !.cars = @ \ gone] IN
             /\ g \in Form /\ g.client = f.client /\ g.cars = f.cars \ gone
             /\ g.stale <=> f.stale \/ f.client = c
  <2>1. f \in Form
    BY DEF ClientTables
  <2> QED BY <2>1 DEF Form
<1>2. Revised(c, gone) \in [Editors -> SUBSET Form]
  <2>1. ASSUME NEW e \in Editors PROVE Revised(c, gone)[e] \in SUBSET Form
    BY <1>1 DEF Revised
  <2> QED BY <2>1 DEF Revised
<1>3. ASSUME NEW e \in Editors, NEW g \in Revised(c, gone)[e]
      PROVE  \E f \in forms[e] : /\ g.client = f.client /\ g.cars = f.cars \ gone
                                 /\ g.stale <=> f.stale \/ f.client = c
  <2>1. PICK f \in forms[e] : g = [f EXCEPT !.stale = @ \/ f.client = c, !.cars = @ \ gone]
    BY <1>3 DEF Revised
  <2> QED BY <1>1, <2>1
<1> QED BY <1>2, <1>3

\* Registering a client with a vehicle keeps the invariant.
LEMMA RegisterKeeps ==
  ASSUME ClientsInv, NEW c \in People, NEW doc \in Documents, NEW cars \in OneAtMost(Identities),
         RegisterClient(c, doc, cars)
  PROVE  ClientsInv'
<1>a. ClientTables /\ ClientTables'
  BY RegisterTables DEF ClientsInv
<1>b. /\ people[c] = {} /\ UNCHANGED forms
      /\ \A id \in cars : IdentityFree(id, {})
      /\ people' = [people EXCEPT ![c] = {[doc |-> doc, stands |-> {}]}]
      /\ garage' = [k \in CarIds |-> IF k \in NewCar
                 THEN {[owner |-> c, id |-> id, visited |-> FALSE] : id \in cars} ELSE garage[k]]
  BY DEF RegisterClient
<1>c. \A i, j \in cars : i = j
  BY DEF OneAtMost
<1>1. ASSUME NEW k \in CarIds, NEW v \in garage'[k]
      PROVE  \/ k \in NewCar /\ v.owner = c /\ v.id \in cars /\ v = [owner |-> c, id |-> v.id, visited |-> FALSE]
             \/ k \notin NewCar /\ v \in garage[k]
  BY <1>b, <1>1
<1>2. OneCar'
  <2> SUFFICES ASSUME NEW k \in CarIds, NEW v \in garage'[k], NEW w \in garage'[k]
               PROVE  v = w
    BY DEF OneCar
  <2>1. CASE k \in NewCar
    <3>1. v.id = w.id
      BY <1>1, <1>c, <2>1
    <3> QED BY <1>1, <2>1, <3>1
  <2>2. CASE k \notin NewCar
    BY <1>1, <2>2 DEF ClientsInv, OneCar
  <2> QED BY <2>1, <2>2
<1>3. ASSUME NEW j \in CarIds, NEW k \in CarIds, NEW v \in garage'[j], NEW w \in garage'[k], j # k
      PROVE  v.id.vin \intersect w.id.vin = {}
  <2>1. CASE j \in NewCar
    <3>1. k \notin NewCar /\ w \in garage[k]
      BY <1>1, <1>3, <2>1, OneNewCar
    <3> QED BY <1>b, <1>1, <2>1, <3>1 DEF IdentityFree, Clash
  <2>2. CASE k \in NewCar
    <3>1. j \notin NewCar /\ v \in garage[j]
      BY <1>1, <1>3, <2>2, OneNewCar
    <3> QED BY <1>b, <1>1, <2>2, <3>1 DEF IdentityFree, Clash
  <2>3. CASE j \notin NewCar /\ k \notin NewCar
    BY <1>1, <1>3, <2>3 DEF ClientsInv, VehicleOnce
  <2> QED BY <2>1, <2>2, <2>3
<1>4. FormsLive'
  <2>1. \A d \in People : people[d] # {} => people'[d] # {}
    BY <1>a, <1>b DEF ClientTables
  <2>2. ASSUME NEW e \in Editors, NEW f \in forms[e] PROVE f.client \in People
    BY <1>a DEF ClientTables, Form
  <2> QED BY <1>b, <2>1, <2>2 DEF ClientsInv, FormsLive
<1>5. FormsShow'
  <2>1. ASSUME NEW e \in Editors, NEW f \in forms[e] PROVE f.client # c
    BY <1>b DEF ClientsInv, FormsLive
  <2> QED BY <1>b, <1>1, <2>1 DEF ClientsInv, FormsShow
<1> QED BY <1>a, <1>2, <1>3, <1>4, <1>5 DEF ClientsInv, VehicleOnce

\* Rows are emptied with their client, or keep their identities and owners.
LEMMA QuietGarage ==
  ASSUME ClientsInv, ClientTables',
         \A k \in CarIds : \A v \in garage'[k] :
           /\ \E w \in garage[k] : v.id = w.id
           /\ \A x \in garage'[k] : x = v
  PROVE  OneCar' /\ VehicleOnce'
<1>1. OneCar'
  BY DEF OneCar
<1>2. ASSUME NEW j \in CarIds, NEW k \in CarIds, NEW v \in garage'[j], NEW w \in garage'[k], j # k
      PROVE  v.id.vin \intersect w.id.vin = {}
  <2>1. PICK x \in garage[j] : x.id = v.id
    OBVIOUS
  <2>2. PICK y \in garage[k] : y.id = w.id
    OBVIOUS
  <2>3. x.id.vin \intersect y.id.vin = {}
    BY <1>2 DEF ClientsInv, VehicleOnce
  <2> QED BY <2>1, <2>2, <2>3
<1> QED BY <1>1, <1>2 DEF VehicleOnce

\* So does saving a form, which removes only what it showed and has no visits.
LEMMA SaveKeeps ==
  ASSUME ClientsInv, NEW e \in Editors, NEW doc \in Documents, NEW cars \in SUBSET CarIds,
         NEW more \in OneAtMost(Identities), NEW kept \in [cars -> Identities],
         SaveForm(e, doc, kept, more)
  PROVE  /\ ClientsInv'
         /\ \A k \in CarIds : \A v \in garage[k] : garage'[k] = {} =>
              ~v.visited /\ \E f \in forms[e] : k \in f.cars /\ f.client = v.owner
<1>f. PICK f \in forms[e] : \E p \in people[f.client] :
        LET c == f.client
            gone == CarsOf(c) \ DOMAIN kept
        IN /\ Current(f)
           /\ DOMAIN kept \subseteq f.cars \intersect CarsOf(c)
           /\ doc # p.doc => HasDoc(doc) = {}
           /\ \A k \in DOMAIN kept : IdentityFree(kept[k], {k})
           /\ \A j, k \in DOMAIN kept : j # k => ~Clash(kept[j], kept[k])
           /\ \A id \in more : IdentityFree(id, {}) /\ \A k \in DOMAIN kept : ~Clash(id, kept[k])
           /\ \A k \in gone : \A v \in garage[k] : ~v.visited
           /\ Cardinality(more) <= Cardinality(NewCar)
           /\ people' = [people EXCEPT ![c] = {[p EXCEPT !.doc = doc]}]
           /\ garage' = Reconciled(c, gone, kept, more)
           /\ forms' = [Revised(c, gone) EXCEPT ![e] = {}]
           /\ UNCHANGED buys
  BY DEF SaveForm
<1> DEFINE c == f.client
           gone == CarsOf(c) \ DOMAIN kept
<1>p. PICK p \in people[f.client] : people' = [people EXCEPT ![f.client] = {[p EXCEPT !.doc = doc]}]
  BY <1>f
<1>a. /\ Current(f)
      /\ DOMAIN kept \subseteq f.cars \intersect CarsOf(c)
      /\ \A k \in DOMAIN kept : IdentityFree(kept[k], {k})
      /\ \A j, k \in DOMAIN kept : j # k => ~Clash(kept[j], kept[k])
      /\ \A id \in more : IdentityFree(id, {}) /\ \A k \in DOMAIN kept : ~Clash(id, kept[k])
      /\ \A k \in gone : \A v \in garage[k] : ~v.visited
      /\ people' = [people EXCEPT ![c] = {[p EXCEPT !.doc = doc]}]
      /\ garage' = Reconciled(c, gone, kept, more)
      /\ forms' = [Revised(c, gone) EXCEPT ![e] = {}]
      /\ UNCHANGED buys
  <2>1. people' = [people EXCEPT ![c] = {[p EXCEPT !.doc = doc]}]
    BY <1>p
  <2>2. PICK q \in people[f.client] :
           /\ Current(f)
           /\ DOMAIN kept \subseteq f.cars \intersect CarsOf(c)
           /\ doc # q.doc => HasDoc(doc) = {}
           /\ \A k \in DOMAIN kept : IdentityFree(kept[k], {k})
           /\ \A j, k \in DOMAIN kept : j # k => ~Clash(kept[j], kept[k])
           /\ \A id \in more : IdentityFree(id, {}) /\ \A k \in DOMAIN kept : ~Clash(id, kept[k])
           /\ \A k \in gone : \A v \in garage[k] : ~v.visited
           /\ Cardinality(more) <= Cardinality(NewCar)
           /\ people' = [people EXCEPT ![c] = {[q EXCEPT !.doc = doc]}]
           /\ garage' = Reconciled(c, gone, kept, more)
           /\ forms' = [Revised(c, gone) EXCEPT ![e] = {}]
           /\ UNCHANGED buys
    BY <1>f
  <2> QED BY <2>1, <2>2
<1>b. ClientTables /\ OneCar /\ VehicleOnce /\ FormsLive /\ FormsShow
  BY DEF ClientsInv
<1>c. c \in People /\ f \in Form /\ p \in Person /\ DOMAIN kept = cars
  BY <1>b DEF ClientTables, Form
<1>d. \A i, j \in more : i = j
  BY DEF OneAtMost
<1>e. CarsOf(c) \subseteq CarIds /\ \A k \in CarsOf(c) : \A v \in garage[k] : v.owner = c
  BY <1>b DEF CarsOf, OneCar
<1>g. /\ gone \intersect cars = {} /\ cars \subseteq CarsOf(c) /\ c = f.client
      /\ \A k \in CarIds : k \in gone <=> k \in CarsOf(c) /\ k \notin cars
  BY <1>a, <1>c, <1>e
<1> HIDE DEF c, gone
<1>1. ASSUME NEW k \in CarIds, NEW v \in garage'[k]
      PROVE  \/ /\ k \in cars /\ k \notin NewCar /\ v.id = kept[k]
                /\ \E w \in garage[k] : v = [w EXCEPT !.id = kept[k]]
             \/ k \in NewCar /\ k \notin cars /\ v.id \in more /\ v = [owner |-> c, id |-> v.id, visited |-> FALSE]
             \/ k \notin cars /\ k \notin NewCar /\ k \notin CarsOf(c) /\ v \in garage[k]
  <2>1. garage'[k] = CASE k \in gone -> {}
       [] k \in cars -> {[w EXCEPT !.id = kept[k]] : w \in garage[k]}
       [] k \in NewCar -> {[owner |-> c, id |-> id, visited |-> FALSE] : id \in more}
       [] OTHER -> garage[k]
    BY <1>a, <1>c DEF Reconciled
  <2>2. gone \intersect cars = {} /\ (k \in CarsOf(c) => garage[k] # {}) /\ cars \subseteq CarsOf(c)
    BY <1>g DEF CarsOf
  <2>3. k \in NewCar => garage[k] = {}
    BY OneNewCar
  <2>4. \A w \in garage[k] : [w EXCEPT !.id = kept[k]].id = kept[k]
    BY <1>b DEF ClientTables, Car
  <2>5. CASE k \in gone
    BY <1>1, <2>1, <2>2, <2>3, <2>5, <1>g
  <2>6. CASE k \in cars
    <3>1. garage'[k] = {[w EXCEPT !.id = kept[k]] : w \in garage[k]}
      BY <2>1, <2>2, <2>3, <2>6, <1>g
    <3> QED BY <1>1, <2>2, <2>3, <2>4, <2>6, <3>1
  <2>7. CASE k \in NewCar
    <3>1. garage'[k] = {[owner |-> c, id |-> id, visited |-> FALSE] : id \in more}
      BY <1>c, <2>1, <2>2, <2>3, <2>7
    <3> QED BY <1>1, <2>2, <2>3, <2>7, <3>1
  <2>8. CASE k \notin gone /\ k \notin cars /\ k \notin NewCar
    <3>1. garage'[k] = garage[k]
      BY <2>1, <2>8
    <3> QED BY <1>1, <1>g, <2>8, <3>1
  <2> QED BY <2>5, <2>6, <2>7, <2>8
<1>t. ClientTables'
  <2>1. people' \in [People -> SUBSET Person]
    BY <1>a, <1>b, <1>c DEF ClientTables, Person
  <2>2. garage' \in [CarIds -> SUBSET Car]
    <3>1. DOMAIN garage' = CarIds /\ garage' = [k \in CarIds |-> garage'[k]]
      BY <1>a DEF Reconciled
    <3>2. ASSUME NEW k \in CarIds, NEW v \in garage'[k]
          PROVE  v \in Car
      <4>1. CASE k \in cars /\ \E w \in garage[k] : v = [w EXCEPT !.id = kept[k]]
        BY <1>b, <4>1 DEF ClientTables, Car
      <4>2. CASE v.id \in more /\ v = [owner |-> c, id |-> v.id, visited |-> FALSE]
        <5>1. v.id \in Identities
          BY <4>2 DEF OneAtMost
        <5>2. c \in People
          BY <1>c, <1>g
        <5>3. [owner |-> c, id |-> v.id, visited |-> FALSE] \in Car
          BY <5>1, <5>2 DEF Car
        <5> QED BY <4>2, <5>3
      <4>3. CASE v \in garage[k]
        BY <1>b, <4>3 DEF ClientTables
      <4> QED BY <1>1, <3>2, <4>1, <4>2, <4>3
    <3> QED BY <3>1, <3>2
  <2>3. forms' \in [Editors -> SUBSET Form]
    BY <1>a, <1>b, RevisedForms
  <2> QED BY <1>a, <1>b, <2>1, <2>2, <2>3 DEF ClientTables
<1>2. OneCar'
  <2> SUFFICES ASSUME NEW k \in CarIds, NEW v \in garage'[k], NEW w \in garage'[k]
               PROVE  v = w
    BY DEF OneCar
  <2>1. CASE k \in NewCar
    <3>1. v.id = w.id
      BY <1>1, <1>d, <2>1, OneNewCar DEF NewCar
    <3> QED BY <1>1, <2>1, <3>1
  <2>2. CASE k \in cars
    <3>1. k \notin NewCar
      BY <1>1, <2>2
    <3>2. PICK x \in garage[k] : v = [x EXCEPT !.id = kept[k]]
      BY <1>1, <2>2, <3>1
    <3>3. PICK y \in garage[k] : w = [y EXCEPT !.id = kept[k]]
      BY <1>1, <2>2, <3>1
    <3>4. x = y
      BY <1>b DEF OneCar
    <3> QED BY <3>2, <3>3, <3>4
  <2>3. CASE k \notin cars /\ k \notin NewCar
    BY <1>1, <1>b, <2>3 DEF OneCar
  <2> QED BY <2>1, <2>2, <2>3
<1>3. ASSUME NEW j \in CarIds, NEW k \in CarIds, NEW v \in garage'[j], NEW w \in garage'[k], j # k
      PROVE  v.id.vin \intersect w.id.vin = {}
  <2>1. CASE j \in cars /\ k \in cars
    <3>1. v.id = kept[j] /\ w.id = kept[k]
      BY <1>1, <1>3, <2>1
    <3>2. ~Clash(kept[j], kept[k])
      BY <1>3, <1>a, <1>c, <2>1
    <3> QED BY <3>1, <3>2 DEF Clash
  <2>2. ASSUME NEW x \in CarIds, NEW y \in CarIds, NEW u \in garage'[x], NEW z \in garage'[y], x # y,
               x \in cars, y \notin cars
        PROVE  u.id.vin \intersect z.id.vin = {}
    <3>1. u.id = kept[x]
      BY <1>1, <2>2
    <3>2. CASE y \in NewCar
      <4>1. z.id \in more
        BY <1>1, <2>2, <3>2
      <4> QED BY <1>a, <1>c, <2>2, <3>1, <4>1 DEF Clash
    <3>3. CASE y \notin NewCar
      <4>1. z \in garage[y]
        BY <1>1, <2>2, <3>3
      <4>2. IdentityFree(kept[x], {x})
        BY <1>a, <1>c, <2>2
      <4> QED BY <2>2, <3>1, <4>1, <4>2 DEF IdentityFree, Clash
    <3> QED BY <3>2, <3>3
  <2>3. CASE j \notin cars /\ k \notin cars
    <3>1. CASE j \in NewCar /\ k \in NewCar
      BY <1>3, <3>1, OneNewCar
    <3>2. CASE j \in NewCar /\ k \notin NewCar
      <4>1. v.id \in more /\ w \in garage[k]
        BY <1>1, <2>3, <3>2
      <4> QED BY <1>a, <4>1 DEF IdentityFree, Clash
    <3>3. CASE j \notin NewCar /\ k \in NewCar
      <4>1. w.id \in more /\ v \in garage[j]
        BY <1>1, <2>3, <3>3
      <4> QED BY <1>a, <4>1 DEF IdentityFree, Clash
    <3>4. CASE j \notin NewCar /\ k \notin NewCar
      BY <1>1, <1>3, <1>b, <2>3, <3>4 DEF VehicleOnce
    <3> QED BY <3>1, <3>2, <3>3, <3>4
  <2> QED BY <1>3, <2>1, <2>2, <2>3
<1>4. ASSUME NEW x \in Editors, NEW g \in forms'[x]
      PROVE  \E h \in forms[x] : /\ g.client = h.client /\ g.cars = h.cars \ gone
                                 /\ g.stale <=> h.stale \/ h.client = c
  BY <1>a, <1>b, <1>4, RevisedForms
<1>5. FormsLive'
  <2>1. \A d \in People : people[d] # {} => people'[d] # {}
    BY <1>a, <1>b, <1>c DEF ClientTables
  <2>2. ASSUME NEW x \in Editors, NEW h \in forms[x] PROVE h.client \in People /\ people[h.client] # {}
    BY <1>b DEF ClientTables, Form, FormsLive
  <2> QED BY <1>4, <2>1, <2>2 DEF FormsLive
<1>6. FormsShow'
  <2> SUFFICES ASSUME NEW x \in Editors, NEW g \in forms'[x], NEW k \in CarIds, NEW v \in garage'[k],
                      v.owner = g.client, ~v.visited, ~g.stale
               PROVE  k \in g.cars
    BY DEF FormsShow
  <2>1. PICK h \in forms[x] : /\ g.client = h.client /\ g.cars = h.cars \ gone
                              /\ g.stale <=> h.stale \/ h.client = c
    BY <1>4
  <2>2. v.owner # c
    BY <2>1
  <2>3. ASSUME NEW w \in garage[k], k \in CarsOf(c) PROVE w.owner = c
    BY <1>e, <2>3
  <2>4. k \notin cars
    <3> SUFFICES ASSUME k \in cars PROVE FALSE
      OBVIOUS
    <3>1. k \in CarsOf(c) /\ k \notin NewCar
      BY <1>g, <1>1
    <3>2. PICK w \in garage[k] : v = [w EXCEPT !.id = kept[k]]
      BY <1>1, <3>1
    <3>3. v.owner = w.owner
      BY <1>b, <3>2 DEF ClientTables, Car
    <3> QED BY <2>2, <2>3, <3>1, <3>3
  <2>5. v \in garage[k] /\ k \notin CarsOf(c)
    BY <1>1, <2>2, <2>4
  <2>6. k \in h.cars
    BY <1>b, <2>1, <2>5 DEF FormsShow
  <2> QED BY <2>1, <2>5, <2>6, <1>g
<1>7. ASSUME NEW k \in CarIds, NEW v \in garage[k], garage'[k] = {}
      PROVE  ~v.visited /\ k \in f.cars /\ f.client = v.owner
  <2>1. garage'[k] = CASE k \in gone -> {}
       [] k \in cars -> {[w EXCEPT !.id = kept[k]] : w \in garage[k]}
       [] k \in NewCar -> {[owner |-> c, id |-> id, visited |-> FALSE] : id \in more}
       [] OTHER -> garage[k]
    BY <1>a, <1>c DEF Reconciled
  <2>2. k \notin NewCar
    BY <1>7, OneNewCar
  <2>3. k \in gone
    <3> SUFFICES ASSUME k \notin gone PROVE FALSE
      OBVIOUS
    <3>1. CASE k \in cars
      <4>1. garage'[k] = {[w EXCEPT !.id = kept[k]] : w \in garage[k]}
        BY <2>1, <2>2, <3>1
      <4> QED BY <1>7, <4>1
    <3>2. CASE k \notin cars
      <4>1. garage'[k] = garage[k]
        BY <2>1, <2>2, <3>2
      <4> QED BY <1>7, <4>1
    <3> QED BY <3>1, <3>2
  <2>4. ~v.visited /\ v.owner = c
    BY <1>a, <1>e, <1>g, <2>3
  <2>5. ~f.stale
    BY <1>a DEF Current
  <2> QED BY <1>b, <1>g, <2>4, <2>5 DEF FormsShow
<1> QED BY <1>t, <1>2, <1>3, <1>5, <1>6, <1>7 DEF ClientsInv, VehicleOnce
\* Sales do not touch the sheets.
LEMMA SalesAside ==
  ASSUME ClientsInv, UNCHANGED <<people, garage, forms>>, buys' \in [SaleIds -> SUBSET Buy]
  PROVE  ClientsInv'
BY DEF ClientsInv, ClientTables, OneCar, VehicleOnce, FormsLive, FormsShow

\* Nor does what only opens forms, on clients that exist and as they are, or makes them stale.
LEMMA FormsAside ==
  ASSUME ClientsInv, UNCHANGED <<people, garage, buys>>, forms' \in [Editors -> SUBSET Form],
         \A e \in Editors : \A g \in forms'[e] :
           \/ people[g.client] # {} /\ g.cars = CarsOf(g.client)
           \/ \E f \in forms[e] : g.client = f.client /\ g.cars = f.cars /\ (f.stale => g.stale)
  PROVE  ClientsInv'
<1>1. FormsLive'
  BY DEF ClientsInv, FormsLive
<1>2. FormsShow'
  <2> SUFFICES ASSUME NEW e \in Editors, NEW g \in forms'[e], NEW k \in CarIds, NEW v \in garage[k],
                      v.owner = g.client, ~v.visited, ~g.stale
               PROVE  k \in g.cars
    BY DEF FormsShow
  <2>1. CASE g.cars = CarsOf(g.client)
    BY <2>1 DEF CarsOf
  <2>2. CASE \E f \in forms[e] : g.client = f.client /\ g.cars = f.cars /\ (f.stale => g.stale)
    BY <2>2 DEF ClientsInv, FormsShow
  <2> QED BY <2>1, <2>2
<1> QED BY <1>1, <1>2 DEF ClientsInv, ClientTables, OneCar, VehicleOnce

\* So does opening one.
LEMMA OpenKeeps ==
  ASSUME ClientsInv, NEW e \in Editors, NEW c \in People, OpenForm(e, c)
  PROVE  ClientsInv'
<1>1. people[c] # {} /\ UNCHANGED <<people, garage, buys>>
      /\ forms' = [forms EXCEPT ![e] = {[client |-> c, cars |-> CarsOf(c), stale |-> FALSE]}]
  BY DEF OpenForm
<1>2. [client |-> c, cars |-> CarsOf(c), stale |-> FALSE] \in Form
  BY DEF Form, CarsOf
<1>3. forms \in [Editors -> SUBSET Form]
  BY DEF ClientsInv, ClientTables
<1>4. forms' \in [Editors -> SUBSET Form]
  BY <1>1, <1>2, <1>3
<1>5. ASSUME NEW x \in Editors, NEW g \in forms'[x]
      PROVE  \/ people[g.client] # {} /\ g.cars = CarsOf(g.client)
             \/ \E f \in forms[x] : g.client = f.client /\ g.cars = f.cars /\ (f.stale => g.stale)
  <2>1. CASE x = e
    BY <1>1, <1>3, <1>5, <2>1
  <2>2. CASE x # e
    BY <1>1, <1>3, <1>5, <2>2
  <2> QED BY <2>1, <2>2
<1> QED BY <1>1, <1>4, <1>5, FormsAside

\* So does updating a lead.
LEMMA LeadKeeps ==
  ASSUME ClientsInv, NEW c \in People, UpdateLead(c)
  PROVE  ClientsInv'
<1>1. forms' = Revised(c, {}) /\ UNCHANGED <<people, garage, buys>>
  BY DEF UpdateLead
<1>2. ClientTables
  BY DEF ClientsInv
<1>3. ASSUME NEW e \in Editors, NEW g \in forms'[e]
      PROVE  \E f \in forms[e] : g.client = f.client /\ g.cars = f.cars /\ (f.stale => g.stale)
  <2>a. g \in Revised(c, {})[e]
    BY <1>1, <1>3
  <2>b. \E f \in forms[e] : g.client = f.client /\ g.cars = f.cars \ {} /\ (g.stale <=> f.stale \/ f.client = c)
    <3> DEFINE none == {}
    <3> HIDE DEF none
    <3>1. \A x \in Editors : \A h \in Revised(c, none)[x] : \E f \in forms[x] :
             /\ h.client = f.client /\ h.cars = f.cars \ none
             /\ h.stale <=> f.stale \/ f.client = c
      BY <1>2, RevisedForms
    <3> QED BY <2>a, <3>1 DEF none
  <2>1. PICK f \in forms[e] : g.client = f.client /\ g.cars = f.cars \ {} /\ (g.stale <=> f.stale \/ f.client = c)
    BY <2>b
  <2>2. g.cars = f.cars
    <3>1. f.cars \subseteq CarIds
      BY <1>2 DEF ClientTables, Form
    <3> QED BY <2>1, <3>1
  <2> QED BY <2>1, <2>2
<1> QED BY <1>1, <1>2, <1>3, RevisedForms, FormsAside

\* The vehicles go with their client, which no form shows any more.
LEMMA DeleteKeeps ==
  ASSUME ClientsInv, NEW c \in People, DeleteClient(c)
  PROVE  ClientsInv'
<1>a. /\ people' = [people EXCEPT ![c] = {}]
      /\ garage' = [k \in CarIds |-> IF k \in CarsOf(c) THEN {} ELSE garage[k]]
      /\ buys' = [s \in SaleIds |->
           {IF b.saved THEN [b EXCEPT !.client = @ \ {c}] ELSE b : b \in buys[s]}]
      /\ forms' = [e \in Editors |-> {f \in forms[e] : f.client # c}]
  BY DEF DeleteClient
<1>b. ClientTables
  BY DEF ClientsInv
<1>1. ASSUME NEW k \in CarIds, NEW v \in garage'[k]
      PROVE  v \in garage[k]
  BY <1>a, <1>1
<1>2. buys' \in [SaleIds -> SUBSET Buy]
  <2>1. ASSUME NEW s \in SaleIds, NEW b \in buys[s]
        PROVE  [b EXCEPT !.client = @ \ {c}] \in Buy /\ b \in Buy
    BY <1>b DEF ClientTables, Buy
  <2>2. ASSUME NEW s \in SaleIds PROVE buys'[s] \subseteq Buy
    BY <1>a, <2>1
  <2> QED BY <1>a, <2>2
<1>3. ClientTables'
  BY <1>a, <1>b, <1>2 DEF ClientTables
<1>4. FormsLive'
  <2>1. ASSUME NEW e \in Editors, NEW f \in forms'[e] PROVE people'[f.client] # {}
    <3>1. f \in forms[e] /\ f.client # c
      BY <1>a, <2>1
    <3>2. people[f.client] # {} /\ f.client \in People
      BY <1>b, <3>1 DEF ClientsInv, FormsLive, ClientTables, Form
    <3> QED BY <1>a, <1>b, <3>1, <3>2 DEF ClientTables
  <2> QED BY <2>1 DEF FormsLive
<1>5. FormsShow'
  BY <1>a, <1>1 DEF ClientsInv, FormsShow
<1>6. OneCar' /\ VehicleOnce'
  BY <1>1 DEF ClientsInv, OneCar, VehicleOnce
<1> QED BY <1>3, <1>4, <1>5, <1>6 DEF ClientsInv

\* So does billing a supplier, who becomes a client.
LEMMA BillKeeps ==
  ASSUME ClientsInv, NEW doc \in Suppliers, NEW c \in People, BillSupplier(doc, c)
  PROVE  ClientsInv'
<1>a. /\ people' = [people EXCEPT ![c] = {[doc |-> doc, stands |-> {doc}]}]
      /\ UNCHANGED <<garage, buys, forms>>
  BY DEF BillSupplier
<1>1. [doc |-> doc, stands |-> {doc}] \in Person
  BY ClientsAssumption DEF Person
<1>2. ClientTables'
  BY <1>a, <1>1 DEF ClientsInv, ClientTables
<1>3. \A d \in DOMAIN people : people[d] # {} => people'[d] # {}
  BY <1>a
<1>4. FormsLive'
  <2>1. ASSUME NEW e \in Editors, NEW f \in forms[e] PROVE f.client \in DOMAIN people
    BY DEF ClientsInv, ClientTables, Form
  <2> QED BY <1>a, <1>3, <2>1 DEF ClientsInv, FormsLive
<1> QED BY <1>a, <1>2, <1>4 DEF ClientsInv, OneCar, VehicleOnce, FormsShow

\* A visit only marks the vehicle.
LEMMA VisitKeeps ==
  ASSUME ClientsInv, NEW k \in CarIds, VisitWorkshop(k)
  PROVE  ClientsInv' /\ \A j \in CarIds : garage[j] # {} => garage'[j] # {}
<1>a. PICK v \in garage[k] : garage' = [garage EXCEPT ![k] = {[v EXCEPT !.visited = TRUE]}]
                             /\ UNCHANGED <<people, buys, forms>>
  BY DEF VisitWorkshop
<1>b. ClientTables /\ garage \in [CarIds -> SUBSET Car] /\ v \in Car
  BY DEF ClientsInv, ClientTables
<1> DEFINE m == [v EXCEPT !.visited = TRUE]
<1>c. m \in Car /\ m.id = v.id /\ m.owner = v.owner /\ m.visited = TRUE
  BY <1>b DEF Car
<1> HIDE DEF m
<1>1. \A j \in CarIds : garage'[j] = IF j = k THEN {m} ELSE garage[j]
  BY <1>a, <1>b DEF m
<1>2. ClientTables'
  BY <1>a, <1>b, <1>c, <1>1 DEF ClientTables, m
<1>3. OneCar' /\ VehicleOnce'
  <2>1. ASSUME NEW j \in CarIds, NEW w \in garage'[j]
        PROVE  (\E x \in garage[j] : w.id = x.id) /\ (\A x \in garage'[j] : x = w)
    BY <1>1, <1>c, <2>1 DEF ClientsInv, OneCar
  <2> QED BY <1>2, <2>1, QuietGarage
<1>4. FormsShow'
  BY <1>a, <1>1, <1>c DEF ClientsInv, FormsShow
<1>5. FormsLive'
  BY <1>a DEF ClientsInv, FormsLive
<1> QED BY <1>1, <1>2, <1>3, <1>4, <1>5 DEF ClientsInv

\* A sold unit's inspection registers its VIN where no sheet has it, and as visited.
LEMMA ReceiveKeeps ==
  ASSUME ClientsInv, NEW c \in People, NEW id \in StockUnits, ReceiveUnit(c, id)
  PROVE  ClientsInv' /\ \A j \in CarIds : garage[j] # {} => garage'[j] # {}
<1> DEFINE same == {k \in CarIds : \E v \in garage[k] : v.id.vin \intersect id.vin # {}}
           new == [owner |-> c, id |-> id, visited |-> TRUE]
<1>a. /\ garage' = [k \in CarIds |->
            CASE k \in same -> {[v EXCEPT !.visited = TRUE] : v \in garage[k]}
              [] same = {} /\ k \in NewCar -> {new}
              [] OTHER -> garage[k]]
      /\ UNCHANGED <<people, buys, forms>>
  BY DEF ReceiveUnit
<1>b. ClientTables /\ garage \in [CarIds -> SUBSET Car] /\ OneCar /\ VehicleOnce /\ FormsShow
  BY DEF ClientsInv, ClientTables
<1>c. new \in Car /\ new.id = id /\ new.visited = TRUE
  <2>1. id \in Identities
    BY ClientsAssumption
  <2> QED BY <2>1 DEF Car
<1>d. /\ \A k \in same : k \in CarIds /\ k \notin NewCar
      /\ \A k \in CarIds \ same : \A v \in garage[k] : v.id.vin \intersect id.vin = {}
  BY OneNewCar
<1> HIDE DEF same, new
<1>1. ASSUME NEW k \in CarIds
      PROVE  /\ k \in same => garage'[k] = {[v EXCEPT !.visited = TRUE] : v \in garage[k]}
             /\ k \notin same /\ same = {} /\ k \in NewCar => garage'[k] = {new}
             /\ k \notin same /\ (same # {} \/ k \notin NewCar) => garage'[k] = garage[k]
  BY <1>a, <1>d
<1>2. ASSUME NEW k \in CarIds, NEW v \in garage'[k]
      PROVE  /\ v \in Car
             /\ \/ \E w \in garage[k] : v.id = w.id /\ v.owner = w.owner /\ (w.visited => v.visited)
                \/ k \in NewCar /\ same = {} /\ v = new
             /\ \A x \in garage'[k] : x = v
  <2>1. CASE k \in same
    <3>1. ASSUME NEW w \in garage[k]
          PROVE  LET m == [w EXCEPT !.visited = TRUE] IN
                 m \in Car /\ m.id = w.id /\ m.owner = w.owner /\ m.visited
      <4>1. w \in Car
        BY <1>b
      <4> QED BY <4>1 DEF Car
    <3>2. garage'[k] = {[w EXCEPT !.visited = TRUE] : w \in garage[k]}
      BY <1>1, <2>1
    <3>3. \A x, y \in garage[k] : x = y
      BY <1>b DEF OneCar
    <3>4. PICK w \in garage[k] : v = [w EXCEPT !.visited = TRUE]
      BY <1>2, <3>2
    <3>5. \A x \in garage'[k] : x = v
      BY <3>2, <3>3, <3>4
    <3> QED BY <3>1, <3>4, <3>5
  <2>2. CASE k \notin same /\ same = {} /\ k \in NewCar
    BY <1>1, <1>2, <1>c, <2>2
  <2>3. CASE k \notin same /\ (same # {} \/ k \notin NewCar)
    BY <1>1, <1>2, <1>b, <2>3 DEF OneCar
  <2> QED BY <2>1, <2>2, <2>3
<1>3. ClientTables'
  <2>1. \A k \in CarIds : garage'[k] \subseteq Car
    BY <1>2
  <2>2. garage' = [k \in CarIds |-> garage'[k]]
    BY <1>a
  <2>3. garage' \in [CarIds -> SUBSET Car]
    BY <2>1, <2>2
  <2> QED BY <1>a, <1>b, <2>3 DEF ClientTables
<1>4. OneCar'
  BY <1>2 DEF OneCar
<1>5. ASSUME NEW j \in CarIds, NEW k \in CarIds, NEW v \in garage'[j], NEW w \in garage'[k], j # k
      PROVE  v.id.vin \intersect w.id.vin = {}
  <2>1. ASSUME NEW x \in CarIds, NEW y \in CarIds, NEW u \in garage'[x], NEW z \in garage'[y], x # y,
               x \in NewCar /\ same = {} /\ u = new
        PROVE  u.id.vin \intersect z.id.vin = {}
    <3>1. y \notin NewCar
      BY <2>1, OneNewCar
    <3>2. PICK o \in garage[y] : z.id = o.id
      BY <1>2, <2>1, <3>1
    <3>3. o.id.vin \intersect id.vin = {}
      BY <1>d, <2>1
    <3> QED BY <1>c, <2>1, <3>2, <3>3
  <2>2. CASE j \in NewCar /\ same = {} /\ v = new
    BY <1>5, <2>1, <2>2
  <2>3. CASE k \in NewCar /\ same = {} /\ w = new
    <3>1. w.id.vin \intersect v.id.vin = {}
      BY <1>5, <2>1, <2>3
    <3> QED BY <3>1
  <2>4. CASE (\E x \in garage[j] : v.id = x.id) /\ (\E y \in garage[k] : w.id = y.id)
    <3>1. PICK x \in garage[j] : x.id = v.id
      BY <2>4
    <3>2. PICK y \in garage[k] : y.id = w.id
      BY <2>4
    <3>3. x.id.vin \intersect y.id.vin = {}
      BY <1>b, <1>5 DEF VehicleOnce
    <3> QED BY <3>1, <3>2, <3>3
  <2> QED BY <1>2, <2>2, <2>3, <2>4
<1>6. FormsShow'
  <2> SUFFICES ASSUME NEW e \in Editors, NEW f \in forms[e], NEW k \in CarIds, NEW v \in garage'[k],
                      v.owner = f.client, ~v.visited, ~f.stale
               PROVE  k \in f.cars
    BY <1>a DEF FormsShow
  <2>1. PICK w \in garage[k] : v.id = w.id /\ v.owner = w.owner /\ (w.visited => v.visited)
    BY <1>2, <1>c
  <2> QED BY <1>b, <2>1 DEF FormsShow
<1>7. FormsLive'
  BY <1>a DEF ClientsInv, FormsLive
<1>8. ASSUME NEW j \in CarIds, garage[j] # {} PROVE garage'[j] # {}
  <2>1. CASE j \in same
    <3>1. garage'[j] = {[v EXCEPT !.visited = TRUE] : v \in garage[j]}
      BY <1>1, <2>1
    <3>2. PICK v \in garage[j] : TRUE
      BY <1>8
    <3>3. [v EXCEPT !.visited = TRUE] \in garage'[j]
      BY <3>1, <3>2
    <3> QED BY <3>3
  <2>2. CASE j \notin same
    <3>1. CASE same = {} /\ j \in NewCar
      BY <1>1, <2>2, <3>1
    <3>2. CASE ~(same = {} /\ j \in NewCar)
      BY <1>1, <1>8, <2>2, <3>2
    <3> QED BY <3>1, <3>2
  <2> QED BY <2>1, <2>2
<1> QED BY <1>3, <1>4, <1>5, <1>6, <1>7, <1>8 DEF ClientsInv, VehicleOnce

\* Every step keeps the sheets, and takes a vehicle off one only as its editor saw it.
AsSeen == \A k \in CarIds : \A v \in garage[k] :
  garage'[k] = {} =>
    /\ ~v.visited
    /\ people'[v.owner] # {} => \E e \in Editors : \E f \in forms[e] : k \in f.cars /\ f.client = v.owner

\* Every step keeps the invariant and removes only what was seen.
LEMMA ClientsStep ==
  ASSUME ClientsInv, [ClientsNext]_clientVars
  PROVE  ClientsInv' /\ AsSeen
<1>a. ASSUME \A k \in CarIds : garage[k] # {} => garage'[k] # {}
      PROVE  AsSeen
  BY <1>a DEF AsSeen
<1>b. ASSUME UNCHANGED garage
      PROVE  AsSeen
  BY <1>b DEF AsSeen
<1>1. ASSUME NEW c \in People, NEW doc \in Documents, NEW cars \in OneAtMost(Identities),
             RegisterClient(c, doc, cars)
      PROVE  ClientsInv' /\ AsSeen
  <2>1. \A k \in CarIds : garage[k] # {} => garage'[k] # {}
    <3>1. garage' = [k \in CarIds |-> IF k \in NewCar
                 THEN {[owner |-> c, id |-> id, visited |-> FALSE] : id \in cars} ELSE garage[k]]
      BY <1>1 DEF RegisterClient
    <3>2. \A k \in CarIds : garage[k] # {} => garage'[k] = garage[k]
      BY <3>1, OneNewCar
    <3> QED BY <3>2
  <2> QED BY <1>1, <1>a, <2>1, RegisterKeeps
<1>2. ASSUME NEW e \in Editors, NEW c \in People, OpenForm(e, c)
      PROVE  ClientsInv' /\ AsSeen
  BY <1>2, <1>b, OpenKeeps DEF OpenForm
<1>3. ASSUME NEW e \in Editors, NEW doc \in Documents, NEW cars \in SUBSET CarIds,
             NEW more \in OneAtMost(Identities), NEW kept \in [cars -> Identities],
             SaveForm(e, doc, kept, more)
      PROVE  ClientsInv' /\ AsSeen
  BY <1>3, SaveKeeps DEF AsSeen
<1>4. ASSUME NEW c \in People, UpdateLead(c)
      PROVE  ClientsInv' /\ AsSeen
  BY <1>4, <1>b, LeadKeeps DEF UpdateLead
<1>5. ASSUME NEW c \in People, DeleteClient(c)
      PROVE  ClientsInv' /\ AsSeen
  <2>1. /\ \A k \in CarsOf(c) : \A v \in garage[k] : ~v.visited
        /\ garage' = [k \in CarIds |-> IF k \in CarsOf(c) THEN {} ELSE garage[k]]
        /\ people' = [people EXCEPT ![c] = {}]
    BY <1>5 DEF DeleteClient
  <2>2. people'[c] = {}
    BY <2>1 DEF ClientsInv, ClientTables
  <2>3. ASSUME NEW k \in CarIds, NEW v \in garage[k], garage'[k] = {}
        PROVE  ~v.visited /\ v.owner = c
    <3>1. k \in CarsOf(c)
      BY <2>1, <2>3
    <3> QED BY <2>1, <2>3, <3>1 DEF CarsOf, ClientsInv, OneCar
  <2>4. AsSeen
    BY <2>2, <2>3 DEF AsSeen
  <2> QED BY <1>5, <2>4, DeleteKeeps
<1>6. ASSUME NEW doc \in Suppliers, NEW c \in People, BillSupplier(doc, c)
      PROVE  ClientsInv' /\ AsSeen
  BY <1>6, <1>b, BillKeeps DEF BillSupplier
<1>7. ASSUME NEW c \in People, NEW id \in StockUnits, ReceiveUnit(c, id)
      PROVE  ClientsInv' /\ AsSeen
  BY <1>7, <1>a, ReceiveKeeps
<1>8. ASSUME NEW k \in CarIds, VisitWorkshop(k)
      PROVE  ClientsInv' /\ AsSeen
  BY <1>8, <1>a, VisitKeeps
<1>9. ASSUME NEW s \in SaleIds, SaveSale(s) \/ DropSale(s) \/ \E doc \in Documents : ResolveBuyer(s, doc)
      PROVE  ClientsInv' /\ AsSeen
  <2>1. UNCHANGED <<people, garage, forms>>
    BY <1>9 DEF SaveSale, DropSale, ResolveBuyer
  <2>2. buys \in [SaleIds -> SUBSET Buy]
    BY DEF ClientsInv, ClientTables
  <2>3. CASE SaveSale(s)
    <3>1. PICK b \in buys[s] : buys' = [buys EXCEPT ![s] = {[b EXCEPT !.saved = TRUE]}]
      BY <2>3 DEF SaveSale
    <3>b. b \in Buy
      BY <2>2, <3>1
    <3>2. [b EXCEPT !.saved = TRUE] \in Buy
      BY <3>b DEF Buy
    <3> QED BY <1>b, <2>1, <2>2, <3>1, <3>2, SalesAside
  <2>4. CASE DropSale(s)
    <3>1. PICK b \in buys[s] : buys' = [buys EXCEPT ![s] = IF b.saved THEN {[b EXCEPT !.cancelled = TRUE]} ELSE {}]
      BY <2>4 DEF DropSale
    <3>b. b \in Buy
      BY <2>2, <3>1
    <3>2. [b EXCEPT !.cancelled = TRUE] \in Buy
      BY <3>b DEF Buy
    <3>3. buys' \in [SaleIds -> SUBSET Buy]
      BY <2>2, <3>1, <3>2
    <3> QED BY <1>b, <2>1, <3>3, SalesAside
  <2>5. ASSUME NEW doc \in Documents, ResolveBuyer(s, doc)
        PROVE  ClientsInv' /\ AsSeen
    <3>1. buys' = [buys EXCEPT ![s] = {[doc |-> doc, client |-> HasDoc(doc), saved |-> FALSE, cancelled |-> FALSE]}]
      BY <2>5 DEF ResolveBuyer
    <3>2. [doc |-> doc, client |-> HasDoc(doc), saved |-> FALSE, cancelled |-> FALSE] \in Buy
      BY DEF Buy, HasDoc
    <3> QED BY <1>b, <2>1, <2>2, <3>1, <3>2, SalesAside
  <2> QED BY <1>9, <2>3, <2>4, <2>5
<1>10. CASE UNCHANGED clientVars
  <2>1. UNCHANGED <<people, garage, forms, buys>>
    BY <1>10 DEF clientVars
  <2> QED BY <1>b, <2>1, SalesAside DEF ClientsInv, ClientTables
<1>11. CASE ClientRoutes
  BY <1>11, <1>1, <1>2, <1>3, <1>4, <1>5 DEF ClientRoutes
<1> QED BY <1>6, <1>7, <1>8, <1>9, <1>10, <1>11 DEF ClientsNext

\* The inductive invariant holds.
LEMMA ClientsHold == ClientsSpec => []ClientsInv
<1>1. ClientsInit => ClientsInv
  BY DEF ClientsInit, ClientsInv, ClientTables, OneCar, VehicleOnce, FormsLive, FormsShow
<1>2. ClientsInv /\ [ClientsNext]_clientVars => ClientsInv'
  BY ClientsStep
<1> QED BY <1>1, <1>2, PTL DEF ClientsSpec

\* The tables of clients keep their columns' types, and each row one vehicle.
THEOREM ClientsTypeCorrect == ClientsSpec => []ClientsTypeOK
<1>1. ClientsInv => ClientsTypeOK
  BY OneCarCounts DEF ClientsInv
<1> QED BY <1>1, ClientsHold, PTL

\* Whatever sheets, registrations and sales interleave, a VIN is registered once.
THEOREM VinRegisteredOnce == ClientsSpec => []VehicleOnce
<1>1. ClientsInv => VehicleOnce
  BY DEF ClientsInv
<1> QED BY <1>1, ClientsHold, PTL

\* A save removes only vehicles that its form showed, and none with visits, not
\* even one that was registered after the form was opened.
THEOREM NothingUnseenIsRemoved == ClientsSpec => RemovedAsSeen
<1>1. ClientsInv /\ [ClientsNext]_clientVars => [AsSeen]_clientVars
  BY ClientsStep
<1> QED BY <1>1, ClientsHold, PTL DEF ClientsSpec, RemovedAsSeen, AsSeen

-----------------------------------------------------------------------------
(* Warranty claims: coverage and the rework it pays *)

ClaimTables ==
  /\ claimDay \in 0..LastDay /\ rewritten \in BOOLEAN
  /\ odometer \in Seq(Reading)
  /\ visits \in [Visited -> [closed : BOOLEAN, intake : Terms]]
  /\ workWarranties \subseteq WorkWarranty /\ factoryWarranty \subseteq Warranty
  /\ claims \in Seq(ClaimRow) /\ Len(claims) <= MaxClaims
  /\ reworkOrders \in Seq(ReworkOrder)
  /\ supplierClaims \in Seq((1..MaxClaims) \X UNION Range(DispatchedLots))
  /\ converting \subseteq Officers \X DOMAIN claims

\* Until a reading is rewritten, none is above the last: neither one before it, nor
\* the intake of an order or the base of a warranty, which were taken from readings.
ReadingsGrow ==
  rewritten \/ /\ \A i \in DOMAIN odometer : odometer[i].km <= LastReading(odometer)
               /\ \A o \in Visited : visits[o].intake <= LastReading(odometer)
               /\ \A w \in workWarranties : w.terms.base <= LastReading(odometer)
FromZero == \A w \in factoryWarranty : w.base = 0

\* A claim is of one order at most and keeps one coverage at most, in force at its day and mileage.
FiledInForce ==
  \A c \in DOMAIN claims :
    /\ \A o, p \in claims[c].source : o = p
    /\ \A s, t \in claims[c].coverage :
         /\ s = t /\ InForce(s.terms, claims[c].day, claims[c].km)
         /\ rewritten \/ s.terms.base <= claims[c].km

\* The draft orders a claim was converted to.
ReworksOf(c) == {r \in DOMAIN reworkOrders : reworkOrders[r].claim = c}
AnsweredOnce ==
  \A c \in DOMAIN claims :
    /\ claims[c].status = "autorizado" => claims[c].legacy
    /\ ~claims[c].legacy => /\ ReworksOf(c) = {claims[c].result} \ {0}
                            /\ claims[c].status = "convertido_a_ods" <=> claims[c].result # 0
ReworksClaimed ==
  /\ \A r \in DOMAIN reworkOrders :
       /\ reworkOrders[r].claim \in DOMAIN claims
       /\ reworkOrders[r].payer = "garantia_taller" => claims[reworkOrders[r].claim].type = "comeback"
  /\ \A t \in converting : claims[t[2]].legacy

ClaimsInv ==
  /\ ClaimTables /\ ReadingsGrow /\ FromZero /\ FiledInForce
  /\ AnsweredOnce /\ ReworksClaimed /\ IsInjective(supplierClaims)

\* The last reading is a mileage, or none.
LEMMA LastReadingIs ==
  ASSUME NEW s \in Seq(Reading)
  PROVE  /\ LastReading(s) \in Terms
         /\ s # <<>> => Len(s) \in DOMAIN s /\ LastReading(s) = s[Len(s)].km
         /\ s = <<>> => LastReading(s) = NoLimit
<1>1. /\ Len(s) \in Nat /\ DOMAIN s = 1..Len(s) /\ s \in [1..Len(s) -> Reading]
      /\ s # <<>> => Len(s) # 0
  BY LenProperties, EmptySeq
<1>2. CASE s = <<>>
  BY <1>2 DEF LastReading, Terms, NoLimit
<1>3. CASE s # <<>>
  <2>1. Len(s) \in DOMAIN s /\ s[Len(s)] \in Reading
    BY <1>1, <1>3
  <2>2. s[Len(s)].km \in Nat
    BY <2>1, WarrantyClaimsAssumption DEF Reading
  <2> QED BY <1>3, <2>1, <2>2 DEF LastReading, Last, Terms
<1> QED BY <1>2, <1>3

\* A reading added is the last.
LEMMA ReadingAdded ==
  ASSUME NEW s \in Seq(Reading), NEW x \in Reading
  PROVE  /\ Append(s, x) \in Seq(Reading) /\ LastReading(Append(s, x)) = x.km
         /\ \A i \in DOMAIN Append(s, x) : Append(s, x)[i] = x \/ (i \in DOMAIN s /\ Append(s, x)[i] = s[i])
<1> DEFINE t == Append(s, x)
<1>1. /\ t \in Seq(Reading) /\ t # <<>> /\ Len(t) = Len(s) + 1
      /\ \A i \in 1..Len(s) : t[i] = s[i] /\ t[Len(s) + 1] = x
      /\ t[Len(s) + 1] = x
  BY AppendProperties
<1>2. Len(s) \in Nat /\ DOMAIN s = 1..Len(s) /\ DOMAIN t = 1..Len(t)
  BY <1>1, LenProperties
<1>3. LastReading(t) = x.km
  BY <1>1 DEF LastReading, Last
<1>4. ASSUME NEW i \in DOMAIN t PROVE t[i] = x \/ (i \in DOMAIN s /\ t[i] = s[i])
  BY <1>1, <1>2
<1> QED BY <1>1, <1>3, <1>4

\* What the invariant says of each variable.
LEMMA ClaimFacts ==
  ASSUME ClaimTables
  PROVE  /\ Len(odometer) \in Nat /\ DOMAIN odometer = 1..Len(odometer)
         /\ Len(claims) \in Nat /\ DOMAIN claims = 1..Len(claims) /\ DOMAIN claims \subseteq 1..MaxClaims
         /\ Len(reworkOrders) \in Nat /\ DOMAIN reworkOrders = 1..Len(reworkOrders)
         /\ \A i \in DOMAIN odometer : odometer[i] \in Reading /\ odometer[i].km \in Kilometres
         /\ \A c \in DOMAIN claims : claims[c] \in ClaimRow
         /\ \A r \in DOMAIN reworkOrders : reworkOrders[r] \in ReworkOrder
         /\ \A o \in Visited : visits[o].intake \in Terms /\ visits[o].closed \in BOOLEAN
         /\ \A w \in workWarranties : w.order \in Visited /\ w.terms \in Warranty
         /\ LastReading(odometer) \in Terms
<1>1. /\ Len(odometer) \in Nat /\ DOMAIN odometer = 1..Len(odometer)
      /\ odometer \in [1..Len(odometer) -> Reading]
  BY LenProperties DEF ClaimTables
<1>2. /\ Len(claims) \in Nat /\ DOMAIN claims = 1..Len(claims) /\ claims \in [1..Len(claims) -> ClaimRow]
  BY LenProperties DEF ClaimTables
<1>3. /\ Len(reworkOrders) \in Nat /\ DOMAIN reworkOrders = 1..Len(reworkOrders)
      /\ reworkOrders \in [1..Len(reworkOrders) -> ReworkOrder]
  BY LenProperties DEF ClaimTables
<1>4. \A i \in DOMAIN odometer : odometer[i] \in Reading /\ odometer[i].km \in Kilometres
  BY <1>1 DEF Reading
<1>5. DOMAIN claims \subseteq 1..MaxClaims
  BY <1>2, WarrantyClaimsAssumption DEF ClaimTables
<1>6. \A o \in Visited : visits[o].intake \in Terms /\ visits[o].closed \in BOOLEAN
  BY DEF ClaimTables
<1>7. \A w \in workWarranties : w.order \in Visited /\ w.terms \in Warranty
  BY DEF ClaimTables, WorkWarranty
<1>8. LastReading(odometer) \in Terms
  BY LastReadingIs DEF ClaimTables
<1> QED BY <1>1, <1>2, <1>3, <1>4, <1>5, <1>6, <1>7, <1>8

\* The type invariant follows.
LEMMA ClaimRowsTyped ==
  ASSUME ClaimTables
  PROVE  ClaimsTypeOK
<1>1. Range(odometer) \subseteq Reading /\ Range(claims) \subseteq ClaimRow /\ Range(reworkOrders) \subseteq ReworkOrder
  BY ClaimFacts DEF Range
<1>2. Range(supplierClaims) \subseteq (1..MaxClaims) \X UNION Range(DispatchedLots)
  BY RangeOfSeq DEF ClaimTables
<1>3. converting \subseteq Officers \X (1..MaxClaims)
  BY ClaimFacts DEF ClaimTables
<1> QED BY <1>1, <1>2, <1>3 DEF ClaimTables, ClaimsTypeOK

\* Claims that stay as they are keep what is known of them, as a mileage is only ever rewritten.
LEMMA ClaimsKept ==
  ASSUME ClaimsInv, UNCHANGED <<claims, reworkOrders, supplierClaims, converting>>,
         rewritten => rewritten'
  PROVE  FiledInForce' /\ AnsweredOnce' /\ ReworksClaimed' /\ IsInjective(supplierClaims)'
<1>1. FiledInForce'
  BY DEF ClaimsInv, FiledInForce
<1>2. AnsweredOnce' /\ ReworksClaimed'
  BY DEF ClaimsInv, AnsweredOnce, ReworksClaimed, ReworksOf
<1>3. IsInjective(supplierClaims)'
  BY DEF ClaimsInv
<1> QED BY <1>1, <1>2, <1>3

\* A reading replaced by one of the same mileage leaves the odometer's mileages as they were.
LEMMA ReadingReplaced ==
  ASSUME NEW s \in Seq(Reading), NEW i \in DOMAIN s, NEW x \in Reading
  PROVE  /\ [s EXCEPT ![i] = x] \in Seq(Reading) /\ DOMAIN [s EXCEPT ![i] = x] = DOMAIN s
         /\ x.km = s[i].km => /\ \A j \in DOMAIN s : [s EXCEPT ![i] = x][j].km = s[j].km
                              /\ LastReading([s EXCEPT ![i] = x]) = LastReading(s)
<1> DEFINE t == [s EXCEPT ![i] = x]
<1>1. DOMAIN s = 1..Len(s) /\ Len(s) \in Nat
  BY LenProperties
<1>2. t \in Seq(Reading) /\ Len(t) = Len(s) /\ \A j \in 1..Len(s) : t[j] = IF j = i THEN x ELSE s[j]
  BY <1>1, ExceptSeq
<1>3. DOMAIN t = DOMAIN s
  BY <1>1, <1>2, LenProperties
<1>4. ASSUME x.km = s[i].km PROVE \A j \in DOMAIN s : t[j].km = s[j].km
  BY <1>1, <1>2, <1>4
<1>5. ASSUME x.km = s[i].km PROVE LastReading(t) = LastReading(s)
  <2>1. s # <<>> /\ t # <<>>
    BY <1>1, <1>2, EmptySeq
  <2>2. LastReading(t) = t[Len(t)].km /\ LastReading(s) = s[Len(s)].km /\ Len(s) \in DOMAIN s
    BY <1>2, <2>1, LastReadingIs
  <2> QED BY <1>2, <1>4, <1>5, <2>2
<1> QED BY <1>2, <1>3, <1>4, <1>5

\* An inspection is the last reading, and does not go back unless it is a rewriting.
LEMMA InspectKeeps ==
  ASSUME ClaimsInv, NEW km \in Kilometres, NEW reason \in BOOLEAN, Inspect(km, reason)
  PROVE  ClaimsInv'
<1> DEFINE x == [kind |-> "inspection", km |-> km, order |-> {}]
<1>1. ClaimTables /\ odometer \in Seq(Reading) /\ x \in Reading /\ km \in Nat /\ LastReading(odometer) \in Int
  BY ClaimFacts, WarrantyClaimsAssumption DEF ClaimsInv, ClaimTables, Reading, Terms, NoLimit
<1>2. /\ odometer' = Append(odometer, x) /\ rewritten' = (rewritten \/ km < LastReading(odometer))
      /\ UNCHANGED <<claimDay, visits, workWarranties, factoryWarranty, claims, reworkOrders,
                     supplierClaims, converting>>
  BY DEF Inspect
<1>3. /\ odometer' \in Seq(Reading) /\ LastReading(odometer') = km
      /\ \A i \in DOMAIN odometer' : odometer'[i].km = km \/ (i \in DOMAIN odometer /\ odometer'[i] = odometer[i])
  <2> HIDE DEF x
  <2>1. x.km = km
    BY DEF x
  <2> QED BY <1>1, <1>2, <2>1, ReadingAdded
<1>4. rewritten' \in BOOLEAN /\ (rewritten => rewritten')
  BY <1>2, Zenon
<1>5. ClaimTables'
  BY <1>1, <1>2, <1>3, <1>4 DEF ClaimTables
<1>6. ReadingsGrow'
  <2>1. CASE rewritten'
    BY <2>1 DEF ReadingsGrow
  <2>2. CASE ~rewritten'
    <3> DEFINE back == km < LastReading(odometer)
    <3>a. ~rewritten /\ ~back
      <4> HIDE DEF back
      <4>1. rewritten' = (rewritten \/ back)
        BY <1>2 DEF back
      <4> QED BY <2>2, <4>1, Zenon
    <3>1. ~rewritten /\ LastReading(odometer) <= km
      BY <1>1, <3>a
    <3>2. /\ \A i \in DOMAIN odometer : odometer[i].km <= LastReading(odometer)
          /\ \A o \in Visited : visits[o].intake <= LastReading(odometer)
          /\ \A w \in workWarranties : w.terms.base <= LastReading(odometer)
      BY <3>1 DEF ClaimsInv, ReadingsGrow
    <3>3. /\ \A i \in DOMAIN odometer : odometer[i].km \in Int
          /\ \A o \in Visited : visits[o].intake \in Int
          /\ \A w \in workWarranties : w.terms.base \in Int
      <4>1. Kilometres \subseteq Int /\ Terms \subseteq Int
        BY WarrantyClaimsAssumption DEF Terms, NoLimit
      <4>2. \A w \in Warranty : w.base \in Terms
        BY DEF Warranty
      <4> QED BY <1>1, <4>1, <4>2, ClaimFacts
    <3>4. \A i \in DOMAIN odometer' : odometer'[i].km <= km
      BY <1>1, <1>3, <3>1, <3>2, <3>3
    <3>5. /\ \A o \in Visited : visits'[o].intake <= km
          /\ \A w \in workWarranties' : w.terms.base <= km
      BY <1>1, <1>2, <3>1, <3>2, <3>3
    <3> QED BY <1>3, <3>4, <3>5 DEF ReadingsGrow
  <2> QED BY <2>1, <2>2
<1>7. FiledInForce' /\ AnsweredOnce' /\ ReworksClaimed' /\ IsInjective(supplierClaims)'
  BY <1>2, <1>4, ClaimsKept
<1>8. FromZero'
  BY <1>2 DEF ClaimsInv, FromZero
<1> QED BY <1>5, <1>6, <1>7, <1>8 DEF ClaimsInv

\* Linking an inspection to an order copies a mileage that is not above the last.
LEMMA LinkKeeps ==
  ASSUME ClaimsInv, NEW i \in DOMAIN odometer, NEW o \in Visited, LinkInspection(i, o)
  PROVE  ClaimsInv'
<1> DEFINE x == [odometer[i] EXCEPT !.order = {o}]
<1>1. ClaimTables /\ odometer \in Seq(Reading) /\ odometer[i] \in Reading /\ odometer[i].km \in Terms
  BY ClaimFacts, WarrantyClaimsAssumption DEF ClaimsInv, ClaimTables, Terms
<1>2. x \in Reading /\ x.km = odometer[i].km
  BY <1>1 DEF Reading
<1>3. /\ odometer' = [odometer EXCEPT ![i] = x]
      /\ visits' = [visits EXCEPT ![o].intake = odometer[i].km]
      /\ UNCHANGED <<claimDay, workWarranties, factoryWarranty, claims, reworkOrders, supplierClaims,
                     converting, rewritten>>
  BY DEF LinkInspection
<1>4. /\ odometer' \in Seq(Reading) /\ DOMAIN odometer' = DOMAIN odometer
      /\ \A j \in DOMAIN odometer : odometer'[j].km = odometer[j].km
      /\ LastReading(odometer') = LastReading(odometer)
  <2> HIDE DEF x
  <2> QED BY <1>1, <1>2, <1>3, ReadingReplaced
<1>5. visits' \in [Visited -> [closed : BOOLEAN, intake : Terms]]
  <2>1. visits \in [Visited -> [closed : BOOLEAN, intake : Terms]]
    BY <1>1 DEF ClaimTables
  <2> QED BY <1>1, <1>3, <2>1
<1>6. ClaimTables'
  BY <1>1, <1>3, <1>4, <1>5 DEF ClaimTables
<1>7. ReadingsGrow'
  <2>1. \A p \in Visited : visits'[p].intake = visits[p].intake \/ visits'[p].intake = odometer[i].km
    BY <1>1, <1>3 DEF ClaimTables
  <2> QED BY <1>3, <1>4, <2>1 DEF ClaimsInv, ReadingsGrow
<1>8. FiledInForce' /\ AnsweredOnce' /\ ReworksClaimed' /\ IsInjective(supplierClaims)'
  BY <1>3, ClaimsKept
<1>9. FromZero'
  BY <1>3 DEF ClaimsInv, FromZero
<1> QED BY <1>6, <1>7, <1>8, <1>9 DEF ClaimsInv

\* Unlinking it changes no mileage.
LEMMA UnlinkKeeps ==
  ASSUME ClaimsInv, NEW i \in DOMAIN odometer, UnlinkInspection(i)
  PROVE  ClaimsInv'
<1> DEFINE x == [odometer[i] EXCEPT !.order = {}]
<1>1. ClaimTables /\ odometer \in Seq(Reading) /\ odometer[i] \in Reading
  BY ClaimFacts DEF ClaimsInv, ClaimTables
<1>2. x \in Reading /\ x.km = odometer[i].km
  BY <1>1 DEF Reading
<1>3. /\ odometer' = [odometer EXCEPT ![i] = x]
      /\ UNCHANGED <<claimDay, visits, workWarranties, factoryWarranty, claims, reworkOrders, supplierClaims,
                     converting, rewritten>>
  BY DEF UnlinkInspection
<1>4. /\ odometer' \in Seq(Reading) /\ DOMAIN odometer' = DOMAIN odometer
      /\ \A j \in DOMAIN odometer : odometer'[j].km = odometer[j].km
      /\ LastReading(odometer') = LastReading(odometer)
  <2> HIDE DEF x
  <2> QED BY <1>1, <1>2, <1>3, ReadingReplaced
<1>6. ClaimTables'
  BY <1>1, <1>3, <1>4 DEF ClaimTables
<1>7. ReadingsGrow'
  BY <1>3, <1>4 DEF ClaimsInv, ReadingsGrow
<1>8. FiledInForce' /\ AnsweredOnce' /\ ReworksClaimed' /\ IsInjective(supplierClaims)'
  BY <1>3, ClaimsKept
<1>9. FromZero'
  BY <1>3 DEF ClaimsInv, FromZero
<1> QED BY <1>6, <1>7, <1>8, <1>9 DEF ClaimsInv

\* A correction that changes the mileage is a rewriting; one that does not, changes nothing.
LEMMA CorrectKeeps ==
  ASSUME ClaimsInv, NEW i \in DOMAIN odometer, NEW km \in Kilometres, NEW reason \in BOOLEAN,
         CorrectInspection(i, km, reason)
  PROVE  ClaimsInv'
<1> DEFINE x == [odometer[i] EXCEPT !.km = km]
<1>1. ClaimTables /\ odometer \in Seq(Reading) /\ odometer[i] \in Reading /\ km \in Terms
  BY ClaimFacts, WarrantyClaimsAssumption DEF ClaimsInv, ClaimTables, Terms
<1>2. x \in Reading /\ x.km = km
  BY <1>1 DEF Reading
<1>3. /\ odometer' = [odometer EXCEPT ![i] = x]
      /\ visits' = [o \in Visited |-> IF o \in odometer[i].order THEN [visits[o] EXCEPT !.intake = km]
                                      ELSE visits[o]]
      /\ rewritten' = (rewritten \/ km # odometer[i].km)
      /\ UNCHANGED <<claimDay, workWarranties, factoryWarranty, claims, reworkOrders, supplierClaims,
                     converting>>
  BY DEF CorrectInspection
<1>4. /\ odometer' \in Seq(Reading) /\ DOMAIN odometer' = DOMAIN odometer
      /\ km = odometer[i].km => /\ \A j \in DOMAIN odometer : odometer'[j].km = odometer[j].km
                                /\ LastReading(odometer') = LastReading(odometer)
  <2> HIDE DEF x
  <2> QED BY <1>1, <1>2, <1>3, ReadingReplaced
<1>5. rewritten' \in BOOLEAN /\ (rewritten => rewritten')
  BY <1>3, Zenon
<1>6. \A o \in Visited : visits[o] \in [closed : BOOLEAN, intake : Terms]
  BY <1>1 DEF ClaimTables
<1>7. \A o \in Visited : /\ visits'[o] \in [closed : BOOLEAN, intake : Terms]
                         /\ visits'[o].intake = visits[o].intake \/ visits'[o].intake = km
  BY <1>1, <1>3, <1>6
<1>8. visits' \in [Visited -> [closed : BOOLEAN, intake : Terms]]
  <2> DEFINE V == [closed : BOOLEAN, intake : Terms]
  <2>1. visits' = [o \in Visited |-> visits'[o]] /\ \A o \in Visited : visits'[o] \in V
    BY <1>3, <1>7
  <2> HIDE DEF V
  <2>2. visits' \in [Visited -> V]
    BY <2>1
  <2> QED BY <2>2 DEF V
<1>9. ClaimTables'
  BY <1>1, <1>3, <1>4, <1>5, <1>8 DEF ClaimTables
<1>10. ReadingsGrow'
  <2>1. CASE rewritten'
    BY <2>1 DEF ReadingsGrow
  <2>2. CASE ~rewritten'
    BY <1>3, <1>4, <1>7, <2>2 DEF ClaimsInv, ReadingsGrow
  <2> QED BY <2>1, <2>2
<1>11. FiledInForce' /\ AnsweredOnce' /\ ReworksClaimed' /\ IsInjective(supplierClaims)'
  BY <1>3, <1>5, ClaimsKept
<1>12. FromZero'
  BY <1>3 DEF ClaimsInv, FromZero
<1> QED BY <1>9, <1>10, <1>11, <1>12 DEF ClaimsInv

\* Deleting an inspection is a rewriting.
LEMMA DeleteReadingKeeps ==
  ASSUME ClaimsInv, NEW i \in DOMAIN odometer, DeleteInspection(i)
  PROVE  ClaimsInv'
<1>1. ClaimTables /\ odometer \in Seq(Reading)
  BY DEF ClaimsInv, ClaimTables
<1>2. /\ odometer' = RemoveAt(odometer, i) /\ rewritten'
      /\ UNCHANGED <<claimDay, visits, workWarranties, factoryWarranty, claims, reworkOrders,
                     supplierClaims, converting>>
  BY DEF DeleteInspection
<1>3. odometer' \in Seq(Reading)
  <2>1. i \in 1..Len(odometer) /\ Len(odometer) \in Nat /\ \A j \in 1..Len(odometer) : odometer[j] \in Reading
    BY <1>1, ClaimFacts
  <2>2. SubSeq(odometer, 1, i - 1) \in Seq(Reading)
    <3>1. \A j \in 1..(i - 1) : odometer[j] \in Reading
      BY <2>1
    <3>2. 1 \in Int /\ i - 1 \in Int
      BY <2>1
    <3> QED BY <3>1, <3>2, SubSeqProperties
  <2>3. SubSeq(odometer, i + 1, Len(odometer)) \in Seq(Reading)
    <3>1. \A j \in (i + 1)..Len(odometer) : odometer[j] \in Reading
      BY <2>1
    <3>2. i + 1 \in Int /\ Len(odometer) \in Int
      BY <2>1
    <3> QED BY <3>1, <3>2, SubSeqProperties
  <2> QED BY <1>2, <2>2, <2>3, ConcatProperties DEF RemoveAt
<1>4. rewritten' \in BOOLEAN
  BY DEF DeleteInspection
<1>5. ClaimTables'
  BY <1>1, <1>2, <1>3, <1>4 DEF ClaimTables
<1>6. ReadingsGrow'
  BY <1>2 DEF ReadingsGrow
<1>7. FiledInForce' /\ AnsweredOnce' /\ ReworksClaimed' /\ IsInjective(supplierClaims)'
  BY <1>2, ClaimsKept
<1>8. FromZero'
  BY <1>2 DEF ClaimsInv, FromZero
<1> QED BY <1>5, <1>6, <1>7, <1>8 DEF ClaimsInv

\* A warranty of the work: its distance counts from a mileage that is not above the last.
LEMMA CloseVisitKeeps ==
  ASSUME ClaimsInv, NEW o \in Visited, NEW exit \in Kilometres \union {NoLimit}, NEW t \in LabourTerms,
         CloseVisit(o, exit, t)
  PROVE  ClaimsInv'
<1> DEFINE m == IF exit = NoLimit THEN visits[o].intake ELSE exit
           n == [order |-> o, terms |-> TaskWarranty(t, m)]
           x == [kind |-> "departure", km |-> exit, order |-> {o}]
<1>1. /\ ClaimTables /\ odometer \in Seq(Reading) /\ visits[o] \in [closed : BOOLEAN, intake : Terms]
      /\ visits \in [Visited -> [closed : BOOLEAN, intake : Terms]]
  BY DEF ClaimsInv, ClaimTables
<1>2. Kilometres \subseteq Nat /\ Kilometres \subseteq Terms /\ Terms \subseteq Int /\ NoLimit \in Terms /\ NoLimit = -1
  BY WarrantyClaimsAssumption DEF Terms, NoLimit
<1>3. t[1] \in Terms /\ t[2] \in Terms
  BY WarrantyClaimsAssumption
<1>4. m \in Terms
  BY <1>1, <1>2
<1>5. n.order = o /\ n.terms \in Warranty /\ (n.terms.base = NoLimit \/ n.terms.base = m) /\ n \in WorkWarranty
  <2> HIDE DEF m
  <2>1. TaskWarranty(t, m) \in Warranty
    BY <1>1, <1>2, <1>3, <1>4 DEF TaskWarranty, Warranty, ClaimTables
  <2>2. TaskWarranty(t, m).base = NoLimit \/ TaskWarranty(t, m).base = m
    BY DEF TaskWarranty
  <2> QED BY <2>1, <2>2 DEF WorkWarranty
<1>6. /\ workWarranties' = workWarranties \union {n}
      /\ visits' = [visits EXCEPT ![o].closed = TRUE]
      /\ odometer' = IF exit = NoLimit THEN odometer ELSE Append(odometer, x)
      /\ exit # NoLimit => exit >= LastReading(odometer)
      /\ UNCHANGED <<claimDay, factoryWarranty, claims, reworkOrders, supplierClaims, converting, rewritten>>
  BY DEF CloseVisit, ValidMileage
<1>7. /\ visits' \in [Visited -> [closed : BOOLEAN, intake : Terms]]
      /\ \A p \in Visited : visits'[p].intake = visits[p].intake
  BY <1>1, <1>6
<1>8. /\ odometer' \in Seq(Reading) /\ LastReading(odometer') \in Int /\ LastReading(odometer) \in Int
      /\ LastReading(odometer) <= LastReading(odometer') /\ NoLimit <= LastReading(odometer)
      /\ exit # NoLimit => LastReading(odometer') = exit
      /\ \A i \in DOMAIN odometer' : \/ i \in DOMAIN odometer /\ odometer'[i] = odometer[i]
                                     \/ odometer'[i].km = LastReading(odometer')
  <2>1. LastReading(odometer) \in Int /\ NoLimit <= LastReading(odometer)
    <3>1. LastReading(odometer) \in Terms
      BY <1>1, ClaimFacts
    <3> QED BY <3>1 DEF Terms, NoLimit
  <2>2. CASE exit = NoLimit
    BY <1>1, <1>6, <2>1, <2>2
  <2>3. CASE exit # NoLimit
    <3>1. exit \in Kilometres /\ x \in Reading /\ x.km = exit
      BY <2>3 DEF Reading
    <3>2. odometer' = Append(odometer, x)
      BY <1>6, <2>3
    <3> HIDE DEF x
    <3>3. /\ odometer' \in Seq(Reading) /\ LastReading(odometer') = exit
          /\ \A i \in DOMAIN odometer' : odometer'[i] = x \/ (i \in DOMAIN odometer /\ odometer'[i] = odometer[i])
      BY <1>1, <3>1, <3>2, ReadingAdded
    <3> QED BY <1>2, <1>6, <2>1, <2>3, <3>1, <3>3
  <2> QED BY <2>2, <2>3
<1>9. ClaimTables'
  <2>1. workWarranties' \subseteq WorkWarranty
    BY <1>1, <1>5, <1>6 DEF ClaimTables
  <2> QED BY <1>1, <1>6, <1>7, <1>8, <2>1 DEF ClaimTables
<1>10. ReadingsGrow'
  <2>1. CASE rewritten
    BY <1>6, <2>1 DEF ReadingsGrow
  <2>2. CASE ~rewritten
    <3>1. /\ \A i \in DOMAIN odometer : odometer[i].km <= LastReading(odometer) /\ odometer[i].km \in Int
          /\ \A p \in Visited : visits[p].intake <= LastReading(odometer) /\ visits[p].intake \in Int
          /\ \A w \in workWarranties : w.terms.base <= LastReading(odometer) /\ w.terms.base \in Int
      <4>1. \A w \in Warranty : w.base \in Terms
        BY DEF Warranty
      <4> QED BY <1>1, <1>2, <2>2, <4>1, ClaimFacts DEF ClaimsInv, ReadingsGrow
    <3>2. \A i \in DOMAIN odometer' : odometer'[i].km <= LastReading(odometer')
      BY <1>8, <3>1
    <3>3. \A p \in Visited : visits'[p].intake <= LastReading(odometer')
      BY <1>7, <1>8, <3>1
    <3>4. m <= LastReading(odometer')
      BY <1>8, <3>1
    <3>5. n.terms.base <= LastReading(odometer')
      <4> HIDE DEF m, n
      <4> QED BY <1>2, <1>4, <1>5, <1>8, <3>4
    <3>6. \A w \in workWarranties' : w.terms.base <= LastReading(odometer')
      <4> HIDE DEF m, n
      <4> QED BY <1>6, <1>8, <3>1, <3>5
    <3> QED BY <3>2, <3>3, <3>6 DEF ReadingsGrow
  <2> QED BY <2>1, <2>2
<1>11. FiledInForce' /\ AnsweredOnce' /\ ReworksClaimed' /\ IsInjective(supplierClaims)'
  BY <1>6, ClaimsKept
<1>12. FromZero'
  BY <1>6 DEF ClaimsInv, FromZero
<1> QED BY <1>9, <1>10, <1>11, <1>12 DEF ClaimsInv

\* A factory warranty counts its distance from zero.
LEMMA FactoryTermsTyped ==
  ASSUME NEW starts \in 0..LastDay, NEW t \in FactoryTerms \union {SaleTerms}
  PROVE  FactoryFrom(starts, t) \in Warranty /\ FactoryFrom(starts, t).base = 0
<1>1. t[1] \in Terms /\ t[2] \in Terms /\ 0 \in Terms
  BY WarrantyClaimsAssumption DEF Terms
<1> QED BY <1>1 DEF FactoryFrom, Warranty

\* Registered or renewed, there is one.
LEMMA FactoryKeeps ==
  ASSUME ClaimsInv, NEW w \in Warranty, w.base = 0, factoryWarranty' = {w},
         UNCHANGED <<claimDay, odometer, visits, workWarranties, claims, reworkOrders, supplierClaims,
                     converting, rewritten>>
  PROVE  ClaimsInv'
<1>1. ClaimTables'
  BY DEF ClaimsInv, ClaimTables
<1>2. ReadingsGrow' /\ FromZero'
  BY DEF ClaimsInv, ReadingsGrow, FromZero
<1>3. FiledInForce' /\ AnsweredOnce' /\ ReworksClaimed' /\ IsInjective(supplierClaims)'
  BY ClaimsKept
<1> QED BY <1>1, <1>2, <1>3 DEF ClaimsInv

\* Time passes for every warranty; what was filed stays as it was filed.
LEMMA ClaimDayKeeps ==
  ASSUME ClaimsInv, NextClaimDay
  PROVE  ClaimsInv'
<1>1. claimDay' \in 0..LastDay
  BY WarrantyClaimsAssumption DEF ClaimsInv, ClaimTables, NextClaimDay
<1>2. ClaimTables'
  BY <1>1 DEF ClaimsInv, ClaimTables, NextClaimDay
<1>3. ReadingsGrow' /\ FromZero'
  BY DEF ClaimsInv, ReadingsGrow, FromZero, NextClaimDay
<1>4. FiledInForce' /\ AnsweredOnce' /\ ReworksClaimed' /\ IsInjective(supplierClaims)'
  BY ClaimsKept DEF NextClaimDay
<1> QED BY <1>2, <1>3, <1>4 DEF ClaimsInv

\* A claim filed under a coverage in force, or under none.
LEMMA FiledKeeps ==
  ASSUME ClaimsInv, NEW c \in ClaimRow, c.status = "solicitado", c.result = 0, ~c.legacy, Filed(c),
         \A o, p \in c.source : o = p,
         \A s, t \in c.coverage : /\ s = t /\ InForce(s.terms, c.day, c.km)
                                  /\ rewritten \/ s.terms.base <= c.km
  PROVE  ClaimsInv'
<1>1. ClaimTables /\ claims \in Seq(ClaimRow)
  BY DEF ClaimsInv, ClaimTables
<1>2. /\ Len(claims) < MaxClaims /\ claims' = Append(claims, c)
      /\ UNCHANGED <<claimDay, odometer, visits, workWarranties, factoryWarranty, reworkOrders,
                     supplierClaims, converting, rewritten>>
  BY DEF Filed
<1> DEFINE n == Len(claims) + 1
<1>3. /\ claims' \in Seq(ClaimRow) /\ Len(claims') = n /\ DOMAIN claims' = 1..n
      /\ \A i \in DOMAIN claims : claims'[i] = claims[i] /\ claims'[n] = c
      /\ claims'[n] = c /\ \A i \in DOMAIN claims' : i \in DOMAIN claims \/ i = n
      /\ n \notin DOMAIN claims /\ n # 0 /\ Len(claims) \in Nat /\ DOMAIN claims \subseteq DOMAIN claims'
  <2>1. Len(claims) \in Nat /\ DOMAIN claims = 1..Len(claims)
    BY <1>1, ClaimFacts
  <2>2. /\ claims' \in Seq(ClaimRow) /\ Len(claims') = n /\ claims'[n] = c
        /\ \A i \in 1..Len(claims) : claims'[i] = claims[i]
    BY <1>1, <1>2, AppendProperties
  <2>3. DOMAIN claims' = 1..n
    BY <2>2, LenProperties
  <2> QED BY <2>1, <2>2, <2>3
<1>4. ClaimTables'
  <2>1. Len(claims') <= MaxClaims
    BY <1>2, <1>3, WarrantyClaimsAssumption
  <2>2. converting' \subseteq Officers \X DOMAIN claims'
    BY <1>1, <1>2, <1>3 DEF ClaimTables
  <2> QED BY <1>1, <1>2, <1>3, <2>1, <2>2 DEF ClaimTables
<1>5. ReadingsGrow' /\ FromZero'
  BY <1>2 DEF ClaimsInv, ReadingsGrow, FromZero
<1>6. FiledInForce'
  BY <1>2, <1>3 DEF ClaimsInv, FiledInForce
<1>7. ReworksOf(n) = {}
  BY <1>3 DEF ClaimsInv, ReworksClaimed, ReworksOf
<1>8. AnsweredOnce'
  <2>1. \A i \in DOMAIN claims' : ReworksOf(i)' = ReworksOf(i)
    BY <1>2 DEF ReworksOf
  <2>2. ASSUME NEW i \in DOMAIN claims
        PROVE  /\ claims'[i].status = "autorizado" => claims'[i].legacy
               /\ ~claims'[i].legacy => /\ ReworksOf(i) = {claims'[i].result} \ {0}
                                        /\ claims'[i].status = "convertido_a_ods" <=> claims'[i].result # 0
    BY <1>3 DEF ClaimsInv, AnsweredOnce
  <2>3. /\ claims'[n].status = "autorizado" => claims'[n].legacy
        /\ ~claims'[n].legacy => /\ ReworksOf(n) = {claims'[n].result} \ {0}
                                 /\ claims'[n].status = "convertido_a_ods" <=> claims'[n].result # 0
    BY <1>3, <1>7
  <2> QED BY <1>3, <2>1, <2>2, <2>3 DEF AnsweredOnce
<1>9. ReworksClaimed'
  <2>1. \A r \in DOMAIN reworkOrders :
          /\ reworkOrders[r].claim \in DOMAIN claims'
          /\ reworkOrders[r].payer = "garantia_taller" => claims'[reworkOrders[r].claim].type = "comeback"
    BY <1>3 DEF ClaimsInv, ReworksClaimed
  <2>2. \A t \in converting : t[2] \in DOMAIN claims
    BY <1>1 DEF ClaimTables
  <2>3. \A t \in converting : claims'[t[2]].legacy
    BY <1>3, <2>2 DEF ClaimsInv, ReworksClaimed
  <2> QED BY <1>2, <2>1, <2>3 DEF ReworksClaimed
<1>10. IsInjective(supplierClaims)'
  BY <1>2 DEF ClaimsInv
<1> QED BY <1>4, <1>5, <1>6, <1>8, <1>9, <1>10 DEF ClaimsInv

\* A claim for the work of an order.
LEMMA ClaimWorkKeeps ==
  ASSUME ClaimsInv, NEW km \in Kilometres, NEW w \in workWarranties, ClaimWork(w, km)
  PROVE  ClaimsInv'
<1> DEFINE s == [kind |-> "workshop", terms |-> w.terms]
           c == NewClaim("comeback", km, {w.order}, {s})
<1>1. ClaimTables /\ w.order \in Visited /\ w.terms \in Warranty /\ km \in Nat /\ claimDay \in 0..LastDay
  BY ClaimFacts, WarrantyClaimsAssumption DEF ClaimsInv, ClaimTables
<1>2. s \in CoverageSnapshot
  BY <1>1 DEF CoverageSnapshot
<1>3. /\ c \in ClaimRow /\ c.status = "solicitado" /\ c.result = 0 /\ ~c.legacy
      /\ c.coverage = {s} /\ (\A o, p \in c.source : o = p) /\ c.day = claimDay /\ c.km = km
  <2> HIDE DEF s
  <2> QED BY <1>1, <1>2 DEF NewClaim, ClaimRow, ClaimTypes, ClaimStatus
<1>4. InForce(w.terms, claimDay, km) /\ Filed(c)
  BY DEF ClaimWork
<1>5. rewritten \/ w.terms.base <= km
  <2>1. CASE ~rewritten
    <3>1. w.terms.base <= LastReading(odometer)
      BY <2>1 DEF ClaimsInv, ReadingsGrow
    <3>2. LastReading(odometer) <= km
      BY <1>4, <1>3 DEF Filed, ValidMileage
    <3>3. LastReading(odometer) \in Int /\ w.terms.base \in Int
      BY <1>1, ClaimFacts DEF Warranty, Terms, NoLimit
    <3> QED BY <1>1, <3>1, <3>2, <3>3
  <2> QED BY <2>1
<1> HIDE DEF c
<1>6. \A p, t \in c.coverage : /\ p = t /\ InForce(p.terms, c.day, c.km)
                               /\ rewritten \/ p.terms.base <= c.km
  BY <1>3, <1>4, <1>5
<1> QED BY <1>3, <1>4, <1>6, FiledKeeps

\* A claim under the factory's warranty.
LEMMA ClaimFactoryKeeps ==
  ASSUME ClaimsInv, NEW km \in Kilometres, ClaimFactory(km)
  PROVE  ClaimsInv'
<1>1. PICK w \in factoryWarranty : /\ InForce(w, claimDay, km)
                                   /\ Filed(NewClaim("fabrica", km, {}, {[kind |-> "factory", terms |-> w]}))
  BY Zenon DEF ClaimFactory
<1> DEFINE s == [kind |-> "factory", terms |-> w]
           c == NewClaim("fabrica", km, {}, {s})
<1>2. w \in Warranty /\ w.base = 0 /\ km \in Nat /\ claimDay \in 0..LastDay
  BY WarrantyClaimsAssumption DEF ClaimsInv, ClaimTables, FromZero
<1>3. s \in CoverageSnapshot
  BY <1>2 DEF CoverageSnapshot
<1>4. /\ c \in ClaimRow /\ c.status = "solicitado" /\ c.result = 0 /\ ~c.legacy
      /\ c.coverage = {s} /\ (\A o, p \in c.source : o = p) /\ c.day = claimDay /\ c.km = km
  <2> HIDE DEF s
  <2> QED BY <1>2, <1>3 DEF NewClaim, ClaimRow, ClaimTypes, ClaimStatus
<1>5. Filed(c)
  BY <1>1
<1> HIDE DEF c
<1>6. \A p, t \in c.coverage : /\ p = t /\ InForce(p.terms, c.day, c.km)
                               /\ rewritten \/ p.terms.base <= c.km
  BY <1>1, <1>2, <1>4
<1> QED BY <1>4, <1>5, <1>6, FiledKeeps

\* A campaign has no coverage to judge.
LEMMA ClaimCampaignKeeps ==
  ASSUME ClaimsInv, NEW km \in Kilometres, ClaimCampaign(km)
  PROVE  ClaimsInv'
<1> DEFINE c == NewClaim("campana_recall", km, {}, {})
<1>1. km \in Nat /\ claimDay \in 0..LastDay
  BY WarrantyClaimsAssumption DEF ClaimsInv, ClaimTables
<1>2. c \in ClaimRow /\ c.status = "solicitado" /\ c.result = 0 /\ ~c.legacy /\ c.coverage = {} /\ c.source = {}
  BY <1>1 DEF NewClaim, ClaimRow, ClaimTypes, ClaimStatus
<1>3. Filed(c)
  BY DEF ClaimCampaign
<1> HIDE DEF c
<1> QED BY <1>2, <1>3, FiledKeeps

\* Every way to file a claim is one of these.
LEMMA ClaimRoutesKeep ==
  ASSUME ClaimsInv, ClaimRoutes
  PROVE  ClaimsInv'
<1>1. PICK km \in Kilometres :
        \/ \E w \in workWarranties : ClaimWork(w, km)
        \/ ClaimFactory(km)
        \/ ClaimCampaign(km)
        \/ \E type \in ClaimTypes, o \in Visited : ClaimByType(type, o, km)
  BY Zenon DEF ClaimRoutes
<1>2. \/ \E w \in workWarranties : ClaimWork(w, km)
      \/ ClaimFactory(km)
      \/ ClaimCampaign(km)
  BY <1>1 DEF ClaimByType
<1> QED BY <1>2, ClaimWorkKeeps, ClaimFactoryKeeps, ClaimCampaignKeeps

\* A set listed as a sequence holds each of its members once.
LEMMA ListedOnce ==
  ASSUME NEW S, IsFiniteSet(S)
  PROVE  SetToSeq(S) \in Seq(S) /\ IsInjective(SetToSeq(S))
<1>1. Cardinality(S) \in Nat /\ ExistsBijection(1..Cardinality(S), S)
  BY FS_CardinalityType
<1>2. \E f \in [1..Cardinality(S) -> S] : IsInjective(f)
  BY <1>1 DEF ExistsBijection, Bijection, Injection, IsInjective
<1>3. SetToSeq(S) \in [1..Cardinality(S) -> S] /\ IsInjective(SetToSeq(S))
  BY <1>2 DEF SetToSeq
<1> QED BY <1>1, <1>3, SeqDef

\* Two sequences without repetitions and without a common member make one.
LEMMA JoinedOnce ==
  ASSUME NEW T, NEW s \in Seq(T), NEW t \in Seq(T), IsInjective(s), IsInjective(t),
         \A i \in DOMAIN s, j \in DOMAIN t : s[i] # t[j]
  PROVE  s \o t \in Seq(T) /\ IsInjective(s \o t)
<1> DEFINE u == s \o t
<1>1. /\ u \in Seq(T) /\ Len(u) = Len(s) + Len(t)
      /\ \A i \in 1..Len(s) + Len(t) : u[i] = IF i <= Len(s) THEN s[i] ELSE t[i - Len(s)]
  BY ConcatProperties
<1>2. /\ Len(s) \in Nat /\ Len(t) \in Nat /\ DOMAIN s = 1..Len(s) /\ DOMAIN t = 1..Len(t)
      /\ DOMAIN u = 1..Len(s) + Len(t)
  BY <1>1, LenProperties
<1> HIDE DEF u
<1>3. ASSUME NEW i \in DOMAIN u, NEW j \in DOMAIN u, u[i] = u[j], i <= Len(s)
      PROVE  i = j
  <2>1. u[i] = s[i] /\ i \in DOMAIN s
    BY <1>1, <1>2, <1>3
  <2>2. j <= Len(s)
    <3> SUFFICES ASSUME ~(j <= Len(s)) PROVE FALSE
      OBVIOUS
    <3>1. j - Len(s) \in DOMAIN t /\ u[j] = t[j - Len(s)]
      BY <1>1, <1>2
    <3> QED BY <1>3, <2>1, <3>1
  <2>3. u[j] = s[j] /\ j \in DOMAIN s
    BY <1>1, <1>2, <2>2
  <2> QED BY <1>3, <2>1, <2>3 DEF IsInjective
<1>4. ASSUME NEW i \in DOMAIN u, NEW j \in DOMAIN u, u[i] = u[j], ~(i <= Len(s)), ~(j <= Len(s))
      PROVE  i = j
  <2>1. i - Len(s) \in DOMAIN t /\ j - Len(s) \in DOMAIN t
    BY <1>1, <1>2, <1>4
  <2>2. u[i] = t[i - Len(s)] /\ u[j] = t[j - Len(s)]
    BY <1>1, <1>2, <1>4
  <2>3. i - Len(s) = j - Len(s)
    BY <1>4, <2>1, <2>2 DEF IsInjective
  <2> QED BY <1>2, <2>3
<1>5. IsInjective(u)
  <2> SUFFICES ASSUME NEW i \in DOMAIN u, NEW j \in DOMAIN u, u[i] = u[j] PROVE i = j
    BY DEF IsInjective
  <2>1. CASE i <= Len(s)
    BY <1>3, <2>1
  <2>2. CASE j <= Len(s)
    BY <1>3, <2>2
  <2> QED BY <1>4, <2>1, <2>2
<1> QED BY <1>1, <1>5 DEF u

\* The suppliers claimed against: no lot of a claim twice.
LEMMA SuppliersKeep ==
  ASSUME ClaimsInv, NEW c \in DOMAIN claims
  PROVE  /\ ClaimedOf(c, FromSuppliers(c)) \in Seq((1..MaxClaims) \X UNION Range(DispatchedLots))
         /\ IsInjective(ClaimedOf(c, FromSuppliers(c)))
<1> DEFINE L == UNION {DispatchedLots[o] : o \in claims[c].source}
           F == FromSuppliers(c)
           P == {<<c, l>> : l \in F}
           T == (1..MaxClaims) \X UNION Range(DispatchedLots)
<1>1. ClaimTables /\ claims[c].source \subseteq Visited /\ c \in 1..MaxClaims
  BY ClaimFacts DEF ClaimsInv, ClaimRow
<1>2. IsFiniteSet(L)
  <2>1. CASE claims[c].source = {}
    <3>1. L = {}
      BY <2>1
    <3> QED BY <3>1, FS_EmptySet
  <2>2. CASE claims[c].source # {}
    <3>1. PICK o \in claims[c].source : TRUE
      BY <2>2
    <3>2. claims[c].source = {o}
      BY <3>1 DEF ClaimsInv, FiledInForce
    <3>3. L = DispatchedLots[o]
      BY <3>2
    <3> QED BY <1>1, <3>3, WarrantyClaimsAssumption
  <2> QED BY <2>1, <2>2
<1>3. F \subseteq L /\ \A l \in F : <<c, l>> \notin Range(supplierClaims)
  BY DEF FromSuppliers
<1>4. IsFiniteSet(F)
  BY <1>2, <1>3, FS_Subset
<1>5. F \subseteq UNION Range(DispatchedLots)
  <2>1. \A o \in Visited : DispatchedLots[o] \in Range(DispatchedLots)
    BY WarrantyClaimsAssumption DEF Range
  <2> QED BY <1>1, <1>3, <2>1
<1>6. IsFiniteSet(P) /\ P \subseteq T
  <2> HIDE DEF F
  <2> DEFINE m == [l \in F |-> <<c, l>>]
  <2>1. m \in Surjection(F, P)
    BY DEF Surjection
  <2>2. IsFiniteSet(P)
    <3> HIDE DEF P, m
    <3> QED BY <1>4, <2>1, FS_Surjection
  <2>3. P \subseteq T
    BY <1>1, <1>5
  <2> QED BY <2>2, <2>3
<1>7. SetToSeq(P) \in Seq(P) /\ IsInjective(SetToSeq(P))
  <2> HIDE DEF P
  <2> QED BY <1>6, ListedOnce
<1>8. supplierClaims \in Seq(T) /\ IsInjective(supplierClaims)
  BY <1>1 DEF ClaimTables, ClaimsInv
<1>9. SetToSeq(P) \in Seq(T)
  <2> HIDE DEF P, T
  <2> QED BY <1>6, <1>7, SeqMonotonic
<1>10. \A i \in DOMAIN supplierClaims, j \in DOMAIN SetToSeq(P) : supplierClaims[i] # SetToSeq(P)[j]
  <2>1. \A i \in DOMAIN supplierClaims : supplierClaims[i] \in Range(supplierClaims)
    BY DEF Range
  <2>2. \A j \in DOMAIN SetToSeq(P) : SetToSeq(P)[j] \in P
    <3> HIDE DEF P
    <3> QED BY <1>7, LenProperties
  <2>3. \A p \in P : p \notin Range(supplierClaims)
    <3> HIDE DEF F
    <3> QED BY <1>3
  <2> HIDE DEF P
  <2> QED BY <2>1, <2>2, <2>3
<1>11. supplierClaims \o SetToSeq(P) \in Seq(T) /\ IsInjective(supplierClaims \o SetToSeq(P))
  <2> HIDE DEF P, T
  <2> QED BY <1>7, <1>8, <1>9, <1>10, JoinedOnce
<1> QED BY <1>11 DEF ClaimedOf

\* Only the workshop's own warranty pays for a comeback.
LEMMA PayerIs ==
  ASSUME NEW type \in ClaimTypes
  PROVE  /\ PayerOf(type) \in {"garantia_fabrica", "garantia_taller", "proveedor"}
         /\ PayerOf(type) = "garantia_taller" => type = "comeback"
BY DEF PayerOf, ClaimTypes

\* A claim under review, or one from before the reviews, becomes one more draft order.
LEMMA ConvertedKeeps ==
  ASSUME ClaimsInv, NEW c \in DOMAIN claims, Converted(c), Reviewable(c) \/ claims[c].legacy,
         converting' \subseteq converting,
         UNCHANGED <<claimDay, odometer, visits, workWarranties, factoryWarranty, rewritten>>
  PROVE  ClaimsInv'
<1> DEFINE n == Len(reworkOrders) + 1
           x == [claim |-> c, payer |-> PayerOf(claims[c].type),
                 type |-> IF claims[c].type \in {"fabrica", "campana_recall"} THEN "garantia_fabrica"
                          ELSE "retrabajo"]
           y == [claims[c] EXCEPT !.status = "convertido_a_ods", !.result = n]
<1>1. /\ ClaimTables /\ claims \in Seq(ClaimRow) /\ claims[c] \in ClaimRow /\ c \in 1..MaxClaims
      /\ reworkOrders \in Seq(ReworkOrder) /\ n \in Nat /\ n # 0
      /\ DOMAIN reworkOrders = 1..Len(reworkOrders) /\ Len(reworkOrders) \in Nat
      /\ DOMAIN claims = 1..Len(claims)
  BY ClaimFacts DEF ClaimsInv, ClaimTables
<1>2. x \in ReworkOrder /\ x.claim = c /\ (x.payer = "garantia_taller" => claims[c].type = "comeback")
  <2>1. claims[c].type \in ClaimTypes
    BY <1>1 DEF ClaimRow
  <2>2. /\ PayerOf(claims[c].type) \in {"garantia_fabrica", "garantia_taller", "proveedor"}
        /\ PayerOf(claims[c].type) = "garantia_taller" => claims[c].type = "comeback"
    BY <2>1, PayerIs
  <2> QED BY <1>1, <2>2 DEF ReworkOrder
<1>3. /\ reworkOrders' = Append(reworkOrders, x) /\ claims' = [claims EXCEPT ![c] = y]
      /\ supplierClaims' = IF claims[c].type = "repuesto_proveedor"
                           THEN ClaimedOf(c, FromSuppliers(c)) ELSE supplierClaims
  BY DEF Converted
<1>4. /\ y \in ClaimRow /\ y.status = "convertido_a_ods" /\ y.result = n /\ y.type = claims[c].type
      /\ y.legacy = claims[c].legacy /\ y.coverage = claims[c].coverage /\ y.day = claims[c].day
      /\ y.km = claims[c].km /\ y.source = claims[c].source
  <2> HIDE DEF n
  <2> QED BY <1>1 DEF ClaimRow, ClaimStatus
<1> HIDE DEF x, y
<1>5. /\ claims' \in Seq(ClaimRow) /\ Len(claims') = Len(claims) /\ DOMAIN claims' = DOMAIN claims
      /\ claims'[c] = y /\ \A d \in DOMAIN claims : d # c => claims'[d] = claims[d]
  <2>1. /\ claims' \in Seq(ClaimRow) /\ Len(claims') = Len(claims)
        /\ \A d \in 1..Len(claims) : claims'[d] = IF d = c THEN y ELSE claims[d]
    BY <1>1, <1>3, <1>4, ExceptSeq
  <2> QED BY <1>1, <2>1, LenProperties
<1>6. /\ reworkOrders' \in Seq(ReworkOrder) /\ reworkOrders'[n] = x /\ DOMAIN reworkOrders' = 1..n
      /\ \A r \in DOMAIN reworkOrders : reworkOrders'[r] = reworkOrders[r]
      /\ \A r \in DOMAIN reworkOrders' : r \in DOMAIN reworkOrders \/ r = n
      /\ n \in DOMAIN reworkOrders' /\ n \notin DOMAIN reworkOrders /\ DOMAIN reworkOrders \subseteq DOMAIN reworkOrders'
  <2>1. /\ reworkOrders' \in Seq(ReworkOrder) /\ Len(reworkOrders') = n /\ reworkOrders'[n] = x
        /\ \A r \in 1..Len(reworkOrders) : reworkOrders'[r] = reworkOrders[r]
    BY <1>1, <1>2, <1>3, AppendProperties
  <2>2. DOMAIN reworkOrders' = 1..n
    BY <2>1, LenProperties
  <2> QED BY <1>1, <2>1, <2>2
<1> HIDE DEF n
<1>7. /\ supplierClaims' \in Seq((1..MaxClaims) \X UNION Range(DispatchedLots))
      /\ IsInjective(supplierClaims')
  BY <1>3, SuppliersKeep DEF ClaimsInv, ClaimTables
<1>8. ClaimTables'
  <2>1. converting' \subseteq Officers \X DOMAIN claims'
    BY <1>1, <1>5 DEF ClaimTables
  <2> QED BY <1>1, <1>5, <1>6, <1>7, <2>1 DEF ClaimTables
<1>9. ReadingsGrow' /\ FromZero'
  BY DEF ClaimsInv, ReadingsGrow, FromZero
<1>10. FiledInForce'
  <2> SUFFICES ASSUME NEW d \in DOMAIN claims
               PROVE  /\ \A o, p \in claims'[d].source : o = p
                      /\ \A s, t \in claims'[d].coverage :
                           /\ s = t /\ InForce(s.terms, claims'[d].day, claims'[d].km)
                           /\ rewritten' \/ s.terms.base <= claims'[d].km
    BY <1>5 DEF FiledInForce
  <2>1. claims'[d].source = claims[d].source /\ claims'[d].coverage = claims[d].coverage
        /\ claims'[d].day = claims[d].day /\ claims'[d].km = claims[d].km
    BY <1>4, <1>5
  <2> QED BY <2>1 DEF ClaimsInv, FiledInForce
<1>11. ReworksOf(c)' = ReworksOf(c) \cup {n} /\ \A d \in DOMAIN claims : d # c => ReworksOf(d)' = ReworksOf(d)
  BY <1>2, <1>6 DEF ReworksOf
<1>12. AnsweredOnce'
  <2> SUFFICES ASSUME NEW d \in DOMAIN claims
               PROVE  /\ claims'[d].status = "autorizado" => claims'[d].legacy
                      /\ ~claims'[d].legacy => /\ ReworksOf(d)' = {claims'[d].result} \ {0}
                                               /\ claims'[d].status = "convertido_a_ods" <=> claims'[d].result # 0
    BY <1>5 DEF AnsweredOnce
  <2>1. CASE d # c
    <3>1. claims'[d] = claims[d] /\ ReworksOf(d)' = ReworksOf(d)
      BY <1>5, <1>11, <2>1
    <3> QED BY <3>1 DEF ClaimsInv, AnsweredOnce
  <2>2. CASE d = c
    <3>1. ~claims[c].legacy => claims[c].result = 0
      BY DEF Reviewable
    <3>2. ~claims[c].legacy => ReworksOf(c) = {}
      BY <3>1 DEF ClaimsInv, AnsweredOnce
    <3> QED BY <1>1, <1>4, <1>5, <1>11, <2>2, <3>2
  <2> QED BY <2>1, <2>2
<1>13. ReworksClaimed'
  <2>1. \A d \in DOMAIN claims : claims'[d].type = claims[d].type /\ claims'[d].legacy = claims[d].legacy
    BY <1>4, <1>5
  <2>2. ASSUME NEW r \in DOMAIN reworkOrders'
        PROVE  /\ reworkOrders'[r].claim \in DOMAIN claims'
               /\ reworkOrders'[r].payer = "garantia_taller" => claims'[reworkOrders'[r].claim].type = "comeback"
    <3>1. CASE r = n
      BY <1>2, <1>4, <1>5, <1>6, <3>1
    <3>2. CASE r \in DOMAIN reworkOrders
      BY <1>5, <1>6, <2>1, <3>2 DEF ClaimsInv, ReworksClaimed
    <3> QED BY <1>6, <3>1, <3>2
  <2>3. \A t \in converting' : t[2] \in DOMAIN claims
    BY <1>1 DEF ClaimTables
  <2>4. \A t \in converting' : claims'[t[2]].legacy
    BY <2>1, <2>3 DEF ClaimsInv, ReworksClaimed
  <2> QED BY <2>2, <2>4 DEF ReworksClaimed
<1> QED BY <1>7, <1>8, <1>9, <1>10, <1>12, <1>13 DEF ClaimsInv

\* A rejected claim leads to no order.
LEMMA RejectKeeps ==
  ASSUME ClaimsInv, NEW c \in DOMAIN claims, Reject(c)
  PROVE  ClaimsInv'
<1> DEFINE y == [claims[c] EXCEPT !.status = "rechazado"]
<1>1. /\ ClaimTables /\ claims \in Seq(ClaimRow) /\ claims[c] \in ClaimRow /\ DOMAIN claims = 1..Len(claims)
      /\ Len(claims) \in Nat
  BY ClaimFacts DEF ClaimsInv, ClaimTables
<1>2. /\ Reviewable(c) /\ claims' = [claims EXCEPT ![c] = y]
      /\ UNCHANGED <<claimDay, odometer, visits, workWarranties, factoryWarranty, reworkOrders,
                     supplierClaims, converting, rewritten>>
  BY DEF Reject
<1>3. /\ y \in ClaimRow /\ y.status = "rechazado" /\ y.result = claims[c].result /\ y.type = claims[c].type
      /\ y.legacy = claims[c].legacy /\ y.coverage = claims[c].coverage /\ y.day = claims[c].day
      /\ y.km = claims[c].km /\ y.source = claims[c].source
  BY <1>1 DEF ClaimRow, ClaimStatus
<1> HIDE DEF y
<1>4. /\ claims' \in Seq(ClaimRow) /\ Len(claims') = Len(claims) /\ DOMAIN claims' = DOMAIN claims
      /\ claims'[c] = y /\ \A d \in DOMAIN claims : d # c => claims'[d] = claims[d]
  <2>1. /\ claims' \in Seq(ClaimRow) /\ Len(claims') = Len(claims)
        /\ \A d \in 1..Len(claims) : claims'[d] = IF d = c THEN y ELSE claims[d]
    BY <1>1, <1>2, <1>3, ExceptSeq
  <2> QED BY <1>1, <2>1, LenProperties
<1>5. ClaimTables'
  BY <1>1, <1>2, <1>4 DEF ClaimTables
<1>6. ReadingsGrow' /\ FromZero' /\ IsInjective(supplierClaims)'
  BY <1>2 DEF ClaimsInv, ReadingsGrow, FromZero
<1>7. \A d \in DOMAIN claims : /\ claims'[d].type = claims[d].type /\ claims'[d].legacy = claims[d].legacy
                               /\ claims'[d].result = claims[d].result
                               /\ claims'[d].source = claims[d].source /\ claims'[d].coverage = claims[d].coverage
                               /\ claims'[d].day = claims[d].day /\ claims'[d].km = claims[d].km
                               /\ d # c => claims'[d].status = claims[d].status
  BY <1>3, <1>4
<1>8. FiledInForce'
  BY <1>2, <1>4, <1>7 DEF ClaimsInv, FiledInForce
<1>9. AnsweredOnce'
  <2> SUFFICES ASSUME NEW d \in DOMAIN claims
               PROVE  /\ claims'[d].status = "autorizado" => claims'[d].legacy
                      /\ ~claims'[d].legacy => /\ ReworksOf(d) = {claims'[d].result} \ {0}
                                               /\ claims'[d].status = "convertido_a_ods" <=> claims'[d].result # 0
    BY <1>2, <1>4 DEF AnsweredOnce, ReworksOf
  <2>1. claims[c].result = 0 /\ claims'[c].status = "rechazado"
    BY <1>2, <1>3, <1>4 DEF Reviewable
  <2> QED BY <1>7, <2>1 DEF ClaimsInv, AnsweredOnce
<1>10. ReworksClaimed'
  <2>1. \A t \in converting : t[2] \in DOMAIN claims
    BY <1>1 DEF ClaimTables
  <2> QED BY <1>2, <1>4, <1>7, <2>1 DEF ClaimsInv, ReworksClaimed
<1> QED BY <1>5, <1>6, <1>8, <1>9, <1>10 DEF ClaimsInv

\* Only a claim from before the reviews is read as authorised.
LEMMA ConvertReadsKeeps ==
  ASSUME ClaimsInv, NEW c \in DOMAIN claims, NEW h \in Officers, ConvertReads(h, c)
  PROVE  ClaimsInv'
<1>1. /\ claims[c].status = "autorizado" /\ converting' = converting \union {<<h, c>>}
      /\ UNCHANGED <<claimDay, odometer, visits, workWarranties, factoryWarranty, claims,
                     reworkOrders, supplierClaims, rewritten>>
  BY DEF ConvertReads
<1>2. claims[c].legacy
  BY <1>1 DEF ClaimsInv, AnsweredOnce
<1>3. ClaimTables'
  <2>1. converting' \subseteq Officers \X DOMAIN claims'
    BY <1>1 DEF ClaimsInv, ClaimTables
  <2> QED BY <1>1, <2>1 DEF ClaimsInv, ClaimTables
<1>4. ReadingsGrow' /\ FromZero' /\ IsInjective(supplierClaims)' /\ FiledInForce'
  BY <1>1 DEF ClaimsInv, ReadingsGrow, FromZero, FiledInForce
<1>5. AnsweredOnce'
  BY <1>1 DEF ClaimsInv, AnsweredOnce, ReworksOf
<1>6. ReworksClaimed'
  <2>1. \A t \in converting' : claims[t[2]].legacy
    BY <1>1, <1>2 DEF ClaimsInv, ReworksClaimed
  <2> QED BY <1>1, <2>1 DEF ClaimsInv, ReworksClaimed
<1> QED BY <1>3, <1>4, <1>5, <1>6 DEF ClaimsInv

\* Claiming from a supplier touches no claim.
LEMMA ClaimFromSupplierKeeps ==
  ASSUME ClaimsInv, NEW c \in DOMAIN claims, ClaimFromSupplier(c)
  PROVE  ClaimsInv'
<1>1. /\ supplierClaims' = ClaimedOf(c, FromSuppliers(c))
      /\ UNCHANGED <<claimDay, odometer, visits, workWarranties, factoryWarranty, claims,
                     reworkOrders, converting, rewritten>>
  BY DEF ClaimFromSupplier
<1>2. /\ supplierClaims' \in Seq((1..MaxClaims) \X UNION Range(DispatchedLots))
      /\ IsInjective(supplierClaims')
  BY <1>1, SuppliersKeep
<1>3. ClaimTables'
  BY <1>1, <1>2 DEF ClaimsInv, ClaimTables
<1>4. ReadingsGrow' /\ FromZero' /\ FiledInForce'
  BY <1>1 DEF ClaimsInv, ReadingsGrow, FromZero, FiledInForce
<1>5. AnsweredOnce' /\ ReworksClaimed'
  BY <1>1 DEF ClaimsInv, AnsweredOnce, ReworksOf, ReworksClaimed
<1> QED BY <1>2, <1>3, <1>4, <1>5 DEF ClaimsInv

\* The reviews, one by one.
LEMMA ReviewRoutesKeep ==
  ASSUME ClaimsInv, ReviewRoutes
  PROVE  ClaimsInv'
<1>1. PICK c \in DOMAIN claims :
        \/ \E confirmed \in BOOLEAN : Approve(c, confirmed)
        \/ Reject(c)
        \/ \E h \in Officers : ConvertReads(h, c) \/ ConvertWrites(h, c)
        \/ ClaimFromSupplier(c)
  BY Zenon DEF ReviewRoutes
<1>2. ASSUME NEW confirmed \in BOOLEAN, Approve(c, confirmed) PROVE ClaimsInv'
  BY <1>2, ConvertedKeeps DEF Approve
<1>3. ASSUME NEW h \in Officers, ConvertWrites(h, c) PROVE ClaimsInv'
  <2>1. claims[c].legacy
    <3>1. <<h, c>> \in converting
      BY <1>3 DEF ConvertWrites
    <3>2. claims[<<h, c>>[2]].legacy
      BY <3>1 DEF ClaimsInv, ReworksClaimed
    <3> QED BY <3>2
  <2>2. converting' \subseteq converting
    BY <1>3 DEF ConvertWrites
  <2> QED BY <1>3, <2>1, <2>2, ConvertedKeeps DEF ConvertWrites
<1> QED BY <1>1, <1>2, <1>3, RejectKeeps, ConvertReadsKeeps, ClaimFromSupplierKeeps

\* At first there is nothing but a claim from before the reviews.
LEMMA ClaimsStart ==
  ClaimsInit => ClaimsInv
<1> SUFFICES ASSUME ClaimsInit PROVE ClaimsInv
  OBVIOUS
<1>1. /\ claimDay \in 0..LastDay /\ rewritten \in BOOLEAN /\ workWarranties = {} /\ factoryWarranty = {}
      /\ converting = {} /\ odometer = <<>> /\ reworkOrders = <<>> /\ supplierClaims = <<>>
      /\ ~rewritten
  <2>1. 0 \in 0..LastDay
    BY WarrantyClaimsAssumption
  <2>2. claimDay = 0 /\ odometer = <<>> /\ rewritten = FALSE /\ workWarranties = {} /\ factoryWarranty = {}
    BY Zenon DEF ClaimsInit
  <2>3. converting = {} /\ reworkOrders = <<>> /\ supplierClaims = <<>>
    BY Zenon DEF ClaimsInit
  <2> QED BY <2>1, <2>2, <2>3
<1>2. /\ odometer \in Seq(Reading) /\ reworkOrders \in Seq(ReworkOrder)
      /\ supplierClaims \in Seq((1..MaxClaims) \X UNION Range(DispatchedLots))
      /\ DOMAIN odometer = {} /\ DOMAIN reworkOrders = {} /\ DOMAIN supplierClaims = {}
  <2>1. \A S : <<>> \in Seq(S) /\ Len(<<>>) = 0
    BY EmptySeq
  <2>2. DOMAIN <<>> = {}
    OBVIOUS
  <2> QED BY <1>1, <2>1, <2>2
<1>3. /\ claims \in Seq(ClaimRow) /\ Len(claims) <= MaxClaims
      /\ \A c \in DOMAIN claims : /\ claims[c].legacy /\ claims[c].coverage = {} /\ claims[c].source = {}
                                  /\ claims[c].status = "autorizado"
  <2>1. CASE claims = <<>>
    <3>1. claims \in Seq(ClaimRow) /\ Len(claims) = 0 /\ DOMAIN claims = {}
      BY <2>1, EmptySeq
    <3> QED BY <3>1, WarrantyClaimsAssumption
  <2>2. CASE claims # <<>>
    <3>1. PICK t \in LegacyTypes, k \in Kilometres : claims = <<LegacyClaim(t, k)>>
      BY <2>2 DEF ClaimsInit
    <3> DEFINE x == LegacyClaim(t, k)
    <3>2. x \in ClaimRow
      <4>1. t \in ClaimTypes /\ k \in Kilometres /\ 0 \in 0..LastDay
        BY WarrantyClaimsAssumption DEF ClaimTypes
      <4>2. {} \in SUBSET Visited /\ {} \in SUBSET CoverageSnapshot
        OBVIOUS
      <4> QED BY <4>1, <4>2 DEF LegacyClaim, ClaimRow, ClaimStatus
    <3>3. x.legacy = TRUE /\ x.coverage = {} /\ x.source = {} /\ x.status = "autorizado"
      BY DEF LegacyClaim
    <3> HIDE DEF x
    <3>4. claims = <<x>>
      BY <3>1 DEF x
    <3>5. claims \in Seq(ClaimRow) /\ Len(claims) = 1 /\ DOMAIN claims = {1} /\ claims[1] = x
      BY <3>2, <3>4
    <3>6. Len(claims) <= MaxClaims
      BY <3>5, WarrantyClaimsAssumption
    <3> QED BY <3>3, <3>5, <3>6
  <2> QED BY <2>1, <2>2
<1>4. visits \in [Visited -> [closed : BOOLEAN, intake : Terms]] /\ \A o \in Visited : visits[o].intake = NoLimit
  BY DEF ClaimsInit, Terms
<1>5. ClaimTables
  BY <1>1, <1>2, <1>3, <1>4 DEF ClaimTables
<1>6. ReadingsGrow
  <2>1. LastReading(odometer) = NoLimit
    BY <1>1 DEF LastReading
  <2>2. NoLimit <= NoLimit
    BY DEF NoLimit
  <2> QED BY <1>1, <1>2, <1>4, <2>1, <2>2 DEF ReadingsGrow
<1>7. FromZero /\ FiledInForce
  BY <1>1, <1>3 DEF FromZero, FiledInForce
<1>8. AnsweredOnce /\ ReworksClaimed
  BY <1>1, <1>2, <1>3 DEF AnsweredOnce, ReworksClaimed
<1>9. IsInjective(supplierClaims)
  BY <1>2 DEF IsInjective
<1> QED BY <1>5, <1>6, <1>7, <1>8, <1>9 DEF ClaimsInv

\* Every step keeps the invariant.
LEMMA ClaimsStep ==
  ClaimsInv /\ [ClaimsNext]_claimVars => ClaimsInv'
<1> SUFFICES ASSUME ClaimsInv, [ClaimsNext]_claimVars PROVE ClaimsInv'
  OBVIOUS
<1>1. CASE NextClaimDay
  BY <1>1, ClaimDayKeeps
<1>2. CASE \E o \in Visited, exit \in Kilometres \union {NoLimit}, t \in LabourTerms : CloseVisit(o, exit, t)
  BY <1>2, CloseVisitKeeps
<1>3. CASE SaleRenewsWarranty
  <2>1. claimDay \in 0..LastDay
    BY DEF ClaimsInv, ClaimTables
  <2>2. FactoryFrom(claimDay, SaleTerms) \in Warranty /\ FactoryFrom(claimDay, SaleTerms).base = 0
    BY <2>1, FactoryTermsTyped
  <2> QED BY <1>3, <2>2, FactoryKeeps DEF SaleRenewsWarranty
<1>4. CASE FactoryWarrantyRoutes
  <2>1. PICK starts \in 0..LastDay, t \in FactoryTerms : RegisterFactoryWarranty(starts, t)
    BY <1>4, Zenon DEF FactoryWarrantyRoutes
  <2>2. FactoryFrom(starts, t) \in Warranty /\ FactoryFrom(starts, t).base = 0
    BY FactoryTermsTyped
  <2> QED BY <2>1, <2>2, FactoryKeeps DEF RegisterFactoryWarranty
<1>5. CASE InspectionRoutes
  <2>1. CASE \E km \in Kilometres, reason \in BOOLEAN : Inspect(km, reason)
    BY <2>1, InspectKeeps
  <2>2. CASE \E i \in DOMAIN odometer :
               \/ \E o \in Visited : LinkInspection(i, o)
               \/ UnlinkInspection(i)
               \/ \E km \in Kilometres, reason \in BOOLEAN : CorrectInspection(i, km, reason)
               \/ DeleteInspection(i)
    BY <2>2, LinkKeeps, UnlinkKeeps, CorrectKeeps, DeleteReadingKeeps
  <2> QED BY <1>5, <2>1, <2>2 DEF InspectionRoutes
<1>6. CASE ClaimRoutes
  BY <1>6, ClaimRoutesKeep
<1>7. CASE ReviewRoutes
  BY <1>7, ReviewRoutesKeep
<1>8. CASE UNCHANGED claimVars
  <2>1. ClaimTables' /\ ReadingsGrow' /\ FromZero'
    BY <1>8 DEF ClaimsInv, ClaimTables, ReadingsGrow, FromZero, claimVars
  <2>2. FiledInForce' /\ AnsweredOnce' /\ ReworksClaimed' /\ IsInjective(supplierClaims)'
    BY <1>8, ClaimsKept DEF claimVars
  <2> QED BY <2>1, <2>2 DEF ClaimsInv
<1> QED BY <1>1, <1>2, <1>3, <1>4, <1>5, <1>6, <1>7, <1>8 DEF ClaimsNext

\* The invariant holds in every reachable state.
LEMMA ClaimsHold == ClaimsSpec => []ClaimsInv
BY ClaimsStart, ClaimsStep, PTL DEF ClaimsSpec

\* A warranty that a claim could be filed under is shown as in force.
LEMMA FiledIsShown ==
  ASSUME ClaimsInv
  PROVE  CoverageAgrees
<1>1. ClaimTables /\ claimDay \in Nat
  BY WarrantyClaimsAssumption DEF ClaimsInv, ClaimTables
<1>2. ASSUME NEW i \in DOMAIN claims, NEW s \in claims[i].coverage, "outside" \in ClaimPage(claims[i])
      PROVE  rewritten /\ claims[i].km < s.terms.base
  <2> DEFINE w == s.terms
             c == claims[i]
  <2>1. c \in ClaimRow /\ s \in CoverageSnapshot
    BY <1>1, ClaimFacts DEF ClaimRow
  <2>2. /\ w.starts \in Int /\ w.days \in Int /\ w.km \in Int /\ w.base \in Int /\ c.day \in Int /\ c.km \in Int
    <3>1. w \in Warranty
      BY <2>1 DEF CoverageSnapshot
    <3>2. c.day \in 0..LastDay /\ c.km \in Nat
      BY <2>1, WarrantyClaimsAssumption DEF ClaimRow
    <3> QED BY <3>1, <3>2, WarrantyClaimsAssumption DEF Warranty, Terms, NoLimit
  <2>3. AssessCoverage(s, c.day, c.km) = "outside"
    <3>1. PICK t \in c.coverage : AssessCoverage(t, c.day, c.km) = "outside"
      BY <1>2 DEF ClaimPage
    <3>2. t = s
      BY <3>1 DEF ClaimsInv, FiledInForce
    <3> QED BY <3>1, <3>2
  <2>4. InForce(w, c.day, c.km) /\ (rewritten \/ w.base <= c.km)
    BY DEF ClaimsInv, FiledInForce
  <2> HIDE DEF c, w
  <2>5. \/ c.day < w.starts
        \/ w.days # NoLimit /\ ~(w.starts <= c.day /\ c.day <= w.starts + w.days)
        \/ w.km # NoLimit /\ w.base # NoLimit /\ ~(0 <= c.km - w.base /\ c.km - w.base < w.km)
    BY <2>3 DEF AssessCoverage, w
  <2>6. c.km < w.base
    BY <2>2, <2>4, <2>5 DEF InForce, DayOver, KmOver
  <2> QED BY <2>2, <2>4, <2>6 DEF c, w
<1>3. ASSUME NEW km \in Kilometres, ValidMileage(km, odometer, FALSE)
      PROVE  /\ km \in Int /\ CurrentMileage \in Int /\ CurrentMileage <= km
  <2>1. km \in Int /\ LastReading(odometer) \in Int
    BY <1>1, ClaimFacts, WarrantyClaimsAssumption DEF Terms, NoLimit
  <2> QED BY <1>3, <2>1 DEF ValidMileage, CurrentMileage
<1>4. ASSUME NEW km \in Kilometres, ValidMileage(km, odometer, FALSE), NEW w \in factoryWarranty,
             InForce(w, claimDay, km), NEW o \in Visited
      PROVE  w \in ClaimContext(o).factory
  <2>0. km \in Int /\ CurrentMileage \in Int /\ CurrentMileage <= km
    BY <1>3, <1>4, Zenon
  <2>1. w.base = 0 /\ w.km \in Terms
    BY <1>1 DEF ClaimsInv, FromZero, ClaimTables, Warranty
  <2>2. w.km # NoLimit => CurrentMileage < w.km
    BY <2>0, <1>4, <2>1 DEF InForce, KmOver, Terms, NoLimit
  <2>3. FactoryStatus(w) = "vigente"
    <3>1. w.km # NoLimit => ~(CurrentMileage >= w.km)
      BY <2>0, <2>1, <2>2 DEF Terms, NoLimit
    <3> QED BY <1>4, <3>1 DEF FactoryStatus, InForce
  <2> QED BY <2>3 DEF ClaimContext
<1>5. ASSUME NEW km \in Kilometres, ValidMileage(km, odometer, FALSE), NEW w \in workWarranties,
             InForce(w.terms, claimDay, km)
      PROVE  w \in ClaimContext(w.order).work
  <2>0. km \in Int /\ CurrentMileage \in Int /\ CurrentMileage <= km
    BY <1>3, <1>5, Zenon
  <2>1. w.terms.base \in Int /\ w.terms.km \in Int
    BY <1>1, ClaimFacts DEF Warranty, Terms, NoLimit
  <2>2. ~KmOver(w.terms, CurrentMileage)
    BY <2>0, <1>5, <2>1 DEF InForce, KmOver
  <2>3. WorkStatus(w) = "vigente"
    BY <1>5, <2>2 DEF WorkStatus, InForce
  <2> QED BY <2>3 DEF ClaimContext
<1> QED BY <1>2, <1>4, <1>5 DEF CoverageAgrees

\* A reviewed claim leads to one rework at most, and each rework is counted.
LEMMA ReworkedOnce ==
  ASSUME ClaimsInv
  PROVE  OneRework
<1>1. \A c \in DOMAIN claims : ~claims[c].legacy =>
        /\ {r \in DOMAIN reworkOrders : reworkOrders[r].claim = c} = {claims[c].result} \ {0}
        /\ claims[c].status = "convertido_a_ods" <=> claims[c].result # 0
  BY DEF ClaimsInv, AnsweredOnce, ReworksOf
<1>2. ASSUME NEW r \in DOMAIN reworkOrders, reworkOrders[r].payer = "garantia_taller",
             ~claims[reworkOrders[r].claim].legacy
      PROVE  r \in Overview.reworks
  <2> DEFINE c == reworkOrders[r].claim
  <2>1. c \in DOMAIN claims /\ claims[c].type = "comeback"
    BY <1>2 DEF ClaimsInv, ReworksClaimed
  <2>2. r \in {claims[c].result} \ {0}
    BY <1>1, <1>2, <2>1
  <2>3. Overview.reworks = {claims[d].result : d \in {e \in DOMAIN claims : claims[e].type = "comeback"}} \ {0}
    BY DEF Overview
  <2> QED BY <2>1, <2>2, <2>3
<1>3. IsInjective(supplierClaims)
  BY DEF ClaimsInv
<1> QED BY <1>1, <1>2, <1>3 DEF OneRework

\* The rows of the warranties, the claims and their orders are what their tables hold.
THEOREM ClaimsTypeCorrect == ClaimsSpec => []ClaimsTypeOK
<1>1. ClaimsInv => ClaimsTypeOK
  BY ClaimRowsTyped DEF ClaimsInv
<1> QED BY <1>1, ClaimsHold, PTL

\* A warranty is judged alike when a claim is filed, on its page and in the advisor's
\* context, and a reviewed claim is answered once.
THEOREM ClaimsAnsweredOnce == ClaimsSpec => []ClaimsAnswered
<1>1. ClaimsInv => ClaimsAnswered
  BY FiledIsShown, ReworkedOnce DEF ClaimsAnswered
<1> QED BY <1>1, ClaimsHold, PTL

-----------------------------------------------------------------------------
(* What a vehicle lives with its owner, together *)

\* A behaviour of the composition is one of each component: the one in active
\* moves and the others, which share no state with it, stutter.
THEOREM DealershipIsItsComponents ==
  DealershipSpec => SaleSpec /\ ClaimsSpec /\ ClientsSpec
<1>1. DealershipInit => SaleInit /\ ClaimsInit /\ ClientsInit
  BY DEF DealershipInit
<1>2. [DealershipNext]_dealershipVars =>
        [SaleNext]_saleVars /\ [ClaimsNext]_claimVars /\ [ClientsNext]_clientVars
  BY Zenon DEF DealershipNext, SaleMoves, ClaimsMove, ClientsMove, dealershipVars
<1> QED BY <1>1, <1>2, PTL DEF DealershipSpec, SaleSpec, ClaimsSpec, ClientsSpec

\* The tables of sales, warranties and clients keep their columns' types, whichever moves.
THEOREM DealershipTypeCorrect == DealershipSpec => []DealershipTypeOK
<1>1. SaleTypeOK /\ ClaimsTypeOK /\ ClientsTypeOK => DealershipTypeOK
  BY DEF DealershipTypeOK
<1> QED BY <1>1, DealershipIsItsComponents, SaleTypeCorrect, ClaimsTypeCorrect, ClientsTypeCorrect, PTL

\* And every promise of a component is one of the whole: deals are honoured, claims are
\* answered once and a VIN is registered once.
THEOREM DealershipKeepsItsWord ==
  DealershipSpec => [](DealsHonoured /\ ClaimsAnswered /\ VehicleOnce)
BY DealershipIsItsComponents, DealsKept, ClaimsAnsweredOnce, VinRegisteredOnce, PTL
=============================================================================
