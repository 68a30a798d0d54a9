----------------------------- MODULE Catalogue -----------------------------
(***************************************************************************)
(* The catalogue of services (temparios) of a filial, the warranty         *)
(* policies they offer and the maintenance plans made of them.             *)
(*                                                                         *)
(* A service is created under the filial's lock.  An edit locks nothing: it *)
(* checks the row it read and writes the columns it changed, and it        *)
(* replaces a list by deleting the rows it read: two edits of one row      *)
(* interleave (variable edits).                                            *)
(*                                                                         *)
(* Left out: names, hours, years, tools, compatible vehicles, the links    *)
(* from a policy to the services and parts it documents, and a policy's    *)
(* scope and payer; prices are in module Quotes.                           *)
(***************************************************************************)
EXTENDS Integers, Sequences, FiniteSets

CONSTANTS
  Services,        \* identifiers of services
  Categories,
  LastNumber,      \* bound: service numbers, 0 standing for 500
  Policies,        \* identifiers of policies
  Plans,           \* identifiers of plans
  CatalogParts,
  Estimates,       \* bound: unit costs, of purchases and as estimated in a file
  CatalogEditors,  \* slots for edits that have read and not yet written
  MaxChanges       \* bound: changes of the catalogue

ASSUME CatalogueAssumption ==
  /\ LastNumber \in Nat /\ MaxChanges \in Nat
  /\ Estimates \subseteq Nat /\ Policies \intersect Services = {} /\ Plans \intersect (Policies \union Services) = {}

VARIABLES
  services,   \* temparios, with their parts
  policies,   \* warranty_policies
  plans,      \* maintenance_plans: the services of their entries
  bought,     \* unit cost of each part's last lot, if it was ever received
  edits,      \* what open edits read
  changes     \* changes so far

catalogueVars == <<services, policies, plans, bought, edits, changes>>

PartLine == [part : CatalogParts, cost : Estimates \union {0}]
Service == [category : Categories, number : 1..LastNumber, active : BOOLEAN,
            own : BOOLEAN, term : BOOLEAN,   \* a warranty of its own (custom), its days or kilometres
            policy : SUBSET Policies, parts : Seq(PartLine)]
Policy == [endless : BOOLEAN, term : BOOLEAN, active : BOOLEAN, labor : BOOLEAN]
Plan == [entries : Seq(Services)]
Edit == [of : Services \union Policies \union Plans, row : Service \union Policy \union Plan, stale : BOOLEAN]

CatalogueTypeOK ==
  /\ \A s \in Services : \A v \in services[s] :
       v.category \in Categories /\ v.number \in 1..LastNumber
  /\ policies \in [Policies -> SUBSET Policy]
  /\ \A p \in Plans : \A v \in plans[p] : v.entries \in Seq(Services)
  /\ bought \in [CatalogParts -> SUBSET Estimates] /\ changes \in 0..MaxChanges
  /\ \A w \in CatalogEditors : \A e \in edits[w] : e.stale \in BOOLEAN

CatalogueInit ==
  /\ services = [s \in Services |-> {}] /\ policies = [p \in Policies |-> {}]
  /\ plans = [p \in Plans |-> {}] /\ bought = [p \in CatalogParts |-> {}]
  /\ edits = [w \in CatalogEditors |-> {}] /\ changes = 0

Change == changes < MaxChanges /\ changes' = changes + 1

-----------------------------------------------------------------------------
(* Reads *)

NumbersOf(category) == {v.number : v \in {w \in UNION {services[s] : s \in Services} : w.category = category}}
\* The number after the last, in a category.
NextNumber(category) == LET used == NumbersOf(category) \union {0}
                        IN CHOOSE n \in 1..LastNumber + 1 : n - 1 \in used /\ \A k \in used : k < n
\* Wrong: only the services shown by default are looked at.
FreeAmongActive(category, n) ==
  \A s \in Services : \A v \in services[s] : ~(v.active /\ v.category = category /\ v.number = n)
NumberFree(category, n) == n \notin NumbersOf(category)

\* A warranty of its own needs a term.
WarrantyStated(own, term) == own => term
\* A policy newly chosen is active and covers labor; one kept is not looked at again.
PolicyOffered(chosen, kept) == \A p \in chosen \ kept : \E v \in policies[p] : v.active /\ v.labor

\* The cost of the last purchase, or else the estimate the service has, or else none.
CatalogCost(p, lines) ==
  LET stored == {l \in 1..Len(lines) : lines[l].part = p}
  IN IF bought[p] # {} THEN CHOOSE c \in bought[p] : TRUE
     ELSE IF stored = {} THEN 0
     ELSE lines[CHOOSE l \in stored : \A k \in stored : k <= l].cost
Costed(ps, lines) == [l \in 1..Len(ps) |-> [part |-> ps[l], cost |-> CatalogCost(ps[l], lines)]]

ShortLists(S) == {<<>>} \union {<<x>> : x \in S}
Numbered(v, n) == [v EXCEPT !.number = n]

\* A service as a form gives it: active, with parts of the catalogue.
NewService(category, own, term, policy, lines) ==
  [category |-> category, number |-> 1, active |-> TRUE, own |-> own, term |-> term, policy |-> policy,
   parts |-> lines]

-----------------------------------------------------------------------------
(* Services *)

\* The number a caller gives, or the next one, if it is free.
Insert(s, v, given) ==
  LET n == IF given = {} THEN NextNumber(v.category) ELSE CHOOSE g \in given : TRUE
  IN /\ services[s] = {} /\ n \in 1..LastNumber
     /\ NumberFree(v.category, n)
     /\ services' = [services EXCEPT ![s] = {Numbered(v, n)}]

CreateService(s, category, own, term, policy, ps, given) ==
  /\ WarrantyStated(own, term) /\ PolicyOffered(policy, {})
  /\ Insert(s, NewService(category, own, term, policy, Costed(ps, <<>>)), given)
  /\ Change /\ UNCHANGED <<policies, plans, bought, edits>>

\* A copy is created as a new service: active, and with no estimates of its own.
DuplicateService(s, original) ==
  \E v \in services[original] :
    /\ PolicyOffered(v.policy, {}) /\ WarrantyStated(v.own, v.term)
    /\ Insert(s, [v EXCEPT !.active = TRUE, !.parts = Costed([l \in 1..Len(v.parts) |-> v.parts[l].part], <<>>)], {})
    /\ Change /\ UNCHANGED <<policies, plans, bought, edits>>

\* A file of services, whole or not at all: its blank numbers follow the largest so far.
ImportServices(s, t, category, first, second, active, cost, p) ==
  LET n == IF first = {} THEN NextNumber(category) ELSE CHOOSE g \in first : TRUE
      last == IF NumbersOf(category) = {} THEN n
              ELSE CHOOSE k \in {n, NextNumber(category) - 1} : n <= k /\ NextNumber(category) - 1 <= k
      m == IF second = {} THEN last + 1 ELSE CHOOSE g \in second : TRUE
      row == [NewService(category, FALSE, FALSE, {}, <<[part |-> p, cost |-> cost]>>) EXCEPT !.active = active]
  IN /\ s # t /\ services[s] = {} /\ services[t] = {}
     /\ {n, m} \subseteq 1..LastNumber /\ n # m
     /\ NumberFree(category, n) /\ NumberFree(category, m)
     /\ services' = [services EXCEPT ![s] = {Numbered(row, n)}, ![t] = {Numbered(row, m)}]
     /\ Change /\ UNCHANGED <<policies, plans, bought, edits>>

\* A purchase of a part arrives (module Purchases).
ReceivePart(p, cost) ==
  /\ bought' = [bought EXCEPT ![p] = {cost}]
  /\ bought' # bought
  /\ Change /\ UNCHANGED <<services, policies, plans, edits>>

-----------------------------------------------------------------------------
(* Edits *)

Stored(x) == IF x \in Services THEN services[x] ELSE IF x \in Policies THEN policies[x] ELSE plans[x]

OpenEdit(w, x) ==
  /\ edits[w] = {}
  /\ \E v \in Stored(x) : edits' = [edits EXCEPT ![w] = {[of |-> x, row |-> v, stale |-> FALSE]}]
  /\ UNCHANGED <<services, policies, plans, bought, changes>>

\* What an UPDATE writes: the columns that differ from the row its transaction read.
Written(row, read, new) == [c \in DOMAIN row |-> IF new[c] = read[c] THEN row[c] ELSE new[c]]
\* A list replaced by who read it: the rows it read are deleted, if they still exist.
Replaced(list, e, new) == IF e.stale THEN list \o new ELSE new
\* Once the edit is saved, the lists the others read are gone, if it replaced them.
EditDone(w, replaced) ==
  /\ Change
  /\ edits' = [v \in CatalogEditors |->
                 IF v = w THEN {}
                 ELSE {[e EXCEPT !.stale = e.stale \/ (replaced /\ \E mine \in edits[w] : mine.of = e.of)] : e \in edits[v]}]

\* With parts: the parts given, or nothing if the form leaves the list alone.
SaveService(w, active, own, term, policy, given) ==
  \E e \in edits[w] : \E v \in Stored(e.of) :
    LET new == [e.row EXCEPT !.active = active, !.own = own, !.term = term, !.policy = policy]
    IN /\ e.of \in Services
       /\ WarrantyStated(own, term) /\ PolicyOffered(policy, e.row.policy)
       /\ services' = [services EXCEPT ![e.of] =
            {[Written(v, e.row, new) EXCEPT
                !.parts = IF given = {} THEN v.parts
                          ELSE Replaced(v.parts, e, Costed(CHOOSE ps \in given : TRUE, e.row.parts))]}]
       /\ EditDone(w, given # {})
       /\ UNCHANGED <<policies, plans, bought>>

\* Endless, or with a term: of what the edit read and changes.
TermStated(v) == v.endless # v.term

CreatePolicy(p, v) ==
  /\ policies[p] = {} /\ TermStated(v)
  /\ policies' = [policies EXCEPT ![p] = {v}]
  /\ Change /\ UNCHANGED <<services, plans, bought, edits>>

SavePolicy(w, new) ==
  \E e \in edits[w] : \E v \in Stored(e.of) :
    /\ e.of \in Policies /\ TermStated(new)
    /\ policies' = [policies EXCEPT ![e.of] = {Written(v, e.row, new)}]
    /\ EditDone(w, FALSE)
    /\ UNCHANGED <<services, plans, bought>>

Exists(list) == \A k \in 1..Len(list) : services[list[k]] # {}

CreatePlan(p, list) ==
  /\ plans[p] = {} /\ Exists(list)
  /\ plans' = [plans EXCEPT ![p] = {[entries |-> list]}]
  /\ Change /\ UNCHANGED <<services, policies, bought, edits>>

SavePlan(w, list) ==
  \E e \in edits[w] : \E v \in Stored(e.of) :
    /\ e.of \in Plans /\ Exists(list)
    /\ plans' = [plans EXCEPT ![e.of] = {[entries |-> Replaced(v.entries, e, list)]}]
    /\ EditDone(w, TRUE)
    /\ UNCHANGED <<services, policies, bought>>

-----------------------------------------------------------------------------
(* The specification *)

GivenNumbers == {{}} \union {{n} : n \in 1..LastNumber}

ServiceRoutes ==
  \/ \E s \in Services, c \in Categories, own, term \in BOOLEAN, q \in SUBSET Policies,
        ps \in ShortLists(CatalogParts), given \in GivenNumbers : CreateService(s, c, own, term, q, ps, given)
  \/ \E s, original \in Services : DuplicateService(s, original)
ImportRoutes ==
  \E s, t \in Services, c \in Categories, first, second \in GivenNumbers, active \in BOOLEAN,
     cost \in Estimates, p \in CatalogParts : ImportServices(s, t, c, first, second, active, cost, p)
EditRoutes ==
  \/ \E w \in CatalogEditors, x \in Services \union Policies \union Plans : OpenEdit(w, x)
  \/ \E w \in CatalogEditors, active, own, term \in BOOLEAN, q \in SUBSET Policies,
        given \in {{}} \union {{ps} : ps \in ShortLists(CatalogParts)} : SaveService(w, active, own, term, q, given)
PolicyRoutes ==
  \/ \E p \in Policies, v \in Policy : CreatePolicy(p, v)
  \/ \E w \in CatalogEditors, v \in Policy : SavePolicy(w, v)
PlanRoutes ==
  \/ \E p \in Plans, list \in ShortLists(Services) : CreatePlan(p, list)
  \/ \E w \in CatalogEditors, list \in ShortLists(Services) : SavePlan(w, list)

CatalogueNext ==
  \/ ServiceRoutes \/ ImportRoutes \/ EditRoutes \/ PolicyRoutes \/ PlanRoutes
  \/ \E p \in CatalogParts, c \in Estimates : ReceivePart(p, c)

CatalogueSpec == CatalogueInit /\ [][CatalogueNext]_catalogueVars

-----------------------------------------------------------------------------
(* Properties *)

\* Two services never have the same code, whether a number was given, followed the last one or came from a
\* file, and whether the service that has it is shown or not: nothing in the database prevents it.
CodesUnique ==
  \A s, t \in Services : \A v \in services[s], w \in services[t] :
    s # t => <<v.category, v.number>> # <<w.category, w.number>>
=============================================================================
