------------------------------ MODULE Schedule ------------------------------
(***************************************************************************)
(* The workshop's calendar: drafts and orders with a vehicle, a bay, a     *)
(* technician and a time, the jobs that give them a length, and the        *)
(* findings (recommendations) whose work is added to one of them.          *)
(*                                                                         *)
(* What reads the calendar or the vehicle's visits locks the filial first, *)
(* and what decides a finding locks the finding: each operation is one     *)
(* step.  Time is in half hours; a job takes JobLength of them.            *)
(*                                                                         *)
(* Left out: prices, timers and the order's status by its tasks (modules   *)
(* Quotes and ServiceOrder; "pendiente" stands for every active status and *)
(* for a finding put off), numbers, revisions, and the claim a warranty    *)
(* order needs (module WarrantyClaims).  Every vehicle has a VIN.          *)
(***************************************************************************)
EXTENDS Integers, FiniteSets, FiniteSetsExt

CONSTANTS
  Cars, Bays, Mechanics,
  Slots,        \* half hours an order may be scheduled at
  JobLength,    \* half hours of a job
  Findings,     \* recommendations
  MaxVisits,    \* bound: orders and drafts ever created
  MaxJobs       \* bound: jobs of an order

ASSUME ScheduleAssumption ==
  /\ Slots \subseteq Nat /\ JobLength \in Nat /\ MaxVisits \in Nat /\ MaxJobs \in Nat
  /\ IsFiniteSet(Findings)

VARIABLES
  agenda,     \* service_orders: per identifier, the order if it exists
  created,    \* identifiers used so far
  findings    \* upsells

scheduleVars == <<agenda, created, findings>>

Ids == 1..MaxVisits
OrderStatus == {"pendiente", "orden_cerrada", "cancelado"}
AgendaRow ==
  [car : SUBSET Cars, bay : SUBSET Bays, mechanic : SUBSET Mechanics, at : SUBSET Slots,
   draft : BOOLEAN, status : OrderStatus, reopened : BOOLEAN,
   jobs : 0..MaxJobs,                             \* jobs to do, the cancelled ones aside
   refs : SUBSET Findings,                        \* findings a draft was made from
   work : SUBSET Findings,                        \* findings whose work is among its jobs
   unchecked : BOOLEAN]   \* history: came back or grew longer without a look at the calendar
Finding == [status : {"none", "pendiente", "aprobado", "rechazado"}, car : SUBSET Cars]

ScheduleTypeOK ==
  /\ agenda \in [Ids -> SUBSET AgendaRow] /\ created \in 0..MaxVisits
  /\ \A o \in Ids : Cardinality(agenda[o]) <= 1
  /\ findings \in [Findings -> Finding]

Existing == {o \in Ids : agenda[o] # {}}
Order(o) == CHOOSE r \in agenda[o] : TRUE
Live(r) == r.status = "pendiente"
-----------------------------------------------------------------------------
(* The calendar *)

Length(r) == IF r.jobs = 0 \/ JobLength = 0 THEN 1 ELSE r.jobs * JobLength
Overlap(r, q) ==
  \E s \in r.at, t \in q.at : s < t + Length(q) /\ t < s + Length(r)
SharesPlace(r, q) == r.bay \intersect q.bay # {} \/ r.mechanic \intersect q.mechanic # {}

\* Mutant of SlotFree: drafts do not hold their place.
SlotFreeOfOrders(o, r) ==
  \A p \in Existing \ {o} :
    ~(Live(Order(p)) /\ ~Order(p).draft /\ SharesPlace(r, Order(p)) /\ Overlap(r, Order(p)))

\* The bay and the technician are free for the row; the order's own time does not count.
SlotFree(o, r) ==
  \A p \in Existing \ {o} : ~(Live(Order(p)) /\ SharesPlace(r, Order(p)) /\ Overlap(r, Order(p)))

\* The vehicles in the workshop: drafts are no visits.
ActiveVisits(car) ==
  {o \in Existing : car \subseteq Order(o).car /\ ~Order(o).draft /\ Live(Order(o))}
NoActiveVisit(o, car) == ActiveVisits(car) \ {o} = {}

Saved(o, r) == agenda' = [agenda EXCEPT ![o] = {r}]
Editable(o) == Live(Order(o))
-----------------------------------------------------------------------------
(* Findings *)

\* Mutant of Undecided: what was approved may be approved again.
NotRejected(f) == findings[f].status \in {"pendiente", "aprobado"}

Undecided(f) == findings[f].status = "pendiente"
\* What the vehicle's next visit may take up.
Offered(car) == {f \in Findings : Undecided(f) /\ findings[f].car = car}
Approved(fs) ==
  findings' = [f \in Findings |-> IF f \in fs THEN [findings[f] EXCEPT !.status = "aprobado"]
                                  ELSE findings[f]]

\* A technician reports a finding on an order sent to the workshop.
DetectFinding(f, o) ==
  /\ findings[f].status = "none" /\ Editable(o) /\ ~Order(o).draft
  /\ findings' = [findings EXCEPT ![f] = [status |-> "pendiente", car |-> Order(o).car]]
  /\ UNCHANGED <<agenda, created>>

WithJob(r, f) == [r EXCEPT !.jobs = @ + 1, !.work = @ \union f]

\* Approving adds the work to an order of the same vehicle, the original one or another.
ApproveFinding(f, o) ==
  /\ f \in Offered(Order(o).car) /\ Editable(o) /\ Order(o).jobs < MaxJobs
  /\ SlotFree(o, WithJob(Order(o), {f}))
  /\ Saved(o, WithJob(Order(o), {f})) /\ Approved({f})
  /\ UNCHANGED created

RejectFinding(f) ==
  /\ Undecided(f)
  /\ findings' = [findings EXCEPT ![f].status = "rechazado"]
  /\ UNCHANGED <<agenda, created>>
-----------------------------------------------------------------------------
(* Orders and drafts *)

NewAgendaRow(car, bay, mechanic, at, draft) ==
  [car |-> car, bay |-> bay, mechanic |-> mechanic, at |-> at, draft |-> draft,
   status |-> "pendiente", reopened |-> FALSE, jobs |-> 0, refs |-> {}, work |-> {},
   unchecked |-> FALSE]
New == created + 1
CreatedRow(r) == New \in Ids /\ created' = New /\ Saved(New, r)

\* A visit is opened for a vehicle that has none, with the recommendations the client accepts.
CreateOrder(car, bay, mechanic, at, accepted) ==
  LET r == NewAgendaRow({car}, bay, mechanic, at, FALSE) IN
  /\ NoActiveVisit(New, {car}) /\ SlotFree(New, r)
  /\ accepted \subseteq Offered({car})
  /\ Cardinality(accepted) <= MaxJobs
  /\ \E w \in {[r EXCEPT !.jobs = Cardinality(accepted), !.work = accepted]} :
       SlotFree(New, w) /\ CreatedRow(w)
  /\ Approved(accepted)

\* A draft may have no vehicle yet; the technician is chosen later.
CreateDraft(car, bay, at) ==
  /\ SlotFree(New, NewAgendaRow(car, bay, {}, at, TRUE))
  /\ CreatedRow(NewAgendaRow(car, bay, {}, at, TRUE))
  /\ UNCHANGED findings

\* A recommendation becomes a draft with its work; it stays undecided until the draft is sent.
CreateDraftFor(f, bay, at) ==
  LET r == [WithJob(NewAgendaRow(findings[f].car, bay, {}, at, TRUE), {f}) EXCEPT !.refs = {f}] IN
  /\ Undecided(f) /\ MaxJobs > 0 /\ SlotFree(New, r)
  /\ CreatedRow(r)
  /\ UNCHANGED findings

\* Autosave: the calendar is read when the bay, the time or the technician is saved.
SaveDraft(o, car, bay, mechanic, at) ==
  LET r == [Order(o) EXCEPT !.car = car, !.bay = bay, !.mechanic = mechanic, !.at = at] IN
  /\ Editable(o) /\ Order(o).draft
  /\ car # Order(o).car => Order(o).jobs = 0
  /\ <<bay, mechanic, at>> # <<Order(o).bay, Order(o).mechanic, Order(o).at>> => SlotFree(o, r)
  /\ Saved(o, r)
  /\ UNCHANGED <<created, findings>>

\* A finding decided from another order blocks the draft; one whose work was taken off the
\* draft stays undecided.
SubmitDraft(o) ==
  /\ Editable(o) /\ Order(o).draft
  /\ Order(o).car # {} /\ Order(o).mechanic # {} /\ Order(o).jobs > 0
  /\ NoActiveVisit(o, Order(o).car) /\ SlotFree(o, Order(o))
  /\ \A f \in Order(o).refs : Undecided(f)
  /\ Saved(o, [Order(o) EXCEPT !.draft = FALSE])
  /\ Approved(Order(o).refs \intersect Order(o).work)
  /\ UNCHANGED created

DiscardDraft(o) ==
  /\ Editable(o) /\ Order(o).draft
  /\ agenda' = [agenda EXCEPT ![o] = {}]
  /\ UNCHANGED <<created, findings>>

\* An order is deleted only while it is a draft (and none of its requests was sent).
DeleteOrder(o) == DiscardDraft(o)

AddJob(o) ==
  /\ Editable(o) /\ Order(o).jobs < MaxJobs
  /\ Order(o).draft => Order(o).car # {}
  /\ SlotFree(o, WithJob(Order(o), {}))
  /\ Saved(o, WithJob(Order(o), {}))
  /\ UNCHANGED <<created, findings>>

\* A job is deleted or, on an order, cancelled; fs: the finding it came from, or none.
DeleteJob(o, fs) ==
  /\ Editable(o) /\ Order(o).jobs > Cardinality(Order(o).work \ fs) /\ fs \subseteq Order(o).work
  /\ Saved(o, [Order(o) EXCEPT !.jobs = @ - 1, !.work = @ \ fs])
  /\ UNCHANGED <<created, findings>>

\* A cancelled job set to pending again makes the visit longer; nothing reads the calendar.
RestoreJob(o) ==
  /\ Editable(o) /\ ~Order(o).draft /\ Order(o).jobs < MaxJobs
  /\ Saved(o, [WithJob(Order(o), {}) EXCEPT !.unchecked = TRUE])
  /\ UNCHANGED <<created, findings>>

UpdateOrder(o, bay, mechanic, at) ==
  LET r == [Order(o) EXCEPT !.bay = bay, !.mechanic = mechanic, !.at = at] IN
  /\ Editable(o) /\ ~Order(o).draft /\ (at = {} => Order(o).at = {}) /\ SlotFree(o, r)
  /\ Saved(o, r)
  /\ UNCHANGED <<created, findings>>

\* Once completed and invoiced (module ServiceOrder).
CloseOrder(o) ==
  /\ Editable(o) /\ ~Order(o).draft
  /\ Saved(o, [Order(o) EXCEPT !.status = "orden_cerrada"])
  /\ UNCHANGED <<created, findings>>

CancelOrder(o) ==
  /\ Editable(o)
  /\ Saved(o, [Order(o) EXCEPT !.status = "cancelado", !.reopened = FALSE])
  /\ UNCHANGED <<created, findings>>

\* Neither the vehicle's other visits nor the calendar are read.
ReopenOrder(o) ==
  /\ Order(o).status = "cancelado"
  /\ Saved(o, [Order(o) EXCEPT !.status = "pendiente", !.reopened = TRUE, !.unchecked = TRUE])
  /\ UNCHANGED <<created, findings>>

\* The stage the board shows for an order: its place in the workshop's flow.
Stage(r) ==
  IF r.draft /\ r.status # "cancelado" THEN IF r.at # {} THEN "agendada" ELSE "borrador"
  ELSE CASE r.status = "cancelado" -> "cancelada"
         [] r.status = "orden_cerrada" -> "cerrada"
         [] OTHER -> "en_trabajo"
\* The lists of orders: what is in the workshop, drafts, and what is over.
Listed(view) ==
  {o \in Existing :
     LET r == Order(o) IN
     CASE view = "drafts" -> r.draft /\ r.status = "pendiente"
       [] view = "active" -> ~r.draft /\ Live(r)
       [] OTHER -> ~Live(r)}
-----------------------------------------------------------------------------
ScheduleInit ==
  /\ agenda = [o \in Ids |-> {}] /\ created = 0
  /\ findings = [f \in Findings |-> [status |-> "none", car |-> {}]]

AtMostOne(S) == {{}} \union {{x} : x \in S}

OrderRoutes ==
  \/ \E bay \in AtMostOne(Bays), at \in AtMostOne(Slots), m \in AtMostOne(Mechanics) :
       \/ \E car \in Cars, fs \in SUBSET Findings : CreateOrder(car, bay, m, at, fs)
       \/ \E o \in Existing : UpdateOrder(o, bay, m, at)
  \/ \E o \in Existing : DeleteOrder(o)
CourseRoutes ==
  \E o \in Existing : CloseOrder(o) \/ CancelOrder(o) \/ ReopenOrder(o)
JobRoutes ==
  \E o \in Existing :
    AddJob(o) \/ RestoreJob(o) \/ \E fs \in AtMostOne(Findings) : DeleteJob(o, fs)
FindingRoutes ==
  \E f \in Findings :
    RejectFinding(f) \/ \E o \in Existing : DetectFinding(f, o) \/ ApproveFinding(f, o)
DraftRoutes ==
  \/ \E bay \in AtMostOne(Bays), at \in AtMostOne(Slots) :
       \/ \E car \in AtMostOne(Cars) : CreateDraft(car, bay, at)
       \/ \E f \in Findings : CreateDraftFor(f, bay, at)
       \/ \E o \in Existing, m \in AtMostOne(Mechanics), car \in AtMostOne(Cars) :
            SaveDraft(o, car, bay, m, at)
  \/ \E o \in Existing : SubmitDraft(o) \/ DiscardDraft(o)

ScheduleNext == OrderRoutes \/ CourseRoutes \/ JobRoutes \/ FindingRoutes \/ DraftRoutes

ScheduleSpec == ScheduleInit /\ [][ScheduleNext]_scheduleVars
-----------------------------------------------------------------------------
\* The board shows a vehicle in one active visit, and a bay or a technician in one order at a
\* time, the drafts included: whoever books, moves, sends or lengthens an order, in whatever
\* order, finds the others.  Only an order reopened after its cancellation, or a job restored
\* after its own, comes back unseen.
CalendarHolds ==
  \A o, p \in Existing : o < p =>
    /\ {o, p} \subseteq Listed("active") /\ Order(o).car = Order(p).car
         => Order(o).reopened \/ Order(p).reopened
    /\ Live(Order(o)) /\ Live(Order(p)) /\ SharesPlace(Order(o), Order(p))
         /\ Overlap(Order(o), Order(p))
         => Order(o).unchecked \/ Order(p).unchecked

\* The work of a recommendation reaches the workshop once: of the drafts made from it and the
\* orders it is added to, one is sent with its work, and then it is approved.
RecommendedOnce ==
  \A f \in Findings :
    LET sent == {o \in Existing : ~Order(o).draft /\ f \in Order(o).work} IN
    Cardinality(sent) <= 1 /\ (sent # {} => findings[f].status = "aprobado")

\* What the calendar and the recommendations promise, together (drafts.py, service.py).
ScheduleHolds == CalendarHolds /\ RecommendedOnce
=============================================================================
