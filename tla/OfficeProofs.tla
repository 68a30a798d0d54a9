----------------------------- MODULE OfficeProofs -----------------------------
(***************************************************************************)
(* Theorems about the modules Schedule, Catalogue, Access and Interfilial,  *)
(* for any number of orders, services, accounts, sessions, codes, filiales  *)
(* and registers, and about the composition MCOffice.  Each part proves one *)
(* inductive invariant of its module, which implies the module's type       *)
(* invariant and what its run checks.                                       *)
(***************************************************************************)
EXTENDS MCOffice, Sums, FiniteSetTheorems, SequenceTheorems, TLAPS

-----------------------------------------------------------------------------
(* Schedule: the calendar and the findings *)

AgendaTables ==
  /\ agenda \in [Ids -> SUBSET AgendaRow] /\ created \in 0..MaxVisits
  /\ findings \in [Findings -> Finding]
  /\ \A o \in Ids : \A r, q \in agenda[o] : r = q

\* Rows of two orders that the calendar allows together.
Compatible(r, q) ==
  /\ ~r.draft /\ ~q.draft /\ Live(r) /\ Live(q) /\ r.car = q.car => r.reopened \/ q.reopened
  /\ Live(r) /\ Live(q) /\ SharesPlace(r, q) /\ Overlap(r, q) => r.unchecked \/ q.unchecked

Booked == \A o, p \in Ids : \A r \in agenda[o], q \in agenda[p] : o # p => Compatible(r, q)

\* The row has the finding's work to do: an order, or a draft that was given it by approval.
Holder(f, r) == f \in r.work /\ (r.draft => f \notin r.refs)

HeldOnce == \A f \in Findings : \A o \in Ids : \A r \in agenda[o] : Holder(f, r) =>
  /\ findings[f].status = "aprobado"
  /\ \A p \in Ids : \A q \in agenda[p] : Holder(f, q) => o = p

AgendaInv == AgendaTables /\ Booked /\ HeldOnce

\* An order takes some time.
LEMMA LengthInNat ==
  ASSUME NEW r \in AgendaRow
  PROVE  Length(r) \in Nat \ {0}
<1>1. r.jobs \in Nat /\ JobLength \in Nat
  BY ScheduleAssumption DEF AgendaRow
<1>2. r.jobs # 0 /\ JobLength # 0 => r.jobs * JobLength \in Nat \ {0}
  BY <1>1
<1> QED BY <1>2 DEF Length

\* With one job less it takes no longer.
LEMMA ShorterLength ==
  ASSUME NEW r \in AgendaRow, NEW q \in AgendaRow, r.jobs = q.jobs - 1
  PROVE  Length(r) <= Length(q)
<1>1. r.jobs \in Nat /\ q.jobs \in Nat /\ JobLength \in Nat
  BY ScheduleAssumption DEF AgendaRow
<1>2. Length(q) >= 1
  BY LengthInNat
<1>3. CASE r.jobs = 0 \/ JobLength = 0
  BY <1>2, <1>3 DEF Length
<1>4. CASE r.jobs # 0 /\ JobLength # 0
  <2>1. q.jobs * JobLength = r.jobs * JobLength + JobLength
    BY <1>1
  <2>2. r.jobs * JobLength \in Nat
    BY <1>1
  <2>3. Length(r) = r.jobs * JobLength /\ Length(q) = q.jobs * JobLength
    BY <1>1, <1>4 DEF Length
  <2> QED BY <1>1, <2>1, <2>2, <2>3
<1> QED BY <1>3, <1>4

\* Whoever has a row, its order is that row.
LEMMA OrderIsRow ==
  ASSUME AgendaTables, NEW o \in Ids
  PROVE  /\ o \in Existing <=> agenda[o] # {}
         /\ agenda[o] # {} => Order(o) \in agenda[o] /\ Order(o) \in AgendaRow
         /\ \A r \in agenda[o] : o \in Existing /\ Order(o) = r
BY DEF AgendaTables, Existing, Order

\* What the search of a free place found out of each other order.
LEMMA SlotFreeOf ==
  ASSUME AgendaTables, NEW o, NEW r, SlotFree(o, r), NEW p \in Ids, p # o, NEW q \in agenda[p]
  PROVE  ~(Live(q) /\ SharesPlace(r, q) /\ Overlap(r, q))
BY OrderIsRow DEF SlotFree

\* What the search of an active visit found out of each other order.
LEMMA NoVisitOf ==
  ASSUME AgendaTables, NEW o, NEW car, NoActiveVisit(o, car), NEW p \in Ids, p # o, NEW q \in agenda[p]
  PROVE  ~(car = q.car /\ ~q.draft /\ Live(q))
BY OrderIsRow DEF NoActiveVisit, ActiveVisits

\* The row takes the place another had, for no longer.
Within(r, q) ==
  /\ Live(q) /\ r.bay = q.bay /\ r.mechanic = q.mechanic /\ r.at = q.at
  /\ Length(r) <= Length(q) /\ (q.unchecked => r.unchecked)

\* A row within an earlier one of its order meets no order that one did not meet.
LEMMA WithinKeeps ==
  ASSUME NEW r \in AgendaRow, NEW q \in AgendaRow, NEW x \in AgendaRow, Within(r, q), Compatible(q, x),
         Live(r), Live(x), SharesPlace(r, x), Overlap(r, x)
  PROVE  r.unchecked \/ x.unchecked
<1>1. Length(r) \in Nat /\ Length(q) \in Nat /\ Length(x) \in Nat
  BY LengthInNat
<1>2. PICK s \in r.at, t \in x.at : s < t + Length(x) /\ t < s + Length(r)
  BY DEF Overlap
<1>3. s \in Nat /\ t \in Nat
  BY ScheduleAssumption DEF AgendaRow
<1>4. s \in q.at /\ s < t + Length(x) /\ t < s + Length(q) /\ Length(r) <= Length(q)
  BY <1>1, <1>2, <1>3 DEF Within
<1>5. Overlap(q, x)
  BY <1>2, <1>4 DEF Overlap
<1>6. SharesPlace(q, x)
  BY DEF Within, SharesPlace
<1> QED BY <1>5, <1>6 DEF Within, Compatible

\* It does not matter which of two orders is looked at.
LEMMA CompatibleSymmetric ==
  ASSUME NEW r, NEW q, Compatible(r, q)
  PROVE  Compatible(q, r)
<1>1. SharesPlace(q, r) => SharesPlace(r, q)
  BY DEF SharesPlace
<1>2. Overlap(q, r) => Overlap(r, q)
  BY DEF Overlap
<1> QED BY <1>1, <1>2 DEF Compatible

\* The place and the visit of a row were looked for, or were its order's already.
Looked(o, r) ==
  /\ ~r.draft /\ Live(r) /\ ~r.reopened =>
       \/ NoActiveVisit(o, r.car)
       \/ \E q \in agenda[o] : ~q.draft /\ Live(q) /\ q.car = r.car /\ ~q.reopened
  /\ Live(r) /\ ~r.unchecked => SlotFree(o, r) \/ \E q \in agenda[o] : Within(r, q)

\* A row whose place was looked for fits every other order.
LEMMA LookedCompatible ==
  ASSUME AgendaTables, Booked, NEW o \in Ids, NEW r \in AgendaRow, Looked(o, r),
         NEW p \in Ids, p # o, NEW x \in agenda[p]
  PROVE  Compatible(r, x)
<1>1. x \in AgendaRow
  BY DEF AgendaTables
<1>2. ASSUME ~r.draft, ~x.draft, Live(r), Live(x), r.car = x.car
      PROVE  r.reopened \/ x.reopened
  <2>1. CASE NoActiveVisit(o, r.car)
    BY <1>2, <2>1, NoVisitOf
  <2>2. ASSUME NEW q \in agenda[o], ~q.draft, Live(q), q.car = r.car, ~q.reopened
        PROVE  x.reopened
    <3>1. Compatible(q, x)
      BY DEF Booked
    <3> QED BY <1>2, <2>2, <3>1 DEF Compatible
  <2> QED BY <1>2, <2>1, <2>2 DEF Looked
<1>3. ASSUME Live(r), Live(x), SharesPlace(r, x), Overlap(r, x)
      PROVE  r.unchecked \/ x.unchecked
  <2>1. CASE SlotFree(o, r)
    BY <1>3, <2>1, SlotFreeOf
  <2>2. ASSUME NEW q \in agenda[o], Within(r, q)
        PROVE  r.unchecked \/ x.unchecked
    <3>1. Compatible(q, x) /\ q \in AgendaRow
      BY DEF Booked, AgendaTables
    <3> QED BY <1>1, <1>3, <2>2, <3>1, WithinKeeps
  <2> QED BY <1>3, <2>1, <2>2 DEF Looked
<1> QED BY <1>2, <1>3 DEF Compatible

\* What was approved stays approved.
Settled == \A f \in Findings : findings[f].status = "aprobado" => findings'[f].status = "aprobado"
\* The row holds what its order held, or what this step approves.
Entitled(o, r) == \A f \in Findings : Holder(f, r) =>
  /\ findings'[f].status = "aprobado"
  /\ findings[f].status = "aprobado" => \E q \in agenda[o] : Holder(f, q)

\* Saving one row whose place was looked for keeps the invariant.
LEMMA RowSaved ==
  ASSUME AgendaInv, NEW o \in Ids, NEW r \in AgendaRow, Saved(o, r), Looked(o, r),
         created' \in 0..MaxVisits, findings' \in [Findings -> Finding], Settled, Entitled(o, r)
  PROVE  AgendaInv'
<1>1. AgendaTables /\ Booked /\ HeldOnce
  BY DEF AgendaInv
<1>2. /\ agenda'[o] = {r} /\ \A p \in Ids \ {o} : agenda'[p] = agenda[p]
      /\ agenda' \in [Ids -> SUBSET AgendaRow]
  BY <1>1 DEF AgendaTables, Saved
<1>3. AgendaTables'
  BY <1>1, <1>2 DEF AgendaTables
<1>4. ASSUME NEW p \in Ids, p # o, NEW x \in agenda'[p]
      PROVE  Compatible(r, x) /\ Compatible(x, r) /\ x \in agenda[p]
  BY <1>1, <1>2, <1>4, LookedCompatible, CompatibleSymmetric
<1>5. ASSUME NEW p \in Ids, NEW q \in Ids, NEW x \in agenda'[p], NEW y \in agenda'[q], p # q
      PROVE  Compatible(x, y)
  <2>1. CASE p = o
    BY <1>2, <1>4, <1>5, <2>1
  <2>2. CASE q = o
    BY <1>2, <1>4, <1>5, <2>2
  <2>3. CASE p # o /\ q # o
    BY <1>1, <1>2, <1>5, <2>3 DEF Booked
  <2> QED BY <2>1, <2>2, <2>3
<1>6. ASSUME NEW f \in Findings, NEW p \in Ids, NEW x \in agenda'[p], Holder(f, x)
      PROVE  /\ findings'[f].status = "aprobado"
             /\ \A q \in Ids : \A y \in agenda'[q] : Holder(f, y) => p = q
  <2>1. ASSUME NEW q \in Ids \ {o}, NEW y \in agenda[q], Holder(f, y)
        PROVE  ~Holder(f, r)
    <3>1. findings[f].status = "aprobado"
      BY <1>1, <2>1 DEF HeldOnce
    <3>2. \A z \in agenda[o] : ~Holder(f, z)
      BY <1>1, <2>1 DEF HeldOnce
    <3> QED BY <3>1, <3>2 DEF Entitled
  <2>2. CASE p = o
    <3>1. x = r
      BY <1>2, <2>2
    <3>2. findings'[f].status = "aprobado"
      BY <1>6, <3>1 DEF Entitled
    <3> QED BY <1>2, <1>6, <2>1, <2>2, <3>1, <3>2
  <2>3. CASE p # o
    <3>1. x \in agenda[p]
      BY <1>2, <2>3
    <3>2. findings[f].status = "aprobado" /\ \A q \in Ids : \A y \in agenda[q] : Holder(f, y) => p = q
      BY <1>1, <1>6, <3>1 DEF HeldOnce
    <3>3. findings'[f].status = "aprobado"
      BY <3>2 DEF Settled
    <3>4. ~Holder(f, r)
      BY <1>6, <2>1, <2>3, <3>1
    <3> QED BY <1>2, <3>2, <3>3, <3>4
  <2> QED BY <2>2, <2>3
<1>7. Booked'
  BY <1>5 DEF Booked, Compatible, Live, SharesPlace, Overlap, Length
<1>8. HeldOnce'
  BY <1>6 DEF HeldOnce, Holder
<1> QED BY <1>3, <1>7, <1>8 DEF AgendaInv

\* So does removing rows, and deciding findings without undoing an approval.
LEMMA RowsLeft ==
  ASSUME AgendaInv, agenda' \in [Ids -> SUBSET AgendaRow], \A o \in Ids : agenda'[o] \subseteq agenda[o],
         created' \in 0..MaxVisits, findings' \in [Findings -> Finding], Settled
  PROVE  AgendaInv'
<1>1. AgendaTables'
  BY DEF AgendaInv, AgendaTables
<1>2. Booked'
  BY DEF AgendaInv, Booked, Compatible, Live, SharesPlace, Overlap, Length
<1>3. HeldOnce'
  BY DEF AgendaInv, HeldOnce, Holder, Settled
<1> QED BY <1>1, <1>2, <1>3 DEF AgendaInv

\* Saving a row as its order has it, without findings decided.
LEMMA FindingsAside ==
  ASSUME AgendaInv, NEW o \in Existing, NEW r \in AgendaRow, Saved(o, r), Looked(o, r),
         UNCHANGED <<created, findings>>,
         r.work \subseteq Order(o).work, r.refs = Order(o).refs, r.draft = Order(o).draft
  PROVE  AgendaInv'
<1>1. o \in Ids /\ Order(o) \in agenda[o]
  BY OrderIsRow DEF AgendaInv, Existing
<1>2. \A f \in Findings : Holder(f, r) => Holder(f, Order(o))
  BY DEF Holder
<1>3. Settled /\ Entitled(o, r)
  BY <1>1, <1>2 DEF AgendaInv, HeldOnce, Settled, Entitled
<1> QED BY <1>1, <1>3, RowSaved DEF AgendaInv, AgendaTables

\* Approving findings undoes no approval.
LEMMA ApprovedKeeps ==
  ASSUME AgendaTables, NEW fs \in SUBSET Findings, Approved(fs)
  PROVE  /\ findings' \in [Findings -> Finding] /\ Settled
         /\ \A f \in fs : findings'[f].status = "aprobado"
         /\ \A f \in Findings \ fs : findings'[f] = findings[f]
<1>1. \A f \in Findings : [findings[f] EXCEPT !.status = "aprobado"] \in Finding
                          /\ [findings[f] EXCEPT !.status = "aprobado"].status = "aprobado"
  BY DEF AgendaTables, Finding
<1> QED BY <1>1 DEF AgendaTables, Approved, Settled

\* A new order or draft whose place was looked for keeps the invariant.
LEMMA NewKeeps ==
  ASSUME AgendaInv, NEW r \in AgendaRow, CreatedRow(r), SlotFree(New, r), ~r.draft => NoActiveVisit(New, r.car),
         findings' \in [Findings -> Finding], Settled,
         \A f \in Findings : Holder(f, r) => findings'[f].status = "aprobado" /\ findings[f].status # "aprobado"
  PROVE  AgendaInv'
<1>1. New \in Ids /\ created' \in 0..MaxVisits /\ Saved(New, r)
  BY ScheduleAssumption DEF CreatedRow, Ids
<1>2. Looked(New, r) /\ Entitled(New, r)
  BY DEF Looked, Entitled
<1> QED BY <1>1, <1>2, RowSaved

\* A new row is a row.
LEMMA NewRowTyped ==
  ASSUME NEW car \in SUBSET Cars, NEW bay \in SUBSET Bays, NEW mechanic \in SUBSET Mechanics,
         NEW at \in SUBSET Slots, NEW draft \in BOOLEAN
  PROVE  NewAgendaRow(car, bay, mechanic, at, draft) \in AgendaRow
BY ScheduleAssumption DEF NewAgendaRow, AgendaRow, OrderStatus

\* Booking an order keeps the invariant.
LEMMA CreateOrderKeeps ==
  ASSUME AgendaInv, NEW car \in Cars, NEW bay \in SUBSET Bays, NEW mechanic \in SUBSET Mechanics,
         NEW at \in SUBSET Slots, NEW accepted \in SUBSET Findings, CreateOrder(car, bay, mechanic, at, accepted)
  PROVE  AgendaInv'
<1> DEFINE r == NewAgendaRow({car}, bay, mechanic, at, FALSE)
           w == [r EXCEPT !.jobs = Cardinality(accepted), !.work = accepted]
<1>1. /\ NoActiveVisit(New, {car}) /\ accepted \subseteq Offered({car}) /\ Cardinality(accepted) <= MaxJobs
      /\ SlotFree(New, w) /\ CreatedRow(w) /\ Approved(accepted)
  BY DEF CreateOrder
<1>2. Cardinality(accepted) \in 0..MaxJobs
  <2>1. Cardinality(accepted) \in Nat
    BY ScheduleAssumption, FS_Subset, FS_CardinalityType
  <2> QED BY <1>1, <2>1, ScheduleAssumption
<1>3. r \in AgendaRow /\ r.car = {car} /\ r.refs = {} /\ r.draft = FALSE
  BY NewRowTyped DEF NewAgendaRow
<1> HIDE DEF r
<1>4. w \in AgendaRow /\ w.car = {car} /\ w.work = accepted /\ w.draft = FALSE
  BY <1>2, <1>3 DEF AgendaRow
<1> HIDE DEF w
<1>5. AgendaTables
  BY DEF AgendaInv
<1>6. /\ findings' \in [Findings -> Finding] /\ Settled
      /\ \A f \in accepted : findings'[f].status = "aprobado"
  BY <1>1, <1>5, ApprovedKeeps
<1>7. \A f \in Findings : Holder(f, w) => findings'[f].status = "aprobado" /\ findings[f].status # "aprobado"
  BY <1>1, <1>4, <1>6 DEF Holder, Offered, Undecided
<1> QED BY <1>1, <1>4, <1>6, <1>7, NewKeeps

\* So does a draft.
LEMMA CreateDraftKeeps ==
  ASSUME AgendaInv, NEW car \in SUBSET Cars, NEW bay \in SUBSET Bays, NEW at \in SUBSET Slots,
         CreateDraft(car, bay, at)
  PROVE  AgendaInv'
<1> DEFINE r == NewAgendaRow(car, bay, {}, at, TRUE)
<1>1. SlotFree(New, r) /\ CreatedRow(r) /\ UNCHANGED findings
  BY DEF CreateDraft
<1>2. r \in AgendaRow /\ r.draft = TRUE /\ r.work = {}
  BY NewRowTyped DEF NewAgendaRow
<1> HIDE DEF r
<1>3. findings' \in [Findings -> Finding] /\ Settled
  BY <1>1 DEF AgendaInv, AgendaTables, Settled
<1>4. \A f \in Findings : ~Holder(f, r)
  BY <1>2 DEF Holder
<1> QED BY <1>1, <1>2, <1>3, <1>4, NewKeeps

\* A row with one job more is a row.
LEMMA WithJobTyped ==
  ASSUME NEW r \in AgendaRow, NEW fs \in SUBSET Findings, r.jobs < MaxJobs
  PROVE  /\ WithJob(r, fs) \in AgendaRow /\ WithJob(r, fs).work = r.work \union fs
         /\ WithJob(r, fs).refs = r.refs /\ WithJob(r, fs).draft = r.draft
         /\ WithJob(r, fs).car = r.car /\ WithJob(r, fs).status = r.status /\ WithJob(r, fs).reopened = r.reopened
<1>1. r.jobs + 1 \in 0..MaxJobs /\ r.work \union fs \in SUBSET Findings
  BY ScheduleAssumption DEF AgendaRow
<1> QED BY <1>1 DEF WithJob, AgendaRow

\* So does a draft made from a finding.
LEMMA CreateDraftForKeeps ==
  ASSUME AgendaInv, NEW f \in Findings, NEW bay \in SUBSET Bays, NEW at \in SUBSET Slots,
         CreateDraftFor(f, bay, at)
  PROVE  AgendaInv'
<1> DEFINE n == NewAgendaRow(findings[f].car, bay, {}, at, TRUE)
           r == [WithJob(n, {f}) EXCEPT !.refs = {f}]
<1>1. SlotFree(New, r) /\ CreatedRow(r) /\ UNCHANGED findings /\ MaxJobs > 0
  BY DEF CreateDraftFor
<1>2. findings[f].car \in SUBSET Cars
  BY DEF AgendaInv, AgendaTables, Finding
<1>3. n \in AgendaRow /\ n.draft = TRUE /\ n.work = {} /\ n.jobs = 0
  BY <1>2, NewRowTyped DEF NewAgendaRow
<1> HIDE DEF n
<1>4. r \in AgendaRow /\ r.draft = TRUE /\ r.work = {f} /\ r.refs = {f}
  <2> DEFINE j == WithJob(n, {f})
  <2>1. n.jobs < MaxJobs /\ {f} \in SUBSET Findings
    BY <1>1, <1>3
  <2>2. j \in AgendaRow /\ j.draft = TRUE /\ j.work = {f}
    BY <1>3, <2>1, WithJobTyped
  <2> HIDE DEF j
  <2>3. r = [j EXCEPT !.refs = {f}]
    BY DEF j
  <2> HIDE DEF r
  <2> QED BY <2>2, <2>3 DEF AgendaRow
<1> HIDE DEF r
<1>5. findings' \in [Findings -> Finding] /\ Settled
  BY <1>1 DEF AgendaInv, AgendaTables, Settled
<1>6. \A g \in Findings : ~Holder(g, r)
  BY <1>4 DEF Holder
<1> QED BY <1>1, <1>4, <1>5, <1>6, NewKeeps

\* A row of an order that is live, with the visit it had, once its place was looked for.
LEMMA LookedAgain ==
  ASSUME AgendaInv, NEW o \in Existing, Editable(o), NEW r \in AgendaRow,
         r.draft = Order(o).draft, r.car = Order(o).car \/ r.draft, r.reopened = Order(o).reopened,
         r.unchecked \/ SlotFree(o, r) \/ Within(r, Order(o))
  PROVE  Looked(o, r)
<1>1. o \in Ids /\ Order(o) \in agenda[o]
  BY OrderIsRow DEF AgendaInv, Existing
<1> QED BY <1>1 DEF Looked, Editable

\* So does approving a finding, for a new draft or an open order.
LEMMA ApproveKeeps ==
  ASSUME AgendaInv, NEW f \in Findings, NEW o \in Existing, ApproveFinding(f, o)
  PROVE  AgendaInv'
<1> DEFINE r == WithJob(Order(o), {f})
<1>1. /\ Undecided(f) /\ Editable(o) /\ Order(o).jobs < MaxJobs
      /\ SlotFree(o, r) /\ Saved(o, r) /\ Approved({f}) /\ UNCHANGED created
  BY DEF ApproveFinding, Offered
<1>2. AgendaTables /\ o \in Ids /\ Order(o) \in agenda[o] /\ Order(o) \in AgendaRow
  BY OrderIsRow DEF AgendaInv, Existing
<1>3. /\ r \in AgendaRow /\ r.work = Order(o).work \union {f} /\ r.refs = Order(o).refs
      /\ r.draft = Order(o).draft /\ r.car = Order(o).car /\ r.reopened = Order(o).reopened
  BY <1>1, <1>2, WithJobTyped
<1> HIDE DEF r
<1>4. Looked(o, r)
  BY <1>1, <1>3, LookedAgain
<1>5. /\ findings' \in [Findings -> Finding] /\ Settled /\ findings'[f].status = "aprobado"
  BY <1>1, <1>2, ApprovedKeeps
<1>6. ASSUME NEW g \in Findings, Holder(g, r)
      PROVE  /\ findings'[g].status = "aprobado"
             /\ findings[g].status = "aprobado" => \E q \in agenda[o] : Holder(g, q)
  <2>1. CASE g = f
    BY <1>1, <1>5, <2>1 DEF Undecided
  <2>2. CASE g # f
    <3>1. Holder(g, Order(o))
      BY <1>3, <1>6, <2>2 DEF Holder
    <3>2. findings[g].status = "aprobado"
      BY <1>2, <3>1 DEF AgendaInv, HeldOnce
    <3> QED BY <1>2, <1>5, <3>1, <3>2 DEF Settled
  <2> QED BY <2>1, <2>2
<1>7. Entitled(o, r)
  BY <1>6 DEF Entitled
<1>8. created' \in 0..MaxVisits
  BY <1>1, <1>2 DEF AgendaTables
<1> QED BY <1>1, <1>2, <1>3, <1>4, <1>5, <1>7, <1>8, RowSaved

\* So does sending a draft to the workshop.
LEMMA SubmitDraftKeeps ==
  ASSUME AgendaInv, NEW o \in Existing, SubmitDraft(o)
  PROVE  AgendaInv'
<1> DEFINE q == Order(o)
           r == [q EXCEPT !.draft = FALSE]
           fs == q.refs \intersect q.work
<1>1. /\ Editable(o) /\ NoActiveVisit(o, q.car) /\ SlotFree(o, q) /\ \A f \in q.refs : Undecided(f)
      /\ Saved(o, r) /\ Approved(fs) /\ UNCHANGED created /\ q.draft
  BY DEF SubmitDraft
<1>2. AgendaTables /\ o \in Ids /\ q \in agenda[o] /\ q \in AgendaRow
  BY OrderIsRow DEF AgendaInv, Existing
<1> HIDE DEF q
<1>3. /\ r \in AgendaRow /\ r.work = q.work /\ r.car = q.car /\ r.draft = FALSE /\ r.jobs = q.jobs
      /\ r.bay = q.bay /\ r.mechanic = q.mechanic /\ r.at = q.at /\ r.status = q.status
      /\ q.refs \subseteq Findings /\ q.work \subseteq Findings
  BY <1>2 DEF AgendaRow
<1> HIDE DEF r
<1>4. SlotFree(o, r)
  BY <1>1, <1>3 DEF SlotFree, SharesPlace, Overlap, Length
<1>5. Looked(o, r)
  BY <1>1, <1>3, <1>4 DEF Looked
<1>6. /\ findings' \in [Findings -> Finding] /\ Settled /\ \A f \in fs : findings'[f].status = "aprobado"
  BY <1>1, <1>2, <1>3, ApprovedKeeps
<1>7. ASSUME NEW g \in Findings, Holder(g, r)
      PROVE  /\ findings'[g].status = "aprobado"
             /\ findings[g].status = "aprobado" => \E x \in agenda[o] : Holder(g, x)
  <2>1. CASE g \in q.refs
    <3>1. g \in fs /\ Undecided(g)
      BY <1>1, <1>3, <1>7, <2>1 DEF Holder
    <3> QED BY <1>6, <3>1 DEF Undecided
  <2>2. CASE g \notin q.refs
    <3>1. Holder(g, q)
      BY <1>3, <1>7, <2>2 DEF Holder
    <3>2. findings[g].status = "aprobado"
      BY <1>2, <3>1 DEF AgendaInv, HeldOnce
    <3> QED BY <1>2, <1>6, <3>1, <3>2 DEF Settled
  <2> QED BY <2>1, <2>2
<1>8. Entitled(o, r)
  BY <1>7 DEF Entitled
<1>9. created' \in 0..MaxVisits
  BY <1>1, <1>2 DEF AgendaTables
<1> QED BY <1>1, <1>2, <1>3, <1>5, <1>6, <1>8, <1>9, RowSaved

\* So does discarding one.
LEMMA DiscardKeeps ==
  ASSUME AgendaInv, NEW o \in Existing, DiscardDraft(o)
  PROVE  AgendaInv'
<1>1. agenda' = [agenda EXCEPT ![o] = {}] /\ UNCHANGED <<created, findings>>
  BY DEF DiscardDraft
<1>2. agenda' \in [Ids -> SUBSET AgendaRow] /\ (\A p \in Ids : agenda'[p] \subseteq agenda[p])
  BY <1>1 DEF AgendaInv, AgendaTables
<1>3. created' \in 0..MaxVisits /\ findings' \in [Findings -> Finding] /\ Settled
  BY <1>1 DEF AgendaInv, AgendaTables, Settled
<1> QED BY <1>2, <1>3, RowsLeft

\* The steps that change one order's row and decide no finding.
LEMMA OrderStep ==
  ASSUME AgendaInv, NEW o \in Existing,
         NEW bay \in SUBSET Bays, NEW at \in SUBSET Slots, NEW m \in SUBSET Mechanics, NEW car \in SUBSET Cars,
         NEW fs \in SUBSET Findings,
         \/ UpdateOrder(o, bay, m, at) \/ SaveDraft(o, car, bay, m, at)
         \/ CloseOrder(o) \/ CancelOrder(o) \/ ReopenOrder(o)
         \/ AddJob(o) \/ RestoreJob(o) \/ DeleteJob(o, fs)
  PROVE  AgendaInv'
<1> DEFINE q == Order(o)
<1>1. AgendaTables /\ o \in Ids /\ q \in agenda[o] /\ q \in AgendaRow
  BY OrderIsRow DEF AgendaInv, Existing
<1>a. ASSUME NEW r \in AgendaRow, Saved(o, r), UNCHANGED <<created, findings>>, Looked(o, r),
             r.work \subseteq q.work, r.refs = q.refs, r.draft = q.draft
      PROVE  AgendaInv'
  BY <1>a, FindingsAside
<1>2. CASE UpdateOrder(o, bay, m, at)
  <2> DEFINE r == [q EXCEPT !.bay = bay, !.mechanic = m, !.at = at]
  <2>1. Editable(o) /\ SlotFree(o, r) /\ Saved(o, r) /\ UNCHANGED <<created, findings>>
    BY <1>2 DEF UpdateOrder
  <2> HIDE DEF q
  <2>2. r \in AgendaRow /\ r.work = q.work /\ r.refs = q.refs /\ r.draft = q.draft /\ r.car = q.car /\ r.reopened = q.reopened
    BY <1>1 DEF AgendaRow
  <2> HIDE DEF r
  <2>3. Looked(o, r)
    BY <2>1, <2>2, LookedAgain DEF q
  <2> QED BY <1>a, <2>1, <2>2, <2>3
<1>3. CASE SaveDraft(o, car, bay, m, at)
  <2> DEFINE r == [q EXCEPT !.car = car, !.bay = bay, !.mechanic = m, !.at = at]
  <2>1. /\ Editable(o) /\ q.draft /\ Saved(o, r) /\ UNCHANGED <<created, findings>>
        /\ <<bay, m, at>> # <<q.bay, q.mechanic, q.at>> => SlotFree(o, r)
    BY <1>3 DEF SaveDraft
  <2> HIDE DEF q
  <2>2. /\ r \in AgendaRow /\ r.work = q.work /\ r.refs = q.refs /\ r.draft = q.draft /\ r.reopened = q.reopened
        /\ r.bay = bay /\ r.mechanic = m /\ r.at = at /\ r.jobs = q.jobs /\ r.unchecked = q.unchecked
    BY <1>1 DEF AgendaRow
  <2> HIDE DEF r
  <2>3. SlotFree(o, r) \/ Within(r, q)
    <3>1. CASE <<bay, m, at>> = <<q.bay, q.mechanic, q.at>>
      <4>1. Length(r) = Length(q) /\ Length(q) \in Nat
        BY <1>1, <2>2, LengthInNat DEF Length
      <4> QED BY <2>1, <2>2, <3>1, <4>1 DEF Within, Editable, q
    <3> QED BY <2>1, <3>1
  <2>4. Looked(o, r)
    BY <2>1, <2>2, <2>3, LookedAgain DEF q
  <2> QED BY <1>a, <2>1, <2>2, <2>4
<1>4. CASE CloseOrder(o)
  <2> DEFINE r == [q EXCEPT !.status = "orden_cerrada"]
  <2>1. Saved(o, r) /\ UNCHANGED <<created, findings>>
    BY <1>4 DEF CloseOrder
  <2> HIDE DEF q
  <2>2. r \in AgendaRow /\ r.work = q.work /\ r.refs = q.refs /\ r.draft = q.draft /\ r.status = "orden_cerrada"
    BY <1>1 DEF AgendaRow, OrderStatus
  <2> HIDE DEF r
  <2>3. Looked(o, r)
    BY <2>2 DEF Looked, Live
  <2> QED BY <1>a, <2>1, <2>2, <2>3
<1>5. CASE CancelOrder(o)
  <2> DEFINE r == [q EXCEPT !.status = "cancelado", !.reopened = FALSE]
  <2>1. Saved(o, r) /\ UNCHANGED <<created, findings>>
    BY <1>5 DEF CancelOrder
  <2> HIDE DEF q
  <2>2. r \in AgendaRow /\ r.work = q.work /\ r.refs = q.refs /\ r.draft = q.draft /\ r.status = "cancelado"
    BY <1>1 DEF AgendaRow, OrderStatus
  <2> HIDE DEF r
  <2>3. Looked(o, r)
    BY <2>2 DEF Looked, Live
  <2> QED BY <1>a, <2>1, <2>2, <2>3
<1>6. CASE ReopenOrder(o)
  <2> DEFINE r == [q EXCEPT !.status = "pendiente", !.reopened = TRUE, !.unchecked = TRUE]
  <2>1. Saved(o, r) /\ UNCHANGED <<created, findings>>
    BY <1>6 DEF ReopenOrder
  <2> HIDE DEF q
  <2>2. r \in AgendaRow /\ r.work = q.work /\ r.refs = q.refs /\ r.draft = q.draft /\ r.reopened /\ r.unchecked
    BY <1>1 DEF AgendaRow, OrderStatus
  <2> HIDE DEF r
  <2>3. Looked(o, r)
    BY <2>2 DEF Looked
  <2> QED BY <1>a, <2>1, <2>2, <2>3
<1>7. CASE AddJob(o)
  <2> DEFINE r == WithJob(q, {})
  <2>1. Editable(o) /\ q.jobs < MaxJobs /\ SlotFree(o, r) /\ Saved(o, r) /\ UNCHANGED <<created, findings>>
    BY <1>7 DEF AddJob
  <2> HIDE DEF q
  <2>2. r \in AgendaRow /\ r.work = q.work /\ r.refs = q.refs /\ r.draft = q.draft /\ r.car = q.car /\ r.reopened = q.reopened
    BY <1>1, <2>1, WithJobTyped
  <2> HIDE DEF r
  <2>3. Looked(o, r)
    BY <2>1, <2>2, LookedAgain DEF q
  <2> QED BY <1>a, <2>1, <2>2, <2>3
<1>8. CASE RestoreJob(o)
  <2> DEFINE n == WithJob(q, {})
             r == [n EXCEPT !.unchecked = TRUE]
  <2>1. Editable(o) /\ q.jobs < MaxJobs /\ Saved(o, r) /\ UNCHANGED <<created, findings>>
    BY <1>8 DEF RestoreJob
  <2> HIDE DEF q
  <2>2. n \in AgendaRow /\ n.work = q.work /\ n.refs = q.refs /\ n.draft = q.draft /\ n.car = q.car /\ n.reopened = q.reopened
    BY <1>1, <2>1, WithJobTyped
  <2> HIDE DEF n
  <2>3. r \in AgendaRow /\ r.work = n.work /\ r.refs = n.refs /\ r.draft = n.draft /\ r.car = n.car /\ r.reopened = n.reopened /\ r.unchecked
    BY <2>2 DEF AgendaRow
  <2> HIDE DEF r
  <2>4. Looked(o, r)
    BY <2>1, <2>2, <2>3, LookedAgain DEF q
  <2> QED BY <1>a, <2>1, <2>2, <2>3, <2>4
<1>9. CASE DeleteJob(o, fs)
  <2> DEFINE r == [q EXCEPT !.jobs = @ - 1, !.work = @ \ fs]
  <2>1. Editable(o) /\ q.jobs > Cardinality(q.work \ fs) /\ Saved(o, r) /\ UNCHANGED <<created, findings>>
    BY <1>9 DEF DeleteJob
  <2> HIDE DEF q
  <2>2. Cardinality(q.work \ fs) \in Nat
    <3>1. q.work \ fs \subseteq Findings
      BY <1>1 DEF AgendaRow
    <3> QED BY <3>1, ScheduleAssumption, FS_Subset, FS_CardinalityType
  <2>3. /\ r \in AgendaRow /\ r.work \subseteq q.work /\ r.refs = q.refs /\ r.draft = q.draft /\ r.car = q.car
        /\ r.bay = q.bay /\ r.mechanic = q.mechanic /\ r.at = q.at /\ r.jobs = q.jobs - 1
        /\ r.unchecked = q.unchecked /\ r.reopened = q.reopened
    <3>1. q.jobs - 1 \in 0..MaxJobs
      BY <1>1, <2>1, <2>2, ScheduleAssumption DEF AgendaRow
    <3>2. q.work \ fs \in SUBSET Findings
      BY <1>1 DEF AgendaRow
    <3> QED BY <1>1, <3>1, <3>2 DEF AgendaRow
  <2> HIDE DEF r
  <2>4. Within(r, q)
    BY <1>1, <2>1, <2>3, ShorterLength DEF Within, Editable, q
  <2>5. Looked(o, r)
    BY <2>1, <2>3, <2>4, LookedAgain DEF q
  <2> QED BY <1>a, <2>1, <2>3, <2>5
<1> QED BY <1>2, <1>3, <1>4, <1>5, <1>6, <1>7, <1>8, <1>9

\* Detecting and rejecting findings keep the invariant.
LEMMA FindingStep ==
  ASSUME AgendaInv, NEW f \in Findings,
         RejectFinding(f) \/ \E o \in Existing : DetectFinding(f, o)
  PROVE  AgendaInv'
<1>1. UNCHANGED <<agenda, created>>
  BY DEF RejectFinding, DetectFinding
<1>2. findings' \in [Findings -> Finding] /\ Settled
  <2>1. CASE RejectFinding(f)
    <3>1. findings' = [findings EXCEPT ![f].status = "rechazado"] /\ findings[f].status # "aprobado"
      BY <2>1 DEF RejectFinding, Undecided
    <3>2. [findings[f] EXCEPT !.status = "rechazado"] \in Finding
      BY DEF AgendaInv, AgendaTables, Finding
    <3> QED BY <3>1, <3>2 DEF AgendaInv, AgendaTables, Settled
  <2>2. ASSUME NEW o \in Existing, DetectFinding(f, o)
        PROVE  findings' \in [Findings -> Finding] /\ Settled
    <3>1. /\ findings' = [findings EXCEPT ![f] = [status |-> "pendiente", car |-> Order(o).car]]
          /\ findings[f].status # "aprobado"
      BY <2>2 DEF DetectFinding
    <3>2. Order(o) \in AgendaRow
      BY OrderIsRow DEF AgendaInv, Existing
    <3>3. [status |-> "pendiente", car |-> Order(o).car] \in Finding
      BY <3>2 DEF AgendaRow, Finding
    <3> QED BY <3>1, <3>3 DEF AgendaInv, AgendaTables, Settled
  <2> QED BY <2>1, <2>2
<1> QED BY <1>1, <1>2, RowsLeft DEF AgendaInv, AgendaTables

\* At most one of a set is a subset of it.
LEMMA AtMostOneIsSubset ==
  ASSUME NEW S, NEW x \in AtMostOne(S)
  PROVE  x \in SUBSET S
BY DEF AtMostOne

\* So does every step.
LEMMA ScheduleStep ==
  ASSUME AgendaInv, [ScheduleNext]_scheduleVars
  PROVE  AgendaInv'
<1>1. ASSUME NEW bay \in AtMostOne(Bays), NEW at \in AtMostOne(Slots), NEW m \in AtMostOne(Mechanics),
             NEW car \in Cars, NEW fs \in SUBSET Findings, CreateOrder(car, bay, m, at, fs)
      PROVE  AgendaInv'
  BY <1>1, AtMostOneIsSubset, CreateOrderKeeps
<1>2. ASSUME NEW bay \in AtMostOne(Bays), NEW at \in AtMostOne(Slots), NEW m \in AtMostOne(Mechanics),
             NEW o \in Existing, UpdateOrder(o, bay, m, at)
      PROVE  AgendaInv'
  BY <1>2, AtMostOneIsSubset, OrderStep
<1>3. ASSUME NEW bay \in AtMostOne(Bays), NEW at \in AtMostOne(Slots), NEW car \in AtMostOne(Cars),
             CreateDraft(car, bay, at)
      PROVE  AgendaInv'
  BY <1>3, AtMostOneIsSubset, CreateDraftKeeps
<1>4. ASSUME NEW bay \in AtMostOne(Bays), NEW at \in AtMostOne(Slots), NEW f \in Findings,
             CreateDraftFor(f, bay, at)
      PROVE  AgendaInv'
  BY <1>4, AtMostOneIsSubset, CreateDraftForKeeps
<1>5. ASSUME NEW bay \in AtMostOne(Bays), NEW at \in AtMostOne(Slots), NEW m \in AtMostOne(Mechanics),
             NEW o \in Existing, NEW car \in AtMostOne(Cars), SaveDraft(o, car, bay, m, at)
      PROVE  AgendaInv'
  BY <1>5, AtMostOneIsSubset, OrderStep
<1>6. ASSUME NEW o \in Existing, NEW fs \in AtMostOne(Findings), DeleteJob(o, fs)
      PROVE  AgendaInv'
  <2>1. fs \in SUBSET Findings
    BY AtMostOneIsSubset
  <2>2. {} \in SUBSET Bays /\ {} \in SUBSET Slots /\ {} \in SUBSET Mechanics /\ {} \in SUBSET Cars
    OBVIOUS
  <2> QED BY <1>6, <2>1, <2>2, OrderStep
<1>7. ASSUME NEW o \in Existing,
             CloseOrder(o) \/ CancelOrder(o) \/ ReopenOrder(o) \/ AddJob(o) \/ RestoreJob(o)
      PROVE  AgendaInv'
  BY <1>7, OrderStep
<1>8. CASE OrderRoutes
  BY <1>8, <1>1, <1>2, DiscardKeeps DEF OrderRoutes, DeleteOrder
<1>9. CASE CourseRoutes
  BY <1>9, <1>7 DEF CourseRoutes
<1>10. CASE JobRoutes
  BY <1>10, <1>6, <1>7 DEF JobRoutes
<1>11. CASE FindingRoutes
  BY <1>11, FindingStep, ApproveKeeps DEF FindingRoutes
<1>12. CASE DraftRoutes
  BY <1>12, <1>3, <1>4, <1>5, SubmitDraftKeeps, DiscardKeeps DEF DraftRoutes
<1>13. CASE UNCHANGED scheduleVars
  BY <1>13, RowsLeft DEF scheduleVars, AgendaInv, AgendaTables, Settled
<1> QED BY <1>8, <1>9, <1>10, <1>11, <1>12, <1>13 DEF ScheduleNext

\* The inductive invariant holds.
LEMMA AgendaHolds == ScheduleSpec => []AgendaInv
<1>1. ScheduleInit => AgendaInv
  BY ScheduleAssumption DEF ScheduleInit, AgendaInv, AgendaTables, Booked, HeldOnce, Finding
<1>2. AgendaInv /\ [ScheduleNext]_scheduleVars => AgendaInv'
  BY ScheduleStep
<1> QED BY <1>1, <1>2, PTL DEF ScheduleSpec

\* A set whose members are all equal has one at most.
LEMMA AloneIsOne ==
  ASSUME NEW S, \A x, y \in S : x = y
  PROVE  Cardinality(S) <= 1
<1>1. CASE S = {}
  BY <1>1, FS_EmptySet
<1>2. ASSUME NEW x \in S
      PROVE  Cardinality(S) <= 1
  <2>1. S = {x}
    BY <1>2
  <2> QED BY <2>1, FS_Singleton
<1> QED BY <1>1, <1>2

\* The calendar's rows keep their columns' types, and each number names one order at most.
THEOREM ScheduleTypeCorrect == ScheduleSpec => []ScheduleTypeOK
<1>1. AgendaInv => ScheduleTypeOK
  <2> SUFFICES ASSUME AgendaInv PROVE ScheduleTypeOK
    OBVIOUS
  <2>1. \A o \in Ids : Cardinality(agenda[o]) <= 1
    BY AloneIsOne DEF AgendaInv, AgendaTables
  <2> QED BY <2>1 DEF AgendaInv, AgendaTables, ScheduleTypeOK
<1> QED BY <1>1, AgendaHolds, PTL

\* However orders are created, moved, merged and reopened, no two open orders share a vehicle,
\* a bay or a technician at one time, unless one of them skipped the check, and a finding's
\* work goes to one order, after its approval.
THEOREM CalendarKept == ScheduleSpec => []ScheduleHolds
<1>1. AgendaInv => ScheduleHolds
  <2> SUFFICES ASSUME AgendaInv PROVE ScheduleHolds
    OBVIOUS
  <2>a. AgendaTables /\ Booked /\ HeldOnce /\ Existing \subseteq Ids
    BY DEF AgendaInv, Existing
  <2>1. ASSUME NEW o \in Existing, NEW p \in Existing, o < p
        PROVE  /\ {o, p} \subseteq Listed("active") /\ Order(o).car = Order(p).car
                    => Order(o).reopened \/ Order(p).reopened
               /\ Live(Order(o)) /\ Live(Order(p)) /\ SharesPlace(Order(o), Order(p))
                    /\ Overlap(Order(o), Order(p))
                    => Order(o).unchecked \/ Order(p).unchecked
    <3>1. Order(o) \in agenda[o] /\ Order(p) \in agenda[p] /\ o \in Ids /\ p \in Ids
      BY <2>a, OrderIsRow
    <3>2. o # p
      BY <2>1, <3>1 DEF Ids
    <3>3. Compatible(Order(o), Order(p))
      BY <2>a, <3>1, <3>2 DEF Booked
    <3>4. {o, p} \subseteq Listed("active") => ~Order(o).draft /\ ~Order(p).draft /\ Live(Order(o)) /\ Live(Order(p))
      BY DEF Listed
    <3> QED BY <3>3, <3>4 DEF Compatible
  <2>2. CalendarHolds
    BY <2>1 DEF CalendarHolds
  <2>3. ASSUME NEW f \in Findings
        PROVE  LET sent == {o \in Existing : ~Order(o).draft /\ f \in Order(o).work} IN
               Cardinality(sent) <= 1 /\ (sent # {} => findings[f].status = "aprobado")
    <3> DEFINE sent == {o \in Existing : ~Order(o).draft /\ f \in Order(o).work}
    <3>1. \A o \in sent : o \in Ids /\ Order(o) \in agenda[o] /\ Holder(f, Order(o))
      BY <2>a, OrderIsRow DEF Holder
    <3> HIDE DEF sent
    <3>2. \A o, p \in sent : o = p
      BY <2>a, <3>1 DEF HeldOnce
    <3>3. sent # {} => findings[f].status = "aprobado"
      BY <2>a, <3>1 DEF HeldOnce
    <3>4. Cardinality(sent) <= 1
      BY <3>2, AloneIsOne
    <3> QED BY <3>3, <3>4 DEF sent
  <2>4. RecommendedOnce
    BY <2>3 DEF RecommendedOnce
  <2> QED BY <2>2, <2>4 DEF ScheduleHolds
<1> QED BY <1>1, AgendaHolds, PTL

-----------------------------------------------------------------------------
(* Catalogue: the codes of services *)

Columns == {"category", "number", "active", "own", "term", "policy", "parts"}

\* A row of the table, whatever its parts are.
IsService(v) ==
  /\ v = [c \in Columns |-> v[c]]
  /\ v.category \in Categories /\ v.number \in 1..LastNumber

CatalogueTables ==
  /\ services = [s \in Services |-> services[s]]
  /\ \A s \in Services : \A v \in services[s] : IsService(v)
  /\ policies \in [Policies -> SUBSET Policy]
  /\ plans = [p \in Plans |-> plans[p]]
  /\ \A p \in Plans : \A v \in plans[p] : v.entries \in Seq(Services)
  /\ bought \in [CatalogParts -> SUBSET Estimates] /\ changes \in 0..MaxChanges
  /\ edits = [w \in CatalogEditors |-> edits[w]]
  /\ \A w \in CatalogEditors : \A e \in edits[w] : e = [of |-> e.of, row |-> e.row, stale |-> e.stale] /\ e.stale \in BOOLEAN

CatalogueInv == CatalogueTables /\ CodesUnique

\* Operations that change neither services nor edits keep the invariant.
LEMMA CodesAside ==
  ASSUME CatalogueInv, UNCHANGED <<services, edits>>,
         policies' \in [Policies -> SUBSET Policy], plans' = [p \in Plans |-> plans'[p]],
         \A p \in Plans : \A v \in plans'[p] : v.entries \in Seq(Services),
         bought' \in [CatalogParts -> SUBSET Estimates], changes' \in 0..MaxChanges
  PROVE  CatalogueInv'
BY DEF CatalogueInv, CatalogueTables, CodesUnique

\* The count of changes stays within its bound.
LEMMA ChangesBounded ==
  ASSUME CatalogueTables, Change
  PROVE  changes' \in 0..MaxChanges
BY CatalogueAssumption DEF CatalogueTables, Change

\* A numbered row is a row.
LEMMA NumberedIsService ==
  ASSUME NEW v, v = [c \in Columns |-> v[c]], v.category \in Categories, NEW n \in 1..LastNumber
  PROVE  IsService(Numbered(v, n)) /\ Numbered(v, n).category = v.category /\ Numbered(v, n).number = n
BY DEF IsService, Numbered, Columns

\* What the search for a number found out of each service.
LEMMA FreeNumber ==
  ASSUME NEW category, NEW n, NumberFree(category, n), NEW s \in Services, NEW v \in services[s]
  PROVE  <<v.category, v.number>> # <<category, n>>
<1> SUFFICES ASSUME v.category = category, v.number = n
             PROVE  FALSE
  OBVIOUS
<1>1. v \in {w \in UNION {services[x] : x \in Services} : w.category = category}
  OBVIOUS
<1>2. n \in NumbersOf(category)
  BY <1>1 DEF NumbersOf
<1> QED BY <1>2 DEF NumberFree

\* A new service has a code of its own.
LEMMA InsertKeeps ==
  ASSUME CatalogueInv, NEW s \in Services, NEW v, NEW given, Insert(s, v, given),
         v = [c \in Columns |-> v[c]], v.category \in Categories,
         Change, UNCHANGED <<policies, plans, bought, edits>>
  PROVE  CatalogueInv'
<1> DEFINE n == IF given = {} THEN NextNumber(v.category) ELSE CHOOSE g \in given : TRUE
<1>1. /\ n \in 1..LastNumber /\ NumberFree(v.category, n)
      /\ services' = [services EXCEPT ![s] = {Numbered(v, n)}]
  BY DEF Insert
<1> HIDE DEF n
<1>2. IsService(Numbered(v, n)) /\ Numbered(v, n).category = v.category /\ Numbered(v, n).number = n
  BY <1>1, NumberedIsService
<1>3. changes' \in 0..MaxChanges
  BY ChangesBounded DEF CatalogueInv
<1>4. /\ services'[s] = {Numbered(v, n)} /\ \A t \in Services \ {s} : services'[t] = services[t]
      /\ services' = [t \in Services |-> services'[t]]
  BY <1>1 DEF CatalogueInv, CatalogueTables
<1>5. CatalogueTables'
  BY <1>2, <1>3, <1>4 DEF CatalogueInv, CatalogueTables
<1>6. \A t \in Services : \A w \in services[t] : <<w.category, w.number>> # <<v.category, n>>
  BY <1>1, FreeNumber
<1>7. CodesUnique'
  BY <1>2, <1>4, <1>6 DEF CatalogueInv, CodesUnique
<1> QED BY <1>5, <1>7 DEF CatalogueInv

\* So has each service of an imported file.
LEMMA ImportKeeps ==
  ASSUME CatalogueInv, NEW s \in Services, NEW t \in Services, NEW category \in Categories, NEW first, NEW second,
         NEW on \in BOOLEAN, NEW cost, NEW p, ImportServices(s, t, category, first, second, on, cost, p)
  PROVE  CatalogueInv'
<1> DEFINE row == [NewService(category, FALSE, FALSE, {}, <<[part |-> p, cost |-> cost]>>) EXCEPT !.active = on]
<1>1. PICK n, m :
        /\ s # t
        /\ {n, m} \subseteq 1..LastNumber /\ n # m
        /\ NumberFree(category, n) /\ NumberFree(category, m)
        /\ services' = [services EXCEPT ![s] = {Numbered(row, n)}, ![t] = {Numbered(row, m)}]
        /\ Change /\ UNCHANGED <<policies, plans, bought, edits>>
  BY DEF ImportServices
<1>2. row = [c \in Columns |-> row[c]] /\ row.category = category
  BY DEF NewService, Columns
<1> HIDE DEF row
<1>3. /\ IsService(Numbered(row, n)) /\ Numbered(row, n).category = category /\ Numbered(row, n).number = n
      /\ IsService(Numbered(row, m)) /\ Numbered(row, m).category = category /\ Numbered(row, m).number = m
  BY <1>1, <1>2, NumberedIsService
<1>4. changes' \in 0..MaxChanges
  BY <1>1, ChangesBounded DEF CatalogueInv
<1>5. /\ services'[s] = {Numbered(row, n)} /\ services'[t] = {Numbered(row, m)}
      /\ \A x \in Services \ {s, t} : services'[x] = services[x]
      /\ services' = [x \in Services |-> services'[x]]
  BY <1>1 DEF CatalogueInv, CatalogueTables
<1>6. CatalogueTables'
  BY <1>1, <1>3, <1>4, <1>5 DEF CatalogueInv, CatalogueTables
<1>7. \A x \in Services : \A w \in services[x] :
        <<w.category, w.number>> # <<category, n>> /\ <<w.category, w.number>> # <<category, m>>
  BY <1>1, FreeNumber
<1>8. ASSUME NEW x \in Services, NEW y \in Services, NEW v \in services'[x], NEW w \in services'[y], x # y
      PROVE  <<v.category, v.number>> # <<w.category, w.number>>
  <2>1. \/ x \in {s, t} /\ v.category = category /\ (x = s => v.number = n) /\ (x = t => v.number = m)
        \/ x \notin {s, t} /\ v \in services[x]
    BY <1>3, <1>5, <1>8
  <2>2. \/ y \in {s, t} /\ w.category = category /\ (y = s => w.number = n) /\ (y = t => w.number = m)
        \/ y \notin {s, t} /\ w \in services[y]
    BY <1>3, <1>5, <1>8
  <2>3. CASE x \in {s, t} /\ y \in {s, t}
    BY <1>1, <1>8, <2>1, <2>2, <2>3
  <2>4. CASE x \in {s, t} /\ y \notin {s, t}
    BY <1>7, <2>1, <2>2, <2>4
  <2>5. CASE x \notin {s, t} /\ y \in {s, t}
    BY <1>7, <2>1, <2>2, <2>5
  <2>6. CASE x \notin {s, t} /\ y \notin {s, t}
    BY <1>8, <2>1, <2>2, <2>6 DEF CatalogueInv, CodesUnique
  <2> QED BY <2>3, <2>4, <2>5, <2>6
<1> QED BY <1>6, <1>8 DEF CatalogueInv, CodesUnique

\* Saving one editor's form leaves the other forms as they are, or makes them stale.
LEMMA EditsKept ==
  ASSUME CatalogueTables, NEW w, NEW replaced \in BOOLEAN, EditDone(w, replaced)
  PROVE  /\ edits' = [v \in CatalogEditors |-> edits'[v]]
         /\ \A v \in CatalogEditors : \A e \in edits'[v] : e = [of |-> e.of, row |-> e.row, stale |-> e.stale] /\ e.stale \in BOOLEAN
         /\ changes' \in 0..MaxChanges
<1> DEFINE hit(e) == replaced /\ \E mine \in edits[w] : mine.of = e.of
           now(e) == [e EXCEPT !.stale = e.stale \/ (replaced /\ \E mine \in edits[w] : mine.of = e.of)]
<1>1. edits' = [v \in CatalogEditors |-> IF v = w THEN {} ELSE {now(e) : e \in edits[v]}]
  BY DEF EditDone
<1>2. ASSUME NEW v \in CatalogEditors, NEW e \in edits[v]
      PROVE  now(e) = [of |-> now(e).of, row |-> now(e).row, stale |-> now(e).stale] /\ now(e).stale \in BOOLEAN
  <2>1. e = [of |-> e.of, row |-> e.row, stale |-> e.stale] /\ e.stale \in BOOLEAN
    BY DEF CatalogueTables
  <2>2. (e.stale \/ hit(e)) \in BOOLEAN
    OBVIOUS
  <2>3. now(e) = [e EXCEPT !.stale = e.stale \/ hit(e)]
    OBVIOUS
  <2> HIDE DEF hit, now
  <2> QED BY <2>1, <2>2, <2>3
<1> HIDE DEF now
<1>3. changes' \in 0..MaxChanges
  BY ChangesBounded DEF EditDone
<1> QED BY <1>1, <1>2, <1>3

\* Saving the form of a service keeps the codes apart.
LEMMA SaveServiceKeeps ==
  ASSUME CatalogueInv, NEW w \in CatalogEditors, NEW on, NEW own, NEW term, NEW policy, NEW given,
         SaveService(w, on, own, term, policy, given)
  PROVE  CatalogueInv'
<1>1. PICK e \in edits[w] : \E v \in Stored(e.of) :
        LET new == [e.row EXCEPT !.active = on, !.own = own, !.term = term, !.policy = policy]
        IN /\ e.of \in Services
           /\ services' = [services EXCEPT ![e.of] =
                {[Written(v, e.row, new) EXCEPT
                    !.parts = IF given = {} THEN v.parts
                              ELSE Replaced(v.parts, e, Costed(CHOOSE ps \in given : TRUE, e.row.parts))]}]
           /\ EditDone(w, given # {})
           /\ UNCHANGED <<policies, plans, bought>>
  BY DEF SaveService
<1> DEFINE new == [e.row EXCEPT !.active = on, !.own = own, !.term = term, !.policy = policy]
<1>2. PICK v \in Stored(e.of) :
        /\ e.of \in Services
        /\ services' = [services EXCEPT ![e.of] =
             {[Written(v, e.row, new) EXCEPT
                 !.parts = IF given = {} THEN v.parts
                           ELSE Replaced(v.parts, e, Costed(CHOOSE ps \in given : TRUE, e.row.parts))]}]
        /\ EditDone(w, given # {})
        /\ UNCHANGED <<policies, plans, bought>>
  BY <1>1
<1>3. new["category"] = e.row["category"] /\ new["number"] = e.row["number"]
  OBVIOUS
<1>4. v \in services[e.of] /\ IsService(v)
  BY <1>2 DEF Stored, CatalogueInv, CatalogueTables
<1>5. PICK list : services' = [services EXCEPT ![e.of] = {[Written(v, e.row, new) EXCEPT !.parts = list]}]
  BY <1>2
<1> HIDE DEF new
<1> DEFINE row == [Written(v, e.row, new) EXCEPT !.parts = list]
<1>6. IsService(row) /\ row.category = v.category /\ row.number = v.number
  BY <1>3, <1>4 DEF IsService, Written, Columns
<1> HIDE DEF row
<1>7. /\ services'[e.of] = {row} /\ \A t \in Services \ {e.of} : services'[t] = services[t]
      /\ services' = [t \in Services |-> services'[t]]
  BY <1>2, <1>5 DEF CatalogueInv, CatalogueTables, row
<1>8. /\ edits' = [x \in CatalogEditors |-> edits'[x]]
      /\ \A x \in CatalogEditors : \A f \in edits'[x] : f = [of |-> f.of, row |-> f.row, stale |-> f.stale] /\ f.stale \in BOOLEAN
      /\ changes' \in 0..MaxChanges
  BY <1>2, EditsKept DEF CatalogueInv
<1>9. CatalogueTables'
  BY <1>2, <1>6, <1>7, <1>8 DEF CatalogueInv, CatalogueTables
<1>10. CodesUnique'
  BY <1>2, <1>4, <1>6, <1>7 DEF CatalogueInv, CodesUnique
<1> QED BY <1>9, <1>10 DEF CatalogueInv

\* A policy that is written is a policy.
LEMMA WrittenPolicy ==
  ASSUME NEW v \in Policy, NEW read, NEW new \in Policy
  PROVE  Written(v, read, new) \in Policy
BY DEF Written, Policy

\* An edit that is not of a service.
LEMMA SaveOtherKeeps ==
  ASSUME CatalogueInv, NEW w \in CatalogEditors, NEW replaced \in BOOLEAN, EditDone(w, replaced),
         UNCHANGED <<services, bought>>,
         policies' \in [Policies -> SUBSET Policy], plans' = [p \in Plans |-> plans'[p]],
         \A p \in Plans : \A v \in plans'[p] : v.entries \in Seq(Services)
  PROVE  CatalogueInv'
<1>1. /\ edits' = [x \in CatalogEditors |-> edits'[x]]
      /\ \A x \in CatalogEditors : \A f \in edits'[x] : f = [of |-> f.of, row |-> f.row, stale |-> f.stale] /\ f.stale \in BOOLEAN
      /\ changes' \in 0..MaxChanges
  BY EditsKept DEF CatalogueInv
<1> QED BY <1>1 DEF CatalogueInv, CatalogueTables, CodesUnique

\* A short list of services is a sequence of them.
LEMMA ShortIsSeq ==
  ASSUME NEW S, NEW list \in ShortLists(S)
  PROVE  list \in Seq(S)
<1>1. CASE list = <<>>
  BY <1>1
<1>2. ASSUME NEW x \in S, list = <<x>>
      PROVE  list \in Seq(S)
  BY <1>2
<1> QED BY <1>1, <1>2 DEF ShortLists

\* Every step keeps the invariant.
LEMMA CatalogueStep ==
  ASSUME CatalogueInv, [CatalogueNext]_catalogueVars
  PROVE  CatalogueInv'
<1>t. /\ policies \in [Policies -> SUBSET Policy] /\ plans = [p \in Plans |-> plans[p]]
      /\ \A p \in Plans : \A v \in plans[p] : v.entries \in Seq(Services)
      /\ bought \in [CatalogParts -> SUBSET Estimates] /\ changes \in 0..MaxChanges
      /\ edits = [w \in CatalogEditors |-> edits[w]] /\ CatalogueTables
  BY DEF CatalogueInv, CatalogueTables
<1>1. ASSUME NEW s \in Services, NEW category \in Categories, NEW own, NEW term, NEW q, NEW ps, NEW given,
             CreateService(s, category, own, term, q, ps, given)
      PROVE  CatalogueInv'
  <2> DEFINE v == NewService(category, own, term, q, Costed(ps, <<>>))
  <2>1. v = [c \in Columns |-> v[c]] /\ v.category = category
    BY DEF NewService, Columns
  <2>2. Insert(s, v, given) /\ Change /\ UNCHANGED <<policies, plans, bought, edits>>
    BY <1>1 DEF CreateService
  <2> HIDE DEF v
  <2> QED BY <2>1, <2>2, InsertKeeps
<1>2. ASSUME NEW s \in Services, NEW original \in Services, DuplicateService(s, original)
      PROVE  CatalogueInv'
  <2>1. PICK v \in services[original] :
          /\ Insert(s, [v EXCEPT !.active = TRUE, !.parts = Costed([l \in 1..Len(v.parts) |-> v.parts[l].part], <<>>)], {})
          /\ Change /\ UNCHANGED <<policies, plans, bought, edits>>
    BY <1>2 DEF DuplicateService
  <2>2. IsService(v)
    BY <1>t DEF CatalogueTables
  <2>3. PICK list : Insert(s, [v EXCEPT !.active = TRUE, !.parts = list], {})
    BY <2>1
  <2> DEFINE x == [v EXCEPT !.active = TRUE, !.parts = list]
  <2>4. x = [c \in Columns |-> x[c]] /\ x.category \in Categories
    BY <2>2 DEF IsService, Columns
  <2>5. Insert(s, x, {})
    BY <2>3
  <2> HIDE DEF x
  <2> QED BY <2>1, <2>4, <2>5, InsertKeeps
<1>3. ASSUME NEW w \in CatalogEditors, NEW x, OpenEdit(w, x)
      PROVE  CatalogueInv'
  <2>1. PICK v : edits' = [edits EXCEPT ![w] = {[of |-> x, row |-> v, stale |-> FALSE]}]
    BY <1>3 DEF OpenEdit
  <2>2. UNCHANGED <<services, policies, plans, bought, changes>>
    BY <1>3 DEF OpenEdit
  <2>3. /\ edits' = [y \in CatalogEditors |-> edits'[y]]
        /\ \A y \in CatalogEditors : \A e \in edits'[y] : e = [of |-> e.of, row |-> e.row, stale |-> e.stale] /\ e.stale \in BOOLEAN
    <3>1. edits'[w] = {[of |-> x, row |-> v, stale |-> FALSE]} /\ \A y \in CatalogEditors \ {w} : edits'[y] = edits[y]
      BY <1>t, <2>1
    <3>2. edits' = [y \in CatalogEditors |-> edits'[y]]
      BY <1>t, <2>1
    <3>3. ASSUME NEW y \in CatalogEditors, NEW e \in edits'[y]
          PROVE  e = [of |-> e.of, row |-> e.row, stale |-> e.stale] /\ e.stale \in BOOLEAN
      <4>1. CASE y = w
        <5>1. e = [of |-> x, row |-> v, stale |-> FALSE]
          BY <3>1, <3>3, <4>1
        <5> QED BY <5>1
      <4>2. CASE y # w
        BY <3>1, <3>3, <4>2 DEF CatalogueInv, CatalogueTables
      <4> QED BY <4>1, <4>2
    <3> QED BY <3>2, <3>3
  <2> QED BY <2>2, <2>3 DEF CatalogueInv, CatalogueTables, CodesUnique
<1>4. ASSUME NEW p \in Policies, NEW v \in Policy, CreatePolicy(p, v)
      PROVE  CatalogueInv'
  <2>1. changes' \in 0..MaxChanges
    BY <1>4, <1>t, ChangesBounded DEF CreatePolicy
  <2>2. policies' \in [Policies -> SUBSET Policy] /\ UNCHANGED <<services, plans, bought, edits>>
    BY <1>4, <1>t DEF CreatePolicy
  <2> QED BY <1>t, <2>1, <2>2, CodesAside
<1>5. ASSUME NEW w \in CatalogEditors, NEW new \in Policy, SavePolicy(w, new)
      PROVE  CatalogueInv'
  <2>1. PICK e \in edits[w] : \E v \in Stored(e.of) :
          /\ e.of \in Policies
          /\ policies' = [policies EXCEPT ![e.of] = {Written(v, e.row, new)}]
          /\ EditDone(w, FALSE)
          /\ UNCHANGED <<services, plans, bought>>
    BY <1>5 DEF SavePolicy
  <2>2. PICK v \in Stored(e.of) :
          /\ e.of \in Policies
          /\ policies' = [policies EXCEPT ![e.of] = {Written(v, e.row, new)}]
          /\ EditDone(w, FALSE)
          /\ UNCHANGED <<services, plans, bought>>
    BY <2>1
  <2>3. v \in Policy
    BY <1>t, <2>2, CatalogueAssumption DEF Stored
  <2>4. Written(v, e.row, new) \in Policy
    BY <2>3, WrittenPolicy
  <2>5. policies' \in [Policies -> SUBSET Policy]
    BY <1>t, <2>2, <2>4
  <2> QED BY <1>t, <2>2, <2>5, SaveOtherKeeps
<1>6. ASSUME NEW p \in Plans, NEW list \in ShortLists(Services), CreatePlan(p, list)
      PROVE  CatalogueInv'
  <2>1. changes' \in 0..MaxChanges
    BY <1>6, <1>t, ChangesBounded DEF CreatePlan
  <2>2. plans' = [plans EXCEPT ![p] = {[entries |-> list]}] /\ UNCHANGED <<services, policies, bought, edits>>
    BY <1>6 DEF CreatePlan
  <2>3. plans' = [x \in Plans |-> plans'[x]] /\ \A x \in Plans : \A v \in plans'[x] : v.entries \in Seq(Services)
    <3>1. list \in Seq(Services)
      BY ShortIsSeq
    <3>2. plans'[p] = {[entries |-> list]} /\ \A x \in Plans \ {p} : plans'[x] = plans[x]
      BY <1>t, <2>2
    <3>3. plans' = [x \in Plans |-> plans'[x]]
      BY <1>t, <2>2
    <3>4. [entries |-> list].entries \in Seq(Services)
      BY <3>1
    <3> QED BY <1>t, <3>2, <3>3, <3>4
  <2> QED BY <1>t, <2>1, <2>2, <2>3, CodesAside
<1>7. ASSUME NEW w \in CatalogEditors, NEW list \in ShortLists(Services), SavePlan(w, list)
      PROVE  CatalogueInv'
  <2>1. PICK e \in edits[w] : \E v \in Stored(e.of) :
          /\ e.of \in Plans
          /\ plans' = [plans EXCEPT ![e.of] = {[entries |-> Replaced(v.entries, e, list)]}]
          /\ EditDone(w, TRUE)
          /\ UNCHANGED <<services, policies, bought>>
    BY <1>7 DEF SavePlan
  <2>2. PICK v \in Stored(e.of) :
          /\ e.of \in Plans
          /\ plans' = [plans EXCEPT ![e.of] = {[entries |-> Replaced(v.entries, e, list)]}]
          /\ EditDone(w, TRUE)
          /\ UNCHANGED <<services, policies, bought>>
    BY <2>1
  <2>3. v.entries \in Seq(Services) /\ list \in Seq(Services)
    BY <1>t, <2>2, CatalogueAssumption, ShortIsSeq DEF Stored
  <2>4. Replaced(v.entries, e, list) \in Seq(Services)
    BY <2>3 DEF Replaced
  <2>5. plans' = [x \in Plans |-> plans'[x]] /\ \A x \in Plans : \A y \in plans'[x] : y.entries \in Seq(Services)
    <3> DEFINE list2 == Replaced(v.entries, e, list)
    <3>1. plans'[e.of] = {[entries |-> list2]} /\ \A x \in Plans \ {e.of} : plans'[x] = plans[x]
      BY <1>t, <2>2
    <3>2. plans' = [x \in Plans |-> plans'[x]]
      BY <1>t, <2>2
    <3> HIDE DEF list2
    <3>3. [entries |-> list2].entries \in Seq(Services)
      BY <2>4 DEF list2
    <3> QED BY <1>t, <3>1, <3>2, <3>3
  <2> QED BY <1>t, <2>2, <2>5, SaveOtherKeeps
<1>8. ASSUME NEW p \in CatalogParts, NEW c \in Estimates, ReceivePart(p, c)
      PROVE  CatalogueInv'
  <2>1. changes' \in 0..MaxChanges
    BY <1>8, <1>t, ChangesBounded DEF ReceivePart
  <2>2. bought' \in [CatalogParts -> SUBSET Estimates] /\ UNCHANGED <<services, policies, plans, edits>>
    BY <1>8, <1>t DEF ReceivePart
  <2> QED BY <1>t, <2>1, <2>2, CodesAside
<1>9. CASE UNCHANGED catalogueVars
  BY <1>9, <1>t, CodesAside DEF catalogueVars
<1>10. CASE ServiceRoutes
  BY <1>10, <1>1, <1>2 DEF ServiceRoutes
<1>11. CASE ImportRoutes
  BY <1>11, ImportKeeps DEF ImportRoutes
<1>12. CASE EditRoutes
  BY <1>12, <1>3, SaveServiceKeeps DEF EditRoutes
<1>13. CASE PolicyRoutes
  BY <1>13, <1>4, <1>5 DEF PolicyRoutes
<1>14. CASE PlanRoutes
  BY <1>14, <1>6, <1>7 DEF PlanRoutes
<1> QED BY <1>8, <1>9, <1>10, <1>11, <1>12, <1>13, <1>14 DEF CatalogueNext

\* The inductive invariant holds.
LEMMA CatalogueHolds == CatalogueSpec => []CatalogueInv
<1>1. CatalogueInit => CatalogueInv
  BY CatalogueAssumption DEF CatalogueInit, CatalogueInv, CatalogueTables, CodesUnique
<1>2. CatalogueInv /\ [CatalogueNext]_catalogueVars => CatalogueInv'
  BY CatalogueStep
<1> QED BY <1>1, <1>2, PTL DEF CatalogueSpec

\* The catalogue's tables keep their columns' types.
THEOREM CatalogueTypeCorrect == CatalogueSpec => []CatalogueTypeOK
<1>1. CatalogueInv => CatalogueTypeOK
  BY DEF CatalogueInv, CatalogueTables, CatalogueTypeOK, IsService
<1> QED BY <1>1, CatalogueHolds, PTL

\* Whatever editors change at once, deletions included, two services never have one code.
THEOREM CodesNeverRepeat == CatalogueSpec => []CodesUnique
<1>1. CatalogueInv => CodesUnique
  BY DEF CatalogueInv
<1> QED BY <1>1, CatalogueHolds, PTL

-----------------------------------------------------------------------------
(* Access: sessions and codes *)

\* What a list of rows is, whichever rows it holds.
LEMMA RowsAreASeq ==
  ASSUME NEW S, NEW n \in Nat, NEW f \in [1..n -> S]
  PROVE  f \in Seq(S) /\ Len(f) = n /\ DOMAIN f = 1..n
OBVIOUS

\* A session renews an earlier one; a code that was used is consumed.
RenewsEarlier == \A s \in DOMAIN sessions : sessions[s].renews < s
UsedConsumed ==
  /\ \A i \in DOMAIN recovered : recovered[i] \in DOMAIN codes /\ codes[recovered[i]].consumed
  /\ \A i \in DOMAIN verified : verified[i] \in DOMAIN codes /\ codes[verified[i]].consumed

AccessInv == AccessTypeOK /\ SessionsFollowAccount /\ RenewedOnce /\ RenewsEarlier
             /\ CodesUsedOnce /\ UsedConsumed

\* The parts that talk of the sessions, and those that talk of the codes.
SessionsOK ==
  /\ sessions \in Seq(RefreshSession) /\ Len(sessions) <= MaxSessions
  /\ \A s \in DOMAIN sessions : ~sessions[s].revoked =>
       /\ sessions[s].version = accounts[sessions[s].of].version
       /\ accounts[sessions[s].of].status = "activo"
  /\ RenewedOnce /\ RenewsEarlier
CodesOK ==
  /\ codes \in Seq(Challenge) /\ Len(codes) <= MaxCodes
  /\ \A c \in DOMAIN codes : ~codes[c].consumed => accounts[codes[c].of].status = "activo"
  /\ \A c, d \in DOMAIN codes :
       c # d /\ ~codes[c].consumed /\ ~codes[d].consumed
         => <<codes[c].of, codes[c].purpose>> # <<codes[d].of, codes[d].purpose>>
UsesOK ==
  /\ recovered \in Seq(1..MaxCodes) /\ verified \in Seq(1..MaxCodes)
  /\ \A i, j \in DOMAIN recovered : i # j => recovered[i] # recovered[j]
  /\ \A i, j \in DOMAIN verified : i # j => verified[i] # verified[j]
  /\ UsedConsumed
PeopleOK ==
  /\ accounts \in [Accounts -> Account] /\ officeOf \in [Employees -> Offices]
  /\ openOffices \subseteq Offices /\ holdingOpen \in BOOLEAN

\* The invariant, by the tables it talks of.
LEMMA AccessParts == AccessInv <=> SessionsOK /\ CodesOK /\ UsesOK /\ PeopleOK
BY DEF AccessInv, AccessTypeOK, SessionsFollowAccount, CodesUsedOnce, SessionsOK, CodesOK, UsesOK,
       PeopleOK

\* Sessions that are closed together, with the change of their accounts.
LEMMA SessionsClose ==
  ASSUME SessionsOK, NEW S,
         sessions' = [s \in DOMAIN sessions |-> [sessions[s] EXCEPT !.revoked = @ \/ sessions[s].of \in S]],
         \A a \in Accounts \ S : accounts'[a] = accounts[a]
  PROVE  SessionsOK'
<1> USE AccessAssumption
<1>1. /\ Len(sessions) \in Nat /\ DOMAIN sessions = 1..Len(sessions)
      /\ \A s \in DOMAIN sessions : sessions[s] \in RefreshSession
  BY DEF SessionsOK
<1>2. \A s \in DOMAIN sessions :
        /\ sessions'[s] \in RefreshSession
        /\ sessions'[s].of = sessions[s].of /\ sessions'[s].version = sessions[s].version
        /\ sessions'[s].renews = sessions[s].renews
        /\ sessions'[s].revoked <=> sessions[s].revoked \/ sessions[s].of \in S
  BY <1>1 DEF RefreshSession
<1>3. sessions' \in [1..Len(sessions) -> RefreshSession]
  BY <1>1, <1>2
<1>4. /\ sessions' \in Seq(RefreshSession) /\ Len(sessions') = Len(sessions)
      /\ DOMAIN sessions' = DOMAIN sessions
  BY <1>1, <1>3, RowsAreASeq
<1>5. ASSUME NEW s \in DOMAIN sessions, ~sessions'[s].revoked
      PROVE  /\ sessions'[s].version = accounts'[sessions'[s].of].version
             /\ accounts'[sessions'[s].of].status = "activo"
  <2>1. ~sessions[s].revoked /\ sessions[s].of \in Accounts \ S
    BY <1>1, <1>2, <1>5 DEF RefreshSession
  <2>2. /\ sessions[s].version = accounts[sessions[s].of].version
        /\ accounts[sessions[s].of].status = "activo"
    BY <2>1 DEF SessionsOK
  <2>3. accounts'[sessions[s].of] = accounts[sessions[s].of]
    BY <2>1
  <2> QED BY <1>2, <2>2, <2>3
<1>6. RenewedOnce'
  <2> SUFFICES ASSUME NEW s \in DOMAIN sessions, NEW t \in DOMAIN sessions
               PROVE  /\ s # t /\ sessions'[s].renews # 0 => sessions'[s].renews # sessions'[t].renews
                      /\ sessions'[s].renews = t => sessions'[t].revoked
    BY <1>4 DEF RenewedOnce
  <2>1. /\ s # t /\ sessions[s].renews # 0 => sessions[s].renews # sessions[t].renews
        /\ sessions[s].renews = t => sessions[t].revoked
    BY DEF SessionsOK, RenewedOnce
  <2> QED BY <1>2, <2>1
<1>7. RenewsEarlier'
  BY <1>2, <1>4 DEF SessionsOK, RenewsEarlier
<1> QED BY <1>4, <1>5, <1>6, <1>7 DEF SessionsOK

\* Codes that are consumed together, with the change of their accounts.
LEMMA CodesClose ==
  ASSUME CodesOK, UsesOK, NEW S,
         codes' = [c \in DOMAIN codes |-> [codes[c] EXCEPT !.consumed = @ \/ codes[c].of \in S]],
         \A a \in Accounts \ S : accounts'[a] = accounts[a]
  PROVE  /\ CodesOK' /\ Len(codes') = Len(codes) /\ DOMAIN codes' = DOMAIN codes
         /\ \A c \in DOMAIN codes : (codes'[c].consumed <=> codes[c].consumed \/ codes[c].of \in S)
<1> USE AccessAssumption
<1>1. /\ Len(codes) \in Nat /\ DOMAIN codes = 1..Len(codes)
      /\ \A c \in DOMAIN codes : codes[c] \in Challenge
  BY DEF CodesOK
<1>2. \A c \in DOMAIN codes :
        /\ codes'[c] \in Challenge
        /\ codes'[c].of = codes[c].of /\ codes'[c].purpose = codes[c].purpose
        /\ codes'[c].consumed <=> codes[c].consumed \/ codes[c].of \in S
  BY <1>1 DEF Challenge
<1>3. codes' \in [1..Len(codes) -> Challenge]
  BY <1>1, <1>2
<1>4. codes' \in Seq(Challenge) /\ Len(codes') = Len(codes) /\ DOMAIN codes' = DOMAIN codes
  BY <1>1, <1>3, RowsAreASeq
<1>5. ASSUME NEW c \in DOMAIN codes, ~codes'[c].consumed
      PROVE  accounts'[codes'[c].of].status = "activo"
  <2>1. ~codes[c].consumed /\ codes[c].of \in Accounts \ S
    BY <1>1, <1>2, <1>5 DEF Challenge, Accounts
  <2>2. accounts[codes[c].of].status = "activo"
    BY <2>1 DEF CodesOK
  <2> QED BY <1>2, <2>1, <2>2
<1>6. \A c, d \in DOMAIN codes :
       c # d /\ ~codes'[c].consumed /\ ~codes'[d].consumed
         => <<codes'[c].of, codes'[c].purpose>> # <<codes'[d].of, codes'[d].purpose>>
  <2> SUFFICES ASSUME NEW c \in DOMAIN codes, NEW d \in DOMAIN codes, c # d,
                      ~codes'[c].consumed, ~codes'[d].consumed
               PROVE  <<codes'[c].of, codes'[c].purpose>> # <<codes'[d].of, codes'[d].purpose>>
    OBVIOUS
  <2>1. ~codes[c].consumed /\ ~codes[d].consumed
    BY <1>2
  <2>2. <<codes[c].of, codes[c].purpose>> # <<codes[d].of, codes[d].purpose>>
    BY <2>1 DEF CodesOK
  <2> QED BY <1>2, <2>2
<1> QED BY <1>2, <1>4, <1>5, <1>6 DEF CodesOK

\* Used codes stay used while codes only get consumed and nothing uses another.
LEMMA UsesStay ==
  ASSUME UsesOK, UNCHANGED <<recovered, verified>>, DOMAIN codes \subseteq DOMAIN codes',
         \A c \in DOMAIN codes : codes[c].consumed => codes'[c].consumed
  PROVE  UsesOK'
BY DEF UsesOK, UsedConsumed

\* One more use, of a code that was open.
LEMMA UsedOnceMore ==
  ASSUME NEW used \in Seq(1..MaxCodes), NEW c \in 1..MaxCodes,
         \A i, j \in DOMAIN used : i # j => used[i] # used[j],
         \A i \in DOMAIN used : used[i] # c
  PROVE  LET more == Append(used, c) IN
         /\ more \in Seq(1..MaxCodes) /\ DOMAIN more = 1..Len(used) + 1
         /\ \A i \in 1..Len(used) : more[i] = used[i]
         /\ more[Len(used) + 1] = c
         /\ \A i, j \in DOMAIN more : i # j => more[i] # more[j]
OBVIOUS

\* Accounts with a new version are accounts.
LEMMA ClosingPeople ==
  ASSUME PeopleOK, NEW S, \A a \in S : accounts[a].version < MaxVersion
  PROVE  /\ NextVersions(S) \in [Accounts -> Account]
         /\ \A a \in Accounts \ S : NextVersions(S)[a] = accounts[a]
<1> USE AccessAssumption
<1>1. \A a \in Accounts : accounts[a] \in Account
  BY DEF PeopleOK
<1>2. ASSUME NEW a \in Accounts
      PROVE  [accounts[a] EXCEPT !.version = IF a \in S THEN @ + 1 ELSE @] \in Account
  BY <1>1 DEF Account
<1>3. ASSUME NEW a \in Accounts \ S
      PROVE  [accounts[a] EXCEPT !.version = IF a \in S THEN @ + 1 ELSE @] = accounts[a]
  BY <1>1 DEF Account
<1> QED BY <1>2, <1>3 DEF NextVersions

\* Accounts are closed, and used codes stay used.
LEMMA RevokeKeeps ==
  ASSUME AccessInv, NEW S, RevokeAccounts(S)
  PROVE  /\ SessionsOK' /\ CodesOK' /\ accounts' \in [Accounts -> Account]
         /\ DOMAIN codes' = DOMAIN codes
         /\ \A c \in DOMAIN codes : (codes'[c].consumed <=> codes[c].consumed \/ codes[c].of \in S)
BY AccessParts, ClosingPeople, SessionsClose, CodesClose DEF RevokeAccounts, PeopleOK

\* A new session, of an available account and of its version.
LEMMA SessionOpens ==
  ASSUME AccessInv, NEW a \in Accounts, AccountAvailable(a), Len(sessions) < MaxSessions,
         NEW s \in 0..Len(sessions), NEW before \in Seq(RefreshSession),
         DOMAIN before = DOMAIN sessions, Len(before) = Len(sessions),
         \A t \in DOMAIN sessions :
           /\ before[t].of = sessions[t].of /\ before[t].version = sessions[t].version
           /\ before[t].renews = sessions[t].renews
           /\ before[t].revoked <=> sessions[t].revoked \/ t = s,
         s # 0 => ~sessions[s].revoked,
         sessions' = Append(before, Issued(a, s)),
         UNCHANGED <<accounts, officeOf, openOffices, holdingOpen, codes, recovered, verified>>
  PROVE  AccessInv'
<1> USE AccessAssumption
<1> DEFINE n == Len(sessions)
           new == Issued(a, s)
<1>1. n \in Nat /\ DOMAIN sessions = 1..n /\ \A t \in 1..n : sessions[t] \in RefreshSession
  BY AccessParts DEF SessionsOK
<1>2. accounts[a] \in Account
  BY AccessParts DEF PeopleOK
<1>3. new \in RefreshSession /\ new.of = a /\ new.version = accounts[a].version /\ new.renews = s
      /\ ~new.revoked
  BY <1>1, <1>2 DEF Issued, RefreshSession, Account
<1> HIDE DEF new
<1>4. /\ sessions' \in Seq(RefreshSession) /\ Len(sessions') = n + 1 /\ DOMAIN sessions' = 1..n + 1
      /\ \A t \in 1..n : sessions'[t] = before[t]
      /\ sessions'[n + 1] = new
  BY <1>1, <1>3 DEF new
<1>5. ASSUME NEW t \in 1..n + 1, ~sessions'[t].revoked
      PROVE  /\ sessions'[t].version = accounts'[sessions'[t].of].version
             /\ accounts'[sessions'[t].of].status = "activo"
  <2>1. CASE t = n + 1
    BY <1>3, <1>4, <2>1 DEF AccountAvailable
  <2>2. CASE t \in 1..n
    BY <1>1, <1>4, <1>5, <2>2, AccessParts DEF SessionsOK
  <2> QED BY <1>1, <2>1, <2>2
<1>6. RenewsEarlier'
  BY <1>1, <1>3, <1>4, AccessParts DEF SessionsOK, RenewsEarlier
<1>7. ASSUME NEW t \in 1..n, NEW u \in 1..n
      PROVE  /\ t # u /\ sessions'[t].renews # 0 => sessions'[t].renews # sessions'[u].renews
             /\ sessions'[t].renews = u => sessions'[u].revoked
  BY <1>1, <1>4, AccessParts DEF SessionsOK, RenewedOnce
<1>8. ASSUME NEW t \in 1..n
      PROVE  /\ sessions'[t].renews # 0 => sessions'[t].renews # sessions'[n + 1].renews
             /\ sessions'[n + 1].renews # 0 => sessions'[n + 1].renews # sessions'[t].renews
             /\ sessions'[n + 1].renews = t => sessions'[t].revoked
             /\ sessions'[t].renews # n + 1
  <2>1. sessions[t].renews < t /\ sessions[t].renews \in Int
    <3>1. sessions[t].renews < t
      BY <1>1, AccessParts DEF SessionsOK, RenewsEarlier
    <3> QED BY <1>1, <3>1 DEF RefreshSession
  <2>2. s # 0 => s \in 1..n /\ sessions[t].renews # s
    BY <1>1, AccessParts DEF SessionsOK, RenewedOnce
  <2> QED BY <1>1, <1>3, <1>4, <2>1, <2>2
<1>9. sessions'[n + 1].renews # n + 1
  BY <1>1, <1>3, <1>4
<1>10. RenewedOnce'
  <2> SUFFICES ASSUME NEW t \in 1..n + 1, NEW u \in 1..n + 1
               PROVE  /\ t # u /\ sessions'[t].renews # 0 => sessions'[t].renews # sessions'[u].renews
                      /\ sessions'[t].renews = u => sessions'[u].revoked
    BY <1>4 DEF RenewedOnce
  <2>1. (t \in 1..n \/ t = n + 1) /\ (u \in 1..n \/ u = n + 1)
    BY <1>1
  <2> QED BY <1>7, <1>8, <1>9, <2>1
<1>11. SessionsOK'
  BY <1>1, <1>4, <1>5, <1>6, <1>10 DEF SessionsOK
<1>12. CodesOK' /\ UsesOK' /\ PeopleOK'
  BY AccessParts DEF CodesOK, UsesOK, UsedConsumed, PeopleOK
<1> QED BY <1>11, <1>12, AccessParts, PTL
\* What leaves the sessions and the accounts alone and uses no code.
LEMMA OnlyCodes ==
  ASSUME AccessInv, CodesOK', UNCHANGED <<accounts, officeOf, openOffices, holdingOpen, sessions>>,
         UNCHANGED <<recovered, verified>>, DOMAIN codes \subseteq DOMAIN codes',
         \A c \in DOMAIN codes : codes[c].consumed => codes'[c].consumed
  PROVE  AccessInv'
<1>1. SessionsOK' /\ PeopleOK'
  BY AccessParts DEF SessionsOK, RenewedOnce, RenewsEarlier, PeopleOK
<1> QED BY <1>1, UsesStay, AccessParts, PTL

\* What leaves the codes, the sessions and each account's row alone.
LEMMA OnlyOffices ==
  ASSUME AccessInv, UNCHANGED <<accounts, sessions, codes, recovered, verified>>, PeopleOK'
  PROVE  AccessInv'
<1>1. SessionsOK' /\ CodesOK' /\ UsesOK'
  BY AccessParts DEF SessionsOK, RenewedOnce, RenewsEarlier, CodesOK, UsesOK, UsedConsumed
<1> QED BY <1>1, AccessParts, PTL

\* Logins, renewals and logouts keep the invariant.
LEMMA SessionSteps ==
  ASSUME AccessInv, SessionRoutes
  PROVE  AccessInv'
<1>a. /\ Len(sessions) \in Nat /\ DOMAIN sessions = 1..Len(sessions) /\ sessions \in Seq(RefreshSession)
      /\ \A s \in DOMAIN sessions : sessions[s] \in RefreshSession
  BY AccessParts DEF SessionsOK
<1>1. ASSUME NEW a \in Accounts, Login(a)
      PROVE  AccessInv'
  BY <1>a, <1>1, SessionOpens DEF Login
<1>2. ASSUME NEW s \in DOMAIN sessions, Refresh(s)
      PROVE  AccessInv'
  <2> DEFINE before == [sessions EXCEPT ![s].revoked = TRUE]
  <2>1. \A t \in 1..Len(sessions) :
          /\ before[t] \in RefreshSession
          /\ before[t].of = sessions[t].of /\ before[t].version = sessions[t].version
          /\ before[t].renews = sessions[t].renews
          /\ before[t].revoked <=> sessions[t].revoked \/ t = s
    BY <1>a DEF RefreshSession
  <2>2. before \in [1..Len(sessions) -> RefreshSession]
    BY <1>a, <2>1
  <2>3. before \in Seq(RefreshSession) /\ DOMAIN before = DOMAIN sessions /\ Len(before) = Len(sessions)
    BY <1>a, <2>2, RowsAreASeq
  <2>4. /\ sessions' = Append(before, Issued(sessions[s].of, s)) /\ sessions[s].of \in Accounts
        /\ ~sessions[s].revoked /\ s \in 0..Len(sessions)
    BY <1>a, <1>2 DEF Refresh, RefreshSession
  <2>5. /\ AccountAvailable(sessions[s].of) /\ Len(sessions) < MaxSessions
        /\ UNCHANGED <<accounts, officeOf, openOffices, holdingOpen, codes, recovered, verified>>
    BY <1>2 DEF Refresh
  <2>6. \A t \in DOMAIN sessions :
          /\ before[t].of = sessions[t].of /\ before[t].version = sessions[t].version
          /\ before[t].renews = sessions[t].renews
          /\ before[t].revoked <=> sessions[t].revoked \/ t = s
    BY <1>a, <2>1
  <2> HIDE DEF before
  <2> QED BY <2>3, <2>4, <2>5, <2>6, SessionOpens
<1>3. ASSUME NEW s \in DOMAIN sessions, Logout(s)
      PROVE  AccessInv'
  <2>1. \A t \in 1..Len(sessions) :
          /\ sessions'[t] \in RefreshSession
          /\ sessions'[t].of = sessions[t].of /\ sessions'[t].version = sessions[t].version
          /\ sessions'[t].renews = sessions[t].renews
          /\ sessions'[t].revoked <=> sessions[t].revoked \/ t = s
    BY <1>a, <1>3 DEF Logout, RefreshSession
  <2>2. sessions' \in [1..Len(sessions) -> RefreshSession]
    BY <1>a, <1>3, <2>1 DEF Logout
  <2>3. sessions' \in Seq(RefreshSession) /\ DOMAIN sessions' = DOMAIN sessions /\ Len(sessions') = Len(sessions)
    BY <1>a, <2>2, RowsAreASeq
  <2>4. ASSUME NEW t \in DOMAIN sessions, ~sessions'[t].revoked
        PROVE  /\ sessions'[t].version = accounts[sessions'[t].of].version
               /\ accounts[sessions'[t].of].status = "activo"
    BY <1>a, <2>1, <2>4, AccessParts DEF SessionsOK
  <2>5. RenewedOnce'
    <3> SUFFICES ASSUME NEW i \in DOMAIN sessions, NEW j \in DOMAIN sessions
                 PROVE  /\ i # j /\ sessions'[i].renews # 0 => sessions'[i].renews # sessions'[j].renews
                        /\ sessions'[i].renews = j => sessions'[j].revoked
      BY <2>3 DEF RenewedOnce
    <3>1. /\ i # j /\ sessions[i].renews # 0 => sessions[i].renews # sessions[j].renews
          /\ sessions[i].renews = j => sessions[j].revoked
      BY AccessParts DEF SessionsOK, RenewedOnce
    <3> QED BY <1>a, <2>1, <3>1
  <2>6. RenewsEarlier'
    BY <1>a, <2>1, <2>3, AccessParts DEF SessionsOK, RenewsEarlier
  <2>7. UNCHANGED <<accounts, officeOf, openOffices, holdingOpen, codes, recovered, verified>>
    BY <1>3 DEF Logout
  <2>8. SessionsOK'
    BY <2>3, <2>4, <2>5, <2>6, <2>7, AccessParts DEF SessionsOK
  <2>9. CodesOK' /\ UsesOK' /\ PeopleOK'
    BY <2>7, AccessParts DEF CodesOK, UsesOK, UsedConsumed, PeopleOK
  <2> QED BY <2>8, <2>9, AccessParts, PTL
<1>4. ASSUME NEW s \in DOMAIN sessions, SwitchContext(s)
      PROVE  AccessInv'
  <2>1. sessions[s].of \in Accounts /\ AccountAvailable(sessions[s].of)
    BY <1>a, <1>4 DEF SwitchContext, Authenticated, RefreshSession
  <2> QED BY <1>a, <1>4, <2>1, SessionOpens DEF SwitchContext
<1> QED BY <1>1, <1>2, <1>3, <1>4 DEF SessionRoutes

\* A minute passes, or a code is missed: no row changes its account, purpose or use.
LEMMA CodesAge ==
  ASSUME AccessInv, UNCHANGED <<accounts, officeOf, openOffices, holdingOpen, sessions>>,
         UNCHANGED <<recovered, verified>>,
         codes' \in [1..Len(codes) -> Challenge],
         \A c \in DOMAIN codes : /\ codes'[c].of = codes[c].of /\ codes'[c].purpose = codes[c].purpose
                                 /\ codes'[c].consumed <=> codes[c].consumed
  PROVE  AccessInv'
<1>a. Len(codes) \in Nat /\ DOMAIN codes = 1..Len(codes)
  BY AccessParts DEF CodesOK
<1>1. codes' \in Seq(Challenge) /\ DOMAIN codes' = DOMAIN codes /\ Len(codes') = Len(codes)
  BY <1>a, RowsAreASeq
<1>2. ASSUME NEW c \in DOMAIN codes, ~codes'[c].consumed
      PROVE  accounts[codes'[c].of].status = "activo"
  BY <1>2, AccessParts DEF CodesOK
<1>3. ASSUME NEW c \in DOMAIN codes, NEW d \in DOMAIN codes, c # d,
             ~codes'[c].consumed, ~codes'[d].consumed
      PROVE  <<codes'[c].of, codes'[c].purpose>> # <<codes'[d].of, codes'[d].purpose>>
  <2>1. <<codes[c].of, codes[c].purpose>> # <<codes[d].of, codes[d].purpose>>
    BY <1>3, AccessParts DEF CodesOK
  <2> QED BY <2>1
<1>4. CodesOK'
  BY <1>1, <1>2, <1>3, AccessParts DEF CodesOK
<1> QED BY <1>1, <1>4, OnlyCodes

\* A new code: the open ones of its account and purpose are consumed with it.
LEMMA CodeIssued ==
  ASSUME AccessInv, NEW a \in Directors, NEW purpose \in Purposes, Issue(a, purpose)
  PROVE  AccessInv'
<1> USE AccessAssumption
<1> DEFINE n == Len(codes)
           before == Supersede(a, purpose)
           new == NewCode(a, purpose)
<1>1. n \in Nat /\ DOMAIN codes = 1..n /\ \A c \in 1..n : codes[c] \in Challenge
  BY AccessParts DEF CodesOK
<1>2. \A c \in 1..n :
        /\ before[c] \in Challenge
        /\ before[c].of = codes[c].of /\ before[c].purpose = codes[c].purpose
        /\ before[c].consumed <=> codes[c].consumed \/ (codes[c].of = a /\ codes[c].purpose = purpose)
  BY <1>1 DEF Supersede, Challenge
<1>3. before \in [1..n -> Challenge]
  BY <1>1, <1>2 DEF Supersede
<1>4. before \in Seq(Challenge) /\ DOMAIN before = 1..n /\ Len(before) = n
  BY <1>1, <1>3, RowsAreASeq
<1>5. new \in Challenge /\ new.of = a /\ new.purpose = purpose /\ ~new.consumed
  BY DEF NewCode, Challenge
<1>6. /\ codes' = Append(before, new) /\ n < MaxCodes /\ AccountAvailable(a)
      /\ UNCHANGED <<accounts, officeOf, openOffices, holdingOpen, sessions, recovered, verified>>
  BY DEF Issue, Recoverable
<1> HIDE DEF before, new
<1>7. /\ codes' \in Seq(Challenge) /\ Len(codes') = n + 1 /\ DOMAIN codes' = 1..n + 1
      /\ \A c \in 1..n : codes'[c] = before[c]
      /\ codes'[n + 1] = new
  BY <1>1, <1>4, <1>5, <1>6
<1> HIDE DEF n
<1>8. \A c \in 1..n + 1 : c \in 1..n \/ c = n + 1
  BY <1>1
<1>9. ASSUME NEW c \in 1..n + 1, ~codes'[c].consumed
      PROVE  accounts[codes'[c].of].status = "activo"
  <2>1. CASE c = n + 1
    BY <1>5, <1>6, <1>7, <2>1 DEF AccountAvailable
  <2>2. CASE c \in 1..n
    <3>1. ~codes[c].consumed
      BY <1>2, <1>7, <1>9, <2>2
    <3>2. accounts[codes[c].of].status = "activo"
      BY <1>1, <2>2, <3>1, AccessParts DEF CodesOK
    <3> QED BY <1>2, <1>7, <2>2, <3>2
  <2> QED BY <1>8, <2>1, <2>2
<1>10. ASSUME NEW c \in 1..n, ~codes'[c].consumed
       PROVE  <<codes'[c].of, codes'[c].purpose>> # <<a, purpose>>
  BY <1>2, <1>7, <1>10
<1>11. ASSUME NEW c \in 1..n, NEW d \in 1..n, c # d, ~codes'[c].consumed, ~codes'[d].consumed
       PROVE  <<codes'[c].of, codes'[c].purpose>> # <<codes'[d].of, codes'[d].purpose>>
  <2>1. ~codes[c].consumed /\ ~codes[d].consumed
    BY <1>2, <1>7, <1>11
  <2>2. <<codes[c].of, codes[c].purpose>> # <<codes[d].of, codes[d].purpose>>
    BY <1>1, <1>11, <2>1, AccessParts DEF CodesOK
  <2> QED BY <1>2, <1>7, <2>2
<1>12. \A c, d \in 1..n + 1 : c # d /\ ~codes'[c].consumed /\ ~codes'[d].consumed
         => <<codes'[c].of, codes'[c].purpose>> # <<codes'[d].of, codes'[d].purpose>>
  <2> SUFFICES ASSUME NEW c \in 1..n + 1, NEW d \in 1..n + 1, c # d,
                      ~codes'[c].consumed, ~codes'[d].consumed
               PROVE  <<codes'[c].of, codes'[c].purpose>> # <<codes'[d].of, codes'[d].purpose>>
    OBVIOUS
  <2>1. CASE c = n + 1
    <3>1. d \in 1..n
      BY <1>8, <2>1
    <3> QED BY <1>5, <1>7, <1>10, <2>1, <3>1
  <2>2. CASE d = n + 1
    <3>1. c \in 1..n
      BY <1>8, <2>2
    <3> QED BY <1>5, <1>7, <1>10, <2>2, <3>1
  <2>3. CASE c \in 1..n /\ d \in 1..n
    BY <1>11, <2>3
  <2> QED BY <1>8, <2>1, <2>2, <2>3
<1>13. Len(codes') <= MaxCodes
  BY <1>1, <1>6, <1>7 DEF n
<1>14. CodesOK'
  BY <1>6, <1>7, <1>9, <1>12, <1>13 DEF CodesOK
<1>15. /\ DOMAIN codes \subseteq DOMAIN codes'
       /\ \A c \in DOMAIN codes : codes[c].consumed => codes'[c].consumed
  BY <1>1, <1>2, <1>7
<1> QED BY <1>6, <1>14, <1>15, OnlyCodes

\* So do recovery and verification codes.
LEMMA RecoverySteps ==
  ASSUME AccessInv, RecoveryRoutes
  PROVE  AccessInv'
<1> USE AccessAssumption
<1>a. /\ Len(codes) \in Nat /\ DOMAIN codes = 1..Len(codes) /\ Len(codes) <= MaxCodes
      /\ \A c \in DOMAIN codes : codes[c] \in Challenge
      /\ codes \in [1..Len(codes) -> Challenge]
  BY AccessParts DEF CodesOK
<1>b. \A s \in DOMAIN sessions : sessions[s] \in RefreshSession
  BY AccessParts DEF SessionsOK
<1>1. ASSUME NEW a \in Directors, RequestReset(a)
      PROVE  AccessInv'
  BY <1>1, CodeIssued DEF RequestReset, Purposes
<1>2. ASSUME NEW s \in DOMAIN sessions, RequestPhone(s)
      PROVE  AccessInv'
  BY <1>2, CodeIssued DEF RequestPhone, Purposes
<1>3. ASSUME NEW c \in DOMAIN codes, MissCode(c)
      PROVE  AccessInv'
  <2>1. codes[c].attempts < CodeAttempts /\ codes' = [codes EXCEPT ![c].attempts = @ + 1]
        /\ UNCHANGED <<accounts, officeOf, openOffices, holdingOpen, sessions, recovered, verified>>
    BY <1>3 DEF MissCode, Verifiable
  <2>2. \A d \in DOMAIN codes :
          /\ codes'[d] \in Challenge
          /\ codes'[d].of = codes[d].of /\ codes'[d].purpose = codes[d].purpose
          /\ codes'[d].consumed <=> codes[d].consumed
    <3>1. codes[c].attempts + 1 \in 0..CodeAttempts
      BY <1>a, <2>1 DEF Challenge
    <3> QED BY <1>a, <2>1, <3>1 DEF Challenge
  <2>3. codes' \in [1..Len(codes) -> Challenge]
    BY <1>a, <2>1, <2>2
  <2> QED BY <2>1, <2>2, <2>3, CodesAge
<1>4. ASSUME NEW c \in DOMAIN codes, ResetWithCode(c)
      PROVE  AccessInv'
  <2>1. /\ SessionsOK' /\ CodesOK' /\ accounts' \in [Accounts -> Account]
        /\ DOMAIN codes' = DOMAIN codes
        /\ \A d \in DOMAIN codes : (codes'[d].consumed <=> codes[d].consumed \/ codes[d].of \in {codes[c].of})
    BY <1>4, RevokeKeeps DEF ResetWithCode
  <2>2. ~codes[c].consumed /\ recovered' = Append(recovered, c)
        /\ UNCHANGED <<officeOf, openOffices, holdingOpen, verified>>
    BY <1>4 DEF ResetWithCode, Verifiable
  <2>3. c \in 1..MaxCodes /\ UsesOK
    BY <1>a, AccessParts
  <2>4. \A i \in DOMAIN recovered : recovered[i] # c
    BY <2>2, <2>3 DEF UsesOK, UsedConsumed
  <2>5. /\ recovered' \in Seq(1..MaxCodes) /\ DOMAIN recovered' = 1..Len(recovered) + 1
        /\ \A i \in 1..Len(recovered) : recovered'[i] = recovered[i]
        /\ recovered'[Len(recovered) + 1] = c
        /\ \A i, j \in DOMAIN recovered' : i # j => recovered'[i] # recovered'[j]
    BY <2>2, <2>3, <2>4, UsedOnceMore DEF UsesOK
  <2>6. UsedConsumed'
    <3>1. ASSUME NEW i \in DOMAIN recovered'
          PROVE  recovered'[i] \in DOMAIN codes' /\ codes'[recovered'[i]].consumed
      <4>1. Len(recovered) \in Nat /\ DOMAIN recovered = 1..Len(recovered)
        BY <2>3 DEF UsesOK
      <4>2. CASE i \in 1..Len(recovered)
        BY <2>1, <2>3, <2>5, <4>1, <4>2 DEF UsesOK, UsedConsumed
      <4>3. CASE i = Len(recovered) + 1
        BY <2>1, <2>5, <4>3
      <4> QED BY <2>5, <4>1, <4>2, <4>3
    <3>2. ASSUME NEW i \in DOMAIN verified'
          PROVE  verified'[i] \in DOMAIN codes' /\ codes'[verified'[i]].consumed
      BY <2>1, <2>2, <2>3 DEF UsesOK, UsedConsumed
    <3> QED BY <3>1, <3>2 DEF UsedConsumed
  <2>7. UsesOK'
    BY <2>2, <2>3, <2>5, <2>6 DEF UsesOK
  <2>8. PeopleOK'
    BY <2>1, <2>2, AccessParts DEF PeopleOK
  <2> QED BY <2>1, <2>7, <2>8, AccessParts, PTL
<1>5. ASSUME NEW c \in DOMAIN codes, NEW s \in DOMAIN sessions, VerifyPhone(s, c)
      PROVE  AccessInv'
  <2>1. ~codes[c].consumed /\ verified' = Append(verified, c)
        /\ codes' = [codes EXCEPT ![c].consumed = TRUE]
        /\ UNCHANGED <<accounts, officeOf, openOffices, holdingOpen, sessions, recovered>>
    BY <1>5 DEF VerifyPhone, Verifiable
  <2>2. \A d \in DOMAIN codes :
          /\ codes'[d] \in Challenge
          /\ codes'[d].of = codes[d].of /\ codes'[d].purpose = codes[d].purpose
          /\ codes'[d].consumed <=> codes[d].consumed \/ d = c
    BY <1>a, <2>1 DEF Challenge
  <2>3. codes' \in [1..Len(codes) -> Challenge]
    BY <1>a, <2>1, <2>2
  <2>4. codes' \in Seq(Challenge) /\ DOMAIN codes' = DOMAIN codes /\ Len(codes') = Len(codes)
    BY <1>a, <2>3, RowsAreASeq
  <2>5. ASSUME NEW d \in DOMAIN codes, ~codes'[d].consumed
        PROVE  accounts[codes'[d].of].status = "activo"
    <3>1. ~codes[d].consumed /\ codes'[d].of = codes[d].of
      BY <2>2, <2>5
    <3> QED BY <3>1, AccessParts DEF CodesOK
  <2>6. ASSUME NEW d \in DOMAIN codes, NEW e \in DOMAIN codes, d # e,
               ~codes'[d].consumed, ~codes'[e].consumed
        PROVE  <<codes'[d].of, codes'[d].purpose>> # <<codes'[e].of, codes'[e].purpose>>
    <3>1. ~codes[d].consumed /\ ~codes[e].consumed
      BY <2>2, <2>6
    <3>2. <<codes[d].of, codes[d].purpose>> # <<codes[e].of, codes[e].purpose>>
      BY <2>6, <3>1, AccessParts DEF CodesOK
    <3>3. /\ codes'[d].of = codes[d].of /\ codes'[d].purpose = codes[d].purpose
          /\ codes'[e].of = codes[e].of /\ codes'[e].purpose = codes[e].purpose
      BY <2>2
    <3> QED BY <3>2, <3>3
  <2>7. CodesOK'
    BY <1>a, <2>1, <2>4, <2>5, <2>6 DEF CodesOK
  <2>8. c \in 1..MaxCodes /\ UsesOK
    BY <1>a, AccessParts
  <2>9. \A i \in DOMAIN verified : verified[i] # c
    BY <2>1, <2>8 DEF UsesOK, UsedConsumed
  <2>10. /\ verified' \in Seq(1..MaxCodes) /\ DOMAIN verified' = 1..Len(verified) + 1
         /\ \A i \in 1..Len(verified) : verified'[i] = verified[i]
         /\ verified'[Len(verified) + 1] = c
         /\ \A i, j \in DOMAIN verified' : i # j => verified'[i] # verified'[j]
    BY <2>1, <2>8, <2>9, UsedOnceMore DEF UsesOK
  <2>11. UsedConsumed'
    <3>1. ASSUME NEW i \in DOMAIN verified'
          PROVE  verified'[i] \in DOMAIN codes' /\ codes'[verified'[i]].consumed
      <4>1. Len(verified) \in Nat /\ DOMAIN verified = 1..Len(verified)
        BY <2>8 DEF UsesOK
      <4>2. CASE i \in 1..Len(verified)
        BY <2>2, <2>4, <2>8, <2>10, <4>1, <4>2 DEF UsesOK, UsedConsumed
      <4>3. CASE i = Len(verified) + 1
        BY <2>2, <2>4, <2>10, <4>3
      <4> QED BY <2>10, <4>1, <4>2, <4>3
    <3>2. ASSUME NEW i \in DOMAIN recovered'
          PROVE  recovered'[i] \in DOMAIN codes' /\ codes'[recovered'[i]].consumed
      BY <2>1, <2>2, <2>4, <2>8 DEF UsesOK, UsedConsumed
    <3> QED BY <3>1, <3>2 DEF UsedConsumed
  <2>12. UsesOK'
    BY <2>1, <2>8, <2>10, <2>11 DEF UsesOK
  <2>13. PeopleOK' /\ SessionsOK'
    BY <2>1, AccessParts DEF PeopleOK, SessionsOK, RenewedOnce, RenewsEarlier
  <2> QED BY <2>7, <2>12, <2>13, AccessParts, PTL
<1> QED BY <1>1, <1>2, <1>3, <1>4, <1>5 DEF RecoveryRoutes

\* Accounts that are closed together, whatever becomes of their offices.
LEMMA RevokeStep ==
  ASSUME AccessInv, NEW S, RevokeAccounts(S), UNCHANGED <<recovered, verified>>,
         officeOf' \in [Employees -> Offices], openOffices' \subseteq Offices, holdingOpen' \in BOOLEAN
  PROVE  AccessInv'
<1>1. /\ SessionsOK' /\ CodesOK' /\ accounts' \in [Accounts -> Account]
      /\ DOMAIN codes' = DOMAIN codes
      /\ \A c \in DOMAIN codes : (codes'[c].consumed <=> codes[c].consumed \/ codes[c].of \in S)
  BY RevokeKeeps
<1>2. UsesOK'
  BY <1>1, UsesStay, AccessParts
<1>3. PeopleOK'
  BY <1>1 DEF PeopleOK
<1> QED BY <1>1, <1>2, <1>3, AccessParts, PTL

\* So do an account's new status, password or office.
LEMMA UserSteps ==
  ASSUME AccessInv, UserRoutes
  PROVE  AccessInv'
<1> USE AccessAssumption
<1>a. PeopleOK /\ UsesOK /\ SessionsOK /\ CodesOK
  BY AccessParts
<1>1. ASSUME NEW a \in Accounts, NEW status \in Statuses, ChangeUserStatus(a, status)
      PROVE  AccessInv'
  <2>0. UNCHANGED <<officeOf, openOffices, holdingOpen, recovered, verified>> /\ accounts[a] \in Account
    BY <1>1, <1>a DEF ChangeUserStatus, PeopleOK
  <2>1. CASE Suspends(a, status)
    <3>1. /\ accounts[a].version < MaxVersion
          /\ accounts' = [NextVersions({a}) EXCEPT ![a].status = status]
          /\ sessions' = [s \in DOMAIN sessions |-> [sessions[s] EXCEPT !.revoked = @ \/ sessions[s].of \in {a}]]
          /\ codes' = [c \in DOMAIN codes |-> [codes[c] EXCEPT !.consumed = @ \/ codes[c].of \in {a}]]
      BY <1>1, <2>1 DEF ChangeUserStatus
    <3>2. /\ NextVersions({a}) \in [Accounts -> Account]
          /\ \A b \in Accounts \ {a} : NextVersions({a})[b] = accounts[b]
      BY <1>a, <3>1, ClosingPeople
    <3>3. accounts' \in [Accounts -> Account] /\ \A b \in Accounts \ {a} : accounts'[b] = accounts[b]
      BY <3>1, <3>2 DEF Account
    <3>4. SessionsOK'
      BY <1>a, <3>1, <3>3, SessionsClose
    <3>5. /\ CodesOK' /\ DOMAIN codes' = DOMAIN codes
          /\ \A c \in DOMAIN codes : (codes'[c].consumed <=> codes[c].consumed \/ codes[c].of \in {a})
      BY <1>a, <3>1, <3>3, CodesClose
    <3>6. UsesOK' /\ PeopleOK'
      BY <1>a, <2>0, <3>3, <3>5, UsesStay DEF PeopleOK
    <3> QED BY <3>4, <3>5, <3>6, AccessParts, PTL
  <2>2. CASE ~Suspends(a, status)
    <3>1. accounts' = [accounts EXCEPT ![a].status = status] /\ UNCHANGED <<sessions, codes>>
      BY <1>1, <2>2 DEF ChangeUserStatus
    <3>2. status = "activo"
      BY <1>1, <2>2 DEF ChangeUserStatus, Suspends
    <3>3. /\ accounts' \in [Accounts -> Account]
          /\ \A b \in Accounts : /\ accounts'[b].version = accounts[b].version
                                 /\ accounts[b].status = "activo" => accounts'[b].status = "activo"
      BY <1>a, <3>1, <3>2 DEF PeopleOK, Account
    <3>4. PeopleOK' /\ UsesOK'
      BY <1>a, <2>0, <3>1, <3>3 DEF PeopleOK, UsesOK, UsedConsumed
    <3>5. /\ \A s \in DOMAIN sessions : sessions[s].of \in Accounts
          /\ \A c \in DOMAIN codes : codes[c].of \in Accounts
      <4>1. /\ \A s \in DOMAIN sessions : sessions[s] \in RefreshSession
            /\ \A c \in DOMAIN codes : codes[c] \in Challenge
        BY <1>a DEF SessionsOK, CodesOK
      <4> QED BY <4>1 DEF RefreshSession, Challenge, Accounts
    <3>6. ASSUME NEW s \in DOMAIN sessions, ~sessions[s].revoked
          PROVE  /\ sessions[s].version = accounts'[sessions[s].of].version
                 /\ accounts'[sessions[s].of].status = "activo"
      BY <1>a, <3>3, <3>5, <3>6 DEF SessionsOK
    <3>7. ASSUME NEW c \in DOMAIN codes, ~codes[c].consumed
          PROVE  accounts'[codes[c].of].status = "activo"
      BY <1>a, <3>3, <3>5, <3>7 DEF CodesOK
    <3>8. SessionsOK'
      BY <1>a, <3>1, <3>6 DEF SessionsOK, RenewedOnce, RenewsEarlier
    <3>9. CodesOK'
      BY <1>a, <3>1, <3>7 DEF CodesOK
    <3> QED BY <3>4, <3>8, <3>9, AccessParts, PTL
  <2> QED BY <2>1, <2>2
<1>2. ASSUME NEW a \in Employees, ResetPassword(a)
      PROVE  AccessInv'
  BY <1>2, <1>a, RevokeStep DEF ResetPassword, PeopleOK
<1>3. ASSUME NEW a \in Employees, NEW f \in Offices, MoveEmployee(a, f)
      PROVE  AccessInv'
  <2>1. PeopleOK'
    BY <1>3, <1>a DEF MoveEmployee, PeopleOK
  <2> QED BY <1>3, <2>1, OnlyOffices DEF MoveEmployee
<1> QED BY <1>1, <1>2, <1>3 DEF UserRoutes

\* So does suspending and activating an office or the holding.
LEMMA OrganizationSteps ==
  ASSUME AccessInv, OrganizationRoutes
  PROVE  AccessInv'
<1>a. PeopleOK
  BY AccessParts
<1>1. ASSUME NEW f \in Offices, SuspendOffice(f)
      PROVE  AccessInv'
  BY <1>1, <1>a, RevokeStep DEF SuspendOffice, PeopleOK
<1>2. CASE SuspendHolding
  BY <1>2, <1>a, RevokeStep DEF SuspendHolding, PeopleOK
<1>3. ASSUME NEW f \in Offices, ActivateOffice(f)
      PROVE  AccessInv'
  <2>1. PeopleOK'
    BY <1>3, <1>a DEF ActivateOffice, PeopleOK
  <2> QED BY <1>3, <2>1, OnlyOffices DEF ActivateOffice
<1>4. CASE ActivateHolding
  <2>1. PeopleOK'
    BY <1>4, <1>a DEF ActivateHolding, PeopleOK
  <2> QED BY <1>4, <2>1, OnlyOffices DEF ActivateHolding
<1> QED BY <1>1, <1>2, <1>3, <1>4 DEF OrganizationRoutes

\* So does time, which makes codes older.
LEMMA TimeStep ==
  ASSUME AccessInv, TimePasses
  PROVE  AccessInv'
<1>a. /\ Len(codes) \in Nat /\ DOMAIN codes = 1..Len(codes)
      /\ \A c \in DOMAIN codes : codes[c] \in Challenge
  BY AccessParts DEF CodesOK
<1>b. /\ codes' = [c \in DOMAIN codes |-> [codes[c] EXCEPT !.age = Older(@)]]
      /\ UNCHANGED <<accounts, officeOf, openOffices, holdingOpen, sessions, recovered, verified>>
  BY DEF TimePasses
<1>1. \A d \in DOMAIN codes :
          /\ codes'[d] \in Challenge
          /\ codes'[d].of = codes[d].of /\ codes'[d].purpose = codes[d].purpose
          /\ codes'[d].consumed <=> codes[d].consumed
  <2>1. \A x : Older(x) \in {"recent", "valid", "expired"}
    BY DEF Older
  <2> HIDE DEF Older
  <2>2. ASSUME NEW d \in DOMAIN codes
        PROVE  /\ codes'[d] \in Challenge
               /\ codes'[d].of = codes[d].of /\ codes'[d].purpose = codes[d].purpose
               /\ codes'[d].consumed = codes[d].consumed
    BY <1>a, <1>b, <2>1 DEF Challenge
  <2> QED BY <2>2
<1>2. codes' \in [1..Len(codes) -> Challenge]
  BY <1>a, <1>b, <1>1
<1> QED BY <1>b, <1>1, <1>2, CodesAge

\* The inductive invariant holds.
LEMMA AccessHolds == AccessSpec => []AccessInv
<1>1. AccessInit => AccessInv
  <2> SUFFICES ASSUME AccessInit PROVE AccessInv
    OBVIOUS
  <2>1. SessionsOK /\ CodesOK /\ UsesOK
    BY AccessAssumption DEF AccessInit, SessionsOK, RenewedOnce, RenewsEarlier, CodesOK, UsesOK,
                            UsedConsumed
  <2>2. PeopleOK
    BY AccessAssumption DEF AccessInit, PeopleOK, Account, Statuses
  <2> QED BY <2>1, <2>2, AccessParts
<1>2. AccessInv /\ [AccessNext]_accessVars => AccessInv'
  <2> SUFFICES ASSUME AccessInv, [AccessNext]_accessVars PROVE AccessInv'
    OBVIOUS
  <2>1. CASE UNCHANGED accessVars
    <3>1. PeopleOK'
      BY <2>1, AccessParts DEF accessVars, PeopleOK
    <3> QED BY <2>1, <3>1, OnlyOffices DEF accessVars
  <2> QED BY <2>1, TimeStep, SessionSteps, RecoverySteps, UserSteps, OrganizationSteps DEF AccessNext
<1> QED BY <1>1, <1>2, PTL DEF AccessSpec

\* Tables of accounts, sessions and codes keep their columns' types.
THEOREM AccessTypeCorrect == AccessSpec => []AccessTypeOK
<1>1. AccessInv => AccessTypeOK
  BY DEF AccessInv
<1> QED BY <1>1, AccessHolds, PTL

\* However logins, renewals, codes, suspensions and reactivations follow each
\* other, what a suspension or a new password closed stays closed, a token is
\* renewed once and a code used once.
THEOREM ClosedStaysClosed == AccessSpec => []AccessClosed
<1>1. AccessInv => AccessClosed
  BY DEF AccessInv, AccessClosed
<1> QED BY <1>1, AccessHolds, PTL

-----------------------------------------------------------------------------
(* Interfilial: what lists of lots hold *)

\* A list of n entries with units.
Counted(s, n) == n \in Nat /\ DOMAIN s = 1..n /\ \A k \in 1..n : s[k].units \in Nat
\* An entry's units, if it cost c.
Priced(e, c) == IF e.cost = c THEN e.units ELSE 0
\* The units of each place of a list, and of those that cost c.
Pieces(s, n) == [k \in 1..n |-> s[k].units]
PiecesAt(s, n, c) == [k \in 1..n |-> Priced(s[k], c)]

\* The units of a list are a sum over its places.
LEMMA CountTable ==
  ASSUME NEW s, NEW n, Counted(s, n), NEW c
  PROVE  /\ UnitsOf(s) = SumFunctionOnSet(Pieces(s, n), 1..n)
         /\ UnitsAt(s, c) = SumFunctionOnSet(PiecesAt(s, n, c), 1..n)
         /\ UnitsOf(s) \in Nat /\ UnitsAt(s, c) \in Nat
<1> DEFINE f == Pieces(s, n)
           g == PiecesAt(s, n, c)
<1>1. n \in Nat /\ DOMAIN s = 1..n /\ IsFiniteSet(1..n)
  BY PlacesFinite DEF Counted
<1>2. DOMAIN f = 1..n /\ DOMAIN g = 1..n
  BY DEF Pieces, PiecesAt
<1>3. UnitsOf(s) = SumFunction(f) /\ UnitsAt(s, c) = SumFunction(g)
  BY <1>1 DEF UnitsOf, UnitsAt, Priced, Pieces, PiecesAt
<1>4. \A k \in 1..n : f[k] \in Nat /\ g[k] \in Nat
  BY DEF Counted, Priced, Pieces, PiecesAt
<1> HIDE DEF f, g
<1>5. UnitsOf(s) = SumFunctionOnSet(f, 1..n) /\ UnitsAt(s, c) = SumFunctionOnSet(g, 1..n)
  BY <1>2, <1>3 DEF SumFunction
<1>6. SumFunctionOnSet(f, 1..n) \in Nat /\ SumFunctionOnSet(g, 1..n) \in Nat
  BY <1>1, <1>4, SumNat
<1> QED BY <1>5, <1>6 DEF f, g

\* Lists of n entries that agree on units and costs.
Alike(s, t, n) ==
  DOMAIN t = 1..n /\ \A k \in 1..n : t[k].units = s[k].units /\ t[k].cost = s[k].cost

\* Such lists count the same.
LEMMA CountSame ==
  ASSUME NEW s, NEW t, NEW n, Counted(s, n), Alike(s, t, n), NEW c
  PROVE  Counted(t, n) /\ UnitsOf(t) = UnitsOf(s) /\ UnitsAt(t, c) = UnitsAt(s, c)
<1>1. Counted(t, n)
  BY DEF Counted, Alike
<1>2. Pieces(t, n) = Pieces(s, n)
  BY DEF Pieces, Alike
<1>3. PiecesAt(t, n, c) = PiecesAt(s, n, c)
  BY DEF PiecesAt, Priced, Alike
<1>4. UnitsOf(t) = UnitsOf(s)
  BY <1>1, <1>2, CountTable
<1>5. UnitsAt(t, c) = UnitsAt(s, c)
  BY <1>1, <1>3, CountTable
<1> QED BY <1>1, <1>4, <1>5

\* After the m entries of s, u has the units and the costs of the n of t.
Joined(s, m, t, n, u) ==
  /\ DOMAIN u = 1..(m + n)
  /\ \A k \in 1..m : u[k] = s[k]
  /\ \A k \in 1..n : u[m + k].units = t[k].units /\ u[m + k].cost = t[k].cost

\* Lists one after the other count together.
LEMMA CountJoined ==
  ASSUME NEW s, NEW m, Counted(s, m), NEW t, NEW n, Counted(t, n), NEW u, Joined(s, m, t, n, u), NEW c
  PROVE  /\ Counted(u, m + n)
         /\ UnitsOf(u) = UnitsOf(s) + UnitsOf(t) /\ UnitsAt(u, c) = UnitsAt(s, c) + UnitsAt(t, c)
<1>1. /\ m \in Nat /\ n \in Nat /\ DOMAIN u = 1..(m + n)
      /\ \A k \in 1..m : u[k] = s[k]
      /\ \A k \in 1..n : u[m + k].units = t[k].units /\ u[m + k].cost = t[k].cost
  BY DEF Counted, Joined
<1>2. Counted(u, m + n)
  <2> SUFFICES ASSUME NEW k \in 1..(m + n) PROVE u[k].units \in Nat
    BY <1>1 DEF Counted
  <2>1. CASE k <= m
    BY <1>1, <2>1 DEF Counted
  <2>2. CASE ~(k <= m)
    <3> DEFINE j == k - m
    <3>1. j \in 1..n /\ m + j = k
      BY <1>1, <2>2
    <3> HIDE DEF j
    <3>2. u[m + j].units = t[j].units /\ t[j].units \in Nat
      BY <1>1, <3>1 DEF Counted
    <3> QED BY <3>1, <3>2
  <2> QED BY <2>1, <2>2
<1>3. UnitsOf(u) = UnitsOf(s) + UnitsOf(t)
  <2> DEFINE f == Pieces(s, m)
             g == Pieces(t, n)
             h == Pieces(u, m + n)
  <2>1. Along(f, h, 0, m)
    BY <1>1 DEF Counted, Pieces, Along
  <2>2. Along(g, h, m, n)
    BY <1>1 DEF Counted, Pieces, Along
  <2>3. UnitsOf(u) = SumFunctionOnSet(h, 1..(m + n))
    BY <1>2, CountTable
  <2>4. UnitsOf(s) = SumFunctionOnSet(f, 1..m) /\ UnitsOf(t) = SumFunctionOnSet(g, 1..n)
    BY CountTable
  <2> HIDE DEF f, g, h
  <2>5. SumFunctionOnSet(h, 1..(m + n)) = SumFunctionOnSet(f, 1..m) + SumFunctionOnSet(g, 1..n)
    BY <1>1, <2>1, <2>2, SumJoined
  <2> QED BY <2>3, <2>4, <2>5
<1>4. UnitsAt(u, c) = UnitsAt(s, c) + UnitsAt(t, c)
  <2> DEFINE f == PiecesAt(s, m, c)
             g == PiecesAt(t, n, c)
             h == PiecesAt(u, m + n, c)
  <2>1. Along(f, h, 0, m)
    BY <1>1 DEF Counted, Priced, PiecesAt, Along
  <2>2. Along(g, h, m, n)
    BY <1>1 DEF Counted, Priced, PiecesAt, Along
  <2>3. UnitsAt(u, c) = SumFunctionOnSet(h, 1..(m + n))
    BY <1>2, CountTable
  <2>4. UnitsAt(s, c) = SumFunctionOnSet(f, 1..m) /\ UnitsAt(t, c) = SumFunctionOnSet(g, 1..n)
    BY CountTable
  <2> HIDE DEF f, g, h
  <2>5. SumFunctionOnSet(h, 1..(m + n)) = SumFunctionOnSet(f, 1..m) + SumFunctionOnSet(g, 1..n)
    BY <1>1, <2>1, <2>2, SumJoined
  <2> QED BY <2>3, <2>4, <2>5
<1> QED BY <1>2, <1>3, <1>4

\* The lots of a filial.
Shelved(b) == branchLots[b] \in Seq(StockLot) /\ \A l \in DOMAIN branchLots[b] : branchLots[b][l].held <= branchLots[b][l].units

\* What no order reserves of a lot.
LEMMA LotAvails ==
  ASSUME NEW l \in StockLot, l.held <= l.units
  PROVE  Available(l) \in Nat /\ Available(l) = l.units - l.held /\ l.units \in Nat /\ l.held \in Nat
  BY DEF Available, StockLot

\* Of a lot no order reserves no more is taken than it has, and of all together what is asked.
LEMMA LotsServe ==
  ASSUME NEW b \in Branches, Shelved(b), NEW q \in Nat, AvailableAt(b) >= q
  PROVE  /\ \A l \in DOMAIN branchLots[b] :
              FromLot(b, l, q) \in Nat /\ FromLot(b, l, q) <= Available(branchLots[b][l])
         /\ SumFunctionOnSet([l \in DOMAIN branchLots[b] |-> FromLot(b, l, q)], DOMAIN branchLots[b]) = q
<1> DEFINE N == Len(branchLots[b])
           a == [l \in 1..N |-> Available(branchLots[b][l])]
           t == [l \in 1..N |-> FromLot(b, l, q)]
           B(l) == SumFunctionOnSet(a, 1..(l - 1))
<1>1. N \in Nat /\ DOMAIN branchLots[b] = 1..N /\ \A l \in 1..N : branchLots[b][l] \in StockLot
  BY LenProperties DEF Shelved
<1>2. \A l \in 1..N : a[l] \in Nat /\ Available(branchLots[b][l]) = a[l]
  BY <1>1, LotAvails DEF Shelved
<1>3. ASSUME NEW l \in 1..N
      PROVE  t[l] = OutOf(a[l], q - B(l)) /\ B(l) \in Nat
  <2> DEFINE g == [k \in 1..l - 1 |-> Available(branchLots[b][k])]
  <2>0. 1..(l - 1) \subseteq 1..N
    BY <1>1
  <2>1. DOMAIN g = 1..(l - 1) /\ \A k \in 1..(l - 1) : a[k] = g[k] /\ a[k] \in Nat
    BY <1>2, <2>0
  <2>2. t[l] = Lesser(Available(branchLots[b][l]), NotBelowZero(q - SumFunction(g)))
    <3>1. t[l] = FromLot(b, l, q)
      OBVIOUS
    <3>2. FromLot(b, l, q) = Lesser(Available(branchLots[b][l]), NotBelowZero(q - SumFunction(g)))
      BY Zenon DEF FromLot
    <3> HIDE DEF t, g
    <3> QED BY <3>1, <3>2
  <2>3. IsFiniteSet(1..(l - 1))
    <3>1. l - 1 \in Int /\ 1 \in Int
      BY <1>1
    <3> HIDE DEF N, a, t, B, g
    <3> QED BY <3>1, PlacesFinite
  <2>4. Available(branchLots[b][l]) = a[l] /\ a[l] \in Nat
    BY <1>2
  <2> HIDE DEF g, a, t
  <2>5. SumFunction(g) = SumFunctionOnSet(g, 1..(l - 1))
    BY <2>1 DEF SumFunction
  <2>6. SumFunctionOnSet(a, 1..(l - 1)) = SumFunctionOnSet(g, 1..(l - 1))
    BY <2>1, <2>3, SumEqual
  <2>7. B(l) \in Nat
    BY <2>1, <2>3, SumNat
  <2>8. t[l] = Lesser(a[l], NotBelowZero(q - B(l)))
    BY <2>2, <2>4, <2>5, <2>6
  <2> HIDE DEF B
  <2> QED BY <2>4, <2>7, <2>8 DEF Lesser, NotBelowZero, OutOf
<1>4. AvailableAt(b) = SumFunction(a) /\ DOMAIN a = 1..N
  BY <1>1 DEF AvailableAt
<1>5. \A l \in 1..N : FromLot(b, l, q) = t[l]
  OBVIOUS
<1>6. [l \in DOMAIN branchLots[b] |-> FromLot(b, l, q)] = t
  BY <1>1
<1> HIDE DEF N, a, t
<1>7. /\ \A l \in 1..N : t[l] \in Nat /\ t[l] <= a[l]
      /\ SumFunctionOnSet(a, 1..N) \in Nat
      /\ SumFunctionOnSet(t, 1..N) = OutOf(SumFunctionOnSet(a, 1..N), q)
  <2>1. \A l \in 1..N : a[l] \in Nat /\ t[l] = OutOf(a[l], q - SumFunctionOnSet(a, 1..(l - 1)))
    BY <1>2, <1>3
  <2> HIDE DEF B
  <2> QED BY <1>1, <2>1, SumServed
<1>8. SumFunctionOnSet(a, 1..N) >= q
  BY <1>4 DEF SumFunction
<1>9. SumFunctionOnSet(t, 1..N) = q
  BY <1>7, <1>8 DEF OutOf
<1>10. \A l \in 1..N : FromLot(b, l, q) \in Nat /\ FromLot(b, l, q) <= Available(branchLots[b][l])
  BY <1>2, <1>5, <1>7
<1>11. SumFunctionOnSet([l \in DOMAIN branchLots[b] |-> FromLot(b, l, q)], DOMAIN branchLots[b]) = q
  BY <1>1, <1>6, <1>9
<1> QED BY <1>1, <1>10, <1>11

\* The list h has the n values that g gives to the members of order.
InOrder(h, g, order, n) == \A k \in 1..n : h[k] = g[order[k]]

\* In any order, the members of a finite set add up to what the set does, whatever larger set has
\* zeros besides.
LEMMA SumOrdered ==
  ASSUME NEW S, IsFiniteSet(S), NEW T \in SUBSET S, NEW order \in SetToSeqs(T),
         NEW g, \A l \in T : g[l] \in Int, \A l \in S \ T : g[l] = 0,
         NEW h, NEW n, n = Cardinality(T), InOrder(h, g, order, n)
  PROVE  SumFunctionOnSet(h, 1..n) = SumFunctionOnSet(g, S)
<1> DEFINE D == 1..Cardinality(T)
<1>1. IsFiniteSet(T) /\ Cardinality(T) \in Nat
  BY FS_Subset, FS_CardinalityType
<1>2. IsFiniteSet(D) /\ Cardinality(D) = Cardinality(T)
  <2>1. Cardinality(T) \in Int /\ 1 \in Int
    BY <1>1
  <2>2. IsFiniteSet(D) /\ Cardinality(D) = IF 1 > Cardinality(T) THEN 0 ELSE Cardinality(T) - 1 + 1
    BY <2>1, FS_Interval
  <2> QED BY <1>1, <2>2
<1>3. order \in [D -> T] /\ \A i, j \in D : i # j => order[i] # order[j]
  BY DEF SetToSeqs
<1>4. \A k \in D : h[k] = g[order[k]]
  BY DEF InOrder
<1> HIDE DEF D
<1>5. order \in Injection(D, T)
  BY <1>3 DEF Injection, IsInjective
<1>6. order \in Surjection(D, T)
  BY <1>1, <1>2, <1>5, FS_Injection
<1>7. \A z \in T : \E k \in D : order[k] = z
  BY <1>6 DEF Surjection
<1>8. \A x \in D, y \in D : order[x] = order[y] => x = y
  BY <1>3
<1>9. \A k \in D : h[k] \in Int /\ g[order[k]] = h[k]
  BY <1>3, <1>4
<1>10. SumFunctionOnSet(g, T) = SumFunctionOnSet(h, D)
  BY <1>2, <1>3, <1>7, <1>8, <1>9, SumRename
<1>11. SumFunctionOnSet(g, S) = SumFunctionOnSet(g, T)
  BY SumPart
<1> QED BY <1>1, <1>3, <1>10, <1>11 DEF D

\* What is taken of a filial's lots is what is asked, at the costs of the lots it leaves.
LEMMA CountTaken ==
  ASSUME NEW b \in Branches, Shelved(b), NEW q \in Nat, AvailableAt(b) >= q, NEW taken \in Allocated(b, q)
  PROVE  /\ taken \in Seq(Taken) /\ UnitsOf(taken) = q
         /\ Consumed(b, q) \in Seq(StockLot)
         /\ \A l \in DOMAIN Consumed(b, q) : Consumed(b, q)[l].held <= Consumed(b, q)[l].units
         /\ UnitsOf(branchLots[b]) = UnitsOf(Consumed(b, q)) + q
         /\ \A c : UnitsAt(branchLots[b], c) = UnitsAt(Consumed(b, q), c) + UnitsAt(taken, c)
<1> DEFINE N == Len(branchLots[b])
           u == [l \in 1..N |-> FromLot(b, l, q)]
           lots == {l \in 1..N : u[l] > 0}
           K == Cardinality(lots)
           left == Consumed(b, q)
<1>1. N \in Nat /\ DOMAIN branchLots[b] = 1..N /\ (\A l \in 1..N : branchLots[b][l] \in StockLot) /\ IsFiniteSet(1..N)
  <2>1. branchLots[b] \in Seq(StockLot)
    BY DEF Shelved
  <2>2. N \in Nat /\ DOMAIN branchLots[b] = 1..N /\ \A l \in 1..N : branchLots[b][l] \in StockLot
    BY <2>1, LenProperties
  <2> HIDE DEF N, u, lots, K, left
  <2>3. IsFiniteSet(1..N)
    BY <2>2, PlacesFinite
  <2> QED BY <2>2, <2>3
<1>2. /\ \A l \in 1..N : /\ u[l] \in Nat /\ u[l] <= branchLots[b][l].units - branchLots[b][l].held
                         /\ branchLots[b][l].units \in Nat /\ branchLots[b][l].held \in Nat
      /\ SumFunctionOnSet(u, 1..N) = q
  <2>1. \A l \in 1..N : /\ branchLots[b][l].held <= branchLots[b][l].units
                        /\ FromLot(b, l, q) \in Nat /\ FromLot(b, l, q) <= Available(branchLots[b][l])
    BY <1>1, LotsServe DEF Shelved
  <2>2. \A l \in 1..N : u[l] = FromLot(b, l, q)
    OBVIOUS
  <2>3. SumFunctionOnSet(u, 1..N) = q
    BY <1>1, LotsServe
  <2> HIDE DEF u, N
  <2> QED BY <1>1, <2>1, <2>2, <2>3, LotAvails
<1>3. PICK order \in SetToSeqs(lots) :
        taken = [k \in DOMAIN order |-> [units |-> u[order[k]], cost |-> branchLots[b][order[k]].cost]]
  <2>1. lots = {l \in DOMAIN branchLots[b] : FromLot(b, l, q) > 0}
    BY <1>1
  <2>2. PICK order \in SetToSeqs(lots) :
          taken = [k \in DOMAIN order |-> [units |-> FromLot(b, order[k], q), cost |-> branchLots[b][order[k]].cost]]
    BY <2>1 DEF Allocated
  <2>3. order \in [1..K -> lots]
    BY DEF SetToSeqs
  <2>4. \A k \in DOMAIN order : order[k] \in 1..N
    BY <2>3
  <2>5. \A k \in DOMAIN order : u[order[k]] = FromLot(b, order[k], q)
    BY <2>4
  <2> HIDE DEF u, lots
  <2> QED BY <2>2, <2>5
<1>4. lots \in SUBSET (1..N) /\ \A l \in 1..N : l \in lots <=> u[l] > 0
  OBVIOUS
<1>5. left = [l \in 1..N |-> [branchLots[b][l] EXCEPT !.units = @ - u[l]]]
  BY <1>1 DEF Consumed
<1> HIDE DEF N, u, lots, left
<1>6. K \in Nat /\ order \in [1..K -> lots]
  <2>1. IsFiniteSet(lots)
    BY <1>1, <1>4, FS_Subset
  <2> QED BY <2>1, FS_CardinalityType DEF SetToSeqs
<1> HIDE DEF K
<1>7. ASSUME NEW k \in 1..K
      PROVE  order[k] \in 1..N /\ taken[k].units = u[order[k]] /\ taken[k].cost = branchLots[b][order[k]].cost
             /\ taken[k] \in Taken
  <2> DEFINE l == order[k]
  <2>1. l \in lots /\ l \in 1..N /\ u[l] > 0 /\ u[l] \in Nat
    BY <1>2, <1>4, <1>6
  <2>2. branchLots[b][l].cost \in Nat
    BY <1>1, <2>1 DEF StockLot
  <2>3. taken[k] = [units |-> u[l], cost |-> branchLots[b][l].cost]
    BY <1>3, <1>6
  <2> HIDE DEF l
  <2>4. taken[k] \in Taken /\ taken[k].units = u[l] /\ taken[k].cost = branchLots[b][l].cost
    BY <2>1, <2>2, <2>3 DEF Taken
  <2> QED BY <2>1, <2>4 DEF l
<1>8. DOMAIN taken = 1..K
  BY <1>3, <1>6
<1>9. taken \in Seq(Taken) /\ Counted(taken, K)
  <2>1. taken = [k \in 1..K |-> taken[k]]
    BY <1>3, <1>8
  <2>2. taken \in [1..K -> Taken]
    BY <1>7, <2>1
  <2>3. taken \in Seq(Taken)
    BY <1>6, <2>2, SeqDef
  <2> QED BY <1>6, <1>7, <1>8, <2>3 DEF Counted, Taken
<1>10. ASSUME NEW l \in 1..N
       PROVE  /\ left[l] \in StockLot /\ left[l].cost = branchLots[b][l].cost
              /\ left[l].units = branchLots[b][l].units - u[l] /\ left[l].held <= left[l].units
  <2> DEFINE m == branchLots[b][l].units - u[l]
             x == branchLots[b][l]
  <2>1. m \in Nat /\ x.held <= m /\ x \in StockLot
    BY <1>1, <1>2
  <2>2. left[l] = [x EXCEPT !.units = m]
    BY <1>5
  <2>3. m = branchLots[b][l].units - u[l] /\ x = branchLots[b][l]
    OBVIOUS
  <2> HIDE DEF m, x
  <2>4. left[l] \in StockLot /\ left[l].cost = x.cost /\ left[l].units = m /\ left[l].held = x.held
    BY <2>1, <2>2 DEF StockLot
  <2> QED BY <2>1, <2>3, <2>4
<1>11. DOMAIN left = 1..N /\ left \in Seq(StockLot)
  <2>1. DOMAIN left = 1..N /\ left = [l \in 1..N |-> left[l]]
    BY <1>5
  <2>2. left \in [1..N -> StockLot]
    BY <1>10, <2>1
  <2> QED BY <1>1, <2>1, <2>2, SeqDef
<1>12. Counted(left, N) /\ Counted(branchLots[b], N)
  BY <1>1, <1>2, <1>10, <1>11 DEF Counted, StockLot
<1>13. UnitsOf(taken) = q
  <2> DEFINE h == Pieces(taken, K)
  <2>1. InOrder(h, u, order, K)
    BY <1>7 DEF Pieces, InOrder
  <2>2. (\A l \in lots : u[l] \in Int) /\ \A l \in (1..N) \ lots : u[l] = 0
    BY <1>2, <1>4
  <2>3. UnitsOf(taken) = SumFunctionOnSet(h, 1..K)
    BY <1>9, CountTable
  <2> HIDE DEF h
  <2>4. SumFunctionOnSet(h, 1..K) = SumFunctionOnSet(u, 1..N)
    <3> DEFINE S == 1..N
    <3>1. IsFiniteSet(S) /\ lots \in SUBSET S /\ (\A l \in lots : u[l] \in Int) /\ (\A l \in S \ lots : u[l] = 0)
      BY <1>1, <1>4, <2>2
    <3>2. K = Cardinality(lots)
      BY DEF K
    <3> HIDE DEF S
    <3>3. SumFunctionOnSet(h, 1..K) = SumFunctionOnSet(u, S)
      BY <1>3, <2>1, <3>1, <3>2, SumOrdered
    <3> QED BY <3>3 DEF S
  <2> QED BY <1>2, <2>3, <2>4
<1>14. UnitsOf(branchLots[b]) = UnitsOf(left) + q
  <2> DEFINE f == Pieces(left, N)
             g == Pieces(branchLots[b], N)
  <2>1. \A l \in 1..N : f[l] \in Int /\ u[l] \in Int /\ g[l] = f[l] + u[l]
    BY <1>2, <1>10 DEF Pieces
  <2>2. UnitsOf(left) = SumFunctionOnSet(f, 1..N) /\ UnitsOf(branchLots[b]) = SumFunctionOnSet(g, 1..N)
    BY <1>12, CountTable
  <2> HIDE DEF f, g
  <2>3. SumFunctionOnSet(g, 1..N) = SumFunctionOnSet(f, 1..N) + SumFunctionOnSet(u, 1..N)
    BY <1>1, <2>1, SumPlus
  <2> QED BY <1>2, <2>2, <2>3
<1>15. ASSUME NEW c
       PROVE  UnitsAt(branchLots[b], c) = UnitsAt(left, c) + UnitsAt(taken, c)
  <2> DEFINE v == [l \in 1..N |-> IF branchLots[b][l].cost = c THEN u[l] ELSE 0]
             h == PiecesAt(taken, K, c)
             f == PiecesAt(left, N, c)
             g == PiecesAt(branchLots[b], N, c)
  <2>1. InOrder(h, v, order, K)
    BY <1>7 DEF PiecesAt, Priced, InOrder
  <2>2. (\A l \in lots : v[l] \in Int) /\ \A l \in (1..N) \ lots : v[l] = 0
    BY <1>2, <1>4
  <2>3. UnitsAt(taken, c) = SumFunctionOnSet(h, 1..K)
    BY <1>9, CountTable
  <2>4. \A l \in 1..N : f[l] \in Int /\ v[l] \in Int /\ g[l] = f[l] + v[l]
    BY <1>2, <1>10 DEF PiecesAt, Priced
  <2>5. UnitsAt(left, c) = SumFunctionOnSet(f, 1..N) /\ UnitsAt(branchLots[b], c) = SumFunctionOnSet(g, 1..N)
    BY <1>12, CountTable
  <2> HIDE DEF f, g, h, v
  <2>6. SumFunctionOnSet(h, 1..K) = SumFunctionOnSet(v, 1..N)
    <3> DEFINE S == 1..N
    <3>1. IsFiniteSet(S) /\ lots \in SUBSET S /\ (\A l \in lots : v[l] \in Int) /\ (\A l \in S \ lots : v[l] = 0)
      BY <1>1, <1>4, <2>2
    <3>2. K = Cardinality(lots)
      BY DEF K
    <3> HIDE DEF S
    <3>3. SumFunctionOnSet(h, 1..K) = SumFunctionOnSet(v, S)
      BY <1>3, <2>1, <3>1, <3>2, SumOrdered
    <3> QED BY <3>3 DEF S
  <2>7. SumFunctionOnSet(g, 1..N) = SumFunctionOnSet(f, 1..N) + SumFunctionOnSet(v, 1..N)
    BY <1>1, <2>4, SumPlus
  <2> QED BY <2>3, <2>5, <2>6, <2>7
<1>16. \A l \in DOMAIN left : left[l].held <= left[l].units
  BY <1>10, <1>11
<1> QED BY <1>9, <1>11, <1>13, <1>14, <1>15, <1>16 DEF left

-----------------------------------------------------------------------------
(* Interfilial: the registers *)

InterfilialTables ==
  /\ registers \in Seq(RegisterRow) /\ Len(registers) <= MaxRegisters
  /\ branchLots \in [Branches -> Seq(StockLot)] /\ stockExits \in Seq(Taken)
  /\ branchStock \in [Branches -> Nat] /\ unitsIn \in [Branches -> Nat] /\ unitsOut \in [Branches -> Nat]
  /\ branchCash \in [Branches -> Nat] /\ openBranches \subseteq Branches

\* Actions are of transfers, and only a dispatch takes lots.
ActionsSound ==
  \A r \in Registers("stock_transfer_action") :
    registers[r].of \in Registers("stock_transfer") /\ (registers[r].action # "dispatch" => registers[r].taken = <<>>)
PaymentsSound == \A r \in Registers("tax_payment") : registers[r].of \in Registers("tax")

\* A transfer that is on the way was dispatched once, and one that is not yet never was.
Dispatches(t) == {r \in History(t) : registers[r].action = "dispatch"}
DispatchedOnce ==
  \A t \in Registers("stock_transfer") :
    /\ TransferStage(t) \in {"requested", "approved"} => Dispatches(t) = {}
    /\ TransferStage(t) = "dispatched" => \E d \in History(t) : Dispatches(t) = {d}

InterfilialInv ==
  /\ InterfilialTables /\ ActionsSound /\ PaymentsSound /\ DispatchedOnce
  /\ \A c \in Nat : UnitsKept(c)
  /\ \A b \in Branches : ShelfExplained(b)
  /\ CashKept /\ NotOverpaid

\* A register of each kind.
LEMMA RowOfKind ==
  ASSUME NEW row \in RegisterRow
  PROVE  /\ row.kind \in {"stock_transfer", "stock_transfer_action", "funds_transfer", "tax", "tax_payment"}
         /\ row.kind = "stock_transfer" => row \in StockTransfer
         /\ row.kind = "stock_transfer_action" => row \in Action
         /\ row.kind = "tax" => row \in Tax
         /\ row.kind = "tax_payment" => row \in TaxPayment
<1>1. row \in StockTransfer => row.kind = "stock_transfer"
  BY DEF StockTransfer
<1>2. row \in Action => row.kind = "stock_transfer_action"
  BY DEF Action
<1>3. row \in FundsTransfer => row.kind = "funds_transfer"
  BY DEF FundsTransfer
<1>4. row \in Tax => row.kind = "tax"
  BY DEF Tax
<1>5. row \in TaxPayment => row.kind = "tax_payment"
  BY DEF TaxPayment
<1> QED BY <1>1, <1>2, <1>3, <1>4, <1>5 DEF RegisterRow

\* The registers so far.
LEMMA RowsKnown ==
  ASSUME InterfilialTables
  PROVE  /\ Len(registers) \in Nat /\ DOMAIN registers = 1..Len(registers) /\ IsFiniteSet(DOMAIN registers)
         /\ \A r \in DOMAIN registers : registers[r] \in RegisterRow
         /\ \A kind : Registers(kind) \subseteq DOMAIN registers /\ IsFiniteSet(Registers(kind))
         /\ \A t : History(t) \subseteq DOMAIN registers /\ IsFiniteSet(History(t))
<1>1. Len(registers) \in Nat /\ DOMAIN registers = 1..Len(registers)
      /\ \A r \in DOMAIN registers : registers[r] \in RegisterRow
  BY LenProperties DEF InterfilialTables
<1>2. IsFiniteSet(1..Len(registers))
  BY <1>1, PlacesFinite
<1>3. \A kind : Registers(kind) \subseteq DOMAIN registers
  BY DEF Registers
<1>4. \A t : History(t) \subseteq DOMAIN registers
  BY <1>3 DEF History
<1> QED BY <1>1, <1>2, <1>3, <1>4, FS_Subset

\* A register is added after the others, which stay.
LEMMA RegistersGrow ==
  ASSUME InterfilialTables, NEW row \in RegisterRow, Register(row)
  PROVE  /\ registers' \in Seq(RegisterRow) /\ Len(registers') <= MaxRegisters
         /\ Len(registers) + 1 \in DOMAIN registers' /\ Len(registers) + 1 \notin DOMAIN registers
         /\ DOMAIN registers' = DOMAIN registers \union {Len(registers) + 1}
         /\ registers'[Len(registers) + 1] = row
         /\ \A r \in DOMAIN registers : registers'[r] = registers[r]
         /\ \A kind : Registers(kind)' = IF row.kind = kind THEN Registers(kind) \union {Len(registers) + 1}
                                                            ELSE Registers(kind)
<1>1. Len(registers) \in Nat /\ DOMAIN registers = 1..Len(registers) /\ registers \in Seq(RegisterRow)
  BY RowsKnown DEF InterfilialTables
<1>2. registers' = Append(registers, row) /\ Len(registers) < MaxRegisters /\ MaxRegisters \in Nat
  BY InterfilialAssumption DEF Register
<1>3. /\ registers' \in Seq(RegisterRow) /\ Len(registers') = Len(registers) + 1
      /\ \A i \in 1..Len(registers) : registers'[i] = registers[i]
      /\ registers'[Len(registers) + 1] = row
  BY <1>1, <1>2, AppendProperties
<1>4. DOMAIN registers' = 1..(Len(registers) + 1)
  BY <1>3, LenProperties
<1>5. /\ DOMAIN registers' = DOMAIN registers \union {Len(registers) + 1}
      /\ Len(registers) + 1 \notin DOMAIN registers
  BY <1>1, <1>4
<1>6. \A r \in DOMAIN registers : registers'[r] = registers[r]
  BY <1>1, <1>3
<1>7. Len(registers') <= MaxRegisters
  BY <1>1, <1>2, <1>3
<1>8. ASSUME NEW kind
      PROVE  Registers(kind)' = IF row.kind = kind THEN Registers(kind) \union {Len(registers) + 1}
                                                   ELSE Registers(kind)
  <2> DEFINE n == Len(registers) + 1
  <2>1. DOMAIN registers' = DOMAIN registers \union {n} /\ registers'[n] = row /\ n \notin DOMAIN registers
    BY <1>3, <1>5
  <2>2. Registers(kind)' = {r \in DOMAIN registers' : registers'[r].kind = kind}
    BY DEF Registers
  <2> HIDE DEF n
  <2> QED BY <1>6, <2>1, <2>2 DEF Registers, n
<1> QED BY <1>3, <1>5, <1>6, <1>7, <1>8

\* The last action of some registers.
LEMMA LastOfHistory ==
  ASSUME InterfilialTables, NEW t, History(t) # {}
  PROVE  Max(History(t)) \in History(t)
<1>1. History(t) \in SUBSET (0..Len(registers)) /\ Len(registers) \in Nat
  BY RowsKnown
<1>2. \E n \in History(t) : \A m \in History(t) : n >= m
  BY <1>1, LargestNumber
<1> QED BY <1>2 DEF Max

\* A transfer no action is registered on keeps its stage.
LEMMA HistoryStays ==
  ASSUME InterfilialTables, NEW row \in RegisterRow, Register(row), NEW t,
         ~(row.kind = "stock_transfer_action" /\ row.of = t)
  PROVE  /\ History(t)' = History(t) /\ TransferStage(t)' = TransferStage(t)
         /\ Dispatches(t)' = Dispatches(t)
<1> DEFINE n == Len(registers) + 1
<1>1. /\ n \notin DOMAIN registers /\ registers'[n] = row
      /\ \A r \in DOMAIN registers : registers'[r] = registers[r]
      /\ Registers("stock_transfer_action")'
           = IF row.kind = "stock_transfer_action" THEN Registers("stock_transfer_action") \union {n}
                                                   ELSE Registers("stock_transfer_action")
  BY RegistersGrow
<1>2. Registers("stock_transfer_action") \subseteq DOMAIN registers /\ History(t) \subseteq DOMAIN registers
  BY RowsKnown
<1>3. History(t)' = {r \in Registers("stock_transfer_action")' : registers'[r].of = t}
  BY DEF History
<1> HIDE DEF n
<1>4. History(t)' = History(t)
  BY <1>1, <1>2, <1>3 DEF History
<1>5. Dispatches(t)' = Dispatches(t)
  BY <1>1, <1>2, <1>4 DEF Dispatches
<1>6. TransferStage(t)' = IF History(t)' = {} THEN "requested" ELSE registers'[Max(History(t)')].stage
  BY DEF TransferStage
<1>7. TransferStage(t)' = TransferStage(t)
  <2>1. CASE History(t) = {}
    BY <1>4, <1>6, <2>1 DEF TransferStage
  <2>2. CASE History(t) # {}
    <3>1. Max(History(t)) \in DOMAIN registers
      BY <1>2, <2>2, LastOfHistory
    <3> QED BY <1>1, <1>4, <1>6, <2>2, <3>1 DEF TransferStage
  <2> QED BY <2>1, <2>2
<1> QED BY <1>4, <1>5, <1>7

\* One that an action is registered on is left in the action's stage.
LEMMA HistoryAfter ==
  ASSUME InterfilialTables, NEW row \in RegisterRow, Register(row), row.kind = "stock_transfer_action"
  PROVE  /\ History(row.of)' = History(row.of) \union {Len(registers) + 1}
         /\ TransferStage(row.of)' = row.stage
         /\ Dispatches(row.of)' = IF row.action = "dispatch" THEN Dispatches(row.of) \union {Len(registers) + 1}
                                                             ELSE Dispatches(row.of)
<1> DEFINE n == Len(registers) + 1
           t == row.of
           H == History(t)
<1>1. /\ n \notin DOMAIN registers /\ registers'[n] = row
      /\ \A r \in DOMAIN registers : registers'[r] = registers[r]
      /\ Registers("stock_transfer_action")' = Registers("stock_transfer_action") \union {n}
  BY RegistersGrow
<1>2. Registers("stock_transfer_action") \subseteq DOMAIN registers /\ H \subseteq DOMAIN registers
  BY RowsKnown
<1>3. History(t)' = {r \in Registers("stock_transfer_action")' : registers'[r].of = t}
  BY DEF History
<1>4. n \in Nat /\ \A m \in DOMAIN registers : m < n /\ m \in Nat
  BY RowsKnown
<1>5. H = {r \in Registers("stock_transfer_action") : registers[r].of = t} /\ row.of = t
  BY DEF History
<1> HIDE DEF n, t, H
<1>6. History(t)' = H \union {n}
  BY <1>1, <1>2, <1>3, <1>5
<1>7. Max(H \union {n}) = n
  <2>1. n \in H \union {n} /\ \A m \in H \union {n} : n >= m
    BY <1>2, <1>4
  <2>2. \A x \in H \union {n} : (\A m \in H \union {n} : x >= m) => x = n
    BY <1>2, <1>4
  <2> HIDE DEF H
  <2> QED BY <2>1, <2>2 DEF Max
<1>8. TransferStage(t)' = IF History(t)' = {} THEN "requested" ELSE registers'[Max(History(t)')].stage
  BY DEF TransferStage
<1>9. TransferStage(t)' = row.stage
  BY <1>1, <1>6, <1>7, <1>8
<1>10. Dispatches(t)' = {r \in History(t)' : registers'[r].action = "dispatch"}
  BY DEF Dispatches
<1>11. Dispatches(t)' = IF row.action = "dispatch" THEN Dispatches(t) \union {n} ELSE Dispatches(t)
  BY <1>1, <1>2, <1>6, <1>10 DEF Dispatches, H
<1> QED BY <1>6, <1>9, <1>11 DEF n, t, H

\* Lists of lots count.
LEMMA ListsCount ==
  /\ \A s \in Seq(Taken) : Counted(s, Len(s))
  /\ \A s \in Seq(StockLot) : Counted(s, Len(s))
<1>1. ASSUME NEW s \in Seq(Taken)
      PROVE  Counted(s, Len(s))
  <2>1. Len(s) \in Nat /\ DOMAIN s = 1..Len(s) /\ \A k \in 1..Len(s) : s[k] \in Taken
    BY LenProperties
  <2> QED BY <2>1 DEF Counted, Taken
<1>2. ASSUME NEW s \in Seq(StockLot)
      PROVE  Counted(s, Len(s))
  <2>1. Len(s) \in Nat /\ DOMAIN s = 1..Len(s) /\ \A k \in 1..Len(s) : s[k] \in StockLot
    BY LenProperties
  <2> QED BY <2>1 DEF Counted, StockLot
<1> QED BY <1>1, <1>2

\* Nothing counts nothing.
LEMMA NothingCounts ==
  ASSUME NEW c
  PROVE  UnitsOf(<<>>) = 0 /\ UnitsAt(<<>>, c) = 0 /\ <<>> \in Seq(Taken)
<1> DEFINE s == <<>>
<1>1. s \in Seq(Taken) /\ Counted(s, 0)
  BY DEF Counted
<1>2. 1..0 = {}
  OBVIOUS
<1> HIDE DEF s
<1>3. UnitsOf(s) = SumFunctionOnSet(Pieces(s, 0), {}) /\ UnitsAt(s, c) = SumFunctionOnSet(PiecesAt(s, 0, c), {})
  BY <1>1, <1>2, CountTable
<1> QED BY <1>1, <1>3, SumEmpty DEF s

\* What each action's lots add to a cost.
LEMMA LoadsKnown ==
  ASSUME InterfilialTables, NEW c
  PROVE  \A r \in Registers("stock_transfer_action") :
           /\ registers[r] \in Action /\ registers[r].taken \in Seq(Taken)
           /\ Loads(c)[r] = UnitsAt(registers[r].taken, c) /\ Loads(c)[r] \in Nat
<1> SUFFICES ASSUME NEW r \in Registers("stock_transfer_action")
             PROVE  /\ registers[r] \in Action /\ registers[r].taken \in Seq(Taken)
                    /\ Loads(c)[r] = UnitsAt(registers[r].taken, c) /\ Loads(c)[r] \in Nat
  OBVIOUS
<1>1. registers[r] \in RegisterRow /\ registers[r].kind = "stock_transfer_action"
  BY RowsKnown DEF Registers
<1>2. registers[r] \in Action
  BY <1>1, RowOfKind
<1>3. registers[r].taken \in Seq(Taken)
  BY <1>2 DEF Action
<1>4. Loads(c)[r] = UnitsAt(registers[r].taken, c)
  BY DEF Loads
<1>5. UnitsAt(registers[r].taken, c) \in Nat
  BY <1>3, ListsCount, CountTable
<1> QED BY <1>2, <1>3, <1>4, <1>5

\* A register that is no action leaves what is on the way.
LEMMA StagesAside ==
  ASSUME InterfilialInv, NEW row \in RegisterRow, Register(row), row.kind # "stock_transfer_action"
  PROVE  ActionsSound' /\ DispatchedOnce' /\ \A c : Travelling(c)' = Travelling(c)
<1> DEFINE n == Len(registers) + 1
           A == Registers("stock_transfer_action")
<1>1. InterfilialTables /\ ActionsSound /\ DispatchedOnce
  BY DEF InterfilialInv
<1>2. /\ n \notin DOMAIN registers /\ registers'[n] = row
      /\ \A r \in DOMAIN registers : registers'[r] = registers[r]
      /\ A' = A
      /\ Registers("stock_transfer")' = IF row.kind = "stock_transfer" THEN Registers("stock_transfer") \union {n}
                                                                        ELSE Registers("stock_transfer")
  BY <1>1, RegistersGrow
<1>3. /\ A \subseteq DOMAIN registers /\ Registers("stock_transfer") \subseteq DOMAIN registers /\ IsFiniteSet(A)
  BY <1>1, RowsKnown
<1>4. \A t : History(t)' = History(t) /\ TransferStage(t)' = TransferStage(t) /\ Dispatches(t)' = Dispatches(t)
  BY <1>1, HistoryStays
<1> HIDE DEF n, A
<1>5. ActionsSound'
  <2> SUFFICES ASSUME NEW r \in A'
               PROVE  /\ registers'[r].of \in Registers("stock_transfer")'
                      /\ registers'[r].action # "dispatch" => registers'[r].taken = <<>>
    BY DEF ActionsSound, A
  <2>1. r \in A /\ registers'[r] = registers[r]
    BY <1>2, <1>3
  <2> QED BY <1>1, <1>2, <2>1 DEF ActionsSound, A
<1>6. DispatchedOnce'
  <2> SUFFICES ASSUME NEW t \in Registers("stock_transfer")'
               PROVE  /\ TransferStage(t)' \in {"requested", "approved"} => Dispatches(t)' = {}
                      /\ TransferStage(t)' = "dispatched" => \E d \in History(t)' : Dispatches(t)' = {d}
    BY DEF DispatchedOnce
  <2>1. CASE t \in Registers("stock_transfer")
    BY <1>1, <1>4, <2>1 DEF DispatchedOnce
  <2>2. CASE t = n
    <3>1. History(t) = {}
      BY <1>1, <1>2, <1>3, <2>2 DEF History, ActionsSound, A
    <3>2. TransferStage(t) = "requested" /\ Dispatches(t) = {}
      BY <3>1 DEF TransferStage, Dispatches
    <3> QED BY <1>4, <3>2
  <2> QED BY <1>2, <2>1, <2>2
<1>7. ASSUME NEW c
      PROVE  Travelling(c)' = Travelling(c)
  <2>1. \A r \in A : registers'[r] = registers[r]
    BY <1>2, <1>3
  <2>2. OnTheWay' = OnTheWay
    BY <1>2, <1>4, <2>1 DEF OnTheWay, A
  <2>3. OnTheWay \subseteq A /\ IsFiniteSet(OnTheWay)
    BY <1>3, FS_Subset DEF OnTheWay, A
  <2>4. \A r \in OnTheWay : Loads(c)'[r] = Loads(c)[r]
    BY <1>2, <2>1, <2>3 DEF Loads, A
  <2>5. SumFunctionOnSet(Loads(c)', OnTheWay) = SumFunctionOnSet(Loads(c), OnTheWay)
    BY <2>3, <2>4, SumEqual
  <2> QED BY <2>2, <2>5 DEF Travelling
<1> QED BY <1>5, <1>6, <1>7

\* The payments so far.
LEMMA PaymentsKnown ==
  ASSUME InterfilialTables
  PROVE  /\ IsFiniteSet(Registers("tax_payment")) /\ Registers("tax_payment") \subseteq DOMAIN registers
         /\ DOMAIN Amounts = Registers("tax_payment")
         /\ \A r \in Registers("tax_payment") : Amounts[r] = registers[r].amount /\ Amounts[r] \in Nat
         /\ SumFunction(Amounts) \in Nat
         /\ \A t : /\ PaymentsOf(t) \subseteq Registers("tax_payment") /\ IsFiniteSet(PaymentsOf(t))
                   /\ Paid(t) \in Nat
<1>1. /\ IsFiniteSet(Registers("tax_payment")) /\ Registers("tax_payment") \subseteq DOMAIN registers
      /\ \A t : PaymentsOf(t) \subseteq Registers("tax_payment")
  BY RowsKnown DEF PaymentsOf
<1>2. ASSUME NEW r \in Registers("tax_payment")
      PROVE  Amounts[r] = registers[r].amount /\ Amounts[r] \in Nat
  <2>1. registers[r] \in RegisterRow /\ registers[r].kind = "tax_payment"
    BY RowsKnown DEF Registers
  <2>2. registers[r] \in TaxPayment
    BY <2>1, RowOfKind
  <2> QED BY <2>2, InterfilialAssumption DEF TaxPayment, Amounts
<1>3. DOMAIN Amounts = Registers("tax_payment")
  BY DEF Amounts
<1>4. SumFunction(Amounts) \in Nat
  BY <1>1, <1>2, <1>3, SumNat DEF SumFunction
<1>5. ASSUME NEW t
      PROVE  IsFiniteSet(PaymentsOf(t)) /\ Paid(t) \in Nat
  <2>1. IsFiniteSet(PaymentsOf(t))
    BY <1>1, FS_Subset
  <2>2. \A r \in PaymentsOf(t) : Amounts[r] \in Nat
    BY <1>1, <1>2
  <2> QED BY <2>1, <2>2, SumNat DEF Paid
<1> QED BY <1>1, <1>2, <1>3, <1>4, <1>5

\* What is paid of a tax that no payment is registered on stays.
LEMMA PaidStays ==
  ASSUME InterfilialTables, NEW row \in RegisterRow, Register(row), NEW t,
         ~(row.kind = "tax_payment" /\ row.of = t)
  PROVE  PaymentsOf(t)' = PaymentsOf(t) /\ Paid(t)' = Paid(t)
<1> DEFINE n == Len(registers) + 1
           P == Registers("tax_payment")
<1>1. /\ n \notin DOMAIN registers /\ registers'[n] = row
      /\ \A r \in DOMAIN registers : registers'[r] = registers[r]
      /\ P' = IF row.kind = "tax_payment" THEN P \union {n} ELSE P
  BY RegistersGrow
<1>2. P \subseteq DOMAIN registers /\ PaymentsOf(t) \subseteq P /\ IsFiniteSet(PaymentsOf(t))
  BY PaymentsKnown
<1>3. PaymentsOf(t)' = {r \in P' : registers'[r].of = t}
  BY DEF PaymentsOf
<1> HIDE DEF n
<1>4. PaymentsOf(t)' = PaymentsOf(t)
  BY <1>1, <1>2, <1>3 DEF PaymentsOf
<1>5. \A r \in PaymentsOf(t) : Amounts'[r] = Amounts[r]
  BY <1>1, <1>2 DEF Amounts
<1>6. SumFunctionOnSet(Amounts', PaymentsOf(t)) = SumFunctionOnSet(Amounts, PaymentsOf(t))
  BY <1>2, <1>5, SumEqual
<1> QED BY <1>4, <1>6 DEF Paid

\* A register that is no payment leaves what was paid.
LEMMA PaymentsAside ==
  ASSUME InterfilialInv, NEW row \in RegisterRow, Register(row), row.kind # "tax_payment"
  PROVE  PaymentsSound' /\ NotOverpaid' /\ SumFunction(Amounts)' = SumFunction(Amounts)
<1> DEFINE n == Len(registers) + 1
           P == Registers("tax_payment")
           X == Registers("tax")
<1>1. InterfilialTables /\ PaymentsSound /\ NotOverpaid
  BY DEF InterfilialInv
<1>2. /\ n \notin DOMAIN registers /\ registers'[n] = row
      /\ \A r \in DOMAIN registers : registers'[r] = registers[r]
      /\ P' = P /\ X' = IF row.kind = "tax" THEN X \union {n} ELSE X
  BY <1>1, RegistersGrow
<1>3. P \subseteq DOMAIN registers /\ X \subseteq DOMAIN registers
  BY <1>1, RowsKnown
<1>4. \A t : PaymentsOf(t)' = PaymentsOf(t) /\ Paid(t)' = Paid(t)
  BY <1>1, PaidStays
<1> HIDE DEF n
<1>5. PaymentsSound'
  BY <1>1, <1>2, <1>3 DEF PaymentsSound
<1>6. SumFunction(Amounts)' = SumFunction(Amounts)
  <2>1. Amounts' = Amounts
    BY <1>2, <1>3 DEF Amounts
  <2> QED BY <2>1 DEF SumFunction
<1>7. NotOverpaid'
  <2> SUFFICES ASSUME NEW t \in X' PROVE Paid(t)' <= registers'[t].amount
    BY DEF NotOverpaid
  <2>1. CASE t \in X
    BY <1>1, <1>2, <1>3, <1>4, <2>1 DEF NotOverpaid
  <2>2. CASE t = n /\ row.kind = "tax"
    <3>1. PaymentsOf(t) = {}
      BY <1>1, <1>2, <1>3, <2>2 DEF PaymentsOf, PaymentsSound
    <3>2. Paid(t) = 0
      BY <3>1, SumEmpty DEF Paid
    <3>3. row.amount \in Nat
      BY <2>2, RowOfKind, InterfilialAssumption DEF Tax
    <3> QED BY <1>2, <1>4, <2>2, <3>2, <3>3
  <2> QED BY <1>2, <2>1, <2>2
<1> QED BY <1>5, <1>6, <1>7

\* The register of an action.
ActRow(t, action, taken) ==
  [kind |-> "stock_transfer_action", of |-> t, action |-> action,
   stage |-> Moves[TransferStage(t)][action], taken |-> taken]

\* The actions of each stage, and where they leave a transfer.
LEMMA MoveCases ==
  ASSUME NEW s \in DOMAIN Moves, NEW a \in DOMAIN Moves[s]
  PROVE  \/ s = "requested" /\ a = "approve" /\ Moves[s][a] = "approved"
         \/ s = "requested" /\ a = "reject" /\ Moves[s][a] = "rejected"
         \/ s = "approved" /\ a = "dispatch" /\ Moves[s][a] = "dispatched"
         \/ s = "approved" /\ a = "reject" /\ Moves[s][a] = "rejected"
         \/ s = "dispatched" /\ a = "receive" /\ Moves[s][a] = "received"
<1>1. s \in {"requested", "approved", "dispatched"}
  BY DEF Moves
<1>2. CASE s = "requested"
  <2>1. Moves[s] = [approve |-> "approved", reject |-> "rejected"]
    BY <1>2 DEF Moves
  <2> HIDE DEF Moves
  <2>2. a \in {"approve", "reject"}
    BY <2>1
  <2> QED BY <1>2, <2>1, <2>2
<1>3. CASE s = "approved"
  <2>1. Moves[s] = [dispatch |-> "dispatched", reject |-> "rejected"]
    BY <1>3 DEF Moves
  <2>2. a \in {"dispatch", "reject"}
    BY <2>1
  <2> QED BY <1>3, <2>1, <2>2
<1>4. CASE s = "dispatched"
  <2>1. Moves[s] = [receive |-> "received"]
    BY <1>4 DEF Moves
  <2>2. a = "receive"
    BY <2>1
  <2> QED BY <1>4, <2>1, <2>2
<1> QED BY <1>1, <1>2, <1>3, <1>4

\* An action is registered on a transfer whose stage allows it.
LEMMA ActFacts ==
  ASSUME InterfilialTables, NEW t \in Registers("stock_transfer"), NEW action, NEW taken \in Seq(Taken),
         Act(t, action, taken), NEW row, row = ActRow(t, action, taken)
  PROVE  /\ row \in RegisterRow /\ Register(row)
         /\ row.kind = "stock_transfer_action" /\ row.of = t /\ row.action = action /\ row.taken = taken
         /\ \/ TransferStage(t) = "requested" /\ action = "approve" /\ row.stage = "approved"
            \/ TransferStage(t) = "requested" /\ action = "reject" /\ row.stage = "rejected"
            \/ TransferStage(t) = "approved" /\ action = "dispatch" /\ row.stage = "dispatched"
            \/ TransferStage(t) = "approved" /\ action = "reject" /\ row.stage = "rejected"
            \/ TransferStage(t) = "dispatched" /\ action = "receive" /\ row.stage = "received"
<1> DEFINE s == TransferStage(t)
           m == Moves[s][action]
<1>1. s \in DOMAIN Moves /\ action \in DOMAIN Moves[s] /\ Register(row)
  BY DEF Act, ActRow
<1>2. row = [kind |-> "stock_transfer_action", of |-> t, action |-> action, stage |-> m, taken |-> taken]
  BY DEF ActRow
<1> HIDE DEF s
<1>3. \/ s = "requested" /\ action = "approve" /\ m = "approved"
      \/ s = "requested" /\ action = "reject" /\ m = "rejected"
      \/ s = "approved" /\ action = "dispatch" /\ m = "dispatched"
      \/ s = "approved" /\ action = "reject" /\ m = "rejected"
      \/ s = "dispatched" /\ action = "receive" /\ m = "received"
  BY <1>1, MoveCases
<1> HIDE DEF m
<1>4. t \in 1..MaxRegisters
  BY RowsKnown, InterfilialAssumption DEF InterfilialTables
<1>5. row \in Action
  BY <1>2, <1>3, <1>4 DEF Action
<1> QED BY <1>1, <1>2, <1>3, <1>5 DEF RegisterRow, s

\* What is on the way after an action: the transfer's actions are, if it leaves it dispatched.
LEMMA OnTheWayAfter ==
  ASSUME InterfilialTables, NEW row \in RegisterRow, Register(row), row.kind = "stock_transfer_action"
  PROVE  /\ OnTheWay' = IF row.stage = "dispatched" THEN OnTheWay \union (History(row.of) \union {Len(registers) + 1})
                                                    ELSE OnTheWay \ History(row.of)
         /\ Len(registers) + 1 \notin Registers("stock_transfer_action")
         /\ OnTheWay \subseteq Registers("stock_transfer_action") /\ IsFiniteSet(OnTheWay)
         /\ \A c : /\ \A r \in Registers("stock_transfer_action") : Loads(c)'[r] = Loads(c)[r]
                   /\ Loads(c)'[Len(registers) + 1] = UnitsAt(row.taken, c)
<1> DEFINE n == Len(registers) + 1
           A == Registers("stock_transfer_action")
           t == row.of
           H == History(t)
<1>1. /\ n \notin DOMAIN registers /\ registers'[n] = row
      /\ \A r \in DOMAIN registers : registers'[r] = registers[r]
      /\ A' = A \union {n}
  BY RegistersGrow
<1>2. A \subseteq DOMAIN registers /\ IsFiniteSet(A)
  BY RowsKnown
<1>3. TransferStage(t)' = row.stage
  BY HistoryAfter
<1>4. \A s : s # t => TransferStage(s)' = TransferStage(s)
  BY HistoryStays
<1>5. H = {r \in A : registers[r].of = t} /\ row.of = t
  BY DEF History
<1> HIDE DEF n, A, t, H
<1>6. \A r \in A : registers'[r] = registers[r]
  BY <1>1, <1>2
<1>7. OnTheWay = {r \in A : TransferStage(registers[r].of) = "dispatched"}
  BY DEF OnTheWay, A
<1>8. OnTheWay' = {r \in A' : TransferStage(registers[r].of)' = "dispatched"}
  BY DEF OnTheWay, A
<1>9. OnTheWay' = IF row.stage = "dispatched" THEN OnTheWay \union (H \union {n}) ELSE OnTheWay \ H
  <2>1. \A r \in A : r \in OnTheWay' <=> IF r \in H THEN row.stage = "dispatched" ELSE r \in OnTheWay
    <3> SUFFICES ASSUME NEW r \in A
                 PROVE  r \in OnTheWay' <=> IF r \in H THEN row.stage = "dispatched" ELSE r \in OnTheWay
      OBVIOUS
    <3>1. r \in OnTheWay' <=> TransferStage(registers[r].of)' = "dispatched"
      BY <1>1, <1>8
    <3>2. r \in OnTheWay <=> TransferStage(registers[r].of) = "dispatched"
      BY <1>7
    <3> QED BY <1>3, <1>4, <1>5, <1>6, <3>1, <3>2
  <2>2. n \in OnTheWay' <=> row.stage = "dispatched"
    BY <1>1, <1>3, <1>5, <1>8
  <2>3. OnTheWay' \subseteq A \union {n} /\ n \notin A /\ H \subseteq A /\ OnTheWay \subseteq A
    BY <1>1, <1>2, <1>5, <1>7, <1>8
  <2> QED BY <2>1, <2>2, <2>3
<1>10. ASSUME NEW c
       PROVE  /\ \A r \in A : Loads(c)'[r] = Loads(c)[r]
              /\ Loads(c)'[n] = UnitsAt(row.taken, c)
  <2>1. Loads(c)' = [r \in A' |-> UnitsAt(registers'[r].taken, c)]
    BY DEF Loads, A
  <2> QED BY <1>1, <1>6, <2>1 DEF Loads, A
<1>11. OnTheWay \subseteq A /\ IsFiniteSet(OnTheWay) /\ n \notin A
  BY <1>1, <1>2, <1>7, FS_Subset
<1> QED BY <1>9, <1>10, <1>11 DEF n, A, t, H

\* An action keeps what the registers say of actions.
LEMMA ActRowsKeep ==
  ASSUME InterfilialInv, NEW t \in Registers("stock_transfer"), NEW action, NEW taken \in Seq(Taken),
         action # "dispatch" => taken = <<>>, Act(t, action, taken)
  PROVE  /\ registers' \in Seq(RegisterRow) /\ Len(registers') <= MaxRegisters
         /\ ActionsSound' /\ DispatchedOnce' /\ PaymentsSound' /\ NotOverpaid'
         /\ SumFunction(Amounts)' = SumFunction(Amounts)
<1> DEFINE n == Len(registers) + 1
           A == Registers("stock_transfer_action")
           T == Registers("stock_transfer")
<1>1. PICK row : row = ActRow(t, action, taken)
  OBVIOUS
<1>2. InterfilialTables /\ ActionsSound /\ DispatchedOnce
  BY DEF InterfilialInv
<1>3. /\ row \in RegisterRow /\ Register(row)
      /\ row.kind = "stock_transfer_action" /\ row.of = t /\ row.action = action /\ row.taken = taken
      /\ \/ TransferStage(t) = "requested" /\ action = "approve" /\ row.stage = "approved"
         \/ TransferStage(t) = "requested" /\ action = "reject" /\ row.stage = "rejected"
         \/ TransferStage(t) = "approved" /\ action = "dispatch" /\ row.stage = "dispatched"
         \/ TransferStage(t) = "approved" /\ action = "reject" /\ row.stage = "rejected"
         \/ TransferStage(t) = "dispatched" /\ action = "receive" /\ row.stage = "received"
  BY <1>1, <1>2, ActFacts
<1>4. /\ registers' \in Seq(RegisterRow) /\ Len(registers') <= MaxRegisters
      /\ n \notin DOMAIN registers /\ registers'[n] = row
      /\ \A r \in DOMAIN registers : registers'[r] = registers[r]
      /\ A' = A \union {n} /\ T' = T
  BY <1>2, <1>3, RegistersGrow
<1>5. A \subseteq DOMAIN registers
  BY <1>2, RowsKnown
<1>6. PaymentsSound' /\ NotOverpaid' /\ SumFunction(Amounts)' = SumFunction(Amounts)
  BY <1>3, PaymentsAside
<1>7. /\ History(t)' = History(t) \union {n} /\ TransferStage(t)' = row.stage
      /\ Dispatches(t)' = IF action = "dispatch" THEN Dispatches(t) \union {n} ELSE Dispatches(t)
  BY <1>2, <1>3, HistoryAfter
<1>8. \A s : s # t => /\ History(s)' = History(s) /\ TransferStage(s)' = TransferStage(s)
                      /\ Dispatches(s)' = Dispatches(s)
  BY <1>2, <1>3, HistoryStays
<1> HIDE DEF n, A, T
<1>9. ActionsSound'
  <2> SUFFICES ASSUME NEW r \in A'
               PROVE  /\ registers'[r].of \in T'
                      /\ registers'[r].action # "dispatch" => registers'[r].taken = <<>>
    BY DEF ActionsSound, A, T
  <2>1. CASE r \in A
    BY <1>2, <1>4, <1>5, <2>1 DEF ActionsSound, A, T
  <2>2. CASE r = n
    BY <1>3, <1>4, <2>2 DEF T
  <2> QED BY <1>4, <2>1, <2>2
<1>10. DispatchedOnce'
  <2> SUFFICES ASSUME NEW s \in T'
               PROVE  /\ TransferStage(s)' \in {"requested", "approved"} => Dispatches(s)' = {}
                      /\ TransferStage(s)' = "dispatched" => \E d \in History(s)' : Dispatches(s)' = {d}
    BY DEF DispatchedOnce, T
  <2>1. s \in T
    BY <1>4
  <2>2. /\ TransferStage(s) \in {"requested", "approved"} => Dispatches(s) = {}
        /\ TransferStage(s) = "dispatched" => \E d \in History(s) : Dispatches(s) = {d}
    BY <1>2, <2>1 DEF DispatchedOnce, T
  <2>3. CASE s # t
    BY <1>8, <2>2, <2>3
  <2>4. CASE s = t
    BY <1>3, <1>7, <2>2, <2>4
  <2> QED BY <2>3, <2>4
<1> QED BY <1>4, <1>6, <1>9, <1>10

\* An action moves to the way what its dispatch takes, and off it what a receipt brings.
LEMMA ActTravels ==
  ASSUME InterfilialInv, NEW t \in Registers("stock_transfer"), NEW action, NEW taken \in Seq(Taken),
         action # "dispatch" => taken = <<>>, Act(t, action, taken), NEW c
  PROVE  /\ Travelling(c)' \in Nat /\ Travelling(c) \in Nat
         /\ action \in {"approve", "reject"} => Travelling(c)' = Travelling(c)
         /\ action = "dispatch" => Travelling(c)' = Travelling(c) + UnitsAt(taken, c)
         /\ action = "receive" => /\ Sent(t) \in Seq(Taken)
                                  /\ Travelling(c) = Travelling(c)' + UnitsAt(Sent(t), c)
<1> DEFINE n == Len(registers) + 1
           A == Registers("stock_transfer_action")
           H == History(t)
           O == OnTheWay
           f == Loads(c)
           g == Loads(c)'
<1>1. PICK row : row = ActRow(t, action, taken)
  OBVIOUS
<1>2. InterfilialTables /\ ActionsSound /\ DispatchedOnce
  BY DEF InterfilialInv
<1>3. /\ row \in RegisterRow /\ Register(row)
      /\ row.kind = "stock_transfer_action" /\ row.of = t /\ row.action = action /\ row.taken = taken
      /\ \/ TransferStage(t) = "requested" /\ action = "approve" /\ row.stage = "approved"
         \/ TransferStage(t) = "requested" /\ action = "reject" /\ row.stage = "rejected"
         \/ TransferStage(t) = "approved" /\ action = "dispatch" /\ row.stage = "dispatched"
         \/ TransferStage(t) = "approved" /\ action = "reject" /\ row.stage = "rejected"
         \/ TransferStage(t) = "dispatched" /\ action = "receive" /\ row.stage = "received"
  BY <1>1, <1>2, ActFacts
<1>4. /\ O' = IF row.stage = "dispatched" THEN O \union (H \union {n}) ELSE O \ H
      /\ n \notin A /\ O \subseteq A /\ IsFiniteSet(O)
      /\ \A r \in A : g[r] = f[r]
      /\ g[n] = UnitsAt(taken, c)
  BY <1>2, <1>3, OnTheWayAfter
<1>5. H = {r \in A : registers[r].of = t} /\ IsFiniteSet(H)
  BY <1>2, RowsKnown DEF History
<1>6. O \intersect H = IF TransferStage(t) = "dispatched" THEN H ELSE {}
  BY <1>5 DEF OnTheWay
<1>7. \A r \in A : f[r] \in Nat /\ f[r] = UnitsAt(registers[r].taken, c) /\ registers[r].taken \in Seq(Taken)
  BY <1>2, LoadsKnown
<1>8. UnitsAt(taken, c) \in Nat
  BY ListsCount, CountTable
<1>9. \A r \in H : r \notin Dispatches(t) => f[r] = 0
  <2> SUFFICES ASSUME NEW r \in H, r \notin Dispatches(t) PROVE f[r] = 0
    OBVIOUS
  <2>1. r \in A /\ registers[r].taken = <<>>
    BY <1>2, <1>5 DEF ActionsSound, Dispatches
  <2> QED BY <1>7, <2>1, NothingCounts
<1>10. Travelling(c) = SumFunctionOnSet(f, O) /\ Travelling(c)' = SumFunctionOnSet(g, O')
  BY DEF Travelling
<1>11. TransferStage(t) \in {"requested", "approved"} => Dispatches(t) = {}
  BY <1>2 DEF DispatchedOnce
<1>12. TransferStage(t) = "dispatched" => \E d \in H : Dispatches(t) = {d}
  BY <1>2 DEF DispatchedOnce
<1> HIDE DEF n, A, H, O, f, g
<1>13. SumFunctionOnSet(g, O) = SumFunctionOnSet(f, O)
  BY <1>4, SumEqual
<1>14. SumFunctionOnSet(f, O) \in Nat
  BY <1>4, <1>7, SumNat
<1>15. CASE action \in {"approve", "reject"}
  <2>1. O' = O
    BY <1>3, <1>4, <1>6, <1>15
  <2> QED BY <1>10, <1>13, <1>14, <1>15, <2>1
<1>16. CASE action = "dispatch"
  <2> DEFINE W == H \union {n}
  <2>1. TransferStage(t) = "approved" /\ O' = O \union W
    BY <1>3, <1>4, <1>16
  <2>2. O \intersect W = {} /\ H \subseteq A
    BY <1>4, <1>5, <1>6, <2>1
  <2>3. IsFiniteSet(W) /\ {n} \in SUBSET W
    BY <1>5, FS_AddElement
  <2>4. \A r \in H : g[r] = 0
    BY <1>4, <1>9, <1>11, <2>1, <2>2
  <2>5. \A x \in O \union W : g[x] \in Int
    BY <1>4, <1>7, <1>8, <2>4
  <2>6. (\A x \in {n} : g[x] \in Int /\ g[x] = g[x]) /\ (\A x \in W \ {n} : g[x] = 0) /\ g[n] \in Int
    BY <1>4, <1>8, <2>4
  <2> HIDE DEF W
  <2>7. SumFunctionOnSet(g, W) = SumFunctionOnSet(g, {n})
    BY <2>3, <2>6, SumPart
  <2>8. SumFunctionOnSet(g, {n}) = UnitsAt(taken, c)
    BY <1>4, <2>6, SumOne
  <2>9. SumFunctionOnSet(g, O \union W) = SumFunctionOnSet(g, O) + SumFunctionOnSet(g, W)
    BY <1>4, <2>2, <2>3, <2>5, SumDisjoint
  <2> QED BY <1>8, <1>10, <1>13, <1>14, <1>16, <2>1, <2>7, <2>8, <2>9
<1>17. CASE action = "receive"
  <2> DEFINE R == O \ H
  <2>1. TransferStage(t) = "dispatched" /\ O' = R
    BY <1>3, <1>4, <1>17
  <2>2. O = R \union H /\ R \intersect H = {} /\ H \subseteq O
    BY <1>6, <2>1
  <2>3. PICK d \in H : Dispatches(t) = {d}
    BY <1>12, <2>1
  <2>4. IsFiniteSet(R) /\ R \in SUBSET O /\ {d} \in SUBSET H
    BY <1>4, <2>2, FS_Subset
  <2> HIDE DEF R
  <2>5. (\A x \in {d} : f[x] \in Int /\ f[x] = f[x]) /\ (\A x \in H \ {d} : f[x] = 0) /\ f[d] \in Int /\ d \in A
    BY <1>4, <1>7, <1>9, <2>2, <2>3
  <2>6. SumFunctionOnSet(f, H) = SumFunctionOnSet(f, {d})
    BY <1>5, <2>4, <2>5, SumPart
  <2>7. SumFunctionOnSet(f, {d}) = f[d]
    BY <2>5, SumOne
  <2>8. \A x \in R \union H : f[x] \in Int
    BY <1>4, <1>7, <2>2
  <2>9. SumFunctionOnSet(f, R \union H) = SumFunctionOnSet(f, R) + SumFunctionOnSet(f, H)
    BY <1>5, <2>2, <2>4, <2>8, SumDisjoint
  <2>10. SumFunctionOnSet(g, R) = SumFunctionOnSet(f, R) /\ SumFunctionOnSet(f, R) \in Nat
    <3>1. \A x \in R : g[x] = f[x] /\ f[x] \in Nat
      BY <1>4, <1>7, <2>4
    <3> QED BY <2>4, <3>1, SumEqual, SumNat
  <2>11. Sent(t) = registers[d].taken
    <3>1. {r \in History(t) : registers[r].action = "dispatch"} = {d}
      BY <2>3 DEF Dispatches
    <3>2. d \in Int
      BY <1>2, <2>3, RowsKnown DEF H
    <3>3. Max({d}) = d
      BY <3>2 DEF Max
    <3> QED BY <3>1, <3>3 DEF Sent
  <2>12. f[d] = UnitsAt(Sent(t), c) /\ Sent(t) \in Seq(Taken) /\ f[d] \in Nat
    BY <1>7, <2>5, <2>11
  <2> QED BY <1>10, <1>14, <1>17, <2>1, <2>2, <2>6, <2>7, <2>9, <2>10, <2>12
<1> QED BY <1>3, <1>15, <1>16, <1>17

-----------------------------------------------------------------------------
(* Interfilial: the shelves *)

\* The units of a cost on all shelves, now and at first.
OnShelves(c) == SumFunction([b \in Branches |-> UnitsAt(branchLots[b], c)])
AtFirst(c) == SumFunction([b \in Branches |-> FirstAt(b, c)])

\* What filiales start with are lots with units.
LEMMA FirstKnown ==
  ASSUME NEW b \in Branches, NEW c
  PROVE  /\ Len(FirstLots[b]) \in Nat /\ DOMAIN FirstLots[b] = 1..Len(FirstLots[b])
         /\ \A l \in DOMAIN FirstLots[b] : FirstLots[b][l][1] \in Nat /\ FirstLots[b][l][2] \in Nat
         /\ FirstUnits(b) \in Nat /\ FirstAt(b, c) \in Nat
<1> DEFINE N == Len(FirstLots[b])
           f == [l \in DOMAIN FirstLots[b] |-> FirstLots[b][l][1]]
           g == [l \in DOMAIN FirstLots[b] |-> IF FirstLots[b][l][2] = c THEN FirstLots[b][l][1] ELSE 0]
<1>1. FirstLots[b] \in Seq((Nat \ {0}) \X Nat)
  BY InterfilialAssumption
<1>2. /\ N \in Nat /\ DOMAIN FirstLots[b] = 1..N
      /\ \A l \in 1..N : FirstLots[b][l] \in (Nat \ {0}) \X Nat
  BY <1>1, LenProperties
<1>3. \A l \in 1..N : FirstLots[b][l][1] \in Nat /\ FirstLots[b][l][2] \in Nat
  BY <1>2
<1>4. IsFiniteSet(1..N)
  BY <1>2, PlacesFinite
<1>5. (\A l \in 1..N : f[l] \in Nat /\ g[l] \in Nat) /\ DOMAIN f = 1..N /\ DOMAIN g = 1..N
  BY <1>2, <1>3
<1>6. FirstUnits(b) = SumFunction(f) /\ FirstAt(b, c) = SumFunction(g)
  BY DEF FirstUnits, FirstAt
<1> HIDE DEF f, g, N
<1>7. SumFunctionOnSet(f, 1..N) \in Nat /\ SumFunctionOnSet(g, 1..N) \in Nat
  BY <1>4, <1>5, SumNat
<1>8. FirstUnits(b) \in Nat /\ FirstAt(b, c) \in Nat
  BY <1>5, <1>6, <1>7 DEF SumFunction
<1> QED BY <1>2, <1>3, <1>8 DEF N

\* Counts are numbers.
LEMMA CountsNat ==
  ASSUME InterfilialTables, NEW c
  PROVE  /\ \A b \in Branches : UnitsAt(branchLots[b], c) \in Nat /\ UnitsOf(branchLots[b]) \in Nat
         /\ OnShelves(c) \in Nat /\ Travelling(c) \in Nat /\ UnitsAt(stockExits, c) \in Nat
         /\ UnitsOf(stockExits) \in Nat
<1>1. \A b \in Branches : UnitsAt(branchLots[b], c) \in Nat /\ UnitsOf(branchLots[b]) \in Nat
  <2> SUFFICES ASSUME NEW b \in Branches
               PROVE  UnitsAt(branchLots[b], c) \in Nat /\ UnitsOf(branchLots[b]) \in Nat
    OBVIOUS
  <2>1. branchLots[b] \in Seq(StockLot)
    BY DEF InterfilialTables
  <2> QED BY <2>1, ListsCount, CountTable
<1>2. OnShelves(c) \in Nat
  <2> DEFINE f == [b \in Branches |-> UnitsAt(branchLots[b], c)]
  <2>1. DOMAIN f = Branches /\ OnShelves(c) = SumFunction(f) /\ \A b \in Branches : f[b] \in Nat
    BY <1>1 DEF OnShelves
  <2> HIDE DEF f
  <2>2. SumFunctionOnSet(f, Branches) \in Nat
    BY <2>1, InterfilialAssumption, SumNat
  <2> QED BY <2>1, <2>2 DEF SumFunction
<1>3. Travelling(c) \in Nat
  <2>1. OnTheWay \subseteq Registers("stock_transfer_action")
    BY DEF OnTheWay
  <2>2. IsFiniteSet(OnTheWay)
    BY <2>1, RowsKnown, FS_Subset
  <2>3. \A r \in OnTheWay : Loads(c)[r] \in Nat
    BY <2>1, LoadsKnown
  <2> QED BY <2>2, <2>3, SumNat DEF Travelling
<1>4. UnitsAt(stockExits, c) \in Nat /\ UnitsOf(stockExits) \in Nat
  <2>1. stockExits \in Seq(Taken)
    BY DEF InterfilialTables
  <2> QED BY <2>1, ListsCount, CountTable
<1> QED BY <1>1, <1>2, <1>3, <1>4

\* When one filial's lots change, so does what is on all shelves.
LEMMA ShelfChanges ==
  ASSUME InterfilialTables, NEW b \in Branches, NEW x \in Seq(StockLot), branchLots' = [branchLots EXCEPT ![b] = x]
  PROVE  /\ branchLots' \in [Branches -> Seq(StockLot)] /\ branchLots'[b] = x
         /\ \A d \in Branches \ {b} : branchLots'[d] = branchLots[d]
         /\ \A c : OnShelves(c)' = OnShelves(c) - UnitsAt(branchLots[b], c) + UnitsAt(x, c)
<1>1. branchLots \in [Branches -> Seq(StockLot)]
  BY DEF InterfilialTables
<1>2. /\ branchLots' \in [Branches -> Seq(StockLot)] /\ branchLots'[b] = x
      /\ \A d \in Branches \ {b} : branchLots'[d] = branchLots[d]
  BY <1>1
<1>3. ASSUME NEW c
      PROVE  OnShelves(c)' = OnShelves(c) - UnitsAt(branchLots[b], c) + UnitsAt(x, c)
  <2> DEFINE f == [d \in Branches |-> UnitsAt(branchLots[d], c)]
             g == [d \in Branches |-> UnitsAt(branchLots'[d], c)]
  <2>1. /\ \A d \in Branches : f[d] \in Int
        /\ f[b] = UnitsAt(branchLots[b], c)
    <3>1. \A d \in Branches : UnitsAt(branchLots[d], c) \in Nat
      BY CountsNat
    <3> QED BY <3>1
  <2>2. g[b] = UnitsAt(x, c) /\ g[b] \in Int
    BY <1>2, ListsCount, CountTable
  <2>3. \A d \in Branches \ {b} : g[d] = f[d]
    BY <1>2
  <2>4. DOMAIN f = Branches /\ DOMAIN g = Branches
    OBVIOUS
  <2>5. OnShelves(c) = SumFunction(f)
    BY DEF OnShelves
  <2>6. OnShelves(c)' = SumFunction(g)
    BY DEF OnShelves, UnitsAt
  <2> HIDE DEF f, g
  <2>7. SumFunctionOnSet(g, Branches) = SumFunctionOnSet(f, Branches) - f[b] + g[b]
    <3>1. IsFiniteSet(Branches)
      BY InterfilialAssumption
    <3> QED BY <2>1, <2>2, <2>3, <3>1, SumChange
  <2> QED BY <2>1, <2>2, <2>4, <2>5, <2>6, <2>7 DEF SumFunction
<1> QED BY <1>2, <1>3

\* What is taken leaves the shelf, its counter and its record in step.
LEMMA TakeKeeps ==
  ASSUME InterfilialInv, NEW b \in Branches, NEW q \in Nat, Take(b, q), NEW taken \in Allocated(b, q),
         unitsIn' = unitsIn
  PROVE  /\ branchLots' \in [Branches -> Seq(StockLot)]
         /\ branchStock' \in [Branches -> Nat] /\ unitsOut' \in [Branches -> Nat]
         /\ taken \in Seq(Taken)
         /\ \A c : OnShelves(c)' \in Int /\ OnShelves(c) = OnShelves(c)' + UnitsAt(taken, c)
         /\ \A d \in Branches : ShelfExplained(d)'
<1> DEFINE left == Consumed(b, q)
           s == NotBelowZero(branchStock[b] - q)
           o == unitsOut[b] + q
<1>1. /\ AvailableAt(b) >= q /\ branchLots' = [branchLots EXCEPT ![b] = left]
      /\ branchStock' = [branchStock EXCEPT ![b] = s]
      /\ unitsOut' = [unitsOut EXCEPT ![b] = o]
  BY DEF Take
<1>2. /\ InterfilialTables /\ \A d \in Branches : ShelfExplained(d)
      /\ branchStock \in [Branches -> Nat] /\ unitsOut \in [Branches -> Nat] /\ unitsIn \in [Branches -> Nat]
  BY DEF InterfilialInv, InterfilialTables
<1>3. Shelved(b)
  BY <1>2 DEF Shelved, InterfilialTables, ShelfExplained
<1>4. /\ taken \in Seq(Taken) /\ UnitsOf(taken) = q
      /\ left \in Seq(StockLot) /\ \A l \in DOMAIN left : left[l].held <= left[l].units
      /\ UnitsOf(branchLots[b]) = UnitsOf(left) + q
      /\ \A c : UnitsAt(branchLots[b], c) = UnitsAt(left, c) + UnitsAt(taken, c)
  BY <1>1, <1>3, CountTaken
<1> HIDE DEF left
<1>5. UnitsOf(left) \in Nat /\ \A c : UnitsAt(left, c) \in Nat /\ UnitsAt(taken, c) \in Nat
  BY <1>4, ListsCount, CountTable
<1>6. /\ branchLots' \in [Branches -> Seq(StockLot)] /\ branchLots'[b] = left
      /\ \A d \in Branches \ {b} : branchLots'[d] = branchLots[d]
      /\ \A c : OnShelves(c)' = OnShelves(c) - UnitsAt(branchLots[b], c) + UnitsAt(left, c)
  BY <1>1, <1>2, <1>4, ShelfChanges
<1>7. /\ branchStock[b] = UnitsOf(left) + q
      /\ branchStock[b] + unitsOut[b] = FirstUnits(b) + unitsIn[b]
      /\ branchStock[b] \in Nat /\ unitsOut[b] \in Nat
  BY <1>2, <1>4 DEF ShelfExplained
<1>8. s \in Nat /\ s = UnitsOf(left) /\ o \in Nat
  BY <1>5, <1>7 DEF NotBelowZero
<1>9. s + o = FirstUnits(b) + unitsIn[b]
  BY <1>5, <1>7, <1>8
<1> HIDE DEF s, o
<1>10. /\ branchStock' \in [Branches -> Nat] /\ unitsOut' \in [Branches -> Nat]
       /\ branchStock'[b] = s /\ unitsOut'[b] = o
       /\ \A d \in Branches \ {b} : branchStock'[d] = branchStock[d] /\ unitsOut'[d] = unitsOut[d]
  BY <1>1, <1>2, <1>8
<1>11. ASSUME NEW c
       PROVE  OnShelves(c)' \in Int /\ OnShelves(c) = OnShelves(c)' + UnitsAt(taken, c)
  <2>1. OnShelves(c) \in Nat /\ OnShelves(c)' = OnShelves(c) - UnitsAt(branchLots[b], c) + UnitsAt(left, c)
        /\ UnitsAt(branchLots[b], c) = UnitsAt(left, c) + UnitsAt(taken, c)
        /\ UnitsAt(left, c) \in Nat /\ UnitsAt(taken, c) \in Nat
    BY <1>2, <1>4, <1>5, <1>6, CountsNat
  <2> QED BY <2>1
<1>12. ASSUME NEW d \in Branches
       PROVE  ShelfExplained(d)'
  <2>1. CASE d = b
    BY <1>4, <1>6, <1>8, <1>9, <1>10, <2>1 DEF ShelfExplained, UnitsOf
  <2>2. CASE d # b
    BY <1>2, <1>6, <1>10, <2>2 DEF ShelfExplained, UnitsOf
  <2> QED BY <2>1, <2>2
<1> QED BY <1>4, <1>6, <1>10, <1>11, <1>12

\* What is brought joins the shelf, its counter and its record in step.
LEMMA BringKeeps ==
  ASSUME InterfilialInv, NEW b \in Branches, NEW taken \in Seq(Taken), Bring(b, taken), unitsOut' = unitsOut
  PROVE  /\ branchLots' \in [Branches -> Seq(StockLot)]
         /\ branchStock' \in [Branches -> Nat] /\ unitsIn' \in [Branches -> Nat]
         /\ \A c : OnShelves(c)' = OnShelves(c) + UnitsAt(taken, c)
         /\ \A d \in Branches : ShelfExplained(d)'
<1> DEFINE lots == branchLots[b]
           m == Len(lots)
           n == Len(taken)
           more == lots \o Arrivals(taken)
           q == UnitsOf(taken)
           s == branchStock[b] + q
           i == unitsIn[b] + q
<1>1. /\ branchLots' = [branchLots EXCEPT ![b] = more]
      /\ branchStock' = [branchStock EXCEPT ![b] = s] /\ unitsIn' = [unitsIn EXCEPT ![b] = i]
  BY DEF Bring
<1>2. /\ InterfilialTables /\ \A d \in Branches : ShelfExplained(d)
      /\ branchStock \in [Branches -> Nat] /\ unitsOut \in [Branches -> Nat] /\ unitsIn \in [Branches -> Nat]
      /\ lots \in Seq(StockLot)
  BY DEF InterfilialInv, InterfilialTables
<1>3. /\ m \in Nat /\ DOMAIN lots = 1..m /\ \A k \in 1..m : lots[k] \in StockLot
      /\ n \in Nat /\ DOMAIN taken = 1..n /\ \A k \in 1..n : taken[k] \in Taken
  BY <1>2, LenProperties
<1>4. /\ Arrivals(taken) \in Seq(StockLot) /\ Len(Arrivals(taken)) = n
      /\ \A k \in 1..n : Arrivals(taken)[k] = [units |-> taken[k].units, held |-> 0, cost |-> taken[k].cost]
  <2> DEFINE a == Arrivals(taken)
  <2>1. a = [k \in 1..n |-> [units |-> taken[k].units, held |-> 0, cost |-> taken[k].cost]]
    BY <1>3 DEF Arrivals
  <2>2. \A k \in 1..n : [units |-> taken[k].units, held |-> 0, cost |-> taken[k].cost] \in StockLot
    BY <1>3 DEF Taken, StockLot
  <2> HIDE DEF a, n
  <2>3. a \in [1..n -> StockLot] /\ \A k \in 1..n : a[k] = [units |-> taken[k].units, held |-> 0, cost |-> taken[k].cost]
    BY <2>1, <2>2
  <2>4. a \in Seq(StockLot)
    BY <1>3, <2>3, SeqDef
  <2>5. DOMAIN a = 1..n /\ DOMAIN a = 1..Len(a) /\ Len(a) \in Nat
    BY <2>3, <2>4, LenProperties
  <2>6. Len(a) = n
    BY <1>3, <2>5
  <2> QED BY <2>3, <2>4, <2>6 DEF a
<1>5. /\ more \in Seq(StockLot) /\ DOMAIN more = 1..(m + n)
      /\ \A k \in 1..m : more[k] = lots[k]
      /\ \A k \in 1..n : more[m + k] = Arrivals(taken)[k]
  <2> DEFINE a == Arrivals(taken)
  <2> HIDE DEF a, m, n, lots
  <2>1. a \in Seq(StockLot) /\ Len(a) = n /\ m = Len(lots) /\ lots \in Seq(StockLot)
    BY <1>2, <1>4 DEF a, m
  <2>2. /\ lots \o a \in Seq(StockLot) /\ Len(lots \o a) = m + n
        /\ \A k \in 1..(m + n) : (lots \o a)[k] = IF k <= m THEN lots[k] ELSE a[k - m]
    BY <2>1, ConcatProperties
  <2>3. DOMAIN (lots \o a) = 1..(m + n)
    BY <2>2, LenProperties
  <2>4. \A k \in 1..m : k \in 1..(m + n) /\ k <= m
    BY <1>3
  <2>5. \A k \in 1..n : m + k \in 1..(m + n) /\ ~(m + k <= m) /\ (m + k) - m = k
    BY <1>3
  <2>6. \A k \in 1..m : (lots \o a)[k] = lots[k]
    BY <2>2, <2>4
  <2>7. \A k \in 1..n : (lots \o a)[m + k] = a[k]
    BY <2>2, <2>5
  <2> QED BY <2>2, <2>3, <2>6, <2>7 DEF a
<1> HIDE DEF more, lots, m, n
<1>6. Counted(lots, m) /\ Counted(taken, n)
  BY <1>3 DEF Counted, StockLot, Taken
<1>7. \A k \in 1..n : more[m + k].units = taken[k].units /\ more[m + k].cost = taken[k].cost /\ more[m + k].held = 0
  BY <1>4, <1>5
<1>8. UnitsOf(more) = UnitsOf(lots) + q /\ \A c : UnitsAt(more, c) = UnitsAt(lots, c) + UnitsAt(taken, c)
  <2>1. Joined(lots, m, taken, n, more)
    BY <1>5, <1>7 DEF Joined
  <2> QED BY <1>6, <2>1, CountJoined
<1>9. q \in Nat /\ UnitsOf(lots) \in Nat /\ \A c : UnitsAt(taken, c) \in Nat /\ UnitsAt(lots, c) \in Nat
  BY <1>6, CountTable
<1>10. \A l \in DOMAIN more : more[l].held <= more[l].units
  <2> SUFFICES ASSUME NEW l \in 1..(m + n) PROVE more[l].held <= more[l].units
    BY <1>5
  <2>1. CASE l <= m
    <3>1. l \in 1..m
      BY <1>3, <2>1
    <3>2. lots[l].held <= lots[l].units
      BY <1>2, <1>3, <3>1 DEF ShelfExplained, lots
    <3> QED BY <1>5, <3>1, <3>2
  <2>2. CASE ~(l <= m)
    <3> DEFINE k == l - m
    <3>1. k \in 1..n /\ l = m + k
      BY <1>3, <2>2
    <3> HIDE DEF k
    <3>2. more[m + k].held = 0 /\ more[m + k].units = taken[k].units /\ taken[k].units \in Nat
      BY <1>3, <1>7, <3>1 DEF Taken
    <3> QED BY <3>1, <3>2
  <2> QED BY <2>1, <2>2
<1>11. /\ branchLots' \in [Branches -> Seq(StockLot)] /\ branchLots'[b] = more
       /\ \A d \in Branches \ {b} : branchLots'[d] = branchLots[d]
       /\ \A c : OnShelves(c)' = OnShelves(c) - UnitsAt(lots, c) + UnitsAt(more, c)
  BY <1>1, <1>2, <1>5, ShelfChanges DEF lots
<1>12. /\ branchStock[b] = UnitsOf(lots)
       /\ branchStock[b] + unitsOut[b] = FirstUnits(b) + unitsIn[b]
       /\ branchStock[b] \in Nat /\ unitsOut[b] \in Nat /\ unitsIn[b] \in Nat /\ FirstUnits(b) \in Nat
  BY <1>2, FirstKnown DEF ShelfExplained, lots
<1> HIDE DEF q
<1>13. s \in Nat /\ s = UnitsOf(more) /\ i \in Nat /\ s + unitsOut[b] = FirstUnits(b) + i
  <2> DEFINE x == branchStock[b]
             y == unitsOut[b]
             z == unitsIn[b]
             u == UnitsOf(lots)
             v == FirstUnits(b)
  <2>1. x = u /\ x + y = v + z /\ x \in Nat /\ y \in Nat /\ z \in Nat /\ v \in Nat /\ q \in Nat
        /\ UnitsOf(more) = u + q /\ s = x + q /\ i = z + q
    BY <1>8, <1>9, <1>12
  <2> HIDE DEF x, y, z, u, v, s, i
  <2>2. s \in Nat /\ s = UnitsOf(more) /\ i \in Nat /\ s + y = v + i
    BY <2>1
  <2> QED BY <2>2 DEF y, v
<1> HIDE DEF s, i
<1>14. /\ branchStock' \in [Branches -> Nat] /\ unitsIn' \in [Branches -> Nat]
       /\ branchStock'[b] = s /\ unitsIn'[b] = i
       /\ \A d \in Branches \ {b} : branchStock'[d] = branchStock[d] /\ unitsIn'[d] = unitsIn[d]
  BY <1>1, <1>2, <1>13
<1>15. ASSUME NEW c
       PROVE  OnShelves(c)' = OnShelves(c) + UnitsAt(taken, c)
  <2>1. OnShelves(c) \in Nat /\ OnShelves(c)' = OnShelves(c) - UnitsAt(lots, c) + UnitsAt(more, c)
        /\ UnitsAt(more, c) = UnitsAt(lots, c) + UnitsAt(taken, c)
        /\ UnitsAt(lots, c) \in Nat /\ UnitsAt(taken, c) \in Nat
    BY <1>2, <1>8, <1>9, <1>11, CountsNat
  <2> QED BY <2>1
<1>16. ASSUME NEW d \in Branches
       PROVE  ShelfExplained(d)'
  <2>1. CASE d = b
    BY <1>10, <1>11, <1>13, <1>14, <2>1 DEF ShelfExplained, UnitsOf
  <2>2. CASE d # b
    BY <1>2, <1>11, <1>14, <2>2 DEF ShelfExplained, UnitsOf
  <2> QED BY <2>1, <2>2
<1> QED BY <1>11, <1>14, <1>15, <1>16

-----------------------------------------------------------------------------
(* Interfilial: each operation keeps the invariant *)

\* What the filiales started with, and where it is.
LEMMA KeptMeans ==
  ASSUME NEW c
  PROVE  /\ UnitsKept(c) <=> AtFirst(c) = OnShelves(c) + Travelling(c) + UnitsAt(stockExits, c)
         /\ UnitsKept(c)' <=> AtFirst(c) = OnShelves(c)' + Travelling(c)' + UnitsAt(stockExits', c)
<1>1. UnitsKept(c) <=> AtFirst(c) = OnShelves(c) + Travelling(c) + UnitsAt(stockExits, c)
  BY DEF UnitsKept, AtFirst, OnShelves
<1>2. AtFirst(c)' = AtFirst(c)
  BY DEF AtFirst
<1>3. UnitsKept(c)' <=> AtFirst(c)' = OnShelves(c)' + Travelling(c)' + UnitsAt(stockExits', c)
  BY DEF UnitsKept, AtFirst, OnShelves, UnitsAt
<1> QED BY <1>1, <1>2, <1>3

\* Where no lot moves, units are kept and shelves explained as before.
LEMMA ShelvesAside ==
  ASSUME InterfilialInv, UNCHANGED <<branchLots, branchStock, unitsIn, unitsOut, stockExits>>,
         \A c : Travelling(c)' = Travelling(c)
  PROVE  (\A c \in Nat : UnitsKept(c)') /\ (\A b \in Branches : ShelfExplained(b)')
<1>1. ASSUME NEW c \in Nat
      PROVE  UnitsKept(c)'
  <2>1. OnShelves(c)' = OnShelves(c)
    BY DEF OnShelves, UnitsAt
  <2>2. UnitsKept(c)
    BY DEF InterfilialInv
  <2> QED BY <2>1, <2>2, KeptMeans
<1>2. ASSUME NEW b \in Branches
      PROVE  ShelfExplained(b)'
  <2>1. ShelfExplained(b)
    BY DEF InterfilialInv
  <2> QED BY <2>1 DEF ShelfExplained, UnitsOf
<1> QED BY <1>1, <1>2

\* Where no account moves and no tax is paid, the money is kept as before.
LEMMA CashAside ==
  ASSUME InterfilialInv, branchCash' = branchCash, SumFunction(Amounts)' = SumFunction(Amounts)
  PROVE  CashKept'
<1>1. CashKept
  BY DEF InterfilialInv
<1> QED BY <1>1 DEF CashKept

\* A register that is neither an action nor a payment, and moves money at most between accounts.
LEMMA RecordKeeps ==
  ASSUME InterfilialInv, NEW row \in RegisterRow, Register(row),
         row.kind # "stock_transfer_action", row.kind # "tax_payment",
         UNCHANGED <<branchLots, branchStock, unitsIn, unitsOut, openBranches, stockExits>>,
         branchCash' \in [Branches -> Nat], SumFunction(branchCash') = SumFunction(branchCash)
  PROVE  InterfilialInv'
<1>1. InterfilialTables /\ CashKept
  BY DEF InterfilialInv
<1>2. registers' \in Seq(RegisterRow) /\ Len(registers') <= MaxRegisters
  BY <1>1, RegistersGrow
<1>3. InterfilialTables'
  BY <1>1, <1>2 DEF InterfilialTables
<1>4. ActionsSound' /\ DispatchedOnce' /\ \A c : Travelling(c)' = Travelling(c)
  BY StagesAside
<1>5. PaymentsSound' /\ NotOverpaid' /\ SumFunction(Amounts)' = SumFunction(Amounts)
  BY PaymentsAside
<1>6. (\A c \in Nat : UnitsKept(c)') /\ (\A b \in Branches : ShelfExplained(b)')
  BY <1>4, ShelvesAside
<1>7. CashKept'
  BY <1>1, <1>5 DEF CashKept
<1> QED BY <1>3, <1>4, <1>5, <1>6, <1>7 DEF InterfilialInv

\* A transfer is requested.
LEMMA RequestKeeps ==
  ASSUME InterfilialInv, NEW b \in Branches, NEW c \in Branches, NEW n \in Shipments, RequestTransfer(b, c, n)
  PROVE  InterfilialInv'
<1> DEFINE row == [kind |-> "stock_transfer", from |-> b, to |-> c, units |-> n]
<1>1. Register(row) /\ UNCHANGED <<branchLots, branchStock, unitsIn, unitsOut, branchCash, openBranches, stockExits>>
  BY DEF RequestTransfer
<1>2. row \in StockTransfer /\ row.kind = "stock_transfer"
  BY DEF StockTransfer
<1>3. row \in RegisterRow
  BY <1>2 DEF RegisterRow
<1> HIDE DEF row
<1>4. branchCash' \in [Branches -> Nat] /\ SumFunction(branchCash') = SumFunction(branchCash)
  BY <1>1 DEF InterfilialInv, InterfilialTables
<1> QED BY <1>1, <1>2, <1>3, <1>4, RecordKeeps

\* A tax is owed.
LEMMA OweTaxKeeps ==
  ASSUME InterfilialInv, NEW b \in Branches, NEW n \in Payments, OweTax(b, n)
  PROVE  InterfilialInv'
<1> DEFINE row == [kind |-> "tax", by |-> b, amount |-> n]
<1>1. Register(row) /\ UNCHANGED <<branchLots, branchStock, unitsIn, unitsOut, branchCash, openBranches, stockExits>>
  BY DEF OweTax
<1>2. row \in Tax /\ row.kind = "tax"
  BY DEF Tax
<1>3. row \in RegisterRow
  BY <1>2 DEF RegisterRow
<1> HIDE DEF row
<1>4. branchCash' \in [Branches -> Nat] /\ SumFunction(branchCash') = SumFunction(branchCash)
  BY <1>1 DEF InterfilialInv, InterfilialTables
<1> QED BY <1>1, <1>2, <1>3, <1>4, RecordKeeps

\* The sum of the accounts, and of all but one.
LEMMA CashKnown ==
  ASSUME InterfilialTables
  PROVE  /\ SumFunction(branchCash) = SumFunctionOnSet(branchCash, Branches)
         /\ IsFiniteSet(Branches) /\ (\A b \in Branches : branchCash[b] \in Nat)
         /\ SumFunction(branchCash) \in Int
<1>1. DOMAIN branchCash = Branches /\ \A b \in Branches : branchCash[b] \in Nat
  BY DEF InterfilialTables
<1>2. IsFiniteSet(Branches)
  BY InterfilialAssumption
<1>3. SumFunctionOnSet(branchCash, Branches) \in Nat
  BY <1>1, <1>2, SumNat
<1> QED BY <1>1, <1>2, <1>3 DEF SumFunction

\* Money moves between two accounts.
LEMMA TransferFundsKeeps ==
  ASSUME InterfilialInv, NEW b \in Branches, NEW c \in Branches, NEW n \in Payments, TransferFunds(b, c, n)
  PROVE  InterfilialInv'
<1> DEFINE row == [kind |-> "funds_transfer", from |-> b, to |-> c, amount |-> n]
           x == branchCash[b] - n
           y == branchCash[c] + n
           mid == [branchCash EXCEPT ![b] = x]
<1>1. /\ b # c /\ branchCash[b] >= n /\ Register(row)
      /\ branchCash' = [branchCash EXCEPT ![b] = x, ![c] = y]
      /\ UNCHANGED <<branchLots, branchStock, unitsIn, unitsOut, openBranches, stockExits>>
  BY DEF TransferFunds, Covered
<1>2. row \in FundsTransfer /\ row.kind = "funds_transfer"
  BY DEF FundsTransfer
<1>3. row \in RegisterRow
  BY <1>2 DEF RegisterRow
<1>4. /\ InterfilialTables /\ branchCash \in [Branches -> Nat]
      /\ SumFunction(branchCash) = SumFunctionOnSet(branchCash, Branches)
      /\ IsFiniteSet(Branches) /\ SumFunction(branchCash) \in Int
  BY CashKnown DEF InterfilialInv, InterfilialTables
<1>5. n \in Nat /\ x \in Nat /\ y \in Nat /\ x = branchCash[b] - n /\ y = branchCash[c] + n
  <2>1. n \in Nat /\ branchCash[b] \in Nat /\ branchCash[c] \in Nat
    BY <1>4, InterfilialAssumption
  <2> QED BY <1>1, <2>1
<1> HIDE DEF row, x, y
<1>6. mid \in [Branches -> Nat] /\ mid[b] = x /\ (\A d \in Branches \ {b} : mid[d] = branchCash[d])
  BY <1>4, <1>5
<1>7. branchCash' \in [Branches -> Nat] /\ branchCash'[c] = y /\ (\A d \in Branches \ {c} : branchCash'[d] = mid[d])
  BY <1>1, <1>4, <1>5
<1> HIDE DEF mid
<1>8. SumFunctionOnSet(mid, Branches) = SumFunctionOnSet(branchCash, Branches) - branchCash[b] + mid[b]
  <2>1. (\A d \in Branches : branchCash[d] \in Int) /\ mid[b] \in Int
    BY <1>4, <1>5, <1>6
  <2> QED BY <1>4, <1>6, <2>1, SumChange
<1>9. SumFunctionOnSet(branchCash', Branches) = SumFunctionOnSet(mid, Branches) - mid[c] + branchCash'[c]
  <2>1. (\A d \in Branches : mid[d] \in Int) /\ branchCash'[c] \in Int
    BY <1>5, <1>6, <1>7
  <2> QED BY <1>4, <1>7, <2>1, SumChange
<1>10. SumFunction(branchCash') = SumFunction(branchCash)
  <2>1. DOMAIN branchCash' = Branches
    BY <1>7
  <2>2. SumFunction(branchCash') = SumFunctionOnSet(branchCash', Branches)
    BY <2>1 DEF SumFunction
  <2>3. mid[c] = branchCash[c] /\ mid[b] = x /\ branchCash'[c] = y /\ branchCash[b] \in Nat /\ branchCash[c] \in Nat
    BY <1>1, <1>4, <1>6, <1>7
  <2> QED BY <1>4, <1>5, <1>8, <1>9, <2>2, <2>3
<1> QED BY <1>1, <1>2, <1>3, <1>7, <1>10, RecordKeeps

\* A tax is paid, of what is owed still and the account has.
LEMMA PayTaxKeeps ==
  ASSUME InterfilialInv, NEW t \in Registers("tax"), NEW n \in Payments, PayTax(t, n)
  PROVE  InterfilialInv'
<1> DEFINE row == [kind |-> "tax_payment", of |-> t, amount |-> n]
           b == registers[t].by
           x == branchCash[b] - n
           k == Len(registers) + 1
           P == Registers("tax_payment")
<1>1. /\ Paid(t) + n <= registers[t].amount /\ branchCash[b] >= n /\ Register(row)
      /\ branchCash' = [branchCash EXCEPT ![b] = x]
      /\ UNCHANGED <<branchLots, branchStock, unitsIn, unitsOut, openBranches, stockExits>>
  BY DEF PayTax, Covered
<1>2. /\ InterfilialTables /\ branchCash \in [Branches -> Nat]
      /\ SumFunction(branchCash) = SumFunctionOnSet(branchCash, Branches)
      /\ IsFiniteSet(Branches) /\ SumFunction(branchCash) \in Int
      /\ PaymentsSound /\ NotOverpaid /\ CashKept
  BY CashKnown DEF InterfilialInv, InterfilialTables
<1>3. t \in DOMAIN registers /\ registers[t] \in Tax
  <2>1. t \in DOMAIN registers /\ registers[t] \in RegisterRow /\ registers[t].kind = "tax"
    BY <1>2, RowsKnown DEF Registers
  <2> QED BY <2>1, RowOfKind
<1>4. b \in Branches /\ registers[t].amount \in Nat /\ n \in Nat
  BY <1>3, InterfilialAssumption DEF Tax
<1>5. t \in 1..MaxRegisters
  BY <1>2, <1>3, RowsKnown, InterfilialAssumption DEF InterfilialTables
<1>6. row \in TaxPayment /\ row.kind = "tax_payment" /\ row.of = t /\ row.amount = n
  BY <1>5 DEF TaxPayment
<1>7. row \in RegisterRow
  BY <1>6 DEF RegisterRow
<1>8. x \in Nat /\ x = branchCash[b] - n /\ branchCash[b] \in Nat
  BY <1>1, <1>2, <1>4
<1> HIDE DEF row, b, x
<1>9. /\ registers' \in Seq(RegisterRow) /\ Len(registers') <= MaxRegisters
      /\ k \notin DOMAIN registers /\ registers'[k] = row
      /\ \A r \in DOMAIN registers : registers'[r] = registers[r]
      /\ P' = P \union {k} /\ Registers("tax")' = Registers("tax")
  BY <1>1, <1>2, <1>6, <1>7, RegistersGrow
<1>10. branchCash' \in [Branches -> Nat] /\ branchCash'[b] = x /\ \A d \in Branches \ {b} : branchCash'[d] = branchCash[d]
  BY <1>1, <1>2, <1>4, <1>8
<1>11. InterfilialTables'
  BY <1>1, <1>2, <1>9, <1>10 DEF InterfilialTables
<1>12. ActionsSound' /\ DispatchedOnce' /\ \A c : Travelling(c)' = Travelling(c)
  BY <1>1, <1>6, <1>7, StagesAside
<1>13. (\A c \in Nat : UnitsKept(c)') /\ (\A d \in Branches : ShelfExplained(d)')
  BY <1>1, <1>12, ShelvesAside
<1>14. /\ P \subseteq DOMAIN registers /\ IsFiniteSet(P) /\ DOMAIN Amounts = P
       /\ \A r \in P : Amounts[r] = registers[r].amount /\ Amounts[r] \in Nat
       /\ PaymentsOf(t) \subseteq P /\ IsFiniteSet(PaymentsOf(t)) /\ Paid(t) \in Nat
       /\ SumFunction(Amounts) \in Nat
  BY <1>2, PaymentsKnown
<1>15. DOMAIN Amounts' = P \union {k} /\ Amounts'[k] = n /\ \A r \in P : Amounts'[r] = Amounts[r]
  <2>1. Amounts' = [r \in P' |-> registers'[r].amount]
    BY DEF Amounts
  <2> HIDE DEF P, k
  <2> QED BY <1>6, <1>9, <1>14, <2>1
<1> HIDE DEF k, P
<1>16. k \notin P /\ k \notin PaymentsOf(t)
  BY <1>9, <1>14
<1>17. SumFunction(Amounts)' = n + SumFunction(Amounts)
  <2>1. \A r \in P \union {k} : Amounts'[r] \in Int
    BY <1>4, <1>14, <1>15
  <2>2. SumFunctionOnSet(Amounts', P \union {k}) = Amounts'[k] + SumFunctionOnSet(Amounts', P)
    BY <1>14, <1>16, <2>1, SumAdd
  <2>3. SumFunctionOnSet(Amounts', P) = SumFunctionOnSet(Amounts, P)
    BY <1>14, <1>15, SumEqual
  <2> QED BY <1>14, <1>15, <2>2, <2>3 DEF SumFunction
<1>18. CashKept'
  <2>1. SumFunctionOnSet(branchCash', Branches) = SumFunctionOnSet(branchCash, Branches) - branchCash[b] + branchCash'[b]
    <3>1. (\A d \in Branches : branchCash[d] \in Int) /\ branchCash'[b] \in Int
      BY <1>2, <1>8, <1>10
    <3> QED BY <1>2, <1>4, <1>10, <3>1, SumChange
  <2>2. DOMAIN branchCash' = Branches
    BY <1>10
  <2>3. SumFunction(branchCash') = SumFunction(branchCash) - n
    BY <1>2, <1>4, <1>8, <1>10, <2>1, <2>2 DEF SumFunction
  <2>4. SumFunction(FirstCash) = SumFunction(branchCash) + SumFunction(Amounts)
    BY <1>2 DEF CashKept
  <2>5. SumFunction(FirstCash) = SumFunction(branchCash') + SumFunction(Amounts)'
    BY <1>2, <1>4, <1>14, <1>17, <2>3, <2>4
  <2> QED BY <2>5 DEF CashKept
<1>19. PaymentsSound'
  <2> SUFFICES ASSUME NEW r \in P' PROVE registers'[r].of \in Registers("tax")'
    BY DEF PaymentsSound, P
  <2>1. CASE r \in P
    BY <1>2, <1>9, <1>14, <2>1 DEF PaymentsSound, P
  <2>2. CASE r = k
    BY <1>6, <1>9, <2>2
  <2> QED BY <1>9, <2>1, <2>2
<1>20. NotOverpaid'
  <2> SUFFICES ASSUME NEW s \in Registers("tax") PROVE Paid(s)' <= registers'[s].amount
    BY <1>9 DEF NotOverpaid
  <2>1. registers'[s] = registers[s] /\ Paid(s) <= registers[s].amount
    BY <1>2, <1>9, RowsKnown DEF NotOverpaid
  <2>2. CASE s # t
    <3>1. Paid(s)' = Paid(s)
      BY <1>1, <1>2, <1>6, <1>7, <2>2, PaidStays
    <3> QED BY <2>1, <3>1
  <2>3. CASE s = t
    <3>1. PaymentsOf(t)' = {r \in P' : registers'[r].of = t}
      BY DEF PaymentsOf, P
    <3>2. PaymentsOf(t)' = PaymentsOf(t) \union {k}
      BY <1>6, <1>9, <1>14, <3>1 DEF PaymentsOf, P
    <3>3. \A r \in PaymentsOf(t) \union {k} : Amounts'[r] \in Int
      BY <1>4, <1>14, <1>15
    <3>4. SumFunctionOnSet(Amounts', PaymentsOf(t) \union {k}) = Amounts'[k] + SumFunctionOnSet(Amounts', PaymentsOf(t))
      BY <1>14, <1>16, <3>3, SumAdd
    <3>5. SumFunctionOnSet(Amounts', PaymentsOf(t)) = SumFunctionOnSet(Amounts, PaymentsOf(t))
      BY <1>14, <1>15, SumEqual
    <3>6. Paid(t)' = n + Paid(t)
      BY <1>15, <3>2, <3>4, <3>5 DEF Paid
    <3> QED BY <1>1, <1>4, <1>14, <2>1, <2>3, <3>6
  <2> QED BY <2>2, <2>3
<1> QED BY <1>11, <1>12, <1>13, <1>18, <1>19, <1>20 DEF InterfilialInv

\* A transfer is of filiales and of units.
LEMMA TransferKnown ==
  ASSUME InterfilialTables, NEW t \in Registers("stock_transfer")
  PROVE  registers[t].from \in Branches /\ registers[t].to \in Branches /\ registers[t].units \in Nat
<1>1. registers[t] \in RegisterRow /\ registers[t].kind = "stock_transfer"
  BY RowsKnown DEF Registers
<1>2. registers[t] \in StockTransfer
  BY <1>1, RowOfKind
<1> QED BY <1>2, InterfilialAssumption DEF StockTransfer

\* A transfer is approved or rejected.
LEMMA DecideKeeps ==
  ASSUME InterfilialInv, NEW t \in Registers("stock_transfer"), NEW action, Decide(t, action)
  PROVE  InterfilialInv'
<1>1. /\ action \in {"approve", "reject"} /\ Act(t, action, <<>>)
      /\ UNCHANGED <<branchLots, branchStock, unitsIn, unitsOut, branchCash, openBranches, stockExits>>
  BY DEF Decide
<1>2. <<>> \in Seq(Taken) /\ action # "dispatch"
  BY <1>1, NothingCounts
<1>3. /\ registers' \in Seq(RegisterRow) /\ Len(registers') <= MaxRegisters
      /\ ActionsSound' /\ DispatchedOnce' /\ PaymentsSound' /\ NotOverpaid'
      /\ SumFunction(Amounts)' = SumFunction(Amounts)
  BY <1>1, <1>2, ActRowsKeep
<1>4. \A c : Travelling(c)' = Travelling(c)
  BY <1>1, <1>2, ActTravels
<1>5. (\A c \in Nat : UnitsKept(c)') /\ (\A b \in Branches : ShelfExplained(b)')
  BY <1>1, <1>4, ShelvesAside
<1>6. CashKept'
  BY <1>1, <1>3, CashAside
<1>7. InterfilialTables'
  BY <1>1, <1>3 DEF InterfilialInv, InterfilialTables
<1> QED BY <1>3, <1>5, <1>6, <1>7 DEF InterfilialInv

\* A transfer is dispatched: what leaves the shelf is on the way.
LEMMA DispatchKeeps ==
  ASSUME InterfilialInv, NEW t \in Registers("stock_transfer"), DispatchTransfer(t)
  PROVE  InterfilialInv'
<1> DEFINE b == registers[t].from
           q == registers[t].units
<1>1. PICK taken \in Allocated(b, q) : Act(t, "dispatch", taken)
  BY DEF DispatchTransfer
<1>2. Take(b, q) /\ UNCHANGED <<unitsIn, branchCash, openBranches, stockExits>>
  BY DEF DispatchTransfer
<1>3. InterfilialTables /\ \A c \in Nat : UnitsKept(c)
  BY DEF InterfilialInv
<1>4. b \in Branches /\ q \in Nat
  BY <1>3, TransferKnown
<1> HIDE DEF b, q
<1>5. /\ branchLots' \in [Branches -> Seq(StockLot)]
      /\ branchStock' \in [Branches -> Nat] /\ unitsOut' \in [Branches -> Nat]
      /\ taken \in Seq(Taken)
      /\ \A c : OnShelves(c)' \in Int /\ OnShelves(c) = OnShelves(c)' + UnitsAt(taken, c)
      /\ \A d \in Branches : ShelfExplained(d)'
  BY <1>1, <1>2, <1>4, TakeKeeps
<1>6. /\ registers' \in Seq(RegisterRow) /\ Len(registers') <= MaxRegisters
      /\ ActionsSound' /\ DispatchedOnce' /\ PaymentsSound' /\ NotOverpaid'
      /\ SumFunction(Amounts)' = SumFunction(Amounts)
  BY <1>1, <1>5, ActRowsKeep
<1>7. InterfilialTables'
  BY <1>2, <1>3, <1>5, <1>6 DEF InterfilialTables
<1>8. \A c : Travelling(c)' = Travelling(c) + UnitsAt(taken, c)
  BY <1>1, <1>5, ActTravels
<1>9. ASSUME NEW c \in Nat
      PROVE  UnitsKept(c)'
  <2>1. AtFirst(c) = OnShelves(c) + Travelling(c) + UnitsAt(stockExits, c)
    BY <1>3, KeptMeans
  <2>2. /\ OnShelves(c) \in Nat /\ Travelling(c) \in Nat /\ UnitsAt(stockExits, c) \in Nat
        /\ OnShelves(c)' \in Int /\ UnitsAt(taken, c) \in Nat
    <3>1. UnitsAt(taken, c) \in Nat
      BY <1>5, ListsCount, CountTable
    <3>2. OnShelves(c) \in Nat /\ Travelling(c) \in Nat /\ UnitsAt(stockExits, c) \in Nat
      BY <1>3, CountsNat
    <3> QED BY <1>5, <3>1, <3>2
  <2>3. OnShelves(c) = OnShelves(c)' + UnitsAt(taken, c) /\ Travelling(c)' = Travelling(c) + UnitsAt(taken, c)
        /\ UnitsAt(stockExits', c) = UnitsAt(stockExits, c)
    BY <1>2, <1>5, <1>8
  <2>4. AtFirst(c) = OnShelves(c)' + Travelling(c)' + UnitsAt(stockExits', c)
    BY <2>1, <2>2, <2>3
  <2> QED BY <2>4, KeptMeans
<1>10. CashKept'
  BY <1>2, <1>6, CashAside
<1> QED BY <1>5, <1>6, <1>7, <1>9, <1>10 DEF InterfilialInv

\* A transfer is received: what was on the way joins the shelf.
LEMMA ReceiveKeeps ==
  ASSUME InterfilialInv, NEW t \in Registers("stock_transfer"), ReceiveTransfer(t)
  PROVE  InterfilialInv'
<1> DEFINE b == registers[t].to
           sent == Sent(t)
<1>1. /\ Act(t, "receive", <<>>) /\ Bring(b, sent)
      /\ UNCHANGED <<unitsOut, branchCash, openBranches, stockExits>>
  BY DEF ReceiveTransfer
<1>2. InterfilialTables /\ \A c \in Nat : UnitsKept(c)
  BY DEF InterfilialInv
<1>3. b \in Branches /\ <<>> \in Seq(Taken)
  BY <1>2, TransferKnown, NothingCounts
<1>4. /\ registers' \in Seq(RegisterRow) /\ Len(registers') <= MaxRegisters
      /\ ActionsSound' /\ DispatchedOnce' /\ PaymentsSound' /\ NotOverpaid'
      /\ SumFunction(Amounts)' = SumFunction(Amounts)
  BY <1>1, <1>3, ActRowsKeep
<1>5. sent \in Seq(Taken) /\ \A c : Travelling(c) = Travelling(c)' + UnitsAt(sent, c) /\ Travelling(c)' \in Nat
  BY <1>1, <1>3, ActTravels
<1> HIDE DEF b, sent
<1>6. /\ branchLots' \in [Branches -> Seq(StockLot)]
      /\ branchStock' \in [Branches -> Nat] /\ unitsIn' \in [Branches -> Nat]
      /\ \A c : OnShelves(c)' = OnShelves(c) + UnitsAt(sent, c)
      /\ \A d \in Branches : ShelfExplained(d)'
  BY <1>1, <1>3, <1>5, BringKeeps
<1>7. InterfilialTables'
  BY <1>1, <1>2, <1>4, <1>6 DEF InterfilialTables
<1>8. ASSUME NEW c \in Nat
      PROVE  UnitsKept(c)'
  <2>1. AtFirst(c) = OnShelves(c) + Travelling(c) + UnitsAt(stockExits, c)
    BY <1>2, KeptMeans
  <2>2. OnShelves(c) \in Nat /\ UnitsAt(stockExits, c) \in Nat /\ UnitsAt(sent, c) \in Nat
    BY <1>2, <1>5, CountsNat, ListsCount, CountTable
  <2>3. OnShelves(c)' = OnShelves(c) + UnitsAt(sent, c) /\ Travelling(c) = Travelling(c)' + UnitsAt(sent, c)
        /\ Travelling(c)' \in Nat /\ UnitsAt(stockExits', c) = UnitsAt(stockExits, c)
    BY <1>1, <1>5, <1>6
  <2>4. AtFirst(c) = OnShelves(c)' + Travelling(c)' + UnitsAt(stockExits', c)
    BY <2>1, <2>2, <2>3
  <2> QED BY <2>4, KeptMeans
<1>9. CashKept'
  BY <1>1, <1>4, CashAside
<1> QED BY <1>4, <1>6, <1>7, <1>8, <1>9 DEF InterfilialInv

\* Where no register is added, what the registers say stays.
LEMMA RegistersStay ==
  ASSUME InterfilialInv, registers' = registers
  PROVE  /\ ActionsSound' /\ DispatchedOnce' /\ PaymentsSound' /\ NotOverpaid'
         /\ SumFunction(Amounts)' = SumFunction(Amounts)
         /\ \A c : Travelling(c)' = Travelling(c)
<1>1. /\ \A kind : Registers(kind)' = Registers(kind)
      /\ Amounts' = Amounts
  BY DEF Registers, Amounts
<1>2. \A t : /\ History(t)' = History(t) /\ TransferStage(t)' = TransferStage(t) /\ Dispatches(t)' = Dispatches(t)
             /\ PaymentsOf(t)' = PaymentsOf(t) /\ Paid(t)' = Paid(t)
  BY <1>1 DEF History, TransferStage, Dispatches, PaymentsOf, Paid
<1>3. ActionsSound' /\ PaymentsSound'
  BY <1>1 DEF InterfilialInv, ActionsSound, PaymentsSound
<1>4. DispatchedOnce'
  BY <1>1, <1>2 DEF InterfilialInv, DispatchedOnce
<1>5. NotOverpaid'
  BY <1>1, <1>2 DEF InterfilialInv, NotOverpaid
<1>6. \A c : Loads(c)' = Loads(c)
  BY <1>1 DEF Loads
<1>7. OnTheWay' = OnTheWay
  BY <1>1, <1>2 DEF OnTheWay
<1> QED BY <1>1, <1>3, <1>4, <1>5, <1>6, <1>7 DEF Travelling

\* Stock leaves a filial.
LEMMA StockOutKeeps ==
  ASSUME InterfilialInv, NEW b \in Branches, NEW q \in Shipments, StockOut(b, q)
  PROVE  InterfilialInv'
<1>1. Take(b, q) /\ UNCHANGED <<registers, unitsIn, branchCash, openBranches>>
  BY DEF StockOut
<1>2. PICK taken \in Allocated(b, q) : stockExits' = stockExits \o taken
  BY DEF StockOut
<1>3. InterfilialTables /\ q \in Nat /\ stockExits \in Seq(Taken) /\ \A c \in Nat : UnitsKept(c)
  BY InterfilialAssumption DEF InterfilialInv, InterfilialTables
<1>4. /\ branchLots' \in [Branches -> Seq(StockLot)]
      /\ branchStock' \in [Branches -> Nat] /\ unitsOut' \in [Branches -> Nat]
      /\ taken \in Seq(Taken)
      /\ \A c : OnShelves(c)' \in Int /\ OnShelves(c) = OnShelves(c)' + UnitsAt(taken, c)
      /\ \A d \in Branches : ShelfExplained(d)'
  BY <1>1, <1>3, TakeKeeps
<1>5. /\ stockExits' \in Seq(Taken)
      /\ \A c : UnitsAt(stockExits', c) = UnitsAt(stockExits, c) + UnitsAt(taken, c)
  <2> DEFINE m == Len(stockExits)
             n == Len(taken)
             more == stockExits \o taken
  <2>1. m \in Nat /\ n \in Nat /\ Counted(stockExits, m) /\ Counted(taken, n)
    BY <1>3, <1>4, ListsCount, LenProperties
  <2>2. /\ more \in Seq(Taken) /\ Len(more) = m + n
        /\ \A k \in 1..(m + n) : more[k] = IF k <= m THEN stockExits[k] ELSE taken[k - m]
    BY <1>3, <1>4, ConcatProperties
  <2>3. DOMAIN more = 1..(m + n)
    BY <2>2, LenProperties
  <2> HIDE DEF m, n, more
  <2>4. \A k \in 1..m : more[k] = stockExits[k]
    <3>1. \A k \in 1..m : k \in 1..(m + n) /\ k <= m
      BY <2>1
    <3> QED BY <2>2, <3>1
  <2>5. \A k \in 1..n : more[m + k] = taken[k]
    <3>1. \A k \in 1..n : m + k \in 1..(m + n) /\ ~(m + k <= m) /\ (m + k) - m = k
      BY <2>1
    <3> QED BY <2>2, <3>1
  <2>6. Joined(stockExits, m, taken, n, more)
    BY <2>3, <2>4, <2>5 DEF Joined
  <2>7. \A c : UnitsAt(more, c) = UnitsAt(stockExits, c) + UnitsAt(taken, c)
    BY <2>1, <2>6, CountJoined
  <2> QED BY <1>2, <2>2, <2>7 DEF more
<1>6. InterfilialTables'
  BY <1>1, <1>3, <1>4, <1>5 DEF InterfilialTables
<1>7. /\ ActionsSound' /\ DispatchedOnce' /\ PaymentsSound' /\ NotOverpaid'
      /\ SumFunction(Amounts)' = SumFunction(Amounts)
      /\ \A c : Travelling(c)' = Travelling(c)
  BY <1>1, RegistersStay
<1>8. ASSUME NEW c \in Nat
      PROVE  UnitsKept(c)'
  <2>1. AtFirst(c) = OnShelves(c) + Travelling(c) + UnitsAt(stockExits, c)
    BY <1>3, KeptMeans
  <2>2. /\ Travelling(c) \in Nat /\ UnitsAt(stockExits, c) \in Nat
        /\ OnShelves(c)' \in Int /\ UnitsAt(taken, c) \in Nat
    <3>1. UnitsAt(taken, c) \in Nat
      BY <1>4, ListsCount, CountTable
    <3>2. Travelling(c) \in Nat /\ UnitsAt(stockExits, c) \in Nat
      BY <1>3, CountsNat
    <3> QED BY <1>4, <3>1, <3>2
  <2>3. OnShelves(c) = OnShelves(c)' + UnitsAt(taken, c) /\ Travelling(c)' = Travelling(c)
        /\ UnitsAt(stockExits', c) = UnitsAt(stockExits, c) + UnitsAt(taken, c)
    BY <1>4, <1>5, <1>7
  <2>4. AtFirst(c) = OnShelves(c)' + Travelling(c)' + UnitsAt(stockExits', c)
    BY <2>1, <2>2, <2>3
  <2> QED BY <2>4, KeptMeans
<1>9. CashKept'
  BY <1>1, <1>7, CashAside
<1> QED BY <1>4, <1>6, <1>7, <1>8, <1>9 DEF InterfilialInv

\* What orders reserve of one lot changes, within its units.
LEMMA HeldKeeps ==
  ASSUME InterfilialInv, NEW b \in Branches, NEW l \in DOMAIN branchLots[b], NEW h \in Nat,
         h <= branchLots[b][l].units,
         branchLots' = [branchLots EXCEPT ![b] = [branchLots[b] EXCEPT ![l] = [branchLots[b][l] EXCEPT !.held = h]]],
         UNCHANGED <<registers, branchStock, unitsIn, unitsOut, branchCash, openBranches, stockExits>>
  PROVE  InterfilialInv'
<1> DEFINE lots == branchLots[b]
           N == Len(lots)
           lot == [lots[l] EXCEPT !.held = h]
           x == [lots EXCEPT ![l] = lot]
<1>1. /\ InterfilialTables /\ lots \in Seq(StockLot) /\ (\A c \in Nat : UnitsKept(c))
      /\ \A d \in Branches : ShelfExplained(d)
  BY DEF InterfilialInv, InterfilialTables
<1>2. N \in Nat /\ DOMAIN lots = 1..N /\ (\A k \in 1..N : lots[k] \in StockLot) /\ l \in 1..N
  BY <1>1, LenProperties
<1>3. lot \in StockLot /\ lot.held = h /\ lot.units = lots[l].units /\ lot.cost = lots[l].cost
  BY <1>2 DEF StockLot
<1>4. branchLots' = [branchLots EXCEPT ![b] = x]
  OBVIOUS
<1> HIDE DEF lot
<1>5. DOMAIN x = 1..N /\ x[l] = lot /\ (\A k \in 1..N : k # l => x[k] = lots[k]) /\ x \in Seq(StockLot)
  BY <1>1, <1>2, <1>3, ExceptSeq
<1> HIDE DEF x, lots, N
<1>6. \A k \in 1..N : x[k].units = lots[k].units /\ x[k].cost = lots[k].cost /\ x[k].held <= x[k].units
  <2>1. \A k \in 1..N : lots[k].held <= lots[k].units
    BY <1>1, <1>2 DEF ShelfExplained, lots
  <2> QED BY <1>3, <1>5, <2>1 DEF lots
<1>7. Counted(lots, N)
  BY <1>2 DEF Counted, StockLot
<1>8. UnitsOf(x) = UnitsOf(lots) /\ \A c : UnitsAt(x, c) = UnitsAt(lots, c)
  <2>1. Alike(lots, x, N)
    BY <1>5, <1>6 DEF Alike
  <2> QED BY <1>7, <2>1, CountSame
<1>9. /\ branchLots' \in [Branches -> Seq(StockLot)] /\ branchLots'[b] = x
      /\ \A d \in Branches \ {b} : branchLots'[d] = branchLots[d]
      /\ \A c : OnShelves(c)' = OnShelves(c) - UnitsAt(branchLots[b], c) + UnitsAt(x, c)
  BY <1>1, <1>4, <1>5, ShelfChanges
<1>10. InterfilialTables'
  BY <1>1, <1>9 DEF InterfilialTables
<1>11. /\ ActionsSound' /\ DispatchedOnce' /\ PaymentsSound' /\ NotOverpaid'
       /\ SumFunction(Amounts)' = SumFunction(Amounts)
       /\ \A c : Travelling(c)' = Travelling(c)
  BY RegistersStay
<1>12. ASSUME NEW c \in Nat
       PROVE  UnitsKept(c)'
  <2>1. OnShelves(c) \in Nat /\ UnitsAt(branchLots[b], c) \in Nat
    BY <1>1, CountsNat
  <2>2. OnShelves(c)' = OnShelves(c)
    BY <1>8, <1>9, <2>1 DEF lots
  <2>3. stockExits' = stockExits /\ UnitsKept(c)
    BY <1>1
  <2> QED BY <1>11, <2>2, <2>3, KeptMeans
<1>13. ASSUME NEW d \in Branches
       PROVE  ShelfExplained(d)'
  <2>1. CASE d = b
    <3>1. /\ branchStock[b] = UnitsOf(x)
          /\ branchStock[b] + unitsOut[b] = FirstUnits(b) + unitsIn[b]
      BY <1>1, <1>8 DEF ShelfExplained, lots
    <3>2. \A k \in DOMAIN x : x[k].held <= x[k].units
      BY <1>5, <1>6
    <3>3. branchStock' = branchStock /\ unitsOut' = unitsOut /\ unitsIn' = unitsIn
      OBVIOUS
    <3>4. branchStock'[b] = UnitsOf(branchLots'[b])
      BY <1>9, <3>1, <3>3
    <3>5. branchStock'[b] + unitsOut'[b] = FirstUnits(b) + unitsIn'[b]
      BY <3>1, <3>3
    <3>6. \A k \in DOMAIN branchLots'[b] : branchLots'[b][k].held <= branchLots'[b][k].units
      BY <1>9, <3>2
    <3> QED BY <2>1, <3>4, <3>5, <3>6 DEF ShelfExplained, UnitsOf
  <2>2. CASE d # b
    BY <1>1, <1>9, <2>2 DEF ShelfExplained, UnitsOf
  <2> QED BY <2>1, <2>2
<1>14. CashKept'
  BY <1>11, CashAside
<1> QED BY <1>10, <1>11, <1>12, <1>13, <1>14 DEF InterfilialInv

\* An order reserves a unit, or releases one.
LEMMA HoldKeeps ==
  ASSUME InterfilialInv, NEW b \in Branches, NEW l \in DOMAIN branchLots[b], HoldUnit(b, l) \/ ReleaseUnit(b, l)
  PROVE  InterfilialInv'
<1> DEFINE lot == branchLots[b][l]
<1>1. lot \in StockLot /\ lot.held \in Nat /\ lot.units \in Nat /\ lot.held <= lot.units
  <2>1. branchLots[b] \in Seq(StockLot) /\ lot.held <= lot.units
    BY DEF InterfilialInv, InterfilialTables, ShelfExplained
  <2>2. lot \in StockLot
    BY <2>1, LenProperties
  <2> QED BY <2>1, <2>2 DEF StockLot
<1>2. CASE HoldUnit(b, l)
  <2> DEFINE h == lot.held + 1
  <2>1. h \in Nat /\ h <= lot.units
    BY <1>1, <1>2 DEF HoldUnit
  <2>2. /\ branchLots' = [branchLots EXCEPT ![b] = [branchLots[b] EXCEPT ![l] = [lot EXCEPT !.held = h]]]
        /\ UNCHANGED <<registers, branchStock, unitsIn, unitsOut, branchCash, openBranches, stockExits>>
    BY <1>2 DEF HoldUnit
  <2> HIDE DEF h
  <2> QED BY <2>1, <2>2, HeldKeeps
<1>3. CASE ReleaseUnit(b, l)
  <2> DEFINE h == lot.held - 1
  <2>1. h \in Nat /\ h <= lot.units
    BY <1>1, <1>3 DEF ReleaseUnit
  <2>2. /\ branchLots' = [branchLots EXCEPT ![b] = [branchLots[b] EXCEPT ![l] = [lot EXCEPT !.held = h]]]
        /\ UNCHANGED <<registers, branchStock, unitsIn, unitsOut, branchCash, openBranches, stockExits>>
    BY <1>3 DEF ReleaseUnit
  <2> HIDE DEF h
  <2> QED BY <2>1, <2>2, HeldKeeps
<1> QED BY <1>2, <1>3

\* A warehouse closes or opens.
LEMMA SwitchKeeps ==
  ASSUME InterfilialInv, NEW b \in Branches, SwitchWarehouse(b)
  PROVE  InterfilialInv'
<1>1. /\ openBranches' \subseteq Branches
      /\ UNCHANGED <<registers, branchLots, branchStock, unitsIn, unitsOut, branchCash, stockExits>>
  BY DEF SwitchWarehouse, InterfilialInv, InterfilialTables
<1>2. InterfilialTables'
  BY <1>1 DEF InterfilialInv, InterfilialTables
<1>3. /\ ActionsSound' /\ DispatchedOnce' /\ PaymentsSound' /\ NotOverpaid'
      /\ SumFunction(Amounts)' = SumFunction(Amounts)
      /\ \A c : Travelling(c)' = Travelling(c)
  BY <1>1, RegistersStay
<1>4. (\A c \in Nat : UnitsKept(c)') /\ (\A d \in Branches : ShelfExplained(d)')
  BY <1>1, <1>3, ShelvesAside
<1>5. CashKept'
  BY <1>1, <1>3, CashAside
<1> QED BY <1>2, <1>3, <1>4, <1>5 DEF InterfilialInv

\* Filiales start with all they have on their shelves and in their accounts.
LEMMA InterfilialStart == InterfilialInit => InterfilialInv
<1> SUFFICES ASSUME InterfilialInit PROVE InterfilialInv
  OBVIOUS
<1>1. /\ registers = <<>> /\ stockExits = <<>> /\ openBranches = Branches
      /\ branchLots = [b \in Branches |-> [l \in DOMAIN FirstLots[b] |->
                        [units |-> FirstLots[b][l][1], held |-> 0, cost |-> FirstLots[b][l][2]]]]
      /\ branchStock = [b \in Branches |-> FirstUnits(b)]
      /\ unitsIn = [b \in Branches |-> 0] /\ unitsOut = [b \in Branches |-> 0]
      /\ branchCash = FirstCash
  BY DEF InterfilialInit
<1>2. ASSUME NEW b \in Branches, NEW c
      PROVE  /\ branchLots[b] \in Seq(StockLot)
             /\ UnitsOf(branchLots[b]) = FirstUnits(b) /\ UnitsAt(branchLots[b], c) = FirstAt(b, c)
             /\ \A l \in DOMAIN branchLots[b] : branchLots[b][l].held <= branchLots[b][l].units
  <2> DEFINE N == Len(FirstLots[b])
             lots == branchLots[b]
  <2>1. /\ N \in Nat /\ DOMAIN FirstLots[b] = 1..N
        /\ \A l \in 1..N : FirstLots[b][l][1] \in Nat /\ FirstLots[b][l][2] \in Nat
    BY FirstKnown
  <2>2. lots = [l \in 1..N |-> [units |-> FirstLots[b][l][1], held |-> 0, cost |-> FirstLots[b][l][2]]]
    BY <1>1, <2>1
  <2> HIDE DEF lots, N
  <2>3. /\ DOMAIN lots = 1..N
        /\ \A l \in 1..N : /\ lots[l] \in StockLot /\ lots[l].units = FirstLots[b][l][1] /\ lots[l].held = 0
                           /\ lots[l].cost = FirstLots[b][l][2]
    BY <2>1, <2>2 DEF StockLot
  <2>4. lots \in [1..N -> StockLot]
    BY <2>2, <2>3
  <2>5. lots \in Seq(StockLot)
    BY <2>1, <2>4, SeqDef
  <2>6. [l \in DOMAIN lots |-> lots[l].units] = [l \in DOMAIN FirstLots[b] |-> FirstLots[b][l][1]]
    BY <2>1, <2>3
  <2>7. [l \in DOMAIN lots |-> IF lots[l].cost = c THEN lots[l].units ELSE 0]
          = [l \in DOMAIN FirstLots[b] |-> IF FirstLots[b][l][2] = c THEN FirstLots[b][l][1] ELSE 0]
    BY <2>1, <2>3
  <2>8. UnitsOf(lots) = FirstUnits(b) /\ UnitsAt(lots, c) = FirstAt(b, c)
    BY <2>6, <2>7 DEF UnitsOf, FirstUnits, UnitsAt, FirstAt
  <2>9. \A l \in DOMAIN lots : lots[l].held <= lots[l].units
    BY <2>1, <2>3
  <2> QED BY <2>5, <2>8, <2>9 DEF lots
<1>3. registers \in Seq(RegisterRow) /\ Len(registers) = 0 /\ stockExits \in Seq(Taken)
  BY <1>1
<1>4. branchLots \in [Branches -> Seq(StockLot)]
  BY <1>1, <1>2
<1>5. \A b \in Branches : FirstUnits(b) \in Nat
  BY FirstKnown
<1>6. InterfilialTables
  BY <1>1, <1>3, <1>4, <1>5, InterfilialAssumption DEF InterfilialTables
<1>7. \A kind : Registers(kind) = {}
  BY <1>1 DEF Registers
<1>8. ActionsSound /\ PaymentsSound /\ DispatchedOnce /\ NotOverpaid
  BY <1>7 DEF ActionsSound, PaymentsSound, DispatchedOnce, NotOverpaid
<1>9. CashKept
  <2>1. DOMAIN Amounts = {}
    BY <1>7 DEF Amounts
  <2>2. SumFunction(Amounts) = 0
    BY <2>1, SumEmpty DEF SumFunction
  <2>3. SumFunction(branchCash) \in Int
    BY <1>6, CashKnown
  <2> QED BY <1>1, <2>2, <2>3 DEF CashKept
<1>10. ASSUME NEW c \in Nat
       PROVE  UnitsKept(c)
  <2>1. OnTheWay = {}
    BY <1>7 DEF OnTheWay
  <2>2. Travelling(c) = 0
    BY <2>1, SumEmpty DEF Travelling
  <2>3. UnitsAt(stockExits, c) = 0
    BY <1>1, NothingCounts
  <2>4. OnShelves(c) = AtFirst(c)
    <3>1. [b \in Branches |-> UnitsAt(branchLots[b], c)] = [b \in Branches |-> FirstAt(b, c)]
      BY <1>2
    <3> QED BY <3>1 DEF OnShelves, AtFirst
  <2>5. OnShelves(c) \in Nat
    BY <1>6, CountsNat
  <2> QED BY <2>2, <2>3, <2>4, <2>5, KeptMeans
<1>11. ASSUME NEW b \in Branches
       PROVE  ShelfExplained(b)
  BY <1>1, <1>2, <1>5 DEF ShelfExplained
<1> QED BY <1>6, <1>8, <1>9, <1>10, <1>11 DEF InterfilialInv

\* A step that changes nothing.
LEMMA InterfilialStays ==
  ASSUME InterfilialInv, UNCHANGED interfilialVars
  PROVE  InterfilialInv'
<1>1. UNCHANGED <<registers, branchLots, branchStock, unitsIn, unitsOut, branchCash, openBranches, stockExits>>
  BY DEF interfilialVars
<1>2. InterfilialTables'
  BY <1>1 DEF InterfilialInv, InterfilialTables
<1>3. /\ ActionsSound' /\ DispatchedOnce' /\ PaymentsSound' /\ NotOverpaid'
      /\ SumFunction(Amounts)' = SumFunction(Amounts)
      /\ \A c : Travelling(c)' = Travelling(c)
  BY <1>1, RegistersStay
<1>4. (\A c \in Nat : UnitsKept(c)') /\ (\A d \in Branches : ShelfExplained(d)')
  BY <1>1, <1>3, ShelvesAside
<1>5. CashKept'
  BY <1>1, <1>3, CashAside
<1> QED BY <1>2, <1>3, <1>4, <1>5 DEF InterfilialInv

\* The routes of the registers.
LEMMA RouteKeeps ==
  ASSUME InterfilialInv, RegisterRoutes
  PROVE  InterfilialInv'
<1>1. CASE \E b, c \in Branches, n \in Shipments : RequestTransfer(b, c, n)
  BY <1>1, RequestKeeps
<1>2. CASE \E t \in Registers("stock_transfer") :
             Decide(t, "approve") \/ Decide(t, "reject") \/ DispatchTransfer(t) \/ ReceiveTransfer(t)
  <2> PICK t \in Registers("stock_transfer") :
             Decide(t, "approve") \/ Decide(t, "reject") \/ DispatchTransfer(t) \/ ReceiveTransfer(t)
    BY <1>2
  <2>1. CASE Decide(t, "approve")
    BY <2>1, DecideKeeps
  <2>2. CASE Decide(t, "reject")
    BY <2>2, DecideKeeps
  <2>3. CASE DispatchTransfer(t)
    BY <2>3, DispatchKeeps
  <2>4. CASE ReceiveTransfer(t)
    BY <2>4, ReceiveKeeps
  <2> QED BY <2>1, <2>2, <2>3, <2>4
<1>3. CASE \E b, c \in Branches, n \in Payments : TransferFunds(b, c, n)
  BY <1>3, TransferFundsKeeps
<1>4. CASE \E b \in Branches, n \in Payments : OweTax(b, n)
  BY <1>4, OweTaxKeeps
<1>5. CASE \E t \in Registers("tax"), n \in Payments : PayTax(t, n)
  BY <1>5, PayTaxKeeps
<1> QED BY <1>1, <1>2, <1>3, <1>4, <1>5 DEF RegisterRoutes

\* The inductive invariant holds.
LEMMA InterfilialHolds == InterfilialSpec => []InterfilialInv
<1>1. InterfilialInv /\ [InterfilialNext]_interfilialVars => InterfilialInv'
  <2> SUFFICES ASSUME InterfilialInv, [InterfilialNext]_interfilialVars PROVE InterfilialInv'
    OBVIOUS
  <2>1. CASE UNCHANGED interfilialVars
    BY <2>1, InterfilialStays
  <2>2. CASE RegisterRoutes
    BY <2>2, RouteKeeps
  <2>3. CASE \E b \in Branches : SwitchWarehouse(b) \/ (\E n \in Shipments : StockOut(b, n))
    BY <2>3, SwitchKeeps, StockOutKeeps
  <2>4. CASE \E b \in Branches : \E l \in DOMAIN branchLots[b] : HoldUnit(b, l) \/ ReleaseUnit(b, l)
    BY <2>4, HoldKeeps
  <2> QED BY <2>1, <2>2, <2>3, <2>4 DEF InterfilialNext
<1> QED BY <1>1, InterfilialStart, PTL DEF InterfilialSpec

\* Registers, lots, counters and accounts keep their columns' types.
THEOREM InterfilialTypeCorrect == InterfilialSpec => []InterfilialTypeOK
<1>1. InterfilialInv => InterfilialTypeOK
  <2> SUFFICES ASSUME InterfilialInv PROVE InterfilialTypeOK
    OBVIOUS
  <2>1. InterfilialTables
    BY DEF InterfilialInv
  <2>2. \A r \in DOMAIN registers : registers[r] \in RegisterRow
    BY <2>1, RowsKnown
  <2>3. ASSUME NEW b \in Branches
        PROVE  \A l \in DOMAIN branchLots[b] : branchLots[b][l] \in StockLot
    <3>1. branchLots[b] \in Seq(StockLot)
      BY <2>1 DEF InterfilialTables
    <3> QED BY <3>1, LenProperties
  <2> QED BY <2>1, <2>2, <2>3 DEF InterfilialTables, InterfilialTypeOK
<1> QED BY <1>1, InterfilialHolds, PTL

\* However transfers are requested, dispatched and received among sales and orders, no unit is
\* lost or made and each keeps its cost; every shelf is what its movements explain and has what
\* orders reserve; and money is in an account or paid a tax, none of them more than it was.
THEOREM TransfersKeepStock == InterfilialSpec => []StockKept
<1>1. InterfilialInv => StockKept
  <2> SUFFICES ASSUME InterfilialInv PROVE StockKept
    OBVIOUS
  <2>1. Costs \subseteq Nat
    <3> SUFFICES ASSUME NEW b \in Branches, NEW l \in DOMAIN FirstLots[b] PROVE FirstLots[b][l][2] \in Nat
      BY DEF Costs
    <3> QED BY FirstKnown
  <2> QED BY <2>1 DEF InterfilialInv, StockKept
<1> QED BY <1>1, InterfilialHolds, PTL

-----------------------------------------------------------------------------
(* The registers behind the counter, together *)

\* A behaviour of the composition is one of each component: the one in active moves and the
\* others, which share no state with it, stutter.
THEOREM OfficeIsItsComponents ==
  OfficeSpec => ScheduleSpec /\ CatalogueSpec /\ InterfilialSpec /\ AccessSpec
<1>1. OfficeInit => ScheduleInit /\ CatalogueInit /\ InterfilialInit /\ AccessInit
  BY DEF OfficeInit
<1>2. [OfficeNext]_officeVars =>
        [ScheduleNext]_scheduleVars /\ [CatalogueNext]_catalogueVars
          /\ [InterfilialNext]_interfilialVars /\ [AccessNext]_accessVars
  BY Zenon DEF OfficeNext, ScheduleMoves, CatalogueMoves, InterfilialMoves, AccessMoves, officeVars
<1> QED BY <1>1, <1>2, PTL DEF OfficeSpec, ScheduleSpec, CatalogueSpec, InterfilialSpec, AccessSpec

\* The calendar, the catalogue, the registers and the accounts keep their columns' types,
\* whichever moves.
THEOREM OfficeTypeCorrect == OfficeSpec => []OfficeTypeOK
<1>1. ScheduleTypeOK /\ CatalogueTypeOK /\ InterfilialTypeOK /\ AccessTypeOK => OfficeTypeOK
  BY DEF OfficeTypeOK
<1> QED BY <1>1, OfficeIsItsComponents, ScheduleTypeCorrect, CatalogueTypeCorrect, InterfilialTypeCorrect,
           AccessTypeCorrect, PTL

\* And every promise of a component is one of the whole: the calendar is kept, a code names one
\* service, transfers keep the stock and what was closed stays closed.
THEOREM OfficeKeepsItsWord ==
  OfficeSpec => [](ScheduleHolds /\ CodesUnique /\ StockKept /\ AccessClosed)
BY OfficeIsItsComponents, CalendarKept, CodesNeverRepeat, TransfersKeepStock, ClosedStaysClosed, PTL
=============================================================================
