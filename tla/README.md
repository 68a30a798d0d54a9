# Bayline: a TLA+ development

Bayline is the back end (FastAPI, SQLAlchemy, PostgreSQL) of a group of vehicle dealers
with workshops: each *filial* repairs vehicles, stocks and sells spare parts, buys and
sells vehicles and keeps its accounts; a *holding* owns several filiales. This directory
holds the TLA+ models of its core protocols, the TLC runs that check them on small
instances, and TLAPS proofs of what matters most. Paths below are relative to `src/`;
`modules/` stands for `src/app/modules/`.

## 1. Inventory

The program is a set of request handlers over one database. A handler runs in one
transaction: it takes row locks (`SELECT ... FOR UPDATE`), checks, writes and commits;
an exception rolls everything back. Components meet in the tables they share and in
direct calls of one service by another inside a transaction. There is no message queue;
the notifications table is a transactional outbox. What is hard is therefore which rows
a handler locks, in which order, what it read before it had the lock, and what long
sequences of legal calls lead to.

| component | state | operations | meets | correct means |
|---|---|---|---|---|
| Warehouse stock (`modules/warehouse`) | lots (`part_lots`), the counter `parts.stock_quantity`, transfers, movements | stock in, stock out (FIFO), transfer request / start / receive / cancel / delete, bulk import | ODTs reserve lots; counter sales consume them | nothing promised twice; the counter is the sum of the lots; a transfer neither makes nor loses units |
| Workshop part requests, ODT (`modules/service_orders/dispatch.py`, `closure.py`, parts of `service.py`) | requests, lines, allocations, linked transfers | add, resize, remove a line; submit; dispatch; delete; close with the order | stock, orders, tasks, backorders in purchasing | a submitted request keeps what it was promised, is dispatched once, and leaves nothing open behind a delivered order |
| Service orders, ODS (`modules/service_orders/service.py`, `guards.py`, `router.py`) | order status, tasks with timers, technician, inspections, upsells | tasks and timers, pickup of parts, force-completion, invoice, delivery, cancellation, reopening | ODTs, inspections, billing, notifications | one timer per technician; status true to the tasks; delivered is final; work starts with its parts |
| Drafts and schedule (`drafts.py`) | draft orders, bays, slots | save, send, reschedule | orders | no double booking |
| Billing and collections (`billing.py`, `claim_coverage.py`) | invoices, payers, collections | quote, issue, collect | orders, accounts | never more collected than due; one invoice per payer |
| Workshop claims (`claims_workflow.py`) | claims | create, review, convert | orders, warranties | reviewed once, one order each |
| Parts: catalogue, counter sales, returns (`modules/parts`) | parts, sales, allocations, returns, collections | sell, dispatch, hand over, cancel, collect, return | stock, accounts | cancelling restores once; never overcollected |
| Administration (`modules/administracion`) | accounts, income, expenses, purchases, payables | receive, reconcile, pay, reverse, supplier claims | stock, parts, orders | received and paid once; no overpayment |
| Vehicle purchases (`modules/compras`) | purchase orders, receptions, invoices | create, receive, invoice, cancel | dealership stock | never over-received; status follows the units |
| Dealership (`modules/concesionario`) | vehicles, opportunities, reservations, sales, credit files | quote, deposit, reserve, decide credit, sell, PDI, deliver, cancel | accounts, workshop (PDI order), provider webhook | one buyer per vehicle; deposits accounted; late answers ignored |
| Holdings (`modules/holdings`) | registers, transfers between filiales | request, approve, dispatch, receive, reject; reports | stock of two filiales | each action once; what arrives is what left |
| Notifications (`modules/notifications`) | outbox rows, devices | queue, deliver batch | every service | at least once, and not for ever |
| Auth, users, roles (`modules/auth`, `users`, `roles`) | refresh sessions, recovery codes, permissions | login, refresh, reset, suspend | all | one-use tokens are used once |
| After sales, clients, inspections, settings, rates, KPIs (`post_ventas`, `clients`, `inspections`, `detailed_inspections`, `ajustes`, `exchange_rates`, `vehicle_catalog`, `filiales`, `kpis`) | catalogues and records | create, update, list | orders | mostly local validation |
| Core (`core/`) | operation receipts, rate windows, audit log, files | replay, limit, log, store | all | a repeated request id replays its answer |

`PROJECT.json` lists them with their sources ("components") and every hazard found, at
its line, with the properties that watch it ("hazards").

## 2. Modules

| module | what it is |
|---|---|
| `Workshop` | one filial and one part: lots, reservations, ODTs with their linked transfers, staff's own transfers, and the orders around them |
| `Shelf` | the abstract specification of what the above promises: units on hand, promised, served |
| `WorkshopShelf` | the refinement mapping from `Workshop` to `Shelf` |
| `ServiceOrder` | the order on the workshop floor: tasks, timers, technicians, ODT pickups, derived status, delivery |
| `Money` | cents, rounding, and the split of a collection between dollars (with IGTF) and bolivars |
| `Counter` | counter sales, returns, imports, and the stock counter beside the lots |
| `Receivables` | quote and issue of an order's invoice, later collections, warranties given with it |
| `Purchases` | purchases of parts: reception, reconciliation, payments, reversals |
| `Books` | accounts, entries, corrections; dashboard against balances |
| `Absorption` | supplier claims whose cost the workshop absorbs, and their monthly submission |
| `Quotes` | the prices of jobs and parts on an order, previewed, written, frozen; findings |
| `VehicleSale` | opportunities, deposits, reservations, credit, sale, PDI, delivery |
| `WarrantyClaims` | odometer, coverage, claims, rework orders, claims to suppliers |
| `Clients` | clients' sheets, vehicles' identities, sales that name a buyer |
| `Schedule` | drafts, orders, bays and technicians in time, recommendations |
| `Catalogue` | services with their numbers and parts, policies and plans, overlapping edits |
| `Interfilial` | stock, money and taxes between the filiales of a holding |
| `Access` | sessions, recovery codes, suspensions |
| `MCWorkshop`, `MCServiceOrder`, `MCCommerce`, `MCDealership`, `MCOffice` | instances for TLC |
| `Sums` | facts about sums over finite sets and over lists, and about taking from lots in order, proved by induction over subsets |
| `WorkshopProofs`, `ShelfProofs` | theorems about `Workshop`: the life of an ODT; units, reservations and the abstract shelf |
| `ServiceOrderProofs` | theorems about `ServiceOrder` |
| `VehicleSaleProofs`, `DealershipProofs` | theorems about `VehicleSale`; about `Clients`, `WarrantyClaims` and the composition `MCDealership` |
| `OfficeProofs` | theorems about `Schedule`, `Catalogue`, `Interfilial`, `Access` and their composition `MCOffice` |
| `CommerceProofs` | theorems about `Counter`, `Receivables`, `Purchases`, `Books`, `Absorption`, `Quotes` and their composition |

`Workshop` and `ServiceOrder` cut the same protocol along its two sides. An ODT's life
(pending, submitted, dispatched, closed) appears in both: in `Workshop` with what it does
to the shelf, in `ServiceOrder` with what it does to tasks and orders, where dispatch is
always possible because no shelf is modelled. Both over-approximate what they leave out.

The other components meet `Workshop` and each other through single facts (a lot's units,
an order that is completed, a warranty that exists), which each module takes as
nondeterministic: any order may be invoiced, a part may be bought at any time. They share
no variable, so `MCCommerce`, `MCDealership` and `MCOffice` put several of them into one
instance in which `active` says whose behaviour it is; this explores each one by itself
and nothing else.

In the modules below, actions are grouped by the router that serves them
(`SaleRoutes`, `ClaimRoutes`, ...). An operation is *one step* when the handler locks
what it decides on before it reads it. Where it does not, it is two: what was read is
kept in a variable and the commit relies on it.

### Workshop

*State.* `lots` in `received_at` order (the id is the FIFO rank), the counter `stock`,
`orders`, `requests` (each row with its single line and its allocations), `linked` (the
transfers a submission starts, one per origin warehouse), `manual` (staff's transfers),
and `edit`, the transaction that has an ODT's line open.

*Actions.* One per handler and committed transaction; the map in `PROJECT.json` names the
lines. Two handlers are split where the code reads outside its locks:

* `AddLine`/`ResizeLine` compute the FIFO preview without locking the shelf;
  `CommitLine` writes it while other transactions may have come in between. The order's
  row lock is held meanwhile (`OrderUnlocked`).
* `ReadLine` loads a line and its ODT before `require_editable_order` waits for the
  order. `ResizeLine`/`RemoveLine` then rely on the status read first.

`Pick` is the FIFO allocation: lots in order, preferred warehouses first, each giving
what is asked and not yet taken. `Reserved` counts the allocations of submitted ODTs and
of pending ones whose preview is under five minutes old; `HoldExpires` is the passing of
the five minutes. A consumer sees `Free(own)`, what others' holds leave. `Relocate`
creates one lot at the destination per lot consumed (`Arriving`), and `Moved` carries
the ODT's allocations along.

*Abstractions.* The three working statuses are one, `"abierta"`: nothing on the shelf
depends on which it is, so `Invoice` and `Cancel` are allowed somewhat more often than in
the code, never less. One part and one line per ODT: lines of different parts meet only
in dispatch, which wants all of them. Drafts cannot submit and are left out. The default
warehouse does not change and warehouses stay active. Prices and movements are left out.

### ServiceOrder

*State.* `orders`, `tasks`, `requests` (with the tasks their lines serve), `seen` (the
row a task operation loaded before its lock) and `receiving` (the filial's open pickup,
with the order it loaded).

*Handlers.* Almost every handler takes the order's lock first and is one action. Two are
split, as in the code:

* `start_task_timer`, `pause_task_timer`, `update_task_status` and `delete_task` load the
  task (router and service), then wait for the order. `ReadTask` is the early read; the
  operations take a view `v` that is the current row or the one read earlier. What is
  written is `Stored(new, v, row)`: SQLAlchemy flushes the columns that differ from what
  it loaded, and nothing else. The status is derived with the view in place of the task,
  because the session keeps the row it loaded (`autoflush=False`, identity map).
* `confirm_workshop_pickup` holds the filial and the ODT, loads the order *without* a
  lock, stores a photograph, then derives the status from the loaded order.
  `BeginPickup`, `Pickup` and `AbandonPickup` are its parts; handlers that want the
  filial's lock wait (`FilialFree`), those that only want the order's do not.

*Abstractions.* Several loose lines of an ODT count as one; accumulated seconds are
"worked or not"; approving an upsell is a sequence of `AddTask` and `AddPart` steps, which
allows more interleavings than its single transaction; the orders belong to one filial;
inspections complete in one step and stay complete; `completed_at`, PDI restrictions,
bays and schedules are left out. `"en_espera"` stands for `en_espera_de_repuestos`, and
`"ninguna"`/`"borrada"` for a row that does not exist yet or any more.

### Money and the counter

`Money` rounds half up to cents, as `money()` does, and splits a base in the three
methods that `calculate_payment` accepts. Rates are whole bolivars.

`Counter`: `partLots`, `stockQuantity`, `sales` with the units each took of every lot,
`saleReceipts` (collections by request id) and `unlocked`, the handlers that read the
counter without the part's lock. `ReadToCancel`/`CommitCancel`, `ReadToAdd` with
`CommitReturn` or `CommitBulk`, and `AbandonWrite` are their parts; everything else locks
the part or the sale and is one step. `overwritten` is a history variable: it remembers
that a writer wrote over a counter that had moved. `DriftsByOverwrite` says that this is
the only way in which the counter leaves the lots.

`Receivables`: the cashier's quote (`quotes`), the invoice with what it expects and what
it got, and a receipt per collection. The rate and the order's amounts change between
quote and issue; `SameQuote` is the hash. `Purchases`: an expense pays one or several
purchases; `Paying` finds them as the code does, by the expense's source or by the
expense each purchase paid last. `PurchasesInit` includes purchases paid by the old
workflow.

`Books` posts entries in the current month only; `ReadReverse`/`CommitReverse` look for an
earlier correction without a lock, so an entry may be corrected twice: the properties say
that even then dashboard and balances agree and a closed month keeps its result.
`Absorption` locks nothing at all: `absorptionOpen` holds what an open handler read, and
`Written` is the UPDATE of the columns that differ from it.

`Quotes` computes the price of a job twice, as the code does: `Preview` follows
`catalog_fifo_costs`, `Charged` follows the lines that `add_task` writes. `Unpledged` is
what other pending lines leave of each lot, `perUnit` is the unit price a line keeps as a
fraction when only its quantity changes, and a discount prices the order's lines again.

### The dealership

`VehicleSale`: a deal has the stage, quote, deposit, files and credit of one opportunity;
`quoteOrder` is the order of the quotes, by which a reservation finds its deal
(`QuotesFor`, `Newest`), and `Joined` the deal a reservation or sale becomes part of. Every operation
locks the unit or checks the opportunity's version, so each is one step; `answers` and
`Decision` let the financier's answer arrive late or again. `dealLedger` adds what was
posted for a deal. A sale without a deal is at the whole list price.

`WarrantyClaims`: readings of the odometer in order of time, with corrections and
deletions; warranties given by a closed order, registered by the factory or renewed by a
sale; claims filed by four routes. `InForce`, `FactoryStatus`, `WorkStatus` and
`AssessCoverage` are the four places that judge a coverage. `ConvertReads`/`ConvertWrites` is the only operation without a lock.

`Clients`: forms are opened on a version of the sheet and saved against it (`Current`); a
sale looks for its client and is written later. The unit that the dealership sells is
registered to its buyer by `ReceiveUnit`, which does not move the sheet's version but
whose vehicle has a visit from then on.

### The office

`Schedule`: an agenda row is an order or a draft, with its vehicle, bay, technician, time
and jobs; `Overlap` compares half-open intervals whose length comes from the jobs.
`SlotFree` and `NoActiveVisit` are the two checks under the filial's lock. `ReopenOrder`
and `RestoreJob` look at neither; `unchecked` and `reopened` remember it.

`Catalogue`: creation under the filial's lock; edits are `OpenEdit` and a save of what
differs (`Written`), lists are replaced row by row (`Replaced`), so two edits of one
service may leave both lists. `Interfilial`: registers are only appended, and the stage of
a transfer is that of its last action (`TransferStage`). What left is remembered lot by
lot with its cost and arrives so. Lots that arrive together have one `received_at` and
random ids, so `Allocated` leaves their order among themselves open; their costs differ,
and which is consumed first decides what a later exit costs. `Access`: every account's sessions and codes with the
versions they were issued under.

## 3. Runs

Runs take from seconds to about four minutes with two workers. Deadlock is not checked:
ids are used once and counters are bounded, so every instance may come to rest.

| run | asks | bounds |
|---|---|---|
| `Reservations` | is a lot ever promised twice, do transfers carry exactly what is reserved elsewhere, is every unit either reserved or counted short, can what was promised be dispatched, is a submitted line frozen | two orders, one ODT each, two warehouses, two lots, entries of 1 and 2 units, lines up to 2; no reopening, no edit across a submission |
| `Lifecycle` | is dispatch final, are ODTs and transfers settled when the order is delivered, does the counter equal the lots | the same with three lots of one unit, one reopening, edits that straddle submissions |
| `ShelfRefinement` | do lots, transfers and ODTs implement the abstract shelf | one ODT, one staff transfer, four lots, lines of up to 2 units so that a transfer splits over two lots |
| `Serving` | is a submitted ODT without shortfall eventually dispatched | `FairSpec`; two entries, four lots |
| `Floor` | do timers, parts and deliveries stay in order however handlers overlap | two orders of one technician with a task each, an ODT, one task operation between read and lock, one pickup open; one order ends |
| `Status` | does the status follow the tasks, can an invoiced order be delivered | one order, two tasks, two ODTs, all task statuses; handlers do not overlap |
| `Commerce` | are units and money accounted for once under retries and unlocked writers; is the invoice the one quoted; do dashboard, balances and postings agree; is the price previewed the one charged | two sales of up to 2 units, three lots of 2, one unlocked writer; two orders, two rates, partial payments with withholdings; two purchases (one of the old workflow), three expenses; three entries in two months; one claim, one submission, two handlers; one visit, two lots at different costs, a finding |
| `Dealership` | does a deposit hold its unit, is a stale credit answer ignored, is a claim answered once and judged alike, is a vehicle registered once, does an edit remove only what was seen | one unit, two buyers, two deals, two credit requests; two days, two readings, one claim beside an old one, two officers; two clients, two documents, two forms, two vehicles, one sale |
| `Office` | is anything booked or done twice, are codes unique, do transfers keep units and cost, does what is closed stay closed | two visits of one vehicle with one technician and one finding, jobs of two half hours; two services, three changes, two editors; two filiales, four registers; one director, one employee, two filiales, two sessions, two codes |
| `Reopened` | violation of `PromiseKept` | as `Lifecycle`, no straddling edits |
| `StaleEdit` | violation of `SubmittedIsFrozen` | as `Lifecycle`, no reopening, edits may straddle a submission |
| `ForcedPickup` | violation of `InvoicedStaysCompleted` | one order, two tasks, one ODT |

*Why the bounds are enough.* A conflict over the shelf needs two parties and a unit: two
ODTs plus staff give three. A transfer that splits needs two lots at the origin and a
line of two units. A stale read needs one handler between read and lock while any number
of others run whole; a second one adds no new state of the order, since the lock
serialises the writes, and the proofs below hold for any number. What the runs say of
sums over lots and requests is proved as well (`ShelfProofs`, `CommerceProofs`), so the
size of the shelf does not matter there; `Serving` alone depends on it.

In the three composed instances a hazard needs two of each: two deals of a unit, two forms
on a sheet, two visits of a technician, two handlers between read and commit, a lot that
runs out before the other. Bays behave like technicians (`SharesPlace`), so `Office` has
none. Amounts are chosen so that percentages round and a payment can be short, exact and
too much. `Dealership` has a single unit, which is too few for one question: with two, a
client may hold deals on the same unit of which one later moves on to another unit, and
a sale of the first then belongs to a deal that was quoted nothing for it. The proof of
`DealsHonoured` met this case and `DealEarnsOnce` allows for it (it compares a deal's
ledger with what all the units it paid for cost); `DealsKept` holds for any number.

*Symmetry* is used in `Commerce`, `Dealership` and `Office` only, over values that no
formula tells apart and that no two components of one behaviour use in different roles:
request ids, clerks and reviewers; buyers and people, editors; services and their editors.
Their action properties quantify over all of these and there is no liveness among them.

*Fairness* (`FairSpec`, used by `Serving` only). `CommitLine` is weakly fair: a
transaction commits or its connection dies. `HoldExpires` is the clock. `StartLinked` is
weakly fair, `ReceiveLinked` and `Dispatch` strongly: staff see the pending request in
their list and repeat what was refused until it goes through. The code schedules nothing
itself; this is what the warehouse screens assume of their users. Nothing is assumed of
advisors, of stock entries or of how orders end.

### What the violations say

* **Reopened.** `docs/workshop-dispatch.md:3`: sent reservations stay valid until
  dispatch. `reopen_order` turns a cancelled order back to work and its submitted ODTs
  reserve again, without a look at the shelf, which others may have emptied meanwhile.
  `Lifecycle` keeps reopening on and shows what survives it.
* **StaleEdit.** The docstring of `set_transfer_line_quantity` says a line is frozen once
  its ODT is submitted; the status it tests was read before the order's lock. The theorem
  `FrozenUnlessStraddled` says that this is the only way.
* **ForcedPickup.** `models.py:202`: `completado` can only move forward. The pickup of an
  ODT derives the status again and undoes a forced completion, also after the invoice:
  the order can then be neither delivered nor edited. `InvoicedIsDeliverable` in `Status`
  shows that the order is deliverable whenever its tasks are finished.

Two findings are written as properties that no run checks, because each fails within a few
steps of the instance `Commerce` and is the reason why the property that is checked says
less:

* **CounterInSync** (`Counter`). A comment in `parts/service.py:71-74` says that
  availability cannot drift from the quantity on the shelf. It is derived from the stock
  counter, and a cancellation, a return or an import writes over what another transaction
  put there meanwhile. `DriftsByOverwrite`, in `SalesAccounted`, is what holds.
* **PaidAsPosted** (`Purchases`). A test says that reversing a payment gives the balance
  back. A payment of the old workflow, or a grouped one, is no longer found once a later
  payment of the same purchase was posted. `NeverPaidTwice` is what holds: the purchase
  never says less than what was paid.

Smaller divergences seen while modelling:

* With overlapping task operations (`SlowHandlers > 0`), `FinishedHasNoTimer` and
  `StatusFollowsTasks` fail: a start that read a task before another user completed it sets
  only the columns it changes. The run `Status` assumes handlers that do not overlap.
* `_reserved_quantity_by_lot`'s docstring (`service.py:1801`) speaks of pending requests
  only, while the query counts submitted ones as well.
* `WithheldNotCollected` (`Receivables`): `billing.py:378` says that a withheld amount is
  never collected as cash; issuing accepts a payment of the whole total beside a declared
  retention, because it compares with what is due before retentions.
* `reopen_order` reads neither the calendar nor the vehicle's other visits, and a job
  restored after its cancellation makes the visit longer unseen (`Schedule`).
* A deposit given back does not stop a lost deal from being put back to financing, and a
  client with two open deals for one unit may see the sale join the one without the
  deposit; `DepositHolds` excludes the latter by `OnlyDeal`.
* Two open deals of a client for one unit share its quote's place: a sale joins the newest
  one that is quoted for the unit, whichever took the deposit (`QuotesFor`, `Newest`).
* The PDI of a sold unit looks for its vehicle by VIN only: a plate may then be registered
  twice. `VehicleOnce` speaks of VINs.
* An authorised claim from before the reviews may be converted twice
  (`convert_warranty_claim_to_order` reads it without a lock).

## 4. Mutants

Each property of a passing run has a mutant: an operator marked *Wrong* beside the
definition it replaces, in the form a plausible bug would have (a forgotten filter, a
timer left on, a lock not taken). Replacing one by the other makes TLC find the property
violated. They are listed under "mutants" and used nowhere else. A property that joins
several promises has one mutant, of one of its parts.

## 5. Proofs

The theorems hold for any number of orders, ODTs, lots, warehouses, tasks, technicians,
units, clients, visits, sales, purchases, services, accounts, any prices, rates and tax
percentages, and any value of the bounds. They rest on the
assumptions named in the modules: which order an ODT or a task belongs to, that the
default warehouse exists, that markers such as `Nobody` are no technicians, that bounds
and prices are numbers, that a row refers to finitely many findings, units or requests
(`RequestAssumption`, `ScheduleAssumption`, `SaleAssumption`), that each order of a vehicle
has a known, finite set of dispatched lots (`WarrantyClaimsAssumption`), and that what is
summed over is finite: request ids, sales, accounts, months, visits, filiales
(`MoneyAssumption`, `CounterAssumption`, `BooksAssumption`, `QuotesAssumption`,
`InterfilialAssumption`). TLC evaluates all of them
in the runs. Three theorems of `ShelfProofs` and three of `ServiceOrderProofs` have one
more hypothesis, which restricts the *behaviour* and not the size; each is the condition
under which its run checks the property too, and each has a run or a note above that
shows the property failing without it.

### `ServiceOrderProofs`

`TypeInductive` is the type invariant. `StepEffect` says what any
step does to the rows the invariants relate, action by action: at most one timer starts,
for an idle technician on an order that goes on (`StartsOne`); orders change hands and
end with their timers off (`HandsOver`, `EndsQuietly`); tasks start on ground that stays
(`StartsOnGround`, `KeepsInspected`, `KeepsParts`); delivery takes the ODTs along, waits
for the filial and is not taken back (`DeliversAll`, `StaysDelivered`, ...). The
invariants follow from these facts alone. `OneTimerPerTechnician`, `TerminalHasNoTimer`
and `PartsBeforeWork` are inductive together with the types. `DeliveredIsFinal` needs one
more conjunct, `DeliveredHasNoPickup`: the ODTs of a delivered order are closed, so no
pickup can start, and none was open when it was delivered, because delivery waits for the
filial's lock. Without it a pickup that read the order earlier would write a working
status over the delivery.

`StatusIsTrue`, `FinishedIsStopped` and `InvoicedCanBeDelivered` assume
`SlowHandlers = 0`: no task operation is caught between its early read and its lock. Then
the row an operation holds is the row that is stored, the status that is derived is the
status of what is written, and an invoiced order keeps tasks that are finished. With
`SlowHandlers > 0` the first two are false (see above).

### `WorkshopProofs` and `ShelfProofs`

`TypeCorrect` includes that no lot and no counter goes below zero.
`LifecycleInvariant` is the inductive invariant of an ODT's life: what is dispatched is
deducted and has no transfer open, transfers belong to submitted ODTs, ODTs are closed
exactly behind a delivered order, and an open edit holds its order. From it follow
`NoOrphans`, `ClosedTogether`, `DispatchOnce` and `DeliveredIsSettled`.
`FrozenUnlessStraddled` is the frozen line under the hypothesis that no edit straddles a
submission.

The library proves nothing about sums, so `Sums` does: a sum over a finite set of
naturals is a natural, splits over a partition, is monotone, changes by what one element
changes, and is positive where an element is. The argument is induction over the subsets
of one fixed finite set, written as a minimal counterexample (`MinimalSubset`), since the
induction theorems of the library take an operator.

`ShelfProofs` then shows, in this order:

1. *The counter is the sum of the lots* (`CounterCorrect`, `StockIsLots`), with nothing
   assumed. `CounterInv` adds `LotsInOrder`: the lots that exist come before those that
   do not, so a new lot is the last in FIFO order and never one that has units.
2. *Nothing is promised twice* (`HoldsHonoured`), under
   `~EditsOverlapSubmit /\ MaxReopens = 0`. `ReservationsCovered` is inductive only with
   the rest of `ReservationInv`: an ODT that holds units has outside the workshop's
   warehouse exactly what its pending transfers carry (`Carries`), what it holds and its
   shortfall are what it asked for (`Accounts`), it asked for something
   (`AsksForUnits`), an edit is open on a pending ODT only, and no transfer comes from
   the workshop's own warehouse. The lots cover the holds because a receipt consumes what
   its transfer carries, and the transfer carries it because the lots cover it. A consumer
   takes what is free, and that leaves room for the holds of everybody else
   (`FreePastHolds`); a receipt renames the holds of one ODT to the lots that arrive, and
   the sums follow by splitting off that ODT (`HoldSplit`). `LotsNotOverpromised`,
   `TransfersBringReserved`, `ShortfallIsTheRest` and `SubmittedCanBeServed` are its
   consequences.
3. *The detailed workshop implements the abstract one* (`ShelfImplemented`, under the same
   hypothesis): every step maps to an entry, a consumption, a promise, a release or a
   service of the abstract shelf, or to a stutter. Its sums need the exchange of two
   summations (`SumSwap`): what the lots cover one by one, they cover together.

The runs `Reopened` and `StaleEdit` show the failure of each half of the hypothesis.

### `VehicleSaleProofs`, `DealershipProofs`, `OfficeProofs`

`DealsKept` is `DealsHonoured`, for any number of units, buyers, deals and credit requests
and any price, deposit and retention. `SaleInv` adds what makes a deposit safe: of the
unsold deals of a unit one at most has a deposit (`OneDepositIn`), the unit of a deal with
a deposit stays with its client even when another deal of this client takes the sale
(`HeldIn`), a deal that does not exist earned nothing and no sale names it (`EarnedIn`),
a credit decision is the answer to the request the deal is at (`DecidedIn`), and a unit
with a sale is sold (`SalesIn`). Operations that touch one deal follow from one lemma
about a row and its successor (`Kin`); the others are followed move by move, which is why
the parts of `SaleInv` take the state as parameters.

`ClientsTypeCorrect`, `VinRegisteredOnce` and `NothingUnseenIsRemoved`: `ClientsInv` adds
to the types and `VehicleOnce` that an open form is of a client that exists and, unless
the sheet has moved since, shows every vehicle of the client that has no visit. The last
part is what the version check buys, and why the buyer's unit may be registered without
moving the version: it has a visit at once.

`ClaimsTypeCorrect` and `ClaimsAnsweredOnce` (`ClaimsAnswered`). `ClaimsInv` has two halves.
The first is about the odometer: until a reading is corrected, deleted or followed by a
lower one, no reading, no intake and no base of a warranty is above the last reading
(`ReadingsGrow`); a factory warranty counts from zero (`FromZero`); a claim keeps the one
coverage it was filed with, which was in force that day at that mileage (`FiledInForce`).
Hence the four places that judge a coverage agree (`FiledIsShown`): a claim's page alone
asks that its mileage is not below the base, and the lists alone judge by the last reading
instead of the claim's, and neither makes a difference while readings grow. The second
is about the answer: outside the claims from before the reviews, none is ever left
authorised, a claim has exactly the rework order it names, and officers convert old claims
only (`AnsweredOnce`, `ReworksClaimed`). That is why the conversion, which reads the claim
without a lock, can double an old claim and no other. A lot is claimed from its supplier
once because the operation leaves out those the claim has; the lots it adds are put in
some order, each once (`ListedOnce`, `JoinedOnce`).

`DealershipIsItsComponents` says that a behaviour of `MCDealership` is one of sales, of
claims and of clients; with it the composition keeps its types (`DealershipTypeCorrect`)
and the promises of its parts (`DealershipKeepsItsWord`). `OfficeIsItsComponents`,
`OfficeTypeCorrect` and `OfficeKeepsItsWord` say the same of `MCOffice`.

`ScheduleTypeCorrect` and `CalendarKept` (`ScheduleHolds`): `AgendaInv` says of any two
rows that they are compatible (two active visits of a vehicle, or two overlapping rows of
a technician or bay, only where one of them was reopened or not checked), and that a
finding that some row was given is approved and given to no other row.
`CatalogueTypeCorrect` and `CodesNeverRepeat`: uniqueness of codes is inductive beside
the types, since a number is chosen under the filial's lock and no edit writes it.
`AccessTypeCorrect` and `ClosedStaysClosed` (`AccessClosed`): `AccessInv` adds that a
session renews an earlier one and that a code that changed a password or was verified is
consumed; a session that is not revoked has the version of its account, so raising the
version closes all of them.

`InterfilialTypeCorrect` and `TransfersKeepStock` (`StockKept`), for any filiales, lots and
amounts. `StockKept` is not inductive alone: an action may only be of a transfer and only
a dispatch takes lots (`ActionsSound`), and a transfer that is on the way was dispatched
exactly once (`DispatchedOnce`), so that what `OnTheWay` counts is what `Sent` brings. The
argument counts the units at one cost:

1. FIFO takes exactly what is asked from what no order reserves (`SumServed`), and in
   whatever order the lots taken are written down, they add up to the same at each cost
   (`SumOrdered`, by the bijection the order is).
2. A dispatch makes the transfer's actions count as on the way and so moves those units
   off the shelf; a receipt makes them no longer count and appends the same lots to the
   other shelf (`ActTravels`, `SumJoined`). An approval or rejection takes nothing.
3. Counter and movements change by the sum of the same list, so the shelf stays explained;
   the counter never meets its floor at zero because it is the sum of the lots.

Money is simpler: a transfer of funds changes two balances by one amount, a tax payment
turns balance into payment and is checked against what the tax still owes. The invariant
takes every natural number for a cost, of which `StockKept` uses those of the first lots.

### `CommerceProofs`

Every property of the run `Commerce`. `CommerceIsItsComponents` says that a behaviour of
the composition is one of each component, since the one that `active` names moves and the
others stutter; each component then has an inductive invariant of its own.

* *Sums of receipts and rounding.* `Entered` is what the receipts of all requests say of
  one sale or order; a first request adds its own and a repeated one finds the receipt
  (`EnteredMore`). `RoundedAtMost` and `PercentMonotone` are the two facts about `money()`
  that keep a collection in mixed currencies from passing what is due; they hold for all
  amounts and percentages, where a run tries a few.
* `CounterAccountsForAll` (`SalesAccounted`). `CounterInv` adds to the balance of each lot
  that the allocations of a sale add up to its quantity, that a cancellation in progress
  holds a sale that may be cancelled and has collected nothing, and that no two writers
  hold one sale: this is what makes a cancellation restore exactly once although it reads
  the counter without a lock. `FifoSum` says that first in, first out takes what is asked
  or all there is.
* `InvoicesAreSettled` and `InvoicesAreAsQuoted`. `ReceivablesInv` adds that nothing was
  collected for an order without invoice; the second theorem is an action property and
  follows from the hash that `SameQuote` stands for and from the monotony of the IGTF.
* `PurchasesAreSettled`. `NeverPaidTwice` alone is not inductive. `PurchasesInv` adds
  which expenses a reversal may find: those a source names paid the purchase and it has
  its invoice (`PayersKnown`), the last expense of a purchase paid it (`LastKnown`), and
  before its invoice comes a purchase has the payment of the old workflow or none
  (`OldPayment`). The shares of a grouped payment are what each purchase still owed. TLC
  checked `PurchasesInv` on the instance of `Commerce` before it was proved.
* `AccountsAgreeWithBooks` and `ClosedMonthsStay`. `BooksInv`: slots are filled in order,
  one entry each, and all transfers together bring nothing. Then both the dashboard (by
  month, without transfers) and the balances (by account, all entries) are sums of the
  same signed entries grouped in two ways (`SumGroups`). A step fills free slots only and
  with entries of the current month (`StepFillsFree`). `AbsorptionInv` is the property of
  the claims with their types: it is inductive because an entry, once posted, is never
  given to somebody else, whatever the two open handlers had read.
* `JobsChargedAsPreviewed` and `QuotesAreKept`. `QuotesInv`: a line has units and the
  price of some of them, an undecided finding has units, and only an approved one has
  lines. The types carry most of the weight: that no lot goes below zero when a line
  leaves the shelf needs that FIFO takes no more of a lot than nobody else pledged
  (`AllocationTakes`), and that a price is an amount needs a lot that was touched last
  (`LastTakenNat`). `ChargedAsPreviewed` then compares the two computations: both take
  the same units, and what is beyond them falls back to the same cost.

### Only model-checked

* `SubmittedIsServed`: liveness under fairness, which is about `ENABLED`, of which the
  prover knows nothing.
* That the bounded instances reach what they should: every action fires in some run, each
  property is violated by its mutant, and the three disagreements are real.

Every other invariant and action property of a passing run is a theorem. No property needs
what a recursive definition computes for all inputs: sums are treated by the minimal
counterexample of `Sums`, and lists by what the library proves of `Append` and `\o`. TLC
checked `ClaimsInv` and, for a range of costs, the parts of `InterfilialInv` on the
instances `Dealership` and `Office` before they were proved.

## 6. Plan

1. Core of the workshop: `Workshop`, `Shelf`, `WorkshopShelf`, `ServiceOrder` and their
   proofs. Done.
2. Money, dealership and office: the fourteen modules of `Commerce`, `Dealership` and
   `Office`. Done.
3. Theorems. Done: the workshop's safety properties and its refinement, the floor, vehicle
   sales, clients, claims, schedule, catalogue, registers, access, everything the run
   `Commerce` checks, and the three compositions.
4. What could follow: vehicle purchase orders and the notifications' outbox as modules of
   their own, and abstract specifications for the office as `Shelf` is one for the
   workshop.

## 7. Not modelled

Roles and permissions (every action stands for a permitted user), validation of single
fields, notifications and their outbox (at least once by design, and nothing reads it
back), files and photographs, reports, dashboards and KPIs but those that a property
names, vehicle purchase orders (every operation locks its order and recomputes the
status), instalments a financier reports after a sale, the settings of warehouses,
migrations and scripts. Sequence numbers taken as max+1 are left out but for services.
Lock-order deadlocks between handlers are listed as a hazard: PostgreSQL aborts one side
and the client repeats the request, so they cost a retry and change no state;
`AbandonWrite` and `AbandonHandler` are such aborts.
