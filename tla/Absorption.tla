----------------------------- MODULE Absorption -----------------------------
(***************************************************************************)
(* Claims to suppliers whose cost the workshop absorbs, and the monthly    *)
(* submission that asks the holding to reimburse it.                       *)
(*                                                                         *)
(* None of these operations locks a row: one that decides on what it read  *)
(* commits later, with whatever the others did in between (variable        *)
(* absorptionOpen), and only the database's keys stop it.                  *)
(*                                                                         *)
(* Left out: amounts, currencies, accounts, and what else the books hold   *)
(* (module Books).                                                         *)
(***************************************************************************)
EXTENDS Integers, FiniteSets

CONSTANTS
  Claims,       \* supplier claims
  ClaimMonths,  \* bound: months of the run, 1..n
  Submissions,  \* submission ids, each used once
  Reviewers,    \* slots for handlers that have read and not yet written
  ClaimMoves,   \* bound: statuses that users set
  MaxPosted     \* bound: entries posted

ASSUME AbsorptionAssumption == ClaimMonths \subseteq Nat \ {0} /\ 1 \in ClaimMonths /\ MaxPosted \in Nat

VARIABLES
  claimMonth,       \* the current month
  posted,           \* the entries that claims and submissions posted, in order
  claims,           \* supplier_claims
  submissions,      \* warranty_submissions
  absorptionOpen    \* what an open handler read and will write

absorptionVars == <<claimMonth, posted, claims, submissions, absorptionOpen>>

PostedIds == 1..MaxPosted
NotPosted == 0
ClaimStatus == {"pendiente_envio", "enviado", "aprobado", "rechazado", "resuelto"}
ASSUME ClaimMovesAssumption == ClaimMoves \subseteq ClaimStatus
Resolutions == {"cargo_cliente", "costo_taller"}
ClaimRow == [status : ClaimStatus, resolution : Resolutions \union {"none"},
             resolvedIn : ClaimMonths \union {0}, expense : 0..MaxPosted,
             submission : SUBSET Submissions]
SubmissionStatus == {"borrador", "presentada", "pagada"}
SubmissionRow == [month : ClaimMonths, status : SubmissionStatus, income : 0..MaxPosted]
Handler == [kind : {"resolve", "refresh", "submit", "pay", "delete"},
            claim : SUBSET Claims,      \* to resolve, or read as belonging to the submission
            loaded : Resolutions \union {"none"},
            submission : SUBSET Submissions]

AbsorptionTypeOK ==
  /\ claimMonth \in ClaimMonths
  /\ posted \in [PostedIds -> SUBSET (Claims \union Submissions)]
  /\ claims \in [Claims -> SUBSET ClaimRow]
  /\ submissions \in [Submissions -> SUBSET SubmissionRow]
  /\ absorptionOpen \in [Reviewers -> SUBSET Handler]

AbsorptionInit ==
  /\ claimMonth = 1
  /\ posted = [e \in PostedIds |-> {}]
  /\ claims = [c \in Claims |-> {}]
  /\ submissions = [s \in Submissions |-> {}]
  /\ absorptionOpen = [h \in Reviewers |-> {}]

FreePosted == {e \in PostedIds : posted[e] = {}}
NewPosted == CHOOSE e \in FreePosted : \A f \in FreePosted : e <= f
PostFor(x) == FreePosted # {} /\ posted' = [posted EXCEPT ![NewPosted] = {x}]

Open(h, kind, cs, loaded, ss) ==
  /\ absorptionOpen[h] = {}
  /\ absorptionOpen' = [absorptionOpen EXCEPT
       ![h] = {[kind |-> kind, claim |-> cs, loaded |-> loaded, submission |-> ss]}]
  /\ UNCHANGED <<claimMonth, posted, claims, submissions>>
Close(h) == absorptionOpen' = [absorptionOpen EXCEPT ![h] = {}]

NextClaimMonth ==
  /\ claimMonth + 1 \in ClaimMonths
  /\ claimMonth' = claimMonth + 1
  /\ UNCHANGED <<posted, claims, submissions, absorptionOpen>>

-----------------------------------------------------------------------------
(* Claims to suppliers *)

NewClaim == [status |-> "pendiente_envio", resolution |-> "none", resolvedIn |-> 0,
             expense |-> NotPosted, submission |-> {}]

CreateClaim(c) ==
  /\ claims[c] = {}
  /\ claims' = [claims EXCEPT ![c] = {NewClaim}]
  /\ UNCHANGED <<claimMonth, posted, submissions, absorptionOpen>>

\* Any status but the resolved one, even of a resolved claim.
UpdateClaim(c, status) == \E x \in claims[c] :
  /\ status # "resuelto"
  /\ claims' = [claims EXCEPT ![c] = {[x EXCEPT !.status = status]}]
  /\ UNCHANGED <<claimMonth, posted, submissions, absorptionOpen>>

ReadResolve(h, c) == \E x \in claims[c] :
  x.status = "rechazado" /\ Open(h, "resolve", {c}, x.resolution, {})

\* Wrong: the expense of the absorbed cost is posted only once per claim.
FirstExpense(x, r) == r = "costo_taller" /\ x.resolution = "none"
\* The workshop pays what the client does not.
Absorbed(x, r) == r = "costo_taller"

\* An UPDATE writes only what differs from what was loaded.
Written(o, x, r) == IF r = o.loaded THEN x.resolution ELSE r

CommitResolve(h, r) == \E o \in absorptionOpen[h] : \E c \in o.claim : \E x \in claims[c] :
  /\ o.kind = "resolve"
  /\ IF Absorbed(x, r)
     THEN /\ PostFor(c)
          /\ claims' = [claims EXCEPT ![c] = {[x EXCEPT !.status = "resuelto", !.resolution = Written(o, x, r),
                                                !.resolvedIn = claimMonth, !.expense = NewPosted]}]
     ELSE /\ claims' = [claims EXCEPT ![c] = {[x EXCEPT !.status = "resuelto", !.resolution = Written(o, x, r),
                                                !.resolvedIn = claimMonth]}]
          /\ UNCHANGED posted
  /\ Close(h)
  /\ UNCHANGED <<claimMonth, submissions>>

-----------------------------------------------------------------------------
(* Monthly submissions to the holding *)

\* Absorbed in that month and in no submission.
Unclaimed(m) == {c \in Claims : \E x \in claims[c] :
  x.resolution = "costo_taller" /\ x.submission = {} /\ x.resolvedIn = m}
Bundled(s) == {c \in Claims : \E x \in claims[c] : s \in x.submission}
Bundle(cs, ss) == [c \in Claims |->
  IF c \in cs THEN {[x EXCEPT !.submission = ss] : x \in claims[c]} ELSE claims[c]]
SubmissionsIn(m) == {s \in Submissions : \E x \in submissions[s] : x.month = m}
InStatus(s, status) == \E x \in submissions[s] : x.status = status
WithStatus(s, status) == [submissions EXCEPT ![s] = {[x EXCEPT !.status = status] : x \in submissions[s]}]

\* uq_warranty_submission_period: the second of two creations fails.
CreateSubmission(s, m) ==
  /\ submissions[s] = {} /\ Bundled(s) = {} /\ SubmissionsIn(m) = {}
  /\ submissions' = [submissions EXCEPT ![s] = {[month |-> m, status |-> "borrador", income |-> NotPosted]}]
  /\ claims' = Bundle(Unclaimed(m), {s})
  /\ UNCHANGED <<claimMonth, posted, absorptionOpen>>

ReadSubmission(h, s, kind) ==
  /\ InStatus(s, IF kind = "pay" THEN "presentada" ELSE "borrador")
  /\ kind = "submit" => Bundled(s) # {}
  /\ Open(h, kind, CASE kind = "refresh" -> UNION {Unclaimed(x.month) : x \in submissions[s]}
                     [] kind = "delete" -> Bundled(s)
                     [] OTHER -> {}, "none", {s})

\* The claims found are bundled; the key to a submission deleted meanwhile fails.
CommitRefresh(h) == \E o \in absorptionOpen[h] : \E s \in o.submission :
  /\ o.kind = "refresh" /\ submissions[s] # {}
  /\ claims' = Bundle(o.claim, {s})
  /\ Close(h)
  /\ UNCHANGED <<claimMonth, posted, submissions>>

CommitSubmit(h) == \E o \in absorptionOpen[h] : \E s \in o.submission :
  /\ o.kind = "submit" /\ submissions[s] # {}
  /\ submissions' = WithStatus(s, "presentada")
  /\ Close(h)
  /\ UNCHANGED <<claimMonth, posted, claims>>

CommitPay(h) == \E o \in absorptionOpen[h] : \E s \in o.submission : \E x \in submissions[s] :
  /\ o.kind = "pay" /\ PostFor(s)
  /\ submissions' = [submissions EXCEPT ![s] = {[x EXCEPT !.status = "pagada", !.income = NewPosted]}]
  /\ Close(h)
  /\ UNCHANGED <<claimMonth, claims>>

\* Its claims are free again, those bundled meanwhile by the foreign key.
CommitDelete(h) == \E o \in absorptionOpen[h] : \E s \in o.submission :
  /\ o.kind = "delete" /\ submissions[s] # {}
  /\ submissions' = [submissions EXCEPT ![s] = {}]
  /\ claims' = Bundle(o.claim \union Bundled(s), {})
  /\ Close(h)
  /\ UNCHANGED <<claimMonth, posted>>

\* The handler fails, or its row is gone: nothing is written.
AbandonHandler(h) ==
  /\ absorptionOpen[h] # {}
  /\ Close(h)
  /\ UNCHANGED <<claimMonth, posted, claims, submissions>>

SupplierClaimRoutes ==
  \/ \E c \in Claims : CreateClaim(c) \/ \E status \in ClaimMoves : UpdateClaim(c, status)
  \/ \E h \in Reviewers :
       (\E c \in Claims : ReadResolve(h, c)) \/ \E r \in Resolutions : CommitResolve(h, r)
SubmissionRoutes ==
  \/ \E s \in Submissions, m \in ClaimMonths : CreateSubmission(s, m)
  \/ \E h \in Reviewers :
       \/ \E s \in Submissions, kind \in {"refresh", "submit", "pay", "delete"} : ReadSubmission(h, s, kind)
       \/ CommitRefresh(h) \/ CommitSubmit(h) \/ CommitPay(h) \/ CommitDelete(h)

AbsorptionNext ==
  \/ NextClaimMonth
  \/ SupplierClaimRoutes \/ SubmissionRoutes
  \/ \E h \in Reviewers : AbandonHandler(h)

AbsorptionSpec == AbsorptionInit /\ [][AbsorptionNext]_absorptionVars

-----------------------------------------------------------------------------
(* Properties *)

\* A claim whose cost the workshop absorbed has an expense of its own in the
\* books, and a paid submission an income, even when a claim is reopened and
\* resolved again, or two handlers decide at once (service.py:608-676, 841-880).
SettledIsPosted ==
  /\ \A c \in Claims : \A x \in claims[c] : x.resolution = "costo_taller" =>
       x.expense # NotPosted /\ posted[x.expense] = {c}
  /\ \A s \in Submissions : \A x \in submissions[s] : x.status = "pagada" =>
       x.income # NotPosted /\ posted[x.income] = {s}
=============================================================================
