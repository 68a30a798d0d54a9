---------------------------- MODULE CommerceProofs ----------------------------
(***************************************************************************)
(* Theorems about the components where the money of a filial moves, for any*)
(* sales, orders, purchases, accounts, claims and visits, any prices and   *)
(* rates, and any number of lots, entries and requests: what the counter   *)
(* took and collected, what an invoice brings, what a purchase was paid,   *)
(* what the books say, what the workshop's account settled, and what a job *)
(* is charged.                                                             *)
(*                                                                         *)
(* Each component has an inductive invariant; the last section puts them   *)
(* together, as MCCommerce does.                                           *)
(***************************************************************************)
EXTENDS MCCommerce, Sums, SequenceTheorems

-----------------------------------------------------------------------------
(* Absorption: what was settled on the workshop's account is in the books *)

\* An entry that a row points to is posted for this row's owner.
PostedFor(e, x) == e # NotPosted /\ posted[e] = {x}
ClaimsPosted(C) == \A c \in Claims : \A x \in C[c] : x.resolution = "costo_taller" => PostedFor(x.expense, c)
SubmissionsPosted(S) == \A s \in Submissions : \A x \in S[s] : x.status = "pagada" => PostedFor(x.income, s)

AbsorptionInv == AbsorptionTypeOK /\ ClaimsPosted(claims) /\ SubmissionsPosted(submissions)

\* The invariant is the property with the types.
LEMMA PostedIsSettled == AbsorptionInv => SettledIsPosted
BY DEF AbsorptionInv, SettledIsPosted, ClaimsPosted, SubmissionsPosted, PostedFor

\* The entry that is posted next is a free one.
LEMMA NewPostedFree ==
  ASSUME FreePosted # {}
  PROVE  NewPosted \in PostedIds /\ posted[NewPosted] = {} /\ NewPosted # NotPosted
<1>1. FreePosted \in SUBSET Nat
  BY AbsorptionAssumption DEF FreePosted, PostedIds
<1>2. PICK e \in FreePosted : \A f \in FreePosted : e <= f
  <2> HIDE DEF FreePosted
  <2> QED BY <1>1, LeastNumber
<1>3. NewPosted \in FreePosted
  BY <1>2 DEF NewPosted
<1> QED BY <1>3, AbsorptionAssumption DEF FreePosted, PostedIds, NotPosted

\* What was posted stays when an entry is added.
LEMMA PostKeeps ==
  ASSUME AbsorptionTypeOK, NEW owner \in Claims \union Submissions, PostFor(owner)
  PROVE  /\ posted' \in [PostedIds -> SUBSET (Claims \union Submissions)]
         /\ NewPosted \in 0..MaxPosted /\ NewPosted # NotPosted /\ posted'[NewPosted] = {owner}
         /\ \A e \in 0..MaxPosted : e # NotPosted /\ posted[e] # {} => posted'[e] = posted[e]
<1>1. FreePosted # {} /\ posted' = [posted EXCEPT ![NewPosted] = {owner}]
  BY DEF PostFor
<1>2. NewPosted \in PostedIds /\ posted[NewPosted] = {} /\ NewPosted # NotPosted
  BY <1>1, NewPostedFree
<1>3. PostedIds \subseteq 0..MaxPosted /\ \A e \in 0..MaxPosted : e # NotPosted => e \in PostedIds
  BY AbsorptionAssumption DEF PostedIds, NotPosted
<1> QED BY <1>1, <1>2, <1>3 DEF AbsorptionTypeOK

\* Rows that keep what they say of their entry are still right.
RowKept(y, x) == y.expense = x.expense /\ (y.resolution = "costo_taller" => x.resolution = "costo_taller")

\* A change of status among those that settle nothing keeps what is posted.
LEMMA ClaimsKept ==
  ASSUME AbsorptionInv, UNCHANGED posted, claims' \in [Claims -> SUBSET ClaimRow],
         \A c \in Claims : \A y \in claims'[c] : \E x \in claims[c] : RowKept(y, x)
  PROVE  ClaimsPosted(claims)'
BY DEF AbsorptionInv, ClaimsPosted, PostedFor, RowKept

\* Bundling claims changes nothing else of them.
LEMMA BundleKept ==
  ASSUME AbsorptionInv, NEW cs, NEW ss \in SUBSET Submissions, claims' = Bundle(cs, ss), UNCHANGED posted
  PROVE  claims' \in [Claims -> SUBSET ClaimRow] /\ ClaimsPosted(claims)'
<1>1. ASSUME NEW c \in Claims, NEW y \in claims'[c]
      PROVE  \E x \in claims[c] : RowKept(y, x) /\ y \in ClaimRow
  <2>1. claims[c] \subseteq ClaimRow
    BY DEF AbsorptionInv, AbsorptionTypeOK
  <2>2. y \in claims[c] \/ \E x \in claims[c] : y = [x EXCEPT !.submission = ss]
    BY DEF Bundle
  <2>3. CASE y \in claims[c]
    BY <2>1, <2>3 DEF RowKept
  <2>4. ASSUME NEW x \in claims[c], y = [x EXCEPT !.submission = ss]
        PROVE  RowKept(y, x) /\ y \in ClaimRow
    BY <2>1, <2>4 DEF RowKept, ClaimRow
  <2> QED BY <2>2, <2>3, <2>4
<1>2. claims' = [c \in Claims |-> claims'[c]]
  BY DEF Bundle
<1>3. claims' \in [Claims -> SUBSET ClaimRow]
  BY <1>1, <1>2
<1> QED BY <1>1, <1>3, ClaimsKept

\* A handler that opens or closes leaves the books alone.
LEMMA CloseTyped ==
  ASSUME AbsorptionTypeOK, NEW h \in Reviewers, Close(h)
  PROVE  absorptionOpen' \in [Reviewers -> SUBSET Handler]
BY DEF AbsorptionTypeOK, Close

\* Submissions of another status point to the entries they did.
LEMMA StatusKept ==
  ASSUME AbsorptionInv, NEW s \in Submissions, NEW status \in SubmissionStatus \ {"pagada"},
         submissions' = WithStatus(s, status), UNCHANGED posted
  PROVE  submissions' \in [Submissions -> SUBSET SubmissionRow] /\ SubmissionsPosted(submissions)'
<1>1. ASSUME NEW t \in Submissions, NEW y \in submissions'[t]
      PROVE  y \in SubmissionRow /\ (y.status = "pagada" => y \in submissions[t])
  <2>1. submissions[t] \subseteq SubmissionRow
    BY DEF AbsorptionInv, AbsorptionTypeOK
  <2>2. y \in submissions[t] \/ \E x \in submissions[t] : y = [x EXCEPT !.status = status]
    BY DEF WithStatus, AbsorptionInv, AbsorptionTypeOK
  <2>3. ASSUME NEW x \in submissions[t], y = [x EXCEPT !.status = status]
        PROVE  y \in SubmissionRow /\ y.status # "pagada"
    BY <2>1, <2>3 DEF SubmissionRow
  <2> QED BY <2>1, <2>2, <2>3
<1>2. submissions' = [t \in Submissions |-> submissions'[t]]
  BY DEF WithStatus, AbsorptionInv, AbsorptionTypeOK
<1> QED BY <1>1, <1>2 DEF AbsorptionInv, SubmissionsPosted, PostedFor

\* Any step keeps what is settled in the books.
LEMMA AbsorptionStep ==
  ASSUME AbsorptionInv, [AbsorptionNext]_absorptionVars
  PROVE  AbsorptionInv'
<1>t. /\ AbsorptionTypeOK /\ claims \in [Claims -> SUBSET ClaimRow]
      /\ submissions \in [Submissions -> SUBSET SubmissionRow]
      /\ absorptionOpen \in [Reviewers -> SUBSET Handler]
      /\ ClaimsPosted(claims) /\ SubmissionsPosted(submissions)
  BY DEF AbsorptionInv, AbsorptionTypeOK
<1>0. CASE UNCHANGED absorptionVars
  BY <1>0 DEF AbsorptionInv, AbsorptionTypeOK, absorptionVars, ClaimsPosted, SubmissionsPosted, PostedFor
<1>1. CASE NextClaimMonth
  BY <1>1 DEF NextClaimMonth, AbsorptionInv, AbsorptionTypeOK, ClaimsPosted, SubmissionsPosted, PostedFor
<1>2. ASSUME NEW h \in Reviewers, AbandonHandler(h)
      PROVE  AbsorptionInv'
  <2>1. absorptionOpen' \in [Reviewers -> SUBSET Handler]
    BY <1>2, <1>t, CloseTyped DEF AbandonHandler
  <2> QED BY <1>2, <1>t, <2>1 DEF AbandonHandler, AbsorptionInv, AbsorptionTypeOK, ClaimsPosted, SubmissionsPosted, PostedFor
<1>3. ASSUME NEW c \in Claims, CreateClaim(c)
      PROVE  AbsorptionInv'
  <2>1. NewClaim \in ClaimRow /\ NewClaim.resolution = "none"
    BY AbsorptionAssumption DEF NewClaim, ClaimRow, ClaimStatus, NotPosted
  <2> HIDE DEF NewClaim
  <2>2. claims' \in [Claims -> SUBSET ClaimRow] /\ ClaimsPosted(claims)'
    BY <1>3, <1>t, <2>1 DEF CreateClaim, ClaimsPosted, PostedFor
  <2> QED BY <1>3, <1>t, <2>2 DEF CreateClaim, AbsorptionInv, AbsorptionTypeOK, SubmissionsPosted, PostedFor
<1>4. ASSUME NEW c \in Claims, NEW status \in ClaimMoves, UpdateClaim(c, status)
      PROVE  AbsorptionInv'
  <2>1. PICK x \in claims[c] : claims' = [claims EXCEPT ![c] = {[x EXCEPT !.status = status]}]
    BY <1>4 DEF UpdateClaim
  <2>2. x \in ClaimRow /\ status \in ClaimStatus
    BY <1>t, ClaimMovesAssumption
  <2>3. [x EXCEPT !.status = status] \in ClaimRow /\ RowKept([x EXCEPT !.status = status], x)
    BY <2>2 DEF ClaimRow, RowKept
  <2>4. claims' \in [Claims -> SUBSET ClaimRow]
    BY <1>t, <2>1, <2>3
  <2>5. \A d \in Claims : \A y \in claims'[d] : \E z \in claims[d] : RowKept(y, z)
    BY <1>t, <2>1, <2>3 DEF RowKept
  <2>6. ClaimsPosted(claims)'
    BY <1>4, <2>4, <2>5, ClaimsKept DEF UpdateClaim
  <2> QED BY <1>4, <1>t, <2>4, <2>6 DEF UpdateClaim, AbsorptionInv, AbsorptionTypeOK, SubmissionsPosted, PostedFor
<1>5. ASSUME NEW h \in Reviewers, NEW kind \in {"resolve", "refresh", "submit", "pay", "delete"},
             NEW cs \in SUBSET Claims, NEW loaded \in Resolutions \union {"none"}, NEW ss \in SUBSET Submissions,
             Open(h, kind, cs, loaded, ss)
      PROVE  AbsorptionInv'
  <2>1. [kind |-> kind, claim |-> cs, loaded |-> loaded, submission |-> ss] \in Handler
    BY DEF Handler
  <2>2. absorptionOpen' \in [Reviewers -> SUBSET Handler]
    BY <1>5, <1>t, <2>1 DEF Open
  <2> QED BY <1>5, <1>t, <2>2 DEF Open, AbsorptionInv, AbsorptionTypeOK, ClaimsPosted, SubmissionsPosted, PostedFor
<1>6. ASSUME NEW h \in Reviewers, NEW c \in Claims, ReadResolve(h, c)
      PROVE  AbsorptionInv'
  <2>1. PICK x \in claims[c] : Open(h, "resolve", {c}, x.resolution, {})
    BY <1>6 DEF ReadResolve
  <2>2. x.resolution \in Resolutions \union {"none"}
    BY <1>t DEF ClaimRow
  <2> QED BY <1>5, <2>1, <2>2
<1>7. ASSUME NEW h \in Reviewers, NEW r \in Resolutions, CommitResolve(h, r)
      PROVE  AbsorptionInv'
  <2>1. PICK o \in absorptionOpen[h] : \E c \in o.claim : \E x \in claims[c] :
           /\ IF Absorbed(x, r)
              THEN /\ PostFor(c)
                   /\ claims' = [claims EXCEPT ![c] = {[x EXCEPT !.status = "resuelto", !.resolution = Written(o, x, r),
                                                         !.resolvedIn = claimMonth, !.expense = NewPosted]}]
              ELSE /\ claims' = [claims EXCEPT ![c] = {[x EXCEPT !.status = "resuelto", !.resolution = Written(o, x, r),
                                                         !.resolvedIn = claimMonth]}]
                   /\ UNCHANGED posted
           /\ Close(h)
           /\ UNCHANGED <<claimMonth, submissions>>
    BY <1>7 DEF CommitResolve
  <2>2. PICK c \in o.claim : \E x \in claims[c] :
           /\ IF Absorbed(x, r)
              THEN /\ PostFor(c)
                   /\ claims' = [claims EXCEPT ![c] = {[x EXCEPT !.status = "resuelto", !.resolution = Written(o, x, r),
                                                         !.resolvedIn = claimMonth, !.expense = NewPosted]}]
              ELSE /\ claims' = [claims EXCEPT ![c] = {[x EXCEPT !.status = "resuelto", !.resolution = Written(o, x, r),
                                                         !.resolvedIn = claimMonth]}]
                   /\ UNCHANGED posted
    BY <2>1
  <2>3. PICK x \in claims[c] :
           IF Absorbed(x, r)
           THEN /\ PostFor(c)
                /\ claims' = [claims EXCEPT ![c] = {[x EXCEPT !.status = "resuelto", !.resolution = Written(o, x, r),
                                                      !.resolvedIn = claimMonth, !.expense = NewPosted]}]
           ELSE /\ claims' = [claims EXCEPT ![c] = {[x EXCEPT !.status = "resuelto", !.resolution = Written(o, x, r),
                                                      !.resolvedIn = claimMonth]}]
                /\ UNCHANGED posted
    BY <2>2
  <2>4. c \in Claims /\ x \in ClaimRow /\ claimMonth \in ClaimMonths /\ Close(h) /\ UNCHANGED <<claimMonth, submissions>>
    BY <1>t, <2>1 DEF Handler, AbsorptionTypeOK
  <2>5. Written(o, x, r) \in Resolutions \union {"none"}
    BY <2>4 DEF Written, ClaimRow
  <2>6. absorptionOpen' \in [Reviewers -> SUBSET Handler]
    BY <1>t, <2>4, CloseTyped
  <2>7. CASE Absorbed(x, r)
    <3> DEFINE y == [x EXCEPT !.status = "resuelto", !.resolution = Written(o, x, r),
                              !.resolvedIn = claimMonth, !.expense = NewPosted]
    <3>1. PostFor(c) /\ claims' = [claims EXCEPT ![c] = {y}]
      BY <2>3, <2>7
    <3>2. /\ posted' \in [PostedIds -> SUBSET (Claims \union Submissions)]
          /\ NewPosted \in 0..MaxPosted /\ NewPosted # NotPosted /\ posted'[NewPosted] = {c}
          /\ \A e \in 0..MaxPosted : e # NotPosted /\ posted[e] # {} => posted'[e] = posted[e]
      BY <1>t, <2>4, <3>1, PostKeeps
    <3>3. y \in ClaimRow /\ y.expense = NewPosted
      BY <2>4, <2>5, <3>2 DEF ClaimRow, ClaimStatus
    <3> HIDE DEF y
    <3>4. claims' \in [Claims -> SUBSET ClaimRow]
      BY <1>t, <3>1, <3>3
    <3>5. ASSUME NEW d \in Claims, NEW z \in claims'[d], z.resolution = "costo_taller"
          PROVE  z.expense # NotPosted /\ posted'[z.expense] = {d}
      <4>1. CASE d = c
        BY <1>t, <2>4, <3>1, <3>2, <3>3, <4>1
      <4>2. CASE d # c
        <5>1. z \in claims[d] /\ z \in ClaimRow
          BY <1>t, <2>4, <3>1, <4>2
        <5>2. z.expense # NotPosted /\ posted[z.expense] = {d} /\ z.expense \in 0..MaxPosted
          BY <1>t, <3>5, <5>1 DEF ClaimsPosted, PostedFor, ClaimRow
        <5> QED BY <3>2, <5>2
      <4> QED BY <4>1, <4>2
    <3>6. ClaimsPosted(claims)'
      BY <3>5 DEF ClaimsPosted, PostedFor
    <3>7. ASSUME NEW s \in Submissions, NEW z \in submissions[s], z.status = "pagada"
          PROVE  z.income # NotPosted /\ posted'[z.income] = {s}
      <4>1. z.income # NotPosted /\ posted[z.income] = {s} /\ z.income \in 0..MaxPosted
        BY <1>t, <3>7 DEF SubmissionsPosted, PostedFor, SubmissionRow
      <4> QED BY <3>2, <4>1
    <3>8. SubmissionsPosted(submissions)'
      BY <2>4, <3>7 DEF SubmissionsPosted, PostedFor
    <3> QED BY <1>t, <2>4, <2>6, <3>2, <3>4, <3>6, <3>8 DEF AbsorptionInv, AbsorptionTypeOK
  <2>8. CASE ~Absorbed(x, r)
    <3> DEFINE y == [x EXCEPT !.status = "resuelto", !.resolution = Written(o, x, r), !.resolvedIn = claimMonth]
    <3>1. UNCHANGED posted /\ claims' = [claims EXCEPT ![c] = {y}]
      BY <2>3, <2>8
    <3>2. y.expense = x.expense /\ y.resolution = Written(o, x, r)
      BY <2>4 DEF ClaimRow
    <3>3. y \in ClaimRow /\ RowKept(y, x)
      BY <2>4, <2>5, <2>8, <3>2 DEF ClaimRow, ClaimStatus, RowKept, Written, Absorbed
    <3> HIDE DEF y
    <3>4. claims' \in [Claims -> SUBSET ClaimRow]
      BY <1>t, <3>1, <3>3
    <3>5. \A d \in Claims : \A z \in claims'[d] : \E w \in claims[d] : RowKept(z, w)
      BY <1>t, <3>1, <3>3 DEF RowKept
    <3>6. ClaimsPosted(claims)'
      BY <3>1, <3>4, <3>5, ClaimsKept
    <3> QED BY <1>t, <2>4, <2>6, <3>1, <3>4, <3>6 DEF AbsorptionInv, AbsorptionTypeOK, SubmissionsPosted, PostedFor
  <2> QED BY <2>7, <2>8
<1>8. ASSUME NEW cs, NEW ss \in SUBSET Submissions, claims' = Bundle(cs, ss), UNCHANGED <<claimMonth, posted>>,
             absorptionOpen' \in [Reviewers -> SUBSET Handler],
             submissions' \in [Submissions -> SUBSET SubmissionRow], SubmissionsPosted(submissions)'
      PROVE  AbsorptionInv'
  BY <1>8, <1>t, BundleKept DEF AbsorptionInv, AbsorptionTypeOK
<1>9. ASSUME NEW s \in Submissions, NEW m \in ClaimMonths, CreateSubmission(s, m)
      PROVE  AbsorptionInv'
  <2> DEFINE x == [month |-> m, status |-> "borrador", income |-> NotPosted]
  <2>1. x \in SubmissionRow /\ x.status # "pagada"
    BY AbsorptionAssumption DEF SubmissionRow, SubmissionStatus, NotPosted
  <2>2. submissions' = [submissions EXCEPT ![s] = {x}]
    BY <1>9 DEF CreateSubmission
  <2> HIDE DEF x
  <2>3. submissions' \in [Submissions -> SUBSET SubmissionRow]
    BY <1>t, <2>1, <2>2
  <2>4. UNCHANGED posted /\ SubmissionsPosted(submissions)'
    BY <1>9, <1>t, <2>1, <2>2 DEF CreateSubmission, SubmissionsPosted, PostedFor
  <2>5. claims' = Bundle(Unclaimed(m), {s}) /\ UNCHANGED <<claimMonth, posted, absorptionOpen>>
    BY <1>9 DEF CreateSubmission
  <2> QED BY <1>8, <1>t, <2>3, <2>4, <2>5
<1>10. ASSUME NEW h \in Reviewers, NEW s \in Submissions, NEW kind \in {"refresh", "submit", "pay", "delete"},
              ReadSubmission(h, s, kind)
       PROVE  AbsorptionInv'
  <2> DEFINE cs == CASE kind = "refresh" -> UNION {Unclaimed(x.month) : x \in submissions[s]}
                     [] kind = "delete" -> Bundled(s)
                     [] OTHER -> {}
  <2>1. Open(h, kind, cs, "none", {s})
    BY <1>10 DEF ReadSubmission
  <2>2. cs \in SUBSET Claims
    <3>1. \A n : Unclaimed(n) \subseteq Claims
      BY DEF Unclaimed
    <3>2. UNION {Unclaimed(x.month) : x \in submissions[s]} \subseteq Claims
      BY <3>1
    <3>3. Bundled(s) \subseteq Claims
      BY DEF Bundled
    <3> HIDE DEF Unclaimed, Bundled
    <3> QED BY <3>2, <3>3
  <2> HIDE DEF cs
  <2> QED BY <1>5, <2>1, <2>2
<1>11. ASSUME NEW h \in Reviewers, CommitRefresh(h)
       PROVE  AbsorptionInv'
  <2>1. PICK o \in absorptionOpen[h] : \E s \in o.submission : claims' = Bundle(o.claim, {s})
    BY <1>11 DEF CommitRefresh
  <2>2. PICK s \in o.submission : claims' = Bundle(o.claim, {s})
    BY <2>1
  <2>3. s \in Submissions /\ Close(h) /\ UNCHANGED <<claimMonth, posted, submissions>>
    BY <1>11, <1>t DEF CommitRefresh, Handler
  <2>4. absorptionOpen' \in [Reviewers -> SUBSET Handler]
    BY <1>t, <2>3, CloseTyped
  <2>5. SubmissionsPosted(submissions)'
    BY <1>t, <2>3 DEF SubmissionsPosted, PostedFor
  <2> QED BY <1>8, <1>t, <2>2, <2>3, <2>4, <2>5
<1>12. ASSUME NEW h \in Reviewers, CommitSubmit(h)
       PROVE  AbsorptionInv'
  <2>1. PICK o \in absorptionOpen[h] : \E s \in o.submission : submissions' = WithStatus(s, "presentada")
    BY <1>12 DEF CommitSubmit
  <2>2. PICK s \in o.submission : submissions' = WithStatus(s, "presentada")
    BY <2>1
  <2>3. s \in Submissions /\ Close(h) /\ UNCHANGED <<claimMonth, posted, claims>>
    BY <1>12, <1>t DEF CommitSubmit, Handler
  <2>4. absorptionOpen' \in [Reviewers -> SUBSET Handler]
    BY <1>t, <2>3, CloseTyped
  <2>5. "presentada" \in SubmissionStatus \ {"pagada"}
    BY DEF SubmissionStatus
  <2>6. submissions' \in [Submissions -> SUBSET SubmissionRow] /\ SubmissionsPosted(submissions)'
    BY <2>2, <2>3, <2>5, StatusKept
  <2> QED BY <1>t, <2>3, <2>4, <2>6 DEF AbsorptionInv, AbsorptionTypeOK, ClaimsPosted, PostedFor
<1>13. ASSUME NEW h \in Reviewers, CommitPay(h)
       PROVE  AbsorptionInv'
  <2>1. PICK o \in absorptionOpen[h] : \E s \in o.submission : \E x \in submissions[s] :
          PostFor(s) /\ submissions' = [submissions EXCEPT ![s] = {[x EXCEPT !.status = "pagada", !.income = NewPosted]}]
    BY <1>13 DEF CommitPay
  <2>2. PICK s \in o.submission : \E x \in submissions[s] :
          PostFor(s) /\ submissions' = [submissions EXCEPT ![s] = {[x EXCEPT !.status = "pagada", !.income = NewPosted]}]
    BY <2>1
  <2>3. PICK x \in submissions[s] :
          PostFor(s) /\ submissions' = [submissions EXCEPT ![s] = {[x EXCEPT !.status = "pagada", !.income = NewPosted]}]
    BY <2>2
  <2>4. s \in Submissions /\ x \in SubmissionRow /\ Close(h) /\ UNCHANGED <<claimMonth, claims>>
    BY <1>13, <1>t DEF CommitPay, Handler
  <2>5. absorptionOpen' \in [Reviewers -> SUBSET Handler]
    BY <1>t, <2>4, CloseTyped
  <2>6. /\ posted' \in [PostedIds -> SUBSET (Claims \union Submissions)]
        /\ NewPosted \in 0..MaxPosted /\ NewPosted # NotPosted /\ posted'[NewPosted] = {s}
        /\ \A e \in 0..MaxPosted : e # NotPosted /\ posted[e] # {} => posted'[e] = posted[e]
    BY <1>t, <2>3, <2>4, PostKeeps
  <2> DEFINE y == [x EXCEPT !.status = "pagada", !.income = NewPosted]
  <2>7. y \in SubmissionRow /\ y.income = NewPosted
    BY <2>4, <2>6 DEF SubmissionRow, SubmissionStatus
  <2>8. submissions' = [submissions EXCEPT ![s] = {y}]
    BY <2>3
  <2> HIDE DEF y
  <2>9. submissions' \in [Submissions -> SUBSET SubmissionRow]
    BY <1>t, <2>7, <2>8
  <2>10. ASSUME NEW t \in Submissions, NEW z \in submissions'[t], z.status = "pagada"
         PROVE  z.income # NotPosted /\ posted'[z.income] = {t}
    <3>1. CASE t = s
      BY <1>t, <2>4, <2>6, <2>7, <2>8, <3>1
    <3>2. CASE t # s
      <4>1. z \in submissions[t] /\ z \in SubmissionRow
        BY <1>t, <2>4, <2>8, <3>2
      <4>2. z.income # NotPosted /\ posted[z.income] = {t} /\ z.income \in 0..MaxPosted
        BY <1>t, <2>10, <4>1 DEF SubmissionsPosted, PostedFor, SubmissionRow
      <4> QED BY <2>6, <4>2
    <3> QED BY <3>1, <3>2
  <2>11. SubmissionsPosted(submissions)'
    BY <2>10 DEF SubmissionsPosted, PostedFor
  <2>12. ASSUME NEW c \in Claims, NEW z \in claims[c], z.resolution = "costo_taller"
         PROVE  z.expense # NotPosted /\ posted'[z.expense] = {c}
    <3>1. z.expense # NotPosted /\ posted[z.expense] = {c} /\ z.expense \in 0..MaxPosted
      BY <1>t, <2>12 DEF ClaimsPosted, PostedFor, ClaimRow
    <3> QED BY <2>6, <3>1
  <2>13. ClaimsPosted(claims)'
    BY <2>4, <2>12 DEF ClaimsPosted, PostedFor
  <2> QED BY <1>t, <2>4, <2>5, <2>6, <2>9, <2>11, <2>13 DEF AbsorptionInv, AbsorptionTypeOK
<1>14. ASSUME NEW h \in Reviewers, CommitDelete(h)
       PROVE  AbsorptionInv'
  <2>1. PICK o \in absorptionOpen[h] : \E s \in o.submission :
          submissions' = [submissions EXCEPT ![s] = {}] /\ claims' = Bundle(o.claim \union Bundled(s), {})
    BY <1>14 DEF CommitDelete
  <2>2. PICK s \in o.submission :
          submissions' = [submissions EXCEPT ![s] = {}] /\ claims' = Bundle(o.claim \union Bundled(s), {})
    BY <2>1
  <2>3. s \in Submissions /\ Close(h) /\ UNCHANGED <<claimMonth, posted>>
    BY <1>14, <1>t DEF CommitDelete, Handler
  <2>4. absorptionOpen' \in [Reviewers -> SUBSET Handler]
    BY <1>t, <2>3, CloseTyped
  <2>5. submissions' \in [Submissions -> SUBSET SubmissionRow] /\ SubmissionsPosted(submissions)'
    BY <1>t, <2>2, <2>3 DEF SubmissionsPosted, PostedFor
  <2> QED BY <1>8, <2>2, <2>3, <2>4, <2>5
<1>15. CASE SupplierClaimRoutes
  BY <1>15, <1>3, <1>4, <1>6, <1>7 DEF SupplierClaimRoutes
<1>16. CASE SubmissionRoutes
  BY <1>16, <1>9, <1>10, <1>11, <1>12, <1>13, <1>14 DEF SubmissionRoutes
<1> QED BY <1>0, <1>1, <1>2, <1>15, <1>16 DEF AbsorptionNext

\* The books hold what claims and submissions point to, whatever officers decide at once.
LEMMA AbsorptionHolds == AbsorptionSpec => []AbsorptionInv
<1>1. AbsorptionInit => AbsorptionInv
  BY AbsorptionAssumption DEF AbsorptionInit, AbsorptionInv, AbsorptionTypeOK, ClaimsPosted, SubmissionsPosted
<1>2. AbsorptionInv /\ [AbsorptionNext]_absorptionVars => AbsorptionInv'
  BY AbsorptionStep
<1> QED BY <1>1, <1>2, PTL DEF AbsorptionSpec

-----------------------------------------------------------------------------
(* Books: the dashboard, the balances and the months that are over *)

\* What an entry brings its account, and what the entry at a slot brings.
Signed(r) == IF r.side = "income" THEN r.amount ELSE 0 - r.amount
Brings(E) == [e \in EntryIds |-> IF E[e] = {} THEN 0 ELSE Signed(CHOOSE r \in E[e] : TRUE)]
Net(E, S) == SumFunctionOnSet(Brings(E), S)

Filled(E) == {e \in EntryIds : E[e] # {}}
Transfers(E) == {e \in EntryIds : \E r \in E[e] : r.source = "transfer"}
InMonth(E, m) == {e \in EntryIds : \E r \in E[e] : r.month = m /\ OnDashboard(r)}
OfAccount(E, a) == {e \in EntryIds : \E r \in E[e] : r.account = a}

\* Slots are filled in order, with one entry each, and transfers bring nothing.
BooksInv ==
  /\ BooksTypeOK
  /\ \A e \in EntryIds : \A r, q \in entries[e] : r = q
  /\ \A e, f \in EntryIds : f < e /\ entries[e] # {} => entries[f] # {}
  /\ Net(entries, Transfers(entries)) = 0

\* There are finitely many slots, accounts and months.
LEMMA SlotsFinite ==
  IsFiniteSet(EntryIds) /\ EntryIds \subseteq Nat \ {0} /\ IsFiniteSet(Accounts) /\ IsFiniteSet(Months)
<1>1. MaxEntries \in Int
  BY BooksAssumption
<1> QED BY <1>1, BooksAssumption, PlacesFinite DEF EntryIds

\* What a slot brings is a whole number, that of its entry.
LEMMA BringsInt ==
  ASSUME NEW E \in [EntryIds -> SUBSET EntryRow]
  PROVE  /\ \A e \in EntryIds : Brings(E)[e] \in Int
         /\ \A e \in EntryIds : \A r \in E[e] : (\A q \in E[e] : q = r) => Brings(E)[e] = Signed(r)
<1>1. ASSUME NEW e \in EntryIds, E[e] # {}
      PROVE  Brings(E)[e] \in Int
  <2> DEFINE r == CHOOSE q \in E[e] : TRUE
  <2>1. r \in EntryRow
    BY <1>1
  <2>2. Brings(E)[e] = Signed(r)
    BY <1>1 DEF Brings
  <2> HIDE DEF r
  <2> QED BY <2>1, <2>2 DEF EntryRow, Signed
<1>2. ASSUME NEW e \in EntryIds, E[e] = {}
      PROVE  Brings(E)[e] = 0
  BY <1>2 DEF Brings
<1>3. ASSUME NEW e \in EntryIds, NEW r \in E[e], \A q \in E[e] : q = r
      PROVE  Brings(E)[e] = Signed(r)
  <2>1. (CHOOSE q \in E[e] : TRUE) = r
    BY <1>3
  <2> QED BY <2>1 DEF Brings
<1> QED BY <1>1, <1>2, <1>3

\* The income of some slots without their expense is what they bring.
LEMMA TotalsAreNet ==
  ASSUME BooksInv, NEW S \in SUBSET EntryIds
  PROVE  BooksTotal(S, "income") - BooksTotal(S, "expense") = Net(entries, S) /\ Net(entries, S) \in Int
<1> DEFINE part(e, side) == [r \in entries[e] |-> IF r.side = side THEN r.amount ELSE 0]
           in == [e \in S |-> SumFunction(part(e, "income"))]
           out == [e \in S |-> SumFunction(part(e, "expense"))]
<1>1. entries \in [EntryIds -> SUBSET EntryRow] /\ IsFiniteSet(S)
  BY SlotsFinite, FS_Subset DEF BooksInv, BooksTypeOK
<1>2. ASSUME NEW e \in S
      PROVE  in[e] \in Int /\ out[e] \in Int /\ Brings(entries)[e] \in Int /\ in[e] = Brings(entries)[e] + out[e]
  <2>1. CASE entries[e] = {}
    <3>1. \A side : SumFunction(part(e, side)) = 0
      <4>1. \A side : DOMAIN part(e, side) = {}
        BY <2>1
      <4> HIDE DEF part
      <4> QED BY <4>1, SumEmpty DEF SumFunction
    <3>2. Brings(entries)[e] = 0
      BY <2>1 DEF Brings
    <3> HIDE DEF part
    <3>3. in[e] = 0 /\ out[e] = 0
      BY <3>1
    <3> HIDE DEF in, out
    <3> QED BY <3>2, <3>3
  <2>2. CASE entries[e] # {}
    <3>1. PICK r : r \in entries[e]
      BY <2>2
    <3>2. entries[e] = {r} /\ r \in EntryRow
      BY <1>1, <3>1 DEF BooksInv
    <3>3. Brings(entries)[e] = Signed(r)
      BY <1>1, <3>2, BringsInt
    <3>4. ASSUME NEW side
          PROVE  SumFunction(part(e, side)) = IF r.side = side THEN r.amount ELSE 0
      <4>1. DOMAIN part(e, side) = {r} /\ part(e, side)[r] = (IF r.side = side THEN r.amount ELSE 0)
        BY <3>2
      <4>2. part(e, side)[r] \in Int
        BY <3>2, <4>1 DEF EntryRow
      <4> HIDE DEF part
      <4> QED BY <4>1, <4>2, SumOne DEF SumFunction
    <3>5. in[e] = (IF r.side = "income" THEN r.amount ELSE 0) /\ out[e] = (IF r.side = "expense" THEN r.amount ELSE 0)
      BY <3>4
    <3> HIDE DEF in, out
    <3> QED BY <3>2, <3>3, <3>5 DEF EntryRow, Signed
  <2> QED BY <2>1, <2>2
<1>3. BooksTotal(S, "income") = SumFunctionOnSet(in, S) /\ BooksTotal(S, "expense") = SumFunctionOnSet(out, S)
  <2>1. DOMAIN in = S /\ DOMAIN out = S
    OBVIOUS
  <2> QED BY <2>1 DEF BooksTotal, SumFunction
<1> HIDE DEF in, out
<1>4. SumFunctionOnSet(in, S) = Net(entries, S) + SumFunctionOnSet(out, S)
  BY <1>1, <1>2, SumPlus DEF Net
<1>5. SumFunctionOnSet(out, S) \in Int /\ Net(entries, S) \in Int
  BY <1>1, <1>2, SumInt DEF Net
<1> QED BY <1>3, <1>4, <1>5

\* The dashboard's flow of a month and an account's balance, as sums over slots.
FlowsAreNet == \A m \in Months : NetFlow(m) = Net(entries, InMonth(entries, m))

\* The flow of every month is the net of the entries the dashboard shows of it.
LEMMA FlowIsNet == BooksInv => FlowsAreNet
<1> SUFFICES ASSUME BooksInv, NEW m \in Months PROVE NetFlow(m) = Net(entries, InMonth(entries, m))
  BY DEF FlowsAreNet
<1>1. InMonth(entries, m) \in SUBSET EntryIds
  BY DEF InMonth
<1>2. NetFlow(m) = BooksTotal(InMonth(entries, m), "income") - BooksTotal(InMonth(entries, m), "expense")
  BY DEF NetFlow, InMonth
<1> QED BY <1>1, <1>2, TotalsAreNet

\* The balance of an account is the net of the entries that stand on it.
LEMMA BalanceIsNet ==
  ASSUME BooksInv, NEW a
  PROVE  AccountBalance(a) = Net(entries, OfAccount(entries, a))
<1>1. OfAccount(entries, a) \in SUBSET EntryIds
  BY DEF OfAccount
<1>2. AccountBalance(a) = BooksTotal(OfAccount(entries, a), "income") - BooksTotal(OfAccount(entries, a), "expense")
  BY DEF AccountBalance, OfAccount
<1> QED BY <1>1, <1>2, TotalsAreNet

\* What the months brought is what the accounts hold, since transfers brought nothing.
LEMMA BooksAgree == BooksInv => FlowMatchesBalances
<1> SUFFICES ASSUME BooksInv PROVE FlowMatchesBalances
  OBVIOUS
<1> DEFINE months == [m \in Months |-> InMonth(entries, m)]
           held == [a \in Accounts |-> OfAccount(entries, a)]
           T == Transfers(entries)
           D == {e \in EntryIds : \E m \in Months : e \in months[m]}
           A == {e \in EntryIds : \E a \in Accounts : e \in held[a]}
<1>1. entries \in [EntryIds -> SUBSET EntryRow] /\ \A e \in EntryIds : Brings(entries)[e] \in Int
  BY BringsInt DEF BooksInv, BooksTypeOK
<1>2. \A e \in EntryIds : \A r, q \in entries[e] : r = q
  BY DEF BooksInv
<1>3. SumFunctionOnSet([m \in Months |-> Net(entries, months[m])], Months) = Net(entries, D)
  <2>1. \A m \in Months : months[m] \in SUBSET EntryIds
    BY DEF InMonth
  <2>2. \A e \in EntryIds, m \in Months, n \in Months : e \in months[m] /\ e \in months[n] => m = n
    BY <1>2 DEF InMonth
  <2>3. IsFiniteSet(EntryIds) /\ IsFiniteSet(Months) /\ \A e \in EntryIds : Brings(entries)[e] \in Int
    BY <1>1, SlotsFinite
  <2> HIDE DEF months
  <2>4. SumFunctionOnSet([m \in Months |-> SumFunctionOnSet(Brings(entries), months[m])], Months)
          = SumFunctionOnSet(Brings(entries), {e \in EntryIds : \E m \in Months : e \in months[m]})
    BY <2>1, <2>2, <2>3, SumGroups
  <2> QED BY <2>4, Zenon DEF Net
<1>4. SumFunctionOnSet([a \in Accounts |-> Net(entries, held[a])], Accounts) = Net(entries, A)
  <2>1. \A a \in Accounts : held[a] \in SUBSET EntryIds
    BY DEF OfAccount
  <2>2. \A e \in EntryIds, a \in Accounts, b \in Accounts : e \in held[a] /\ e \in held[b] => a = b
    BY <1>2 DEF OfAccount
  <2>3. IsFiniteSet(EntryIds) /\ IsFiniteSet(Accounts) /\ \A e \in EntryIds : Brings(entries)[e] \in Int
    BY <1>1, SlotsFinite
  <2> HIDE DEF held
  <2>4. SumFunctionOnSet([a \in Accounts |-> SumFunctionOnSet(Brings(entries), held[a])], Accounts)
          = SumFunctionOnSet(Brings(entries), {e \in EntryIds : \E a \in Accounts : e \in held[a]})
    BY <2>1, <2>2, <2>3, SumGroups
  <2> QED BY <2>4, Zenon DEF Net
<1>5. A = D \cup T /\ D \cap T = {}
  <2>1. \A e \in EntryIds : \A r \in entries[e] : r.month \in Months /\ r.account \in Accounts
    BY <1>1 DEF EntryRow
  <2>2. D \cap T = {}
    BY <1>2 DEF Transfers, InMonth, OnDashboard
  <2>3. A = Filled(entries)
    BY <2>1 DEF OfAccount, Filled
  <2>4. D \cup T = Filled(entries)
    BY <2>1 DEF InMonth, Transfers, OnDashboard, Filled
  <2> QED BY <2>2, <2>3, <2>4
<1>6. Net(entries, A) = Net(entries, D) + Net(entries, T)
  <2>1. D \subseteq EntryIds /\ T \subseteq EntryIds
    BY DEF Transfers
  <2>2. IsFiniteSet(D) /\ IsFiniteSet(T) /\ \A e \in D \cup T : Brings(entries)[e] \in Int
    BY <1>1, <2>1, SlotsFinite, FS_Subset
  <2> HIDE DEF D, T, A
  <2> QED BY <1>5, <2>2, SumDisjoint DEF Net
<1>7. Net(entries, T) = 0 /\ Net(entries, D) \in Int
  <2>1. D \in SUBSET EntryIds
    OBVIOUS
  <2> HIDE DEF D
  <2> QED BY <2>1, TotalsAreNet DEF BooksInv
<1>8. SumFunction([m \in Months |-> NetFlow(m)]) = Net(entries, D)
  <2> DEFINE flow == [m \in Months |-> NetFlow(m)]
  <2>1. flow = [m \in Months |-> Net(entries, months[m])]
    BY FlowIsNet DEF FlowsAreNet
  <2>2. DOMAIN flow = Months
    OBVIOUS
  <2> HIDE DEF flow, months, D
  <2>3. SumFunction(flow) = SumFunctionOnSet(flow, Months)
    BY <2>2 DEF SumFunction
  <2>4. SumFunctionOnSet(flow, Months) = Net(entries, D)
    BY <1>3, <2>1
  <2> QED BY <2>3, <2>4 DEF flow
<1>9. SumFunction([a \in Accounts |-> AccountBalance(a)]) = Net(entries, A)
  <2> DEFINE balance == [a \in Accounts |-> AccountBalance(a)]
  <2>1. balance = [a \in Accounts |-> Net(entries, held[a])]
    BY BalanceIsNet
  <2>2. DOMAIN balance = Accounts
    OBVIOUS
  <2> HIDE DEF balance, held, A
  <2>3. SumFunction(balance) = SumFunctionOnSet(balance, Accounts)
    BY <2>2 DEF SumFunction
  <2>4. SumFunctionOnSet(balance, Accounts) = Net(entries, A)
    BY <1>4, <2>1
  <2> QED BY <2>3, <2>4 DEF balance
<1> HIDE DEF A, D, T
<1> QED BY <1>6, <1>7, <1>8, <1>9 DEF FlowMatchesBalances

\* A step that adds no entry keeps the books.
LEMMA NothingPosted ==
  ASSUME BooksInv, UNCHANGED entries, thisMonth' \in Months, openAccounts' \subseteq Accounts,
         reversing' \in [Clerks -> 0..MaxEntries]
  PROVE  BooksInv'
<1>1. Transfers(entries)' = Transfers(entries) /\ Brings(entries)' = Brings(entries)
  BY DEF Transfers, Brings
<1> QED BY <1>1 DEF BooksInv, BooksTypeOK, Net

\* The slot of the next entry is the first that is free.
LEMMA NextSlotFree ==
  ASSUME BooksInv, FreeEntries # {}
  PROVE  /\ NewEntry \in EntryIds /\ entries[NewEntry] = {}
         /\ \A e \in EntryIds : entries[e] = {} => NewEntry <= e
<1>1. FreeEntries \in SUBSET Nat /\ FreeEntries = {e \in EntryIds : entries[e] = {}}
  BY SlotsFinite DEF FreeEntries, Booked
<1>2. PICK e \in FreeEntries : \A f \in FreeEntries : e <= f
  <2> HIDE DEF FreeEntries
  <2> QED BY <1>1, LeastNumber
<1>3. NewEntry \in FreeEntries /\ \A f \in FreeEntries : NewEntry <= f
  BY <1>2 DEF NewEntry
<1> QED BY <1>1, <1>3

\* Other slots bring what they did when one more is filled.
LEMMA NetKept ==
  ASSUME NEW E \in [EntryIds -> SUBSET EntryRow], NEW F \in [EntryIds -> SUBSET EntryRow],
         NEW S \in SUBSET EntryIds, \A e \in S : F[e] = E[e]
  PROVE  Net(F, S) = Net(E, S)
<1>1. IsFiniteSet(S)
  BY SlotsFinite, FS_Subset
<1>2. \A e \in S : Brings(F)[e] = Brings(E)[e]
  BY DEF Brings
<1> QED BY <1>1, <1>2, SumEqual DEF Net

\* An entry that is no transfer keeps the books.
LEMMA EntryKeeps ==
  ASSUME BooksInv, FreeEntries # {}, NEW x \in EntryRow, x.source # "transfer", entries' = Post(x),
         UNCHANGED <<thisMonth, openAccounts>>, reversing' \in [Clerks -> 0..MaxEntries]
  PROVE  BooksInv'
<1>1. /\ NewEntry \in EntryIds /\ entries[NewEntry] = {}
      /\ \A e \in EntryIds : entries[e] = {} => NewEntry <= e
  BY NextSlotFree
<1> DEFINE n == NewEntry
<1>2. entries \in [EntryIds -> SUBSET EntryRow] /\ entries' = [entries EXCEPT ![n] = {x}]
  BY DEF BooksInv, BooksTypeOK, Post
<1> HIDE DEF n
<1>3. entries' \in [EntryIds -> SUBSET EntryRow] /\ \A e \in EntryIds \ {n} : entries'[e] = entries[e]
  BY <1>2
<1>4. n \in EntryIds /\ entries[n] = {} /\ entries'[n] = {x} /\ \A e \in EntryIds : entries[e] = {} => n <= e
  BY <1>1, <1>2 DEF n
<1>5. Transfers(entries') = Transfers(entries) /\ n \notin Transfers(entries) /\ Transfers(entries) \in SUBSET EntryIds
  BY <1>3, <1>4 DEF Transfers
<1> DEFINE T == Transfers(entries)
<1>6. Net(entries', T) = Net(entries, T)
  <2>1. T \in SUBSET EntryIds /\ \A e \in T : entries'[e] = entries[e]
    BY <1>3, <1>5
  <2> HIDE DEF T
  <2> QED BY <1>2, <1>3, <2>1, NetKept
<1>7. \A e, f \in EntryIds : f < e /\ entries'[e] # {} => entries'[f] # {}
  BY <1>3, <1>4, SlotsFinite DEF BooksInv
<1>8. \A e \in EntryIds : \A r, q \in entries'[e] : r = q
  BY <1>3, <1>4 DEF BooksInv
<1> QED BY <1>3, <1>5, <1>6, <1>7, <1>8 DEF BooksInv, BooksTypeOK

\* Entries as they are made.
LEMMA EntryTyped ==
  ASSUME BooksInv, NEW side \in {"income", "expense"}, NEW n \in Int, NEW a \in Accounts,
         NEW source \in {"none", "automatic", "transfer"}, NEW rev \in 0..MaxEntries
  PROVE  Entry(side, n, a, source, rev) \in EntryRow
BY DEF Entry, EntryRow, BooksInv, BooksTypeOK

\* The entry that reverses none, and the amount of every entry.
LEMMA NoEntryTyped == NoEntry \in 0..MaxEntries /\ Amount \in Int
BY BooksAssumption DEF NoEntry

\* The account of automatic entries is one of the open ones.
LEMMA FirstOpenTyped ==
  ASSUME BooksInv, openAccounts # {}
  PROVE  FirstOpen \in Accounts
<1>1. openAccounts \in SUBSET Nat /\ openAccounts \subseteq Accounts
  BY BooksAssumption DEF BooksInv, BooksTypeOK
<1>2. \E a \in openAccounts : \A b \in openAccounts : a <= b
  BY <1>1, LeastNumber
<1> QED BY <1>1, <1>2 DEF FirstOpen

\* A transfer fills two slots, which bring nothing together.
LEMMA TransferKeeps ==
  ASSUME BooksInv, NEW a \in Accounts, NEW b \in Accounts, TransferMoney(a, b)
  PROVE  BooksInv'
<1> DEFINE n == NewEntry
           x == Entry("expense", Amount, a, "transfer", NoEntry)
           y == Entry("income", Amount, b, "transfer", NoEntry)
<1>1. FreeEntries \subseteq EntryIds /\ IsFiniteSet(FreeEntries) /\ Cardinality(FreeEntries) > 1
  BY SlotsFinite, FS_Subset DEF FreeEntries, TransferMoney
<1>2. FreeEntries # {} /\ FreeEntries # {n}
  <2>1. Cardinality({}) = 0 /\ Cardinality({n}) = 1
    BY FS_EmptySet, FS_Singleton
  <2> QED BY <1>1, <2>1
<1>3. /\ n \in EntryIds /\ entries[n] = {}
      /\ \A e \in EntryIds : entries[e] = {} => n <= e
  BY <1>2, NextSlotFree
<1>4. PICK f \in EntryIds : entries[f] = {} /\ f # n
  BY <1>2, <1>3 DEF FreeEntries, Booked
<1>5. x \in EntryRow /\ y \in EntryRow /\ x.source = "transfer" /\ y.source = "transfer"
      /\ Signed(x) = 0 - Amount /\ Signed(y) = Amount /\ Amount \in Int
  BY EntryTyped, NoEntryTyped DEF Entry, Signed
<1>6. entries' = [entries EXCEPT ![n] = {x}, ![n + 1] = {y}] /\ UNCHANGED <<thisMonth, openAccounts, reversing>>
  BY DEF TransferMoney
<1> HIDE DEF n, x, y
<1>7. n + 1 \in EntryIds /\ n + 1 # n
  <2>1. f > n /\ n \in Nat \ {0} /\ f \in 1..MaxEntries /\ MaxEntries \in Nat
    BY <1>3, <1>4, SlotsFinite, BooksAssumption DEF EntryIds
  <2> QED BY <2>1 DEF EntryIds
<1>8. entries[n + 1] = {}
  <2>1. n \in Nat
    BY <1>3, SlotsFinite
  <2> QED BY <1>3, <1>7, <2>1 DEF BooksInv
<1>9. entries \in [EntryIds -> SUBSET EntryRow]
  BY DEF BooksInv, BooksTypeOK
<1>10. /\ entries' \in [EntryIds -> SUBSET EntryRow] /\ entries'[n] = {x} /\ entries'[n + 1] = {y}
       /\ \A e \in EntryIds \ {n, n + 1} : entries'[e] = entries[e]
  BY <1>3, <1>5, <1>6, <1>7, <1>9
<1> DEFINE T == Transfers(entries)
<1>11. T \in SUBSET EntryIds /\ n \notin T /\ n + 1 \notin T /\ Transfers(entries') = (T \cup {n}) \cup {n + 1}
  <2>1. ASSUME NEW e \in EntryIds
        PROVE  e \in Transfers(entries') <=> e \in T \/ e = n \/ e = n + 1
    BY <1>3, <1>5, <1>7, <1>8, <1>10 DEF Transfers
  <2>2. Transfers(entries') \subseteq EntryIds /\ T \subseteq EntryIds
    BY DEF Transfers
  <2>3. n \notin T /\ n + 1 \notin T
    BY <1>3, <1>8 DEF Transfers
  <2> HIDE DEF T
  <2> QED BY <1>3, <1>7, <2>1, <2>2, <2>3
<1>12. Net(entries', T) = 0
  <2>1. \A e \in T : entries'[e] = entries[e]
    BY <1>10, <1>11
  <2>2. Net(entries, T) = 0
    BY DEF BooksInv
  <2> HIDE DEF T
  <2> QED BY <1>9, <1>10, <1>11, <2>1, <2>2, NetKept
<1>13. Brings(entries')[n] = 0 - Amount /\ Brings(entries')[n + 1] = Amount
       /\ \A e \in EntryIds : Brings(entries')[e] \in Int
  <2>1. (\A q \in entries'[n] : q = x) /\ (\A q \in entries'[n + 1] : q = y) /\ x \in entries'[n] /\ y \in entries'[n + 1]
    BY <1>10
  <2> QED BY <1>3, <1>5, <1>7, <1>10, <2>1, BringsInt
<1> HIDE DEF T
<1>14. IsFiniteSet(T) /\ IsFiniteSet(T \cup {n})
  BY <1>11, SlotsFinite, FS_Subset, FS_AddElement
<1>15. Net(entries', T \cup {n}) = 0 - Amount
  <2>1. \A e \in T \cup {n} : Brings(entries')[e] \in Int
    BY <1>3, <1>11, <1>13
  <2>2. Net(entries', T \cup {n}) = Brings(entries')[n] + Net(entries', T)
    BY <1>11, <1>14, <2>1, SumAdd DEF Net
  <2> QED BY <1>5, <1>12, <1>13, <2>2
<1>16. Net(entries', (T \cup {n}) \cup {n + 1}) = 0
  <2>1. n + 1 \notin T \cup {n} /\ \A e \in (T \cup {n}) \cup {n + 1} : Brings(entries')[e] \in Int
    BY <1>3, <1>7, <1>11, <1>13
  <2>2. Net(entries', (T \cup {n}) \cup {n + 1}) = Brings(entries')[n + 1] + Net(entries', T \cup {n})
    BY <1>14, <2>1, SumAdd DEF Net
  <2> QED BY <1>5, <1>13, <1>15, <2>2
<1>17. \A e, g \in EntryIds : g < e /\ entries'[e] # {} => entries'[g] # {}
  <2>1. \A e \in EntryIds : e \in Int
    BY SlotsFinite
  <2>2. \A e \in EntryIds : e < n => entries[e] # {}
    BY <1>3, <2>1
  <2>3. \A e, g \in EntryIds : g < e /\ entries[e] # {} => entries[g] # {}
    BY DEF BooksInv
  <2> QED BY <1>3, <1>7, <1>10, <2>1, <2>2, <2>3
<1>18. \A e \in EntryIds : \A r, q \in entries'[e] : r = q
  <2>1. \A e \in EntryIds : \A r, q \in entries[e] : r = q
    BY DEF BooksInv
  <2> QED BY <1>3, <1>7, <1>10, <2>1
<1> QED BY <1>6, <1>10, <1>11, <1>16, <1>17, <1>18 DEF BooksInv, BooksTypeOK

\* Any step keeps the books.
LEMMA BooksStep ==
  ASSUME BooksInv, [BooksNext]_booksVars
  PROVE  BooksInv'
<1>t. /\ thisMonth \in Months /\ openAccounts \subseteq Accounts
      /\ entries \in [EntryIds -> SUBSET EntryRow] /\ reversing \in [Clerks -> 0..MaxEntries]
      /\ EntryIds \subseteq 0..MaxEntries
  <2>1. EntryIds \subseteq 0..MaxEntries
    BY BooksAssumption DEF EntryIds
  <2> QED BY <2>1 DEF BooksInv, BooksTypeOK
<1>1. CASE UNCHANGED booksVars
  BY <1>1, <1>t, NothingPosted DEF booksVars
<1>2. CASE RecordAutomaticIncome
  <2> DEFINE x == Entry("income", Amount, FirstOpen, "automatic", NoEntry)
  <2>1. x \in EntryRow /\ x.source # "transfer"
    BY <1>2, FirstOpenTyped, EntryTyped, NoEntryTyped DEF RecordAutomaticIncome, Entry
  <2>2. entries' = Post(x) /\ FreeEntries # {} /\ UNCHANGED <<thisMonth, openAccounts, reversing>>
    BY <1>2 DEF RecordAutomaticIncome
  <2> HIDE DEF x
  <2> QED BY <1>t, <2>1, <2>2, EntryKeeps
<1>3. ASSUME NEW a \in Accounts, UpdateAccount(a)
      PROVE  BooksInv'
  <2>1. openAccounts' \subseteq Accounts
    BY <1>3, <1>t DEF UpdateAccount
  <2> QED BY <1>3, <1>t, <2>1, NothingPosted DEF UpdateAccount
<1>4. CASE NextMonth
  BY <1>4, <1>t, NothingPosted DEF NextMonth
<1>5. ASSUME NEW side \in {"income", "expense"}, NEW a \in Accounts, RecordEntry(side, a)
      PROVE  BooksInv'
  <2> DEFINE x == Entry(side, Amount, a, "none", NoEntry)
  <2>1. x \in EntryRow /\ x.source # "transfer"
    BY EntryTyped, NoEntryTyped DEF Entry
  <2>2. entries' = Post(x) /\ FreeEntries # {} /\ UNCHANGED <<thisMonth, openAccounts, reversing>>
    BY <1>5 DEF RecordEntry
  <2> HIDE DEF x
  <2> QED BY <1>t, <2>1, <2>2, EntryKeeps
<1>6. ASSUME NEW h \in Clerks, NEW e \in EntryIds, ReadReverse(h, e)
      PROVE  BooksInv'
  <2>1. reversing' \in [Clerks -> 0..MaxEntries]
    BY <1>6, <1>t DEF ReadReverse
  <2> QED BY <1>6, <1>t, <2>1, NothingPosted DEF ReadReverse
<1>7. ASSUME NEW h \in Clerks, CommitReverse(h)
      PROVE  BooksInv'
  <2>1. PICK x \in entries[reversing[h]] : entries' = Post(CounterEntry(x, reversing[h]))
    BY <1>7 DEF CommitReverse
  <2>2. reversing[h] \in 0..MaxEntries /\ reversing[h] \in EntryIds
    BY <1>7, <1>t, BooksAssumption DEF CommitReverse, NoEntry, EntryIds
  <2>3. x \in EntryRow
    BY <1>t, <2>1, <2>2
  <2>4. x.side \in {"income", "expense"} /\ 0 - x.amount \in Int /\ x.account \in Accounts
    BY <2>3 DEF EntryRow
  <2> DEFINE y == CounterEntry(x, reversing[h])
  <2>5. y \in EntryRow /\ y.source # "transfer"
    BY <2>2, <2>4, EntryTyped DEF CounterEntry, Entry
  <2>6. entries' = Post(y)
    BY <2>1
  <2>7. FreeEntries # {} /\ UNCHANGED <<thisMonth, openAccounts>> /\ reversing' \in [Clerks -> 0..MaxEntries]
    BY <1>7, <1>t, NoEntryTyped DEF CommitReverse
  <2> HIDE DEF y
  <2> QED BY <2>5, <2>6, <2>7, EntryKeeps
<1>8. CASE AccountRoutes
  BY <1>8, <1>3, TransferKeeps DEF AccountRoutes
<1>9. CASE EntryRoutes
  BY <1>9, <1>5, <1>6, <1>7 DEF EntryRoutes
<1> QED BY <1>1, <1>2, <1>4, <1>8, <1>9 DEF BooksNext

\* The books keep their order.
LEMMA BooksHold == BooksSpec => []BooksInv
<1>1. BooksInit => BooksInv
  <2> SUFFICES ASSUME BooksInit PROVE BooksInv
    OBVIOUS
  <2>1. BooksTypeOK /\ \A e \in EntryIds : entries[e] = {}
    BY BooksAssumption DEF BooksInit, BooksTypeOK, NoEntry
  <2>2. Transfers(entries) = {}
    BY <2>1 DEF Transfers
  <2> QED BY <2>1, <2>2, SumEmpty DEF BooksInv, Net
<1>2. BooksInv /\ [BooksNext]_booksVars => BooksInv'
  BY BooksStep
<1> QED BY <1>1, <1>2, PTL DEF BooksSpec

\* The flows after a step are sums as well.
LEMMA FlowIsNetAfter == BooksInv' => FlowsAreNet'
BY FlowIsNet, PTL

\* A step fills free slots only, with entries of the current month.
FillsFree == \A e \in EntryIds :
  entries'[e] = entries[e] \/ (entries[e] = {} /\ \A r \in entries'[e] : r.month = thisMonth)

\* No step rewrites an entry that was posted.
LEMMA StepFillsFree ==
  ASSUME BooksInv, [BooksNext]_booksVars
  PROVE  FillsFree
<1>t. entries \in [EntryIds -> SUBSET EntryRow]
  BY DEF BooksInv, BooksTypeOK
<1>1. ASSUME FreeEntries # {}, NEW x, x.month = thisMonth, entries' = Post(x)
      PROVE  FillsFree
  <2>1. NewEntry \in EntryIds /\ entries[NewEntry] = {}
    BY <1>1, NextSlotFree
  <2> QED BY <1>1, <1>t, <2>1 DEF Post, FillsFree
<1>2. ASSUME UNCHANGED entries
      PROVE  FillsFree
  BY <1>2 DEF FillsFree
<1>3. \A side, n, a, source, rev : Entry(side, n, a, source, rev).month = thisMonth
  BY DEF Entry
<1>4. ASSUME NEW a \in Accounts, NEW b \in Accounts, TransferMoney(a, b)
      PROVE  FillsFree
  <2> DEFINE n == NewEntry
             x == Entry("expense", Amount, a, "transfer", NoEntry)
             y == Entry("income", Amount, b, "transfer", NoEntry)
  <2>1. FreeEntries \subseteq EntryIds /\ IsFiniteSet(FreeEntries) /\ Cardinality(FreeEntries) > 1
    BY <1>4, SlotsFinite, FS_Subset DEF FreeEntries, TransferMoney
  <2>2. FreeEntries # {}
    BY <2>1, FS_EmptySet
  <2>3. /\ n \in EntryIds /\ entries[n] = {}
        /\ \A e \in EntryIds : entries[e] = {} => n <= e
    BY <2>2, NextSlotFree
  <2>4. n + 1 \in EntryIds => entries[n + 1] = {}
    <3>1. n \in Nat
      BY <2>3, SlotsFinite
    <3> QED BY <2>3, <3>1 DEF BooksInv
  <2>5. entries' = [entries EXCEPT ![n] = {x}, ![n + 1] = {y}]
    BY <1>4 DEF TransferMoney
  <2>6. x.month = thisMonth /\ y.month = thisMonth
    BY <1>3
  <2> HIDE DEF n, x, y
  <2> QED BY <1>t, <2>3, <2>4, <2>5, <2>6 DEF FillsFree
<1>5. ASSUME NEW h \in Clerks, CommitReverse(h)
      PROVE  FillsFree
  <2>1. PICK x \in entries[reversing[h]] : entries' = Post(CounterEntry(x, reversing[h]))
    BY <1>5 DEF CommitReverse
  <2>2. CounterEntry(x, reversing[h]).month = thisMonth
    BY <1>3 DEF CounterEntry
  <2>3. FreeEntries # {}
    BY <1>5 DEF CommitReverse
  <2> QED BY <1>1, <2>1, <2>2, <2>3
<1>6. CASE AccountRoutes
  BY <1>6, <1>2, <1>4 DEF AccountRoutes, UpdateAccount
<1>7. ASSUME NEW side \in {"income", "expense"}, NEW a \in Accounts, RecordEntry(side, a)
      PROVE  FillsFree
  BY <1>7, <1>1, <1>3 DEF RecordEntry
<1>8. CASE EntryRoutes
  BY <1>8, <1>2, <1>5, <1>7 DEF EntryRoutes, ReadReverse
<1>9. CASE RecordAutomaticIncome
  BY <1>9, <1>1, <1>3 DEF RecordAutomaticIncome
<1> QED BY <1>2, <1>6, <1>8, <1>9 DEF BooksNext, NextMonth, booksVars

\* A month that is over is not posted to.
LEMMA PastMonthsStay ==
  ASSUME BooksInv, BooksInv', [BooksNext]_booksVars
  PROVE  \A m \in Months : m < thisMonth => NetFlow(m)' = NetFlow(m)
<1> SUFFICES ASSUME NEW m \in Months, m < thisMonth
             PROVE  NetFlow(m)' = NetFlow(m)
  OBVIOUS
<1>1. FillsFree
  BY StepFillsFree
<1>2. entries \in [EntryIds -> SUBSET EntryRow] /\ entries' \in [EntryIds -> SUBSET EntryRow]
  BY DEF BooksInv, BooksTypeOK
<1>3. m # thisMonth
  BY BooksAssumption DEF BooksInv, BooksTypeOK
<1> DEFINE S == InMonth(entries, m)
<1>4. InMonth(entries', m) = S
  BY <1>1, <1>3 DEF FillsFree, InMonth, OnDashboard
<1>5. S \in SUBSET EntryIds /\ \A e \in S : entries'[e] = entries[e]
  BY <1>1 DEF FillsFree, InMonth
<1> HIDE DEF S
<1>6. Net(entries', S) = Net(entries, S)
  BY <1>2, <1>5, NetKept
<1>7. NetFlow(m) = Net(entries, S) /\ NetFlow(m)' = Net(entries', S)
  BY <1>4, FlowIsNet, FlowIsNetAfter DEF FlowsAreNet, S
<1> QED BY <1>6, <1>7

\* A month that is over keeps its result, whoever corrects its entries later.
LEMMA BooksStayClosed == BooksSpec => ClosedBooksStay
<1>1. BooksInv /\ BooksInv' /\ [BooksNext]_booksVars
        => [\A m \in Months : m < thisMonth => NetFlow(m)' = NetFlow(m)]_booksVars
  BY PastMonthsStay
<1> QED BY <1>1, BooksHold, PTL DEF BooksSpec, ClosedBooksStay

-----------------------------------------------------------------------------
(* Purchases: what is paid of an invoice *)

\* What the expense at a slot still pays of a purchase, and what all of them do.
StillPaid(xs, p) == IF \E x \in xs : x.reversals = 0 THEN (CHOOSE x \in xs : TRUE).shares[p] ELSE 0
Share(E, p) == [e \in ExpenseIds |-> StillPaid(E[e], p)]
PostedIn(E, p) == SumFunctionOnSet(Share(E, p), ExpenseIds)

OneExpense(E) == \A e \in ExpenseIds : \A x, y \in E[e] : x = y
OneInvoice(P) == \A p \in Purchases : \A m, n \in P[p].invoice : m = n

\* The purchases that an expense is reversed for are some that it paid.
PayersKnown(P, E) == \A e \in ExpenseIds : \A x \in E[e] : \A p \in x.source : x.shares[p] > 0 /\ P[p].invoice # {}
LastKnown(P, E) == \A p \in Purchases : P[p].lastExpense # NoExpense =>
  \E x \in E[P[p].lastExpense] : x.shares[p] > 0

\* Before its invoice comes, a purchase has at most the payment of the old workflow.
OldPayment(P, E) == \A p \in Purchases : P[p].invoice = {} =>
  /\ P[p].paid = 0
  /\ P[p].paidAt => P[p].lastExpense # NoExpense
  /\ \A e \in ExpenseIds : \A x \in E[e] :
       x.reversals = 0 /\ x.shares[p] > 0 => P[p].paidAt /\ P[p].lastExpense = e
\* After it, never less than what is posted, and never more than the invoice.
PaidUp(P, E) == \A p \in Purchases : \A total \in P[p].invoice :
  /\ PostedIn(E, p) <= P[p].paid
  /\ P[p].paid <= total
  /\ P[p].paidAt <=> P[p].paid = total
Brought(P) == \A p \in Purchases :
  /\ P[p].status = "cancelada" => P[p].received = 0
  /\ P[p].status \in {"recibida", "conciliada"} => P[p].received = Ordered

PurchasesInv ==
  /\ PurchasesTypeOK
  /\ OneExpense(expenses) /\ OneInvoice(purchases)
  /\ PayersKnown(purchases, expenses) /\ LastKnown(purchases, expenses)
  /\ OldPayment(purchases, expenses) /\ PaidUp(purchases, expenses) /\ Brought(purchases)

\* There are finitely many expenses.
LEMMA ExpensesFinite == IsFiniteSet(ExpenseIds) /\ ExpenseIds \subseteq Nat \ {0} /\ ExpenseIds \subseteq 0..Expenses
<1>1. Expenses \in Int
  BY PurchasesAssumption
<1>2. IsFiniteSet(ExpenseIds)
  BY <1>1, PlacesFinite DEF ExpenseIds
<1>3. ExpenseIds \subseteq Nat \ {0} /\ ExpenseIds \subseteq 0..Expenses
  BY <1>1 DEF ExpenseIds
<1> QED BY <1>2, <1>3

\* What a slot pays is an amount, that of its expense unless it was reversed.
LEMMA ShareNat ==
  ASSUME NEW E \in [ExpenseIds -> SUBSET ExpenseRow], NEW p \in Purchases
  PROVE  /\ \A e \in ExpenseIds : Share(E, p)[e] \in Nat
         /\ \A e \in ExpenseIds : \A x \in E[e] : (\A y \in E[e] : y = x)
              => Share(E, p)[e] = IF x.reversals = 0 THEN x.shares[p] ELSE 0
         /\ \A e \in ExpenseIds : E[e] = {} => Share(E, p)[e] = 0
         /\ PostedIn(E, p) \in Nat
<1>1. ASSUME NEW e \in ExpenseIds
      PROVE  Share(E, p)[e] \in Nat
  <2>1. CASE \E x \in E[e] : x.reversals = 0
    <3> DEFINE y == CHOOSE x \in E[e] : TRUE
    <3>1. y \in ExpenseRow
      BY <2>1
    <3>2. Share(E, p)[e] = y.shares[p]
      BY <2>1 DEF Share, StillPaid
    <3> HIDE DEF y
    <3> QED BY <3>1, <3>2 DEF ExpenseRow
  <2>2. CASE ~\E x \in E[e] : x.reversals = 0
    BY <2>2 DEF Share, StillPaid
  <2> QED BY <2>1, <2>2
<1>2. ASSUME NEW e \in ExpenseIds, NEW x \in E[e], \A y \in E[e] : y = x
      PROVE  Share(E, p)[e] = IF x.reversals = 0 THEN x.shares[p] ELSE 0
  <2>1. (CHOOSE y \in E[e] : TRUE) = x
    BY <1>2
  <2>2. (\E y \in E[e] : y.reversals = 0) <=> x.reversals = 0
    BY <1>2
  <2> QED BY <2>1, <2>2 DEF Share, StillPaid
<1>3. ASSUME NEW e \in ExpenseIds, E[e] = {}
      PROVE  Share(E, p)[e] = 0
  BY <1>3 DEF Share, StillPaid
<1>4. PostedIn(E, p) \in Nat
  BY <1>1, ExpensesFinite, SumNat DEF PostedIn
<1> QED BY <1>1, <1>2, <1>3, <1>4

\* The sum of the property is the sum over the slots.
LEMMA PostedIsSum ==
  ASSUME PurchasesInv, NEW p \in Purchases
  PROVE  Posted(p) = PostedIn(expenses, p)
<1> DEFINE part(e) == [x \in expenses[e] |-> IF x.reversals > 0 THEN 0 ELSE x.shares[p]]
           parts == [e \in ExpenseIds |-> SumFunction(part(e))]
<1>1. expenses \in [ExpenseIds -> SUBSET ExpenseRow]
  BY DEF PurchasesInv, PurchasesTypeOK
<1>2. ASSUME NEW e \in ExpenseIds
      PROVE  parts[e] = Share(expenses, p)[e]
  <2>1. CASE expenses[e] = {}
    <3>1. DOMAIN part(e) = {}
      BY <2>1
    <3>2. Share(expenses, p)[e] = 0
      BY <1>1, <2>1, ShareNat
    <3> HIDE DEF part
    <3>3. SumFunction(part(e)) = 0
      BY <3>1, SumEmpty DEF SumFunction
    <3> QED BY <3>2, <3>3
  <2>2. CASE expenses[e] # {}
    <3>1. PICK x : x \in expenses[e]
      BY <2>2
    <3>2. expenses[e] = {x} /\ x \in ExpenseRow
      BY <1>1, <3>1 DEF PurchasesInv, OneExpense
    <3>3. Share(expenses, p)[e] = IF x.reversals = 0 THEN x.shares[p] ELSE 0
      BY <1>1, <3>2, ShareNat
    <3>4. DOMAIN part(e) = {x} /\ part(e)[x] = IF x.reversals > 0 THEN 0 ELSE x.shares[p]
      BY <3>2
    <3>5. x.reversals \in 0..1 /\ x.shares[p] \in Nat
      BY <3>2 DEF ExpenseRow
    <3> HIDE DEF part
    <3>6. part(e)[x] \in Int /\ SumFunction(part(e)) = part(e)[x]
      BY <3>4, <3>5, SumOne DEF SumFunction
    <3> QED BY <3>3, <3>4, <3>5, <3>6
  <2> QED BY <2>1, <2>2
<1>3. Posted(p) = SumFunctionOnSet(parts, ExpenseIds)
  <2>1. DOMAIN parts = ExpenseIds
    OBVIOUS
  <2> QED BY <2>1 DEF Posted, SumFunction
<1> HIDE DEF parts
<1> QED BY <1>2, <1>3, ExpensesFinite, SumEqual DEF PostedIn

\* The invariant says what the runs check.
LEMMA PaidUpSettles == PurchasesInv => PurchasesSettled
<1> SUFFICES ASSUME PurchasesInv PROVE PurchasesSettled
  OBVIOUS
<1>1. ASSUME NEW p \in Purchases, Reconciled(p)
      PROVE  /\ Posted(p) <= purchases[p].paid
             /\ purchases[p].paid <= InvoiceTotal(p)
             /\ purchases[p].paidAt <=> purchases[p].paid = InvoiceTotal(p)
  <2>1. InvoiceTotal(p) \in purchases[p].invoice
    BY <1>1 DEF InvoiceTotal, Reconciled
  <2>2. Posted(p) = PostedIn(expenses, p)
    BY PostedIsSum
  <2> QED BY <2>1, <2>2 DEF PurchasesInv, PaidUp
<1>2. CancelledBroughtNothing
  BY DEF PurchasesInv, Brought, CancelledBroughtNothing, Status
<1> QED BY <1>1, <1>2 DEF PurchasesSettled, NeverPaidTwice

\* Changing one slot changes what is posted by what that slot pays.
LEMMA PostedChange ==
  ASSUME NEW E \in [ExpenseIds -> SUBSET ExpenseRow], NEW F \in [ExpenseIds -> SUBSET ExpenseRow],
         NEW d \in ExpenseIds, \A e \in ExpenseIds \ {d} : F[e] = E[e], NEW p \in Purchases
  PROVE  PostedIn(F, p) = PostedIn(E, p) - Share(E, p)[d] + Share(F, p)[d]
<1>1. /\ \A e \in ExpenseIds : Share(E, p)[e] \in Int
      /\ Share(F, p)[d] \in Int
  BY ShareNat
<1>2. ASSUME NEW e \in ExpenseIds \ {d}
      PROVE  Share(F, p)[e] = Share(E, p)[e]
  <2>1. F[e] = E[e]
    OBVIOUS
  <2> QED BY <2>1 DEF Share
<1> DEFINE f == Share(E, p)
           g == Share(F, p)
<1>3. \A e \in ExpenseIds \ {d} : g[e] = f[e]
  BY <1>2
<1>4. PostedIn(F, p) = SumFunctionOnSet(g, ExpenseIds) /\ PostedIn(E, p) = SumFunctionOnSet(f, ExpenseIds)
  BY DEF PostedIn
<1>5. (\A e \in ExpenseIds : f[e] \in Int) /\ g[d] \in Int
  BY <1>1
<1> HIDE DEF f, g
<1>6. IsFiniteSet(ExpenseIds)
  BY ExpensesFinite
<1>7. SumFunctionOnSet(g, ExpenseIds) = SumFunctionOnSet(f, ExpenseIds) - f[d] + g[d]
  BY <1>3, <1>5, <1>6, SumChange
<1> QED BY <1>4, <1>7 DEF f, g

\* The expense that is posted next takes a free slot.
LEMMA NextExpenseFree ==
  ASSUME FreeExpenses # {}
  PROVE  NextExpense \in ExpenseIds /\ expenses[NextExpense] = {} /\ NextExpense # NoExpense
<1>1. FreeExpenses \in SUBSET Nat
  BY ExpensesFinite DEF FreeExpenses
<1>2. PICK e \in FreeExpenses : \A f \in FreeExpenses : e <= f
  <2> HIDE DEF FreeExpenses
  <2> QED BY <1>1, LeastNumber
<1>3. NextExpense \in FreeExpenses
  BY <1>2 DEF NextExpense
<1> QED BY <1>3, ExpensesFinite DEF FreeExpenses, NoExpense

\* An expense posted in a free slot adds what it pays of each purchase.
LEMMA PostedGrows ==
  ASSUME PurchasesInv, NEW x \in ExpenseRow, FreeExpenses # {}, x.reversals = 0,
         expenses' = [expenses EXCEPT ![NextExpense] = {x}]
  PROVE  /\ expenses' \in [ExpenseIds -> SUBSET ExpenseRow]
         /\ OneExpense(expenses')
         /\ \A p \in Purchases : PostedIn(expenses', p) = PostedIn(expenses, p) + x.shares[p]
<1>1. NextExpense \in ExpenseIds /\ expenses[NextExpense] = {}
  BY NextExpenseFree
<1>2. expenses \in [ExpenseIds -> SUBSET ExpenseRow]
  BY DEF PurchasesInv, PurchasesTypeOK
<1>3. expenses' \in [ExpenseIds -> SUBSET ExpenseRow] /\ expenses'[NextExpense] = {x}
  BY <1>1, <1>2
<1>4. OneExpense(expenses')
  BY <1>1, <1>2 DEF PurchasesInv, OneExpense
<1>5. ASSUME NEW p \in Purchases
      PROVE  PostedIn(expenses', p) = PostedIn(expenses, p) + x.shares[p]
  <2> DEFINE d == NextExpense
             F == expenses'
  <2>1. d \in ExpenseIds /\ F \in [ExpenseIds -> SUBSET ExpenseRow] /\ F[d] = {x} /\ expenses[d] = {}
        /\ \A e \in ExpenseIds \ {d} : F[e] = expenses[e]
    BY <1>1, <1>2, <1>3
  <2>0. PostedIn(expenses', p) = PostedIn(F, p)
    OBVIOUS
  <2> HIDE DEF d, F
  <2>2. Share(expenses, p)[d] = 0 /\ Share(F, p)[d] = x.shares[p]
    <3>1. Share(F, p)[d] = IF x.reversals = 0 THEN x.shares[p] ELSE 0
      BY <2>1, ShareNat
    <3> QED BY <1>2, <2>1, <3>1, ShareNat
  <2>3. PostedIn(F, p) = PostedIn(expenses, p) - Share(expenses, p)[d] + Share(F, p)[d]
    BY <1>2, <2>1, PostedChange
  <2>4. PostedIn(expenses, p) \in Nat /\ x.shares[p] \in Nat
    BY <1>2, ShareNat DEF ExpenseRow
  <2> QED BY <2>0, <2>2, <2>3, <2>4
<1> QED BY <1>3, <1>4, <1>5

\* What was paid of a purchase before its invoice is at least what is posted.
LEMMA PriorKnown ==
  ASSUME PurchasesInv, NEW p \in Purchases, ~Reconciled(p)
  PROVE  /\ PriorPaid(p) \in Nat
         /\ PostedIn(expenses, p) <= PriorPaid(p)
         /\ purchases[p].paidAt <=> PriorPaid(p) > 0
<1>1. expenses \in [ExpenseIds -> SUBSET ExpenseRow] /\ purchases[p] \in PurchaseRow
  BY DEF PurchasesInv, PurchasesTypeOK
<1>2. purchases[p].invoice = {} /\ purchases[p].paid = 0
  BY DEF Reconciled, PurchasesInv, OldPayment
<1>3. CASE ~purchases[p].paidAt
  <2>1. PriorPaid(p) = 0
    BY <1>2, <1>3 DEF PriorPaid
  <2>2. ASSUME NEW e \in ExpenseIds
        PROVE  Share(expenses, p)[e] = 0
    <3>1. CASE expenses[e] = {}
      BY <1>1, <3>1, ShareNat
    <3>2. ASSUME NEW x \in expenses[e]
          PROVE  Share(expenses, p)[e] = 0
      <4>1. \A y \in expenses[e] : y = x
        BY DEF PurchasesInv, OneExpense
      <4>2. Share(expenses, p)[e] = IF x.reversals = 0 THEN x.shares[p] ELSE 0
        BY <1>1, <4>1, ShareNat
      <4>3. x.shares[p] \in Nat
        BY <1>1 DEF ExpenseRow
      <4>4. x.reversals = 0 => ~(x.shares[p] > 0)
        BY <1>2, <1>3 DEF PurchasesInv, OldPayment
      <4> QED BY <4>2, <4>3, <4>4
    <3> QED BY <3>1, <3>2
  <2>3. PostedIn(expenses, p) = 0
    BY <2>2, ExpensesFinite, SumZero DEF PostedIn
  <2> QED BY <1>3, <2>1, <2>3
<1>4. CASE purchases[p].paidAt
  <2> DEFINE d == purchases[p].lastExpense
  <2>1. d # NoExpense /\ d \in 0..Expenses
    BY <1>1, <1>2, <1>4 DEF PurchasesInv, OldPayment, PurchaseRow
  <2>2. d \in ExpenseIds
    BY <2>1, PurchasesAssumption DEF ExpenseIds, NoExpense
  <2>3. PICK x \in expenses[d] : x.shares[p] > 0
    BY <2>1 DEF PurchasesInv, LastKnown
  <2>4. \A y \in expenses[d] : y = x
    BY <2>2 DEF PurchasesInv, OneExpense
  <2>5. PriorPaid(p) = x.shares[p]
    BY <1>2, <1>4, <2>4 DEF PriorPaid
  <2>6. x.shares[p] \in Nat
    BY <1>1, <2>2 DEF ExpenseRow
  <2>7. Share(expenses, p)[d] = IF x.reversals = 0 THEN x.shares[p] ELSE 0
    BY <1>1, <2>2, <2>4, ShareNat
  <2>8. ASSUME NEW e \in ExpenseIds \ {d}
        PROVE  Share(expenses, p)[e] = 0
    <3>1. CASE expenses[e] = {}
      BY <1>1, <3>1, ShareNat
    <3>2. ASSUME NEW y \in expenses[e]
          PROVE  Share(expenses, p)[e] = 0
      <4>1. \A z \in expenses[e] : z = y
        BY DEF PurchasesInv, OneExpense
      <4>2. Share(expenses, p)[e] = IF y.reversals = 0 THEN y.shares[p] ELSE 0
        BY <1>1, <4>1, ShareNat
      <4>3. y.shares[p] \in Nat
        BY <1>1 DEF ExpenseRow
      <4>4. y.reversals = 0 => ~(y.shares[p] > 0)
        BY <1>2 DEF PurchasesInv, OldPayment
      <4> QED BY <4>2, <4>3, <4>4
    <3> QED BY <3>1, <3>2
  <2> HIDE DEF d
  <2>9. \A e \in ExpenseIds : Share(expenses, p)[e] \in Int
    BY <1>1, ShareNat
  <2>10. PostedIn(expenses, p) = Share(expenses, p)[d] + SumFunctionOnSet(Share(expenses, p), ExpenseIds \ {d})
    BY <2>2, <2>9, ExpensesFinite, SumRemove DEF PostedIn
  <2>11. SumFunctionOnSet(Share(expenses, p), ExpenseIds \ {d}) = 0
    BY <2>8, ExpensesFinite, FS_RemoveElement, FS_Subset, SumZero
  <2>12. PostedIn(expenses, p) <= x.shares[p]
    BY <2>6, <2>7, <2>10, <2>11
  <2> QED BY <1>4, <2>3, <2>5, <2>6, <2>12
<1> QED BY <1>3, <1>4

\* The invoice of a purchase is an amount.
LEMMA InvoiceNat ==
  ASSUME NEW cost \in InvoiceCosts
  PROVE  TotalWithIva(cost) \in Nat
<1> DEFINE n == Ordered * cost
           m == n * Iva
<1>1. Ordered \in Nat /\ cost \in Nat /\ Iva \in Nat
  BY PurchasesAssumption, MoneyAssumption
<1>2. n \in Nat
  BY <1>1
<1>3. TotalWithIva(cost) = n + (2 * m + 100) \div (2 * 100)
  BY DEF TotalWithIva, Percent, Rounded
<1> HIDE DEF n
<1>4. m \in Nat
  BY <1>1, <1>2
<1> HIDE DEF m
<1> QED BY <1>2, <1>3, <1>4

\* A request id is remembered with the type of its receipt.
LEMMA RememberTyped ==
  ASSUME PurchasesTypeOK, NEW k \in RequestIds, NEW p \in Purchases, NEW kind \in {"receive", "pay"}, NEW n \in Nat,
         purchaseReceipts' = Remember(k, p, kind, n)
  PROVE  purchaseReceipts' \in [RequestIds -> SUBSET PurchaseReceipt]
<1> DEFINE r == [purchase |-> p, kind |-> kind, amount |-> n]
<1>1. r \in PurchaseReceipt
  BY DEF PurchaseReceipt
<1>2. purchaseReceipts' = [purchaseReceipts EXCEPT ![k] = purchaseReceipts[k] \union {r}]
  BY DEF Remember
<1> HIDE DEF r
<1> QED BY <1>1, <1>2 DEF PurchasesTypeOK

\* A purchase that moves without money keeps what is said of its payments.
SameMoney(x, y) == /\ y.invoice = x.invoice /\ y.paid = x.paid
                   /\ y.paidAt = x.paidAt /\ y.lastExpense = x.lastExpense

\* A step that touches neither what is paid nor the expenses keeps the money.
LEMMA MoneyKept ==
  ASSUME PurchasesInv, UNCHANGED expenses, \A p \in Purchases : SameMoney(purchases[p], purchases'[p])
  PROVE  /\ OneExpense(expenses') /\ OneInvoice(purchases')
         /\ PayersKnown(purchases', expenses') /\ LastKnown(purchases', expenses')
         /\ OldPayment(purchases', expenses') /\ PaidUp(purchases', expenses')
<1>1. OneExpense(expenses') /\ OneInvoice(purchases')
  BY DEF PurchasesInv, OneExpense, OneInvoice, SameMoney
<1>2. PayersKnown(purchases', expenses')
  BY DEF PurchasesInv, PurchasesTypeOK, PayersKnown, SameMoney, ExpenseRow
<1>3. LastKnown(purchases', expenses')
  BY DEF PurchasesInv, LastKnown, SameMoney
<1>4. OldPayment(purchases', expenses')
  BY DEF PurchasesInv, OldPayment, SameMoney
<1>5. PaidUp(purchases', expenses')
  <2>1. \A p \in Purchases : PostedIn(expenses', p) = PostedIn(expenses, p)
    OBVIOUS
  <2> QED BY <2>1 DEF PurchasesInv, PaidUp, SameMoney
<1> QED BY <1>1, <1>2, <1>3, <1>4, <1>5

\* Requesting, quoting, cancelling and receiving keep the invariant.
LEMMA RequestMoves ==
  ASSUME PurchasesInv, NEW p \in Purchases, UNCHANGED expenses, NEW row \in PurchaseRow,
         purchases' = [purchases EXCEPT ![p] = row], SameMoney(purchases[p], row),
         row.status = "cancelada" => row.received = 0,
         row.status \in {"recibida", "conciliada"} => row.received = Ordered,
         purchaseReceipts' \in [RequestIds -> SUBSET PurchaseReceipt]
  PROVE  PurchasesInv'
<1>1. purchases' \in [Purchases -> PurchaseRow] /\ PurchasesTypeOK'
  BY DEF PurchasesInv, PurchasesTypeOK
<1>2. ASSUME NEW q \in Purchases
      PROVE  SameMoney(purchases[q], purchases'[q])
  BY DEF PurchasesInv, PurchasesTypeOK, SameMoney
<1>3. Brought(purchases')
  BY DEF PurchasesInv, PurchasesTypeOK, Brought
<1> QED BY <1>1, <1>2, <1>3, MoneyKept DEF PurchasesInv

\* The supplier quotes.
LEMMA QuoteKeeps == ASSUME PurchasesInv, NEW p \in Purchases, QuotePurchase(p) PROVE PurchasesInv'
<1> DEFINE row == [purchases[p] EXCEPT !.status = "cotizada", !.quoted = TRUE]
<1>1. purchases[p] \in PurchaseRow /\ purchaseReceipts \in [RequestIds -> SUBSET PurchaseReceipt]
  BY DEF PurchasesInv, PurchasesTypeOK
<1>2. purchases' = [purchases EXCEPT ![p] = row] /\ UNCHANGED <<expenses, purchaseReceipts>>
  BY DEF QuotePurchase
<1>3. row \in PurchaseRow /\ SameMoney(purchases[p], row) /\ row.status = "cotizada"
  BY <1>1 DEF PurchaseRow, PurchaseStatus, SameMoney
<1> HIDE DEF row
<1> QED BY <1>1, <1>2, <1>3, RequestMoves

\* A purchase that nobody paid is cancelled.
LEMMA CancelKeeps == ASSUME PurchasesInv, NEW p \in Purchases, CancelPurchase(p) PROVE PurchasesInv'
<1> DEFINE row == [purchases[p] EXCEPT !.status = "cancelada"]
<1>1. purchases[p] \in PurchaseRow /\ purchaseReceipts \in [RequestIds -> SUBSET PurchaseReceipt]
  BY DEF PurchasesInv, PurchasesTypeOK
<1>2. purchases' = [purchases EXCEPT ![p] = row] /\ UNCHANGED <<expenses, purchaseReceipts>>
      /\ purchases[p].received = 0
  BY DEF CancelPurchase, Cancellable
<1>3. row \in PurchaseRow /\ SameMoney(purchases[p], row) /\ row.status = "cancelada" /\ row.received = 0
  BY <1>1, <1>2 DEF PurchaseRow, PurchaseStatus, SameMoney
<1> HIDE DEF row
<1> QED BY <1>1, <1>2, <1>3, RequestMoves

\* Some of what was ordered arrives,
LEMMA ReceiveKeeps ==
  ASSUME PurchasesInv, NEW p \in Purchases, NEW k \in RequestIds, NEW n \in 1..Ordered, ReceivePurchase(p, k, n)
  PROVE  PurchasesInv'
<1> DEFINE all == purchases[p].received + n
           row == [purchases[p] EXCEPT !.received = all, !.status = IF all = Ordered THEN "recibida" ELSE Status(p)]
<1>1. purchases[p] \in PurchaseRow /\ purchaseReceipts \in [RequestIds -> SUBSET PurchaseReceipt]
  BY DEF PurchasesInv, PurchasesTypeOK
<1>2. purchases' = [purchases EXCEPT ![p] = row] /\ UNCHANGED expenses /\ purchaseReceipts' = Remember(k, p, "receive", n)
      /\ Status(p) \in {"enviada", "cotizada", "pagada"} /\ n <= Ordered - purchases[p].received
  BY DEF ReceivePurchase
<1>3. Ordered \in Nat /\ n \in Nat /\ all \in 0..Ordered
  BY <1>1, <1>2, PurchasesAssumption DEF PurchaseRow
<1> HIDE DEF all
<1>4. row \in PurchaseRow /\ SameMoney(purchases[p], row) /\ row.received = all
      /\ row.status = IF all = Ordered THEN "recibida" ELSE Status(p)
  BY <1>1, <1>2, <1>3 DEF PurchaseRow, PurchaseStatus, SameMoney
<1> HIDE DEF row
<1>5. purchaseReceipts' \in [RequestIds -> SUBSET PurchaseReceipt]
  BY <1>2, <1>3, RememberTyped DEF PurchasesInv
<1>6. row.status # "cancelada" /\ (row.status \in {"recibida", "conciliada"} => row.received = Ordered)
  BY <1>2, <1>4
<1> QED BY <1>2, <1>4, <1>5, <1>6, RequestMoves

\* or all that is missing.
LEMMA ReceiveAllKeeps == ASSUME PurchasesInv, NEW p \in Purchases, ReceiveAll(p) PROVE PurchasesInv'
<1> DEFINE row == [purchases[p] EXCEPT !.received = Ordered, !.status = "recibida"]
<1>1. purchases[p] \in PurchaseRow /\ purchaseReceipts \in [RequestIds -> SUBSET PurchaseReceipt]
  BY DEF PurchasesInv, PurchasesTypeOK
<1>2. purchases' = [purchases EXCEPT ![p] = row] /\ UNCHANGED <<expenses, purchaseReceipts>>
  BY DEF ReceiveAll
<1>3. Ordered \in 0..Ordered
  BY PurchasesAssumption
<1>4. row \in PurchaseRow /\ SameMoney(purchases[p], row) /\ row.status = "recibida" /\ row.received = Ordered
  BY <1>1, <1>3 DEF PurchaseRow, PurchaseStatus, SameMoney
<1> HIDE DEF row
<1> QED BY <1>1, <1>2, <1>4, RequestMoves

\* The invoice comes: what was paid before it is at most its total.
LEMMA ReconcileKeeps ==
  ASSUME PurchasesInv, NEW p \in Purchases, NEW cost \in InvoiceCosts, Reconcile(p, cost)
  PROVE  PurchasesInv'
<1> DEFINE total == TotalWithIva(cost)
           prior == PriorPaid(p)
           done == IF prior < total THEN FALSE ELSE IF total = 0 THEN TRUE ELSE purchases[p].paidAt
           row == [purchases[p] EXCEPT !.invoice = {total}, !.paid = prior, !.status = "conciliada", !.paidAt = done]
<1>1. purchases[p] \in PurchaseRow
  BY DEF PurchasesInv, PurchasesTypeOK
<1>2. purchases' = [purchases EXCEPT ![p] = row] /\ UNCHANGED <<expenses, purchaseReceipts>>
      /\ ~Reconciled(p) /\ Status(p) \in {"recibida", "conciliada"} /\ prior <= total
  BY DEF Reconcile
<1>3. /\ prior \in Nat
      /\ PostedIn(expenses, p) <= prior
      /\ purchases[p].paidAt <=> prior > 0
  BY <1>2, PriorKnown
<1>4. total \in Nat
  BY InvoiceNat
<1>5. purchases[p].invoice = {} /\ purchases[p].received = Ordered
  BY <1>2 DEF PurchasesInv, Brought, Reconciled, Status
<1> HIDE DEF total, prior
<1>6. done \in BOOLEAN /\ (done <=> prior = total)
  <2>1. purchases[p].paidAt \in BOOLEAN
    BY <1>1 DEF PurchaseRow
  <2>2. CASE prior < total
    <3>1. prior # total
      BY <1>3, <1>4, <2>2
    <3> QED BY <2>2, <3>1
  <2>3. CASE ~(prior < total) /\ total = 0
    <3>1. prior = total
      BY <1>2, <1>3, <1>4, <2>3
    <3> QED BY <2>3, <3>1
  <2>4. CASE ~(prior < total) /\ total # 0
    <3>1. prior = total /\ prior > 0
      BY <1>2, <1>3, <1>4, <2>4
    <3>2. purchases[p].paidAt
      BY <1>3, <3>1
    <3> QED BY <2>4, <3>1, <3>2
  <2> QED BY <2>2, <2>3, <2>4
<1> HIDE DEF done
<1>7. /\ row \in PurchaseRow /\ row.invoice = {total} /\ row.paid = prior /\ row.paidAt = done
      /\ row.received = Ordered /\ row.status = "conciliada" /\ row.lastExpense = purchases[p].lastExpense
  BY <1>1, <1>3, <1>4, <1>5, <1>6 DEF PurchaseRow, PurchaseStatus
<1> HIDE DEF row
<1>8. /\ purchases' \in [Purchases -> PurchaseRow] /\ purchases'[p] = row
      /\ \A q \in Purchases \ {p} : purchases'[q] = purchases[q]
  BY <1>2, <1>7 DEF PurchasesInv, PurchasesTypeOK
<1>9. PurchasesTypeOK'
  BY <1>2, <1>8 DEF PurchasesInv, PurchasesTypeOK
<1>10. OneExpense(expenses') /\ OneInvoice(purchases') /\ LastKnown(purchases', expenses') /\ Brought(purchases')
  <2>1. OneExpense(expenses')
    BY <1>2 DEF PurchasesInv
  <2>2. OneInvoice(purchases')
    BY <1>7, <1>8 DEF PurchasesInv, OneInvoice
  <2>3. LastKnown(purchases', expenses')
    BY <1>2, <1>7, <1>8 DEF PurchasesInv, LastKnown
  <2>4. Brought(purchases')
    BY <1>7, <1>8 DEF PurchasesInv, Brought
  <2> QED BY <2>1, <2>2, <2>3, <2>4
<1>11. PayersKnown(purchases', expenses')
  <2> SUFFICES ASSUME NEW e \in ExpenseIds, NEW x \in expenses[e], NEW q \in x.source
               PROVE  x.shares[q] > 0 /\ purchases'[q].invoice # {}
    BY <1>2 DEF PayersKnown
  <2>1. x.shares[q] > 0 /\ purchases[q].invoice # {} /\ q \in Purchases
    BY DEF PurchasesInv, PurchasesTypeOK, PayersKnown, ExpenseRow
  <2> QED BY <1>7, <1>8, <2>1
<1>12. OldPayment(purchases', expenses')
  BY <1>2, <1>7, <1>8 DEF PurchasesInv, OldPayment
<1>13. PaidUp(purchases', expenses')
  <2> SUFFICES ASSUME NEW q \in Purchases, NEW t \in purchases'[q].invoice
               PROVE  /\ PostedIn(expenses, q) <= purchases'[q].paid
                      /\ purchases'[q].paid <= t
                      /\ purchases'[q].paidAt <=> purchases'[q].paid = t
    BY <1>2 DEF PaidUp
  <2>1. CASE q = p
    BY <1>2, <1>3, <1>6, <1>7, <1>8, <2>1
  <2>2. CASE q # p
    BY <1>8, <2>2 DEF PurchasesInv, PaidUp
  <2> QED BY <2>1, <2>2
<1> QED BY <1>9, <1>10, <1>11, <1>12, <1>13 DEF PurchasesInv

\* A payment adds an expense and the purchases that it pays say so.
LEMMA PaymentKeeps ==
  ASSUME PurchasesInv, NEW ps \in SUBSET Purchases, NEW x \in ExpenseRow, FreeExpenses # {},
         x.reversals = 0, x.source \subseteq ps,
         expenses' = [expenses EXCEPT ![NextExpense] = {x}],
         purchases' \in [Purchases -> PurchaseRow],
         \A q \in Purchases \ ps : purchases'[q] = purchases[q] /\ x.shares[q] = 0,
         \A q \in ps : /\ x.shares[q] > 0 /\ Reconciled(q)
                       /\ purchases'[q].invoice = purchases[q].invoice
                       /\ purchases'[q].status = purchases[q].status
                       /\ purchases'[q].received = purchases[q].received
                       /\ purchases'[q].paid = purchases[q].paid + x.shares[q]
                       /\ purchases'[q].paid <= InvoiceTotal(q)
                       /\ purchases'[q].paidAt <=> purchases'[q].paid = InvoiceTotal(q)
                       /\ purchases'[q].lastExpense = NextExpense,
         purchaseReceipts' \in [RequestIds -> SUBSET PurchaseReceipt]
  PROVE  PurchasesInv'
<1> DEFINE d == NextExpense
<1>1. /\ expenses' \in [ExpenseIds -> SUBSET ExpenseRow]
      /\ OneExpense(expenses')
      /\ \A q \in Purchases : PostedIn(expenses', q) = PostedIn(expenses, q) + x.shares[q]
  BY PostedGrows
<1>2. d \in ExpenseIds /\ expenses[d] = {} /\ d # NoExpense
  BY NextExpenseFree
<1>3. /\ purchases \in [Purchases -> PurchaseRow]
      /\ expenses \in [ExpenseIds -> SUBSET ExpenseRow]
      /\ expenses'[d] = {x} /\ \A e \in ExpenseIds \ {d} : expenses'[e] = expenses[e]
  BY <1>2 DEF PurchasesInv, PurchasesTypeOK
<1>4. PurchasesTypeOK' /\ Brought(purchases') /\ OneInvoice(purchases')
  <2>1. PurchasesTypeOK'
    BY <1>1 DEF PurchasesTypeOK
  <2>2. Brought(purchases')
    <3>1. \A q \in Purchases : purchases'[q].status = purchases[q].status /\ purchases'[q].received = purchases[q].received
      OBVIOUS
    <3> QED BY <3>1 DEF PurchasesInv, Brought
  <2>3. OneInvoice(purchases')
    <3>1. \A q \in Purchases : purchases'[q].invoice = purchases[q].invoice
      OBVIOUS
    <3> QED BY <3>1 DEF PurchasesInv, OneInvoice
  <2> QED BY <2>1, <2>2, <2>3
<1>5. PayersKnown(purchases', expenses')
  <2> SUFFICES ASSUME NEW e \in ExpenseIds, NEW y \in expenses'[e], NEW q \in y.source
               PROVE  y.shares[q] > 0 /\ purchases'[q].invoice # {}
    BY DEF PayersKnown
  <2>1. CASE e = d
    <3>1. y = x /\ q \in ps
      BY <1>3, <2>1
    <3> QED BY <3>1 DEF Reconciled
  <2>2. CASE e # d
    <3>1. y \in expenses[e]
      BY <1>3, <2>2
    <3>2. y.shares[q] > 0 /\ purchases[q].invoice # {} /\ q \in Purchases
      BY <1>3, <3>1 DEF PurchasesInv, PayersKnown, ExpenseRow
    <3> QED BY <3>2
  <2> QED BY <2>1, <2>2
<1>6. LastKnown(purchases', expenses')
  <2> SUFFICES ASSUME NEW q \in Purchases, purchases'[q].lastExpense # NoExpense
               PROVE  \E y \in expenses'[purchases'[q].lastExpense] : y.shares[q] > 0
    BY DEF LastKnown
  <2>1. CASE q \in ps
    BY <1>3, <2>1
  <2>2. CASE q \notin ps
    <3>1. purchases'[q] = purchases[q]
      BY <2>2
    <3> DEFINE c == purchases[q].lastExpense
    <3>2. c # NoExpense /\ c \in 0..Expenses
      BY <1>3, <3>1 DEF PurchaseRow
    <3>3. c \in ExpenseIds
      BY <3>2, PurchasesAssumption DEF ExpenseIds, NoExpense
    <3>4. PICK y \in expenses[c] : y.shares[q] > 0
      BY <3>2 DEF PurchasesInv, LastKnown
    <3>5. expenses'[c] = expenses[c]
      BY <1>2, <1>3, <3>3, <3>4
    <3> QED BY <3>1, <3>4, <3>5
  <2> QED BY <2>1, <2>2
<1>7. OldPayment(purchases', expenses')
  <2> SUFFICES ASSUME NEW q \in Purchases, purchases'[q].invoice = {}
               PROVE  /\ purchases'[q].paid = 0
                      /\ purchases'[q].paidAt => purchases'[q].lastExpense # NoExpense
                      /\ \A e \in ExpenseIds : \A y \in expenses'[e] :
                           y.reversals = 0 /\ y.shares[q] > 0
                             => purchases'[q].paidAt /\ purchases'[q].lastExpense = e
    BY DEF OldPayment
  <2>1. q \notin ps /\ purchases'[q] = purchases[q] /\ x.shares[q] = 0 /\ purchases[q].invoice = {}
    BY DEF Reconciled
  <2>2. ASSUME NEW e \in ExpenseIds, NEW y \in expenses'[e], y.shares[q] > 0
        PROVE  y \in expenses[e]
    BY <1>3, <2>1, <2>2
  <2> QED BY <2>1, <2>2 DEF PurchasesInv, OldPayment
<1>8. PaidUp(purchases', expenses')
  <2> SUFFICES ASSUME NEW q \in Purchases, NEW t \in purchases'[q].invoice
               PROVE  /\ PostedIn(expenses', q) <= purchases'[q].paid
                      /\ purchases'[q].paid <= t
                      /\ purchases'[q].paidAt <=> purchases'[q].paid = t
    BY DEF PaidUp
  <2>1. /\ PostedIn(expenses', q) = PostedIn(expenses, q) + x.shares[q]
        /\ PostedIn(expenses, q) \in Nat /\ x.shares[q] \in Nat
        /\ purchases[q].paid \in Nat
    BY <1>1, <1>3, ShareNat DEF ExpenseRow, PurchaseRow
  <2>2. t \in purchases[q].invoice
    OBVIOUS
  <2>3. PostedIn(expenses, q) <= purchases[q].paid
    BY <2>2 DEF PurchasesInv, PaidUp
  <2>4. CASE q \in ps
    <3>1. InvoiceTotal(q) = t
      BY <2>2 DEF PurchasesInv, OneInvoice, InvoiceTotal
    <3> QED BY <2>1, <2>3, <2>4, <3>1
  <2>5. CASE q \notin ps
    <3>1. purchases'[q] = purchases[q] /\ x.shares[q] = 0
      BY <2>5
    <3>2. purchases[q].paid <= t /\ (purchases[q].paidAt <=> purchases[q].paid = t)
      BY <2>2 DEF PurchasesInv, PaidUp
    <3> QED BY <2>1, <2>3, <3>1, <3>2
  <2> QED BY <2>4, <2>5
<1> QED BY <1>1, <1>4, <1>5, <1>6, <1>7, <1>8 DEF PurchasesInv

\* What a purchase still owes.
LEMMA BalanceNat ==
  ASSUME PurchasesInv, NEW p \in Purchases, Reconciled(p)
  PROVE  /\ InvoiceTotal(p) \in Nat /\ purchases[p].paid \in Nat /\ Balance(p) \in Nat
         /\ ~purchases[p].paidAt => Balance(p) > 0
         /\ InvoiceTotal(p) = purchases[p].paid + Balance(p)
<1>1. purchases[p] \in PurchaseRow
  BY DEF PurchasesInv, PurchasesTypeOK
<1>2. InvoiceTotal(p) \in purchases[p].invoice
  BY DEF Reconciled, InvoiceTotal
<1>3. InvoiceTotal(p) \in Nat /\ purchases[p].paid \in Nat
  BY <1>1, <1>2 DEF PurchaseRow
<1>4. purchases[p].paid <= InvoiceTotal(p) /\ (purchases[p].paidAt <=> purchases[p].paid = InvoiceTotal(p))
  BY <1>2 DEF PurchasesInv, PaidUp
<1> QED BY <1>3, <1>4 DEF Balance

\* One purchase is paid, all or part of what it owes.
LEMMA PayKeeps ==
  ASSUME PurchasesInv, NEW p \in Purchases, NEW k \in RequestIds, NEW n \in PurchaseShares, PayPurchase(p, k, n)
  PROVE  PurchasesInv'
<1> DEFINE d == NextExpense
           x == [shares |-> [NoShares EXCEPT ![p] = n], source |-> {p}, reversals |-> 0]
           row == [purchases[p] EXCEPT !.paid = purchases[p].paid + n, !.lastExpense = d, !.paidAt = Balance(p) = n]
<1>1. /\ Reconciled(p) /\ n > 0 /\ n <= Balance(p) /\ FreeExpenses # {}
      /\ expenses' = [expenses EXCEPT ![d] = {x}]
      /\ purchases' = [purchases EXCEPT ![p] = row]
      /\ purchaseReceipts' = Remember(k, p, "pay", n)
  BY DEF PayPurchase
<1>2. n \in Nat
  BY PurchasesAssumption
<1>3. purchases \in [Purchases -> PurchaseRow]
  BY DEF PurchasesInv, PurchasesTypeOK
<1>4. /\ InvoiceTotal(p) \in Nat /\ purchases[p].paid \in Nat /\ Balance(p) \in Nat
      /\ InvoiceTotal(p) = purchases[p].paid + Balance(p)
  BY <1>1, BalanceNat
<1>5. d \in ExpenseIds /\ d \in 0..Expenses
  BY <1>1, NextExpenseFree, ExpensesFinite
<1>6. /\ x \in ExpenseRow /\ x.reversals = 0 /\ x.source = {p} /\ x.shares[p] = n
      /\ \A q \in Purchases \ {p} : x.shares[q] = 0
  BY <1>2 DEF ExpenseRow, NoShares
<1> HIDE DEF x
<1>7. purchases[p].paid + n <= InvoiceTotal(p) /\ (Balance(p) = n <=> purchases[p].paid + n = InvoiceTotal(p))
  BY <1>1, <1>2, <1>4
<1>8. /\ row \in PurchaseRow /\ row.invoice = purchases[p].invoice /\ row.status = purchases[p].status
      /\ row.received = purchases[p].received /\ row.paid = purchases[p].paid + n /\ row.lastExpense = d
      /\ row.paidAt <=> Balance(p) = n
  <2> HIDE DEF d
  <2>1. purchases[p].paid + n \in Nat /\ purchases[p] \in PurchaseRow
    BY <1>2, <1>3, <1>4
  <2> QED BY <1>5, <2>1 DEF PurchaseRow
<1> HIDE DEF row
<1>9. /\ purchases' \in [Purchases -> PurchaseRow] /\ purchases'[p] = row
      /\ \A q \in Purchases \ {p} : purchases'[q] = purchases[q]
  BY <1>1, <1>3, <1>8
<1>10. purchaseReceipts' \in [RequestIds -> SUBSET PurchaseReceipt]
  BY <1>1, <1>2, RememberTyped DEF PurchasesInv
<1>11. \A q \in {p} : /\ x.shares[q] > 0 /\ Reconciled(q)
                      /\ purchases'[q].invoice = purchases[q].invoice
                      /\ purchases'[q].status = purchases[q].status
                      /\ purchases'[q].received = purchases[q].received
                      /\ purchases'[q].paid = purchases[q].paid + x.shares[q]
                      /\ purchases'[q].paid <= InvoiceTotal(q)
                      /\ purchases'[q].paidAt <=> purchases'[q].paid = InvoiceTotal(q)
                      /\ purchases'[q].lastExpense = NextExpense
  BY <1>1, <1>6, <1>7, <1>8, <1>9
<1>12. \A q \in Purchases \ {p} : purchases'[q] = purchases[q] /\ x.shares[q] = 0
  BY <1>6, <1>9
<1>13. {p} \in SUBSET Purchases /\ x.source \subseteq {p}
  BY <1>6
<1>14. expenses' = [expenses EXCEPT ![NextExpense] = {x}] /\ FreeExpenses # {}
  BY <1>1
<1> QED BY <1>6, <1>9, <1>10, <1>11, <1>12, <1>13, <1>14, PaymentKeeps

\* Several purchases are paid in one payment, shared out among them.
LEMMA PayTogetherKeeps ==
  ASSUME PurchasesInv, NEW ps \in SUBSET Purchases, PayTogether(ps)
  PROVE  PurchasesInv'
<1> DEFINE d == NextExpense
           x == [shares |-> [p \in Purchases |-> IF p \in ps THEN Balance(p) ELSE 0],
                 source |-> IF Cardinality(ps) = 1 THEN ps ELSE {}, reversals |-> 0]
           row(p) == [purchases[p] EXCEPT !.paid = InvoiceTotal(p), !.paidAt = TRUE, !.lastExpense = d]
<1>1. /\ FreeExpenses # {} /\ UNCHANGED purchaseReceipts
      /\ \A p \in ps : ~purchases[p].paidAt /\ Reconciled(p)
      /\ expenses' = [expenses EXCEPT ![d] = {x}]
      /\ purchases' = [p \in Purchases |-> IF p \in ps THEN row(p) ELSE purchases[p]]
  BY DEF PayTogether
<1>2. purchases \in [Purchases -> PurchaseRow]
  BY DEF PurchasesInv, PurchasesTypeOK
<1>3. \A p \in ps : /\ InvoiceTotal(p) \in Nat /\ purchases[p].paid \in Nat /\ Balance(p) \in Nat
                    /\ Balance(p) > 0 /\ InvoiceTotal(p) = purchases[p].paid + Balance(p)
  BY <1>1, BalanceNat
<1>4. d \in 0..Expenses
  BY <1>1, NextExpenseFree, ExpensesFinite
<1>5. /\ x \in ExpenseRow /\ x.reversals = 0 /\ x.source \subseteq ps
      /\ \A q \in ps : x.shares[q] = Balance(q)
      /\ \A q \in Purchases \ ps : x.shares[q] = 0
  <2>1. [p \in Purchases |-> IF p \in ps THEN Balance(p) ELSE 0] \in [Purchases -> Nat]
    BY <1>3
  <2>2. (IF Cardinality(ps) = 1 THEN ps ELSE {}) \in SUBSET ps
    OBVIOUS
  <2> QED BY <2>1, <2>2 DEF ExpenseRow
<1> HIDE DEF x, d
<1>6. ASSUME NEW q \in ps
      PROVE  /\ row(q) \in PurchaseRow /\ row(q).invoice = purchases[q].invoice
             /\ row(q).status = purchases[q].status /\ row(q).received = purchases[q].received
             /\ row(q).paid = InvoiceTotal(q) /\ row(q).paidAt /\ row(q).lastExpense = d
  <2>1. purchases[q] \in PurchaseRow
    BY <1>2
  <2> QED BY <1>3, <1>4, <2>1 DEF PurchaseRow
<1> HIDE DEF row
<1>7. /\ purchases' \in [Purchases -> PurchaseRow]
      /\ \A q \in ps : purchases'[q] = row(q)
      /\ \A q \in Purchases \ ps : purchases'[q] = purchases[q]
  BY <1>1, <1>2, <1>6
<1>8. \A q \in ps : /\ x.shares[q] > 0 /\ Reconciled(q)
                    /\ purchases'[q].invoice = purchases[q].invoice
                    /\ purchases'[q].status = purchases[q].status
                    /\ purchases'[q].received = purchases[q].received
                    /\ purchases'[q].paid = purchases[q].paid + x.shares[q]
                    /\ purchases'[q].paid <= InvoiceTotal(q)
                    /\ purchases'[q].paidAt <=> purchases'[q].paid = InvoiceTotal(q)
                    /\ purchases'[q].lastExpense = NextExpense
  BY <1>1, <1>3, <1>5, <1>6, <1>7 DEF d
<1>9. \A q \in Purchases \ ps : purchases'[q] = purchases[q] /\ x.shares[q] = 0
  BY <1>5, <1>7
<1>10. purchaseReceipts' \in [RequestIds -> SUBSET PurchaseReceipt]
  BY <1>1 DEF PurchasesInv, PurchasesTypeOK
<1>11. expenses' = [expenses EXCEPT ![NextExpense] = {x}]
  BY <1>1 DEF d
<1> QED BY <1>1, <1>5, <1>7, <1>8, <1>9, <1>10, <1>11, PaymentKeeps

\* A reversal gives back what the expense paid, of the purchases it still finds.
LEMMA ReverseKeeps ==
  ASSUME PurchasesInv, NEW d \in ExpenseIds, ReverseExpense(d)
  PROVE  PurchasesInv'
<1>1. PICK x \in expenses[d] :
        /\ NotReversed(x)
        /\ expenses' = [expenses EXCEPT ![d] = {[x EXCEPT !.reversals = x.reversals + 1]}]
        /\ purchases' = [p \in Purchases |-> IF p \in Paying(d)
             THEN [purchases[p] EXCEPT
                     !.paid = IF purchases[p].paid < x.shares[p] THEN 0 ELSE purchases[p].paid - x.shares[p],
                     !.paidAt = FALSE,
                     !.lastExpense = IF purchases[p].lastExpense = d THEN NoExpense ELSE purchases[p].lastExpense]
             ELSE purchases[p]]
        /\ UNCHANGED purchaseReceipts
  BY DEF ReverseExpense
<1> DEFINE y == [x EXCEPT !.reversals = x.reversals + 1]
<1>2. /\ purchases \in [Purchases -> PurchaseRow]
      /\ expenses \in [ExpenseIds -> SUBSET ExpenseRow]
      /\ x \in ExpenseRow /\ x.reversals = 0
  BY <1>1 DEF PurchasesInv, PurchasesTypeOK, NotReversed
<1>3. y \in ExpenseRow /\ y.reversals = 1 /\ y.shares = x.shares /\ y.source = x.source
  BY <1>2 DEF ExpenseRow
<1>4. \A z \in expenses[d] : z = x
  BY DEF PurchasesInv, OneExpense
<1> HIDE DEF y
<1>5. /\ expenses' \in [ExpenseIds -> SUBSET ExpenseRow]
      /\ expenses'[d] = {y} /\ \A e \in ExpenseIds \ {d} : expenses'[e] = expenses[e]
  BY <1>1, <1>2, <1>3 DEF y
<1>6. ASSUME NEW p \in Purchases
      PROVE  /\ PostedIn(expenses', p) = PostedIn(expenses, p) - x.shares[p]
             /\ PostedIn(expenses', p) \in Nat /\ PostedIn(expenses, p) \in Nat /\ x.shares[p] \in Nat
  <2> DEFINE F == expenses'
  <2>1. F \in [ExpenseIds -> SUBSET ExpenseRow] /\ F[d] = {y} /\ \A e \in ExpenseIds \ {d} : F[e] = expenses[e]
    BY <1>5
  <2>2. PostedIn(expenses', p) = PostedIn(F, p)
    OBVIOUS
  <2> HIDE DEF F
  <2>3. Share(F, p)[d] = 0
    <3>1. Share(F, p)[d] = IF y.reversals = 0 THEN y.shares[p] ELSE 0
      BY <2>1, ShareNat
    <3> QED BY <1>3, <3>1
  <2>4. Share(expenses, p)[d] = x.shares[p]
    <3>1. Share(expenses, p)[d] = IF x.reversals = 0 THEN x.shares[p] ELSE 0
      BY <1>2, <1>4, ShareNat
    <3> QED BY <1>2, <3>1
  <2>5. PostedIn(F, p) = PostedIn(expenses, p) - Share(expenses, p)[d] + Share(F, p)[d]
    BY <1>2, <2>1, PostedChange
  <2>6. PostedIn(F, p) \in Nat /\ PostedIn(expenses, p) \in Nat /\ x.shares[p] \in Nat
    BY <1>2, <2>1, ShareNat DEF ExpenseRow
  <2> QED BY <2>2, <2>3, <2>4, <2>5, <2>6
<1>7. ASSUME NEW p \in Purchases, p \in Paying(d)
      PROVE  /\ x.shares[p] > 0
             /\ purchases'[p] \in PurchaseRow
             /\ purchases'[p].invoice = purchases[p].invoice
             /\ purchases'[p].status = purchases[p].status
             /\ purchases'[p].received = purchases[p].received
             /\ purchases'[p].paid = IF purchases[p].paid < x.shares[p] THEN 0 ELSE purchases[p].paid - x.shares[p]
             /\ purchases'[p].paidAt = FALSE
             /\ purchases'[p].lastExpense
                  = IF purchases[p].lastExpense = d THEN NoExpense ELSE purchases[p].lastExpense
  <2>1. p \in x.source \/ purchases[p].lastExpense = d
    BY <1>4, <1>7 DEF Paying
  <2>2. x.shares[p] > 0
    <3>1. CASE p \in x.source
      BY <3>1 DEF PurchasesInv, PayersKnown
    <3>2. CASE purchases[p].lastExpense = d
      <4>1. d # NoExpense
        BY ExpensesFinite DEF NoExpense
      <4>2. PICK z \in expenses[d] : z.shares[p] > 0
        BY <3>2, <4>1 DEF PurchasesInv, LastKnown
      <4> QED BY <1>4, <4>2
    <3> QED BY <2>1, <3>1, <3>2
  <2>3. purchases[p] \in PurchaseRow /\ x.shares[p] \in Nat /\ purchases[p].paid \in Nat
    BY <1>2 DEF PurchaseRow, ExpenseRow
  <2> DEFINE less == IF purchases[p].paid < x.shares[p] THEN 0 ELSE purchases[p].paid - x.shares[p]
             last == IF purchases[p].lastExpense = d THEN NoExpense ELSE purchases[p].lastExpense
  <2>4. less \in Nat
    BY <2>3
  <2>5. last \in 0..Expenses
    BY <2>3, PurchasesAssumption DEF NoExpense, PurchaseRow
  <2>6. purchases'[p] = [purchases[p] EXCEPT !.paid = less, !.paidAt = FALSE, !.lastExpense = last]
    BY <1>1, <1>7
  <2> HIDE DEF less, last
  <2>7. /\ purchases'[p] \in PurchaseRow
        /\ purchases'[p].invoice = purchases[p].invoice
        /\ purchases'[p].status = purchases[p].status
        /\ purchases'[p].received = purchases[p].received
        /\ purchases'[p].paid = less
        /\ purchases'[p].paidAt = FALSE
        /\ purchases'[p].lastExpense = last
    BY <2>3, <2>4, <2>5, <2>6 DEF PurchaseRow
  <2> QED BY <2>2, <2>7 DEF less, last
<1>8. \A p \in Purchases : p \notin Paying(d) => purchases'[p] = purchases[p]
  BY <1>1
<1>9. purchases' \in [Purchases -> PurchaseRow]
  <2>1. \A p \in Purchases : purchases'[p] \in PurchaseRow
    BY <1>2, <1>7, <1>8
  <2>2. purchases' = [p \in Purchases |-> purchases'[p]]
    BY <1>1
  <2> QED BY <2>1, <2>2
<1> HIDE DEF Paying
<1>10. PurchasesTypeOK'
  BY <1>1, <1>5, <1>9 DEF PurchasesInv, PurchasesTypeOK
<1>11. ASSUME NEW p \in Purchases
       PROVE  /\ purchases'[p].invoice = purchases[p].invoice
              /\ purchases'[p].status = purchases[p].status
              /\ purchases'[p].received = purchases[p].received
  BY <1>7, <1>8
<1>12. OneExpense(expenses') /\ OneInvoice(purchases') /\ Brought(purchases')
  <2>1. OneExpense(expenses')
    BY <1>5 DEF PurchasesInv, OneExpense
  <2>2. OneInvoice(purchases')
    BY <1>11 DEF PurchasesInv, OneInvoice
  <2>3. Brought(purchases')
    BY <1>11 DEF PurchasesInv, Brought
  <2> QED BY <2>1, <2>2, <2>3
\* What an expense says of its shares is what it said before.
<1>13. ASSUME NEW e \in ExpenseIds, NEW z \in expenses'[e]
       PROVE  \E w \in expenses[e] : /\ w.shares = z.shares /\ w.source = z.source
                                     /\ z.reversals = 0 => w = z /\ e # d
  <2>1. CASE e = d
    BY <1>2, <1>3, <1>5, <2>1
  <2>2. CASE e # d
    BY <1>5, <2>2
  <2> QED BY <2>1, <2>2
<1>14. PayersKnown(purchases', expenses')
  <2> SUFFICES ASSUME NEW e \in ExpenseIds, NEW z \in expenses'[e], NEW q \in z.source
               PROVE  z.shares[q] > 0 /\ purchases'[q].invoice # {}
    BY DEF PayersKnown
  <2>1. PICK w \in expenses[e] : w.shares = z.shares /\ w.source = z.source
    BY <1>13
  <2>2. w.shares[q] > 0 /\ purchases[q].invoice # {} /\ q \in Purchases
    BY <1>2, <2>1 DEF PurchasesInv, PayersKnown, ExpenseRow
  <2> QED BY <1>11, <2>1, <2>2
<1>15. LastKnown(purchases', expenses')
  <2> SUFFICES ASSUME NEW q \in Purchases, purchases'[q].lastExpense # NoExpense
               PROVE  \E z \in expenses'[purchases'[q].lastExpense] : z.shares[q] > 0
    BY DEF LastKnown
  <2> DEFINE c == purchases[q].lastExpense
  <2>1. purchases'[q].lastExpense = c
    BY <1>7, <1>8
  <2>2. c # NoExpense /\ c \in 0..Expenses
    BY <1>2, <2>1 DEF PurchaseRow
  <2>3. c \in ExpenseIds
    BY <2>2, PurchasesAssumption DEF ExpenseIds, NoExpense
  <2>4. PICK z \in expenses[c] : z.shares[q] > 0
    BY <2>2 DEF PurchasesInv, LastKnown
  <2> HIDE DEF c
  <2>5. CASE c = d
    BY <1>3, <1>4, <1>5, <2>1, <2>4, <2>5
  <2>6. CASE c # d
    BY <1>5, <2>1, <2>3, <2>4, <2>6
  <2> QED BY <2>5, <2>6
<1>16. OldPayment(purchases', expenses')
  <2> SUFFICES ASSUME NEW q \in Purchases, purchases'[q].invoice = {}
               PROVE  /\ purchases'[q].paid = 0
                      /\ purchases'[q].paidAt => purchases'[q].lastExpense # NoExpense
                      /\ \A e \in ExpenseIds : \A z \in expenses'[e] :
                           z.reversals = 0 /\ z.shares[q] > 0
                             => purchases'[q].paidAt /\ purchases'[q].lastExpense = e
    BY DEF OldPayment
  <2>1. purchases[q].invoice = {}
    BY <1>11
  <2>2. /\ purchases[q].paid = 0
        /\ purchases[q].paidAt => purchases[q].lastExpense # NoExpense
        /\ \A e \in ExpenseIds : \A z \in expenses[e] :
             z.reversals = 0 /\ z.shares[q] > 0 => purchases[q].paidAt /\ purchases[q].lastExpense = e
    BY <2>1 DEF PurchasesInv, OldPayment
  <2>3. CASE q \notin Paying(d)
    BY <1>8, <1>13, <2>2, <2>3
  <2>4. CASE q \in Paying(d)
    <3>1. x.shares[q] > 0 /\ x.shares[q] \in Nat
      BY <1>6, <1>7, <2>4
    <3>2. purchases[q].lastExpense = d
      BY <1>2, <2>2, <3>1
    <3>3. purchases'[q].paid = 0 /\ ~purchases'[q].paidAt
      BY <1>7, <2>2, <2>4, <3>1
    <3>4. ASSUME NEW e \in ExpenseIds, NEW z \in expenses'[e], z.reversals = 0, z.shares[q] > 0
          PROVE  FALSE
      <4>1. z \in expenses[e] /\ e # d
        BY <1>13, <3>4
      <4> QED BY <2>2, <3>2, <3>4, <4>1
    <3> QED BY <3>3, <3>4
  <2> QED BY <2>3, <2>4
<1>17. PaidUp(purchases', expenses')
  <2> SUFFICES ASSUME NEW q \in Purchases, NEW t \in purchases'[q].invoice
               PROVE  /\ PostedIn(expenses', q) <= purchases'[q].paid
                      /\ purchases'[q].paid <= t
                      /\ purchases'[q].paidAt <=> purchases'[q].paid = t
    BY DEF PaidUp
  <2>1. t \in purchases[q].invoice
    BY <1>11
  <2>2. /\ PostedIn(expenses, q) <= purchases[q].paid
        /\ purchases[q].paid <= t
        /\ purchases[q].paidAt <=> purchases[q].paid = t
    BY <2>1 DEF PurchasesInv, PaidUp
  <2>3. t \in Nat /\ purchases[q].paid \in Nat
    BY <1>2, <2>1 DEF PurchaseRow
  <2>4. /\ PostedIn(expenses', q) = PostedIn(expenses, q) - x.shares[q]
        /\ PostedIn(expenses', q) \in Nat /\ PostedIn(expenses, q) \in Nat /\ x.shares[q] \in Nat
    BY <1>6
  <2>5. CASE q \in Paying(d)
    <3>1. x.shares[q] > 0 /\ purchases'[q].paidAt = FALSE
          /\ purchases'[q].paid = IF purchases[q].paid < x.shares[q] THEN 0 ELSE purchases[q].paid - x.shares[q]
      BY <1>7, <2>5
    <3>2. purchases'[q].paid = purchases[q].paid - x.shares[q]
      BY <2>2, <2>3, <2>4, <3>1
    <3> QED BY <2>2, <2>3, <2>4, <3>1, <3>2
  <2>6. CASE q \notin Paying(d)
    <3>1. purchases'[q] = purchases[q]
      BY <1>8, <2>6
    <3>2. PostedIn(expenses', q) <= purchases'[q].paid
      BY <2>2, <2>3, <2>4, <3>1
    <3> QED BY <2>2, <3>1, <3>2
  <2> QED BY <2>5, <2>6
<1> QED BY <1>10, <1>12, <1>14, <1>15, <1>16, <1>17 DEF PurchasesInv

\* A purchase paid by the old workflow starts with its expense.
LEMMA PurchasesStart == PurchasesInit => PurchasesInv
<1> SUFFICES ASSUME PurchasesInit PROVE PurchasesInv
  OBVIOUS
<1> DEFINE Old(p) == [shares |-> [NoShares EXCEPT ![p] = LegacyAmount], source |-> {}, reversals |-> 0]
<1>1. PICK old \in [LegacyPaid -> ExpenseIds] :
        /\ \A p, q \in LegacyPaid : p # q => old[p] # old[q]
        /\ purchases = [p \in Purchases |-> IF p \in LegacyPaid THEN LegacyPurchase(old[p]) ELSE NewPurchase]
        /\ expenses = [e \in ExpenseIds |-> {Old(p) : p \in {z \in LegacyPaid : old[z] = e}}]
        /\ purchaseReceipts = [k \in RequestIds |-> {}]
  BY DEF PurchasesInit
<1>2. LegacyPaid \subseteq Purchases /\ LegacyAmount \in Nat /\ LegacyAmount > 0 /\ Ordered \in Nat /\ Expenses \in Nat
  BY PurchasesAssumption
<1>3. ASSUME NEW p \in Purchases
      PROVE  /\ Old(p) \in ExpenseRow /\ Old(p).source = {} /\ Old(p).shares[p] = LegacyAmount
             /\ \A q \in Purchases \ {p} : Old(p).shares[q] = 0
  BY <1>2 DEF ExpenseRow, NoShares
<1> HIDE DEF Old
<1>4. ASSUME NEW p \in Purchases
      PROVE  /\ purchases[p] \in PurchaseRow /\ purchases[p].invoice = {} /\ purchases[p].paid = 0
             /\ purchases[p].status \in {"enviada", "pagada"}
             /\ purchases[p].paidAt <=> p \in LegacyPaid
             /\ purchases[p].lastExpense # NoExpense => p \in LegacyPaid
             /\ p \in LegacyPaid => purchases[p].lastExpense = old[p] /\ old[p] # NoExpense
  <2>1. CASE p \in LegacyPaid
    <3>1. purchases[p] = LegacyPurchase(old[p]) /\ old[p] \in ExpenseIds /\ old[p] \in 0..Expenses /\ old[p] # NoExpense
      BY <1>1, <2>1, ExpensesFinite DEF NoExpense
    <3> DEFINE e == old[p]
    <3>2. purchases[p] = LegacyPurchase(e) /\ e \in 0..Expenses /\ e # NoExpense /\ e = old[p]
      BY <3>1
    <3> HIDE DEF e
    <3>3. NewPurchase \in PurchaseRow /\ NewPurchase.invoice = {} /\ NewPurchase.paid = 0
      BY <1>2 DEF NewPurchase, PurchaseRow, PurchaseStatus, NoExpense
    <3>4. /\ LegacyPurchase(e) \in PurchaseRow /\ LegacyPurchase(e).invoice = {} /\ LegacyPurchase(e).paid = 0
          /\ LegacyPurchase(e).status = "pagada" /\ LegacyPurchase(e).paidAt /\ LegacyPurchase(e).lastExpense = e
      BY <3>2, <3>3 DEF LegacyPurchase, PurchaseRow, PurchaseStatus
    <3> QED BY <2>1, <3>2, <3>4
  <2>2. CASE p \notin LegacyPaid
    <3>1. purchases[p] = NewPurchase
      BY <1>1, <2>2
    <3> QED BY <1>2, <2>2, <3>1 DEF NewPurchase, PurchaseRow, PurchaseStatus, NoExpense
  <2> QED BY <2>1, <2>2
<1>5. ASSUME NEW e \in ExpenseIds, NEW x \in expenses[e]
      PROVE  \E p \in LegacyPaid : x = Old(p) /\ old[p] = e
  BY <1>1
<1>6. PurchasesTypeOK
  <2>1. purchases \in [Purchases -> PurchaseRow]
    BY <1>1, <1>4
  <2>2. \A e \in ExpenseIds : expenses[e] \subseteq ExpenseRow
    BY <1>2, <1>3, <1>5
  <2>3. expenses = [e \in ExpenseIds |-> expenses[e]]
    BY <1>1
  <2>4. expenses \in [ExpenseIds -> SUBSET ExpenseRow]
    BY <2>2, <2>3
  <2>5. purchaseReceipts \in [RequestIds -> SUBSET PurchaseReceipt]
    BY <1>1
  <2> QED BY <2>1, <2>4, <2>5 DEF PurchasesTypeOK
<1>7. OneExpense(expenses)
  BY <1>1, <1>5 DEF OneExpense
<1>8. OneInvoice(purchases) /\ PaidUp(purchases, expenses) /\ Brought(purchases)
  BY <1>4 DEF OneInvoice, PaidUp, Brought
<1>9. PayersKnown(purchases, expenses)
  BY <1>2, <1>3, <1>5 DEF PayersKnown
<1>10. LastKnown(purchases, expenses)
  <2> SUFFICES ASSUME NEW p \in Purchases, purchases[p].lastExpense # NoExpense
               PROVE  \E x \in expenses[purchases[p].lastExpense] : x.shares[p] > 0
    BY DEF LastKnown
  <2>1. p \in LegacyPaid /\ purchases[p].lastExpense = old[p] /\ old[p] \in ExpenseIds
    BY <1>1, <1>4
  <2>2. Old(p) \in expenses[old[p]]
    BY <1>1, <2>1
  <2> QED BY <1>2, <1>3, <2>1, <2>2
<1>11. OldPayment(purchases, expenses)
  <2> SUFFICES ASSUME NEW p \in Purchases
               PROVE  /\ purchases[p].paid = 0
                      /\ purchases[p].paidAt => purchases[p].lastExpense # NoExpense
                      /\ \A e \in ExpenseIds : \A x \in expenses[e] :
                           x.reversals = 0 /\ x.shares[p] > 0 => purchases[p].paidAt /\ purchases[p].lastExpense = e
    BY DEF OldPayment
  <2>1. ASSUME NEW e \in ExpenseIds, NEW x \in expenses[e], x.shares[p] > 0
        PROVE  p \in LegacyPaid /\ old[p] = e
    <3>1. PICK q \in LegacyPaid : x = Old(q) /\ old[q] = e
      BY <1>5
    <3>2. q = p
      BY <1>2, <1>3, <2>1, <3>1
    <3> QED BY <3>1, <3>2
  <2> QED BY <1>4, <2>1
<1> QED BY <1>6, <1>7, <1>8, <1>9, <1>10, <1>11 DEF PurchasesInv

\* Every operation keeps the invariant.
LEMMA PurchasesStep == PurchasesInv /\ [PurchasesNext]_purchaseVars => PurchasesInv'
<1> SUFFICES ASSUME PurchasesInv, [PurchasesNext]_purchaseVars PROVE PurchasesInv'
  OBVIOUS
<1>1. CASE RequestRoutes
  BY <1>1, QuoteKeeps, CancelKeeps, ReceiveAllKeeps DEF RequestRoutes
<1>2. CASE PurchaseRoutes
  BY <1>2, ReceiveKeeps, ReconcileKeeps, PayKeeps DEF PurchaseRoutes
<1>3. CASE ExpenseRoutes
  BY <1>3, PayTogetherKeeps, ReverseKeeps DEF ExpenseRoutes
<1>4. CASE UNCHANGED purchaseVars
  <2>1. UNCHANGED <<purchases, expenses, purchaseReceipts>>
    BY <1>4 DEF purchaseVars
  <2>2. \A p \in Purchases : PostedIn(expenses', p) = PostedIn(expenses, p)
    BY <2>1
  <2> QED BY <2>1, <2>2 DEF PurchasesInv, PurchasesTypeOK, OneExpense, OneInvoice, PayersKnown, LastKnown,
                            OldPayment, PaidUp, Brought
<1> QED BY <1>1, <1>2, <1>3, <1>4 DEF PurchasesNext

\* So the invariant holds of the component on its own.
LEMMA PurchasesHold == PurchasesSpec => []PurchasesInv
<1> QED BY PurchasesStart, PurchasesStep, PTL DEF PurchasesSpec

-----------------------------------------------------------------------------
(* Money: rounding, and what receipts add up to *)

\* A rounded quotient of amounts is an amount.
LEMMA RoundedNat ==
  ASSUME NEW n \in Nat, NEW d \in Nat \ {0}
  PROVE  Rounded(n, d) \in Nat
<1> DEFINE a == 2 * n + d
           b == 2 * d
<1>1. a \in Nat /\ b \in Nat \ {0}
  OBVIOUS
<1>2. Rounded(n, d) = a \div b
  BY DEF Rounded
<1> HIDE DEF a, b
<1> QED BY <1>1, <1>2

\* It is m at most when a half does not lead to the next.
LEMMA RoundedAtMost ==
  ASSUME NEW n \in Nat, NEW d \in Nat \ {0}, NEW m \in Nat, 2 * n < 2 * (m * d) + d
  PROVE  Rounded(n, d) <= m
<1> DEFINE a == 2 * n + d
           b == 2 * d
           c == m * d
           r == Rounded(n, d)
           z == r - m - 1
           w == z * d
<1>0. r \in Nat
  BY RoundedNat
<1>1. a \in Nat /\ b \in Nat \ {0} /\ c \in Int /\ a < 2 * c + b
  OBVIOUS
<1>2. r = a \div b
  BY DEF Rounded
<1>3. r * b <= a
  <2> HIDE DEF a, b, r
  <2> QED BY <1>0, <1>1, <1>2
<1> SUFFICES ASSUME r > m PROVE FALSE
  BY <1>0
<1>4. z \in Nat /\ r = m + 1 + z
  BY <1>0
<1>5. w \in Nat
  <2> HIDE DEF z
  <2> QED BY <1>4
<1>6. r * d = m * d + d + w
  <2>1. (m + 1 + z) * d = m * d + d + z * d
    <3> HIDE DEF z
    <3> QED BY <1>4
  <2> HIDE DEF r
  <2> QED BY <1>4, <2>1
<1>7. r * b = 2 * (r * d)
  <2> HIDE DEF r
  <2> QED BY <1>0
<1> DEFINE rd == r * d
           rb == r * b
<1>8. rd = c + d + w /\ rb = 2 * rd /\ rb <= a
  BY <1>3, <1>6, <1>7
<1>9. rd \in Int /\ rb \in Int
  <2> HIDE DEF r, b
  <2> QED BY <1>0, <1>1
<1>10. b = 2 * d
  OBVIOUS
<1> HIDE DEF rd, rb, a, b, c, r, z, w
<1> QED BY <1>1, <1>5, <1>8, <1>9, <1>10

\* A percentage of an amount is an amount, and of a larger one no less.
LEMMA PercentNat ==
  ASSUME NEW n \in Nat, NEW p \in Nat
  PROVE  Percent(n, p) \in Nat
<1> DEFINE m == n * p
<1>1. m \in Nat
  OBVIOUS
<1>2. Percent(n, p) = Rounded(m, 100)
  BY DEF Percent
<1> HIDE DEF m
<1> QED BY <1>1, <1>2, RoundedNat

\* A percentage of a larger amount is no less.
LEMMA PercentMonotone ==
  ASSUME NEW m \in Nat, NEW n \in Nat, NEW p \in Nat, m <= n
  PROVE  Percent(m, p) <= Percent(n, p)
<1> DEFINE a == m * p
           b == n * p
           c == (n - m) * p
<1>1. a \in Nat /\ b \in Nat
  OBVIOUS
<1>2. c \in Nat
  <2> DEFINE z == n - m
  <2>1. z \in Nat
    OBVIOUS
  <2> HIDE DEF z
  <2>2. z * p \in Nat
    BY <2>1
  <2> QED BY <2>2 DEF z
<1>3. b = a + c
  OBVIOUS
<1>4. Percent(m, p) = (2 * a + 100) \div (2 * 100) /\ Percent(n, p) = (2 * b + 100) \div (2 * 100)
  BY DEF Percent, Rounded
<1> HIDE DEF a, b, c
<1> QED BY <1>1, <1>2, <1>3, <1>4

\* Bolivars are worth an amount of dollars.
LEMMA InUsdNat ==
  ASSUME NEW bs \in Nat, NEW rate \in Nat, bs > 0 => rate # NoRate
  PROVE  InUsd(bs, rate) \in Nat
BY RoundedNat DEF InUsd, NoRate

\* The dollars of a split are part of its base.
LEMMA UsdBaseNat ==
  ASSUME NEW base \in Nat, NEW method \in Methods, NEW share \in Nat, NEW rate, Splits(base, method, share, rate)
  PROVE  UsdBase(base, method, share) \in 0..base
<1>1. CASE method = "mixed"
  BY <1>1 DEF Splits, UsdBase
<1>2. CASE method # "mixed" /\ method \in {"usd", "bs"}
  BY <1>2 DEF UsdBase
<1> QED BY <1>1, <1>2 DEF Methods

\* A tender's parts.
LEMMA TenderParts ==
  ASSUME NEW t \in Tenders
  PROVE  t[1] \in Methods /\ t[2] \in Nat /\ t[3] \in Nat /\ t[4] \in Nat
BY MoneyAssumption

\* What the receipts of each request say by w, together.
Entered(R, w, K) == SumFunctionOnSet([k \in K |-> SumFunctionOnSet(w, R[k])], K)
OnePerRequest(R, K) == \A k \in K : \A x, y \in R[k] : x = y

\* With a receipt at most per request, it is an amount,
LEMMA EnteredNat ==
  ASSUME NEW K, IsFiniteSet(K), NEW T, NEW w \in [T -> Nat], NEW R \in [K -> SUBSET T], OnePerRequest(R, K)
  PROVE  /\ \A k \in K : IsFiniteSet(R[k]) /\ SumFunctionOnSet(w, R[k]) \in Nat
         /\ Entered(R, w, K) \in Nat
<1>1. ASSUME NEW k \in K
      PROVE  IsFiniteSet(R[k])
  <2>1. R[k] = {} \/ \E x \in R[k] : R[k] = {x}
    BY DEF OnePerRequest
  <2>2. CASE R[k] = {}
    BY <2>2, FS_EmptySet
  <2>3. ASSUME NEW x \in R[k], R[k] = {x}
        PROVE  IsFiniteSet(R[k])
    BY <2>3, FS_Singleton
  <2> QED BY <2>1, <2>2, <2>3
<1>2. ASSUME NEW k \in K
      PROVE  SumFunctionOnSet(w, R[k]) \in Nat
  BY <1>1, SumNat
<1> DEFINE f == [k \in K |-> SumFunctionOnSet(w, R[k])]
<1>3. \A k \in K : f[k] \in Nat
  BY <1>2
<1>4. Entered(R, w, K) = SumFunctionOnSet(f, K)
  BY DEF Entered
<1> HIDE DEF f
<1>5. Entered(R, w, K) \in Nat
  BY <1>3, <1>4, SumNat
<1> QED BY <1>1, <1>2, <1>5

\* nothing while there is none,
LEMMA EnteredNone ==
  ASSUME NEW K, IsFiniteSet(K), NEW w, NEW R, \A k \in K : R[k] = {}
  PROVE  Entered(R, w, K) = 0
<1> DEFINE f == [k \in K |-> SumFunctionOnSet(w, R[k])]
<1>1. \A k \in K : f[k] = 0
  BY SumEmpty
<1>2. Entered(R, w, K) = SumFunctionOnSet(f, K)
  BY DEF Entered
<1> HIDE DEF f
<1> QED BY <1>1, <1>2, SumZero

\* and a first request adds its own.
LEMMA EnteredMore ==
  ASSUME NEW K, IsFiniteSet(K), NEW T, NEW w \in [T -> Nat], NEW R \in [K -> SUBSET T], OnePerRequest(R, K),
         NEW k \in K, R[k] = {}, NEW x \in T,
         NEW Q \in [K -> SUBSET T], Q[k] = {x}, \A j \in K \ {k} : Q[j] = R[j]
  PROVE  OnePerRequest(Q, K) /\ Entered(Q, w, K) = Entered(R, w, K) + w[x]
<1>2. OnePerRequest(Q, K)
  BY DEF OnePerRequest
<1> DEFINE f == [j \in K |-> SumFunctionOnSet(w, R[j])]
           g == [j \in K |-> SumFunctionOnSet(w, Q[j])]
<1>3. \A j \in K : f[j] \in Int
  BY EnteredNat
<1>4. \A j \in K \ {k} : g[j] = f[j]
  OBVIOUS
<1>5. f[k] = 0
  BY SumEmpty
<1>6. g[k] = w[x] /\ w[x] \in Nat
  <2>1. w[x] \in Nat /\ w[x] \in Int
    OBVIOUS
  <2>2. SumFunctionOnSet(w, {x}) = w[x]
    BY <2>1, SumOne
  <2> QED BY <2>1, <2>2
<1>7. Entered(R, w, K) = SumFunctionOnSet(f, K) /\ Entered(Q, w, K) = SumFunctionOnSet(g, K)
  BY DEF Entered
<1> HIDE DEF f, g
<1>8. g[k] \in Int
  BY <1>6
<1>9. SumFunctionOnSet(g, K) = SumFunctionOnSet(f, K) - f[k] + g[k]
  BY <1>3, <1>4, <1>8, SumChange
<1>10. SumFunctionOnSet(f, K) \in Int
  BY <1>3, SumInt
<1>11. Entered(Q, w, K) = Entered(R, w, K) + w[x]
  BY <1>5, <1>6, <1>7, <1>9, <1>10
<1> QED BY <1>2, <1>11

-----------------------------------------------------------------------------
(* Receivables: what an invoice brings *)

OneInvoiceRow(I) == \A o \in Invoiceable : \A i, j \in I[o] : i = j
\* What a receipt says of an order.
IncomeFor(o) == [c \in CollectionRequest |-> IF c.order = o THEN c.income ELSE 0]
InvoiceFair(i) ==
  /\ i.collected <=> InvoicePending(i) = 0
  /\ i.net + i.withheld <= NotBelowZero(NetExpected(i) - i.atIssue)
InvoicesFair(I) == \A o \in Invoiceable : \A i \in I[o] : InvoiceFair(i)
InvoicesBacked(I, inc, R) == \A o \in Invoiceable : \A i \in I[o] :
  inc[o] = i.atIssue + i.net /\ i.net = Entered(R, IncomeFor(o), RequestIds)
\* Only issued invoices were collected.
NoneBefore(I, R) == \A k \in RequestIds : \A c \in R[k] : I[c.order] # {}

ReceivablesInv ==
  /\ ReceivablesTypeOK
  /\ OneInvoiceRow(invoices) /\ OnePerRequest(collectionOf, RequestIds)
  /\ InvoicesFair(invoices) /\ InvoicesBacked(invoices, incomeOf, collectionOf)
  /\ NoneBefore(invoices, collectionOf) /\ WarrantedOnce

\* What a request brings an order is an amount.
LEMMA IncomeForNat == ASSUME NEW o PROVE IncomeFor(o) \in [CollectionRequest -> Nat]
BY DEF IncomeFor, CollectionRequest

\* The invariant says what the runs check.
LEMMA FairIsSettled == ReceivablesInv => InvoicesSettled
<1> SUFFICES ASSUME ReceivablesInv PROVE InvoicesSettled
  OBVIOUS
<1>1. collectionOf \in [RequestIds -> SUBSET CollectionRequest] /\ OnePerRequest(collectionOf, RequestIds)
      /\ IsFiniteSet(RequestIds)
  BY MoneyAssumption DEF ReceivablesInv, ReceivablesTypeOK
<1>2. ASSUME NEW o \in Invoiceable
      PROVE  Entered(collectionOf, IncomeFor(o), RequestIds) = SumFunction([k \in RequestIds |->
               SumFunction([c \in collectionOf[k] |-> IF c.order = o THEN c.income ELSE 0])])
  <2> DEFINE part(k) == [c \in collectionOf[k] |-> IF c.order = o THEN c.income ELSE 0]
             parts == [k \in RequestIds |-> SumFunction(part(k))]
             w == IncomeFor(o)
             sums == [k \in RequestIds |-> SumFunctionOnSet(w, collectionOf[k])]
  <2>1. w \in [CollectionRequest -> Nat]
    BY IncomeForNat
  <2>2. \A k \in RequestIds : IsFiniteSet(collectionOf[k])
    <3> HIDE DEF w
    <3> QED BY <1>1, <2>1, EnteredNat
  <2>3. ASSUME NEW k \in RequestIds
        PROVE  parts[k] = sums[k]
    <3>1. DOMAIN part(k) = collectionOf[k] /\ \A c \in collectionOf[k] : part(k)[c] = w[c]
      BY <1>1 DEF IncomeFor
    <3>2. parts[k] = SumFunction(part(k)) /\ sums[k] = SumFunctionOnSet(w, collectionOf[k])
      OBVIOUS
    <3> HIDE DEF part, w, parts, sums
    <3>3. SumFunction(part(k)) = SumFunctionOnSet(part(k), collectionOf[k])
      BY <3>1 DEF SumFunction
    <3>4. SumFunctionOnSet(part(k), collectionOf[k]) = SumFunctionOnSet(w, collectionOf[k])
      BY <2>2, <3>1, SumEqual
    <3> QED BY <3>2, <3>3, <3>4
  <2>4. SumFunction(parts) = SumFunctionOnSet(parts, RequestIds)
    <3>1. DOMAIN parts = RequestIds
      OBVIOUS
    <3> HIDE DEF parts
    <3> QED BY <3>1 DEF SumFunction
  <2>5. Entered(collectionOf, IncomeFor(o), RequestIds) = SumFunctionOnSet(sums, RequestIds)
    BY DEF Entered
  <2>6. SumFunction(parts) = SumFunction([k \in RequestIds |->
               SumFunction([c \in collectionOf[k] |-> IF c.order = o THEN c.income ELSE 0])])
    OBVIOUS
  <2> HIDE DEF parts, sums
  <2>7. SumFunctionOnSet(parts, RequestIds) = SumFunctionOnSet(sums, RequestIds)
    BY <1>1, <2>3, SumEqual
  <2> QED BY <2>4, <2>5, <2>6, <2>7
<1>3. InvoiceSettled
  BY <1>2 DEF ReceivablesInv, InvoicesFair, InvoiceFair, InvoicesBacked, InvoiceSettled
<1> QED BY <1>3 DEF InvoicesSettled, ReceivablesInv

\* What an invoice is made of.
LEMMA AmountsNat ==
  ASSUME NEW n \in Subtotals, NEW ret \in Retentions
  PROVE  /\ n \in Nat /\ Percent(n, Iva) \in Nat /\ TotalOf(n) \in Nat
         /\ Retained(n, ret) \in Nat
<1>1. n \in Nat /\ Iva \in Nat /\ ret[1] \in Nat /\ ret[2] \in Nat
  BY ReceivablesAssumption, MoneyAssumption
<1>2. Percent(n, Iva) \in Nat /\ Percent(n, ret[2]) \in Nat
  BY <1>1, PercentNat
<1>3. Percent(Percent(n, Iva), ret[1]) \in Nat
  BY <1>1, <1>2, PercentNat
<1> QED BY <1>1, <1>2, <1>3 DEF TotalOf, Retained

\* Amounts paid today.
LEMMA RateNat == ASSUME ReceivablesTypeOK PROVE rateToday \in Nat
BY ReceivablesAssumption DEF ReceivablesTypeOK, NoRate

\* What a tender pays is an amount.
LEMMA PaidNowNat ==
  ASSUME ReceivablesTypeOK, NEW t \in Tenders
  PROVE  PaidNow(t) \in Nat
<1>1. t[3] \in Nat /\ t[4] \in Nat
  BY TenderParts
<1>2. rateToday \in Nat
  BY RateNat
<1>3. rateToday # NoRate => InUsd(t[4], rateToday) \in Nat
  BY <1>1, <1>2, InUsdNat
<1> QED BY <1>1, <1>2, <1>3 DEF PaidNow

\* Routes that leave the invoices, their collections and warranties alone.
LEMMA OtherRoutesKeep ==
  ASSUME ReceivablesInv, ReceivablesTypeOK', UNCHANGED <<invoices, incomeOf, collectionOf, warrantySets>>
  PROVE  ReceivablesInv'
<1>1. \A o \in Invoiceable : Entered(collectionOf', IncomeFor(o), RequestIds) = Entered(collectionOf, IncomeFor(o), RequestIds)
  OBVIOUS
<1> QED BY <1>1 DEF ReceivablesInv, OneInvoiceRow, OnePerRequest, InvoicesFair, InvoicesBacked, NoneBefore, WarrantedOnce

\* The warranties of an order are given at most once.
LEMMA GivenOnce ==
  ASSUME ReceivablesInv, NEW o \in Invoiceable, warrantySets' = WarrantiesGiven(o)
  PROVE  warrantySets' \in [Invoiceable -> Nat] /\ WarrantedOnce'
<1> DEFINE n == IF Unwarranted(o) /\ vinOf[o] THEN warrantySets[o] + 1 ELSE warrantySets[o]
<1>1. warrantySets \in [Invoiceable -> Nat]
  BY DEF ReceivablesInv, ReceivablesTypeOK
<1>2. n \in Nat /\ n <= 1
  BY <1>1 DEF ReceivablesInv, WarrantedOnce, Unwarranted
<1>3. warrantySets' = [warrantySets EXCEPT ![o] = n]
  BY DEF WarrantiesGiven
<1> HIDE DEF n
<1>4. warrantySets' \in [Invoiceable -> Nat] /\ warrantySets'[o] = n
      /\ \A p \in Invoiceable \ {o} : warrantySets'[p] = warrantySets[p]
  BY <1>1, <1>2, <1>3
<1> QED BY <1>2, <1>4 DEF ReceivablesInv, WarrantedOnce

\* An invoice is issued, with what was paid there and then.
LEMMA IssueKeeps ==
  ASSUME ReceivablesInv, NEW o \in Invoiceable, NEW t \in Tenders, NEW ret \in Retentions, Issue(o, t, ret)
  PROVE  ReceivablesInv'
<1> DEFINE base == TotalOf(priced[o])
           total == base + Percent(UsdBase(base, t[1], t[2]), Igtf)
           kept == Retained(priced[o], ret)
           paid == PaidNow(t)
           full == paid >= total - kept
           row == [total |-> total, retained |-> kept, atIssue |-> paid, withheld |-> 0, net |-> 0,
                   collected |-> full]
<1>1. /\ ~Issued(o) /\ Splits(base, t[1], t[2], rateToday)
      /\ invoices' = [invoices EXCEPT ![o] = {row}]
      /\ incomeOf' = [incomeOf EXCEPT ![o] = paid]
      /\ warrantySets' = IF o \in LegacyOrders THEN WarrantiesGiven(o) ELSE warrantySets
      /\ UNCHANGED <<rateToday, priced, quotes, collectionOf, vinOf, closedOrders>>
  BY DEF Issue
<1>2. ReceivablesTypeOK
  BY DEF ReceivablesInv
<1>3. base \in Nat /\ kept \in Nat /\ paid \in Nat
  BY <1>2, AmountsNat, PaidNowNat DEF ReceivablesTypeOK
<1>4. total \in Nat
  <2> DEFINE u == UsdBase(base, t[1], t[2])
  <2>1. t[1] \in Methods /\ t[2] \in Nat /\ Igtf \in Nat
    BY TenderParts, MoneyAssumption
  <2> HIDE DEF base
  <2>2. u \in Nat
    BY <1>1, <1>3, <2>1, UsdBaseNat
  <2> HIDE DEF u
  <2>3. Percent(u, Igtf) \in Nat
    BY <2>1, <2>2, PercentNat
  <2> QED BY <1>3, <2>3 DEF u
<1> HIDE DEF total, kept, paid, base
<1>0. full \in BOOLEAN
  OBVIOUS
<1> HIDE DEF full
<1>5. row \in InvoiceRow /\ row.total = total /\ row.retained = kept /\ row.atIssue = paid
      /\ row.net = 0 /\ row.withheld = 0 /\ row.collected = full
  BY <1>0, <1>3, <1>4 DEF InvoiceRow
<1> HIDE DEF row
<1>6. InvoiceFair(row)
  <2> DEFINE left == NotBelowZero(total - kept - paid)
  <2>1. InvoicePending(row) = left /\ NotBelowZero(NetExpected(row) - row.atIssue) = left
    BY <1>3, <1>4, <1>5 DEF InvoicePending, NetExpected
  <2>2. left \in Nat /\ (left = 0 <=> paid >= total - kept)
    BY <1>3, <1>4 DEF NotBelowZero
  <2> HIDE DEF left
  <2>3. row.collected <=> InvoicePending(row) = 0
    BY <1>5, <2>1, <2>2 DEF full
  <2>4. row.net + row.withheld <= left
    BY <1>5, <2>2
  <2> QED BY <2>1, <2>3, <2>4 DEF InvoiceFair
<1>7. row.net = 0 /\ row.atIssue = paid
  BY <1>5
<1>8. /\ invoices' \in [Invoiceable -> SUBSET InvoiceRow] /\ invoices'[o] = {row}
      /\ \A p \in Invoiceable \ {o} : invoices'[p] = invoices[p]
      /\ incomeOf' \in [Invoiceable -> Nat] /\ incomeOf'[o] = paid
      /\ \A p \in Invoiceable \ {o} : incomeOf'[p] = incomeOf[p]
  BY <1>1, <1>2, <1>3, <1>5 DEF ReceivablesTypeOK
<1>9. warrantySets' \in [Invoiceable -> Nat] /\ WarrantedOnce'
  <2>1. CASE o \in LegacyOrders
    BY <1>1, <2>1, GivenOnce
  <2>2. CASE o \notin LegacyOrders
    BY <1>1, <1>2, <2>2 DEF ReceivablesInv, WarrantedOnce, ReceivablesTypeOK
  <2> QED BY <2>1, <2>2
<1>10. ReceivablesTypeOK'
  BY <1>1, <1>2, <1>8, <1>9 DEF ReceivablesTypeOK
<1>11. OneInvoiceRow(invoices') /\ OnePerRequest(collectionOf', RequestIds) /\ InvoicesFair(invoices')
  BY <1>1, <1>6, <1>8 DEF ReceivablesInv, OneInvoiceRow, OnePerRequest, InvoicesFair
<1>12. NoneBefore(invoices', collectionOf')
  <2> SUFFICES ASSUME NEW k \in RequestIds, NEW c \in collectionOf[k]
               PROVE  invoices'[c.order] # {}
    BY <1>1 DEF NoneBefore
  <2>1. c.order \in Invoiceable /\ invoices[c.order] # {}
    BY <1>2 DEF ReceivablesInv, ReceivablesTypeOK, NoneBefore, CollectionRequest
  <2> QED BY <1>8, <2>1
<1>13. Entered(collectionOf, IncomeFor(o), RequestIds) = 0
  <2> DEFINE w == IncomeFor(o)
             f == [k \in RequestIds |-> SumFunctionOnSet(w, collectionOf[k])]
  <2>1. ASSUME NEW k \in RequestIds
        PROVE  f[k] = 0
    <3>1. \A c \in collectionOf[k] : w[c] = 0
      BY <1>1, <1>2 DEF ReceivablesInv, ReceivablesTypeOK, NoneBefore, CollectionRequest, IncomeFor, Issued
    <3>2. IsFiniteSet(collectionOf[k])
      <4>1. w \in [CollectionRequest -> Nat]
        BY IncomeForNat
      <4> HIDE DEF w
      <4> QED BY <1>2, <4>1, EnteredNat, MoneyAssumption DEF ReceivablesInv, ReceivablesTypeOK
    <3> HIDE DEF w
    <3>3. SumFunctionOnSet(w, collectionOf[k]) = 0
      BY <3>1, <3>2, SumZero
    <3> QED BY <3>3
  <2>2. Entered(collectionOf, IncomeFor(o), RequestIds) = SumFunctionOnSet(f, RequestIds)
    BY DEF Entered
  <2> HIDE DEF f
  <2> QED BY <2>1, <2>2, MoneyAssumption, SumZero
<1>14. InvoicesBacked(invoices', incomeOf', collectionOf')
  <2> SUFFICES ASSUME NEW p \in Invoiceable, NEW i \in invoices'[p]
               PROVE  incomeOf'[p] = i.atIssue + i.net /\ i.net = Entered(collectionOf, IncomeFor(p), RequestIds)
    BY <1>1 DEF InvoicesBacked
  <2>1. CASE p = o
    BY <1>3, <1>7, <1>8, <1>13, <2>1
  <2>2. CASE p # o
    BY <1>8, <2>2 DEF ReceivablesInv, InvoicesBacked
  <2> QED BY <2>1, <2>2
<1> QED BY <1>9, <1>10, <1>11, <1>12, <1>14 DEF ReceivablesInv

\* A collection on account brings its invoice what its request says, once.
LEMMA CollectKeeps ==
  ASSUME ReceivablesInv, NEW o \in Invoiceable, NEW k \in RequestIds, NEW c \in Collections, CollectInvoice(o, k, c)
  PROVE  ReceivablesInv'
<1> DEFINE i == RowOf(o)
           usd == CollectedUsd(c)
           j == [i EXCEPT !.withheld = i.withheld + c[3], !.net = i.net + usd]
           done == InvoicePending(j) = 0
           row == [j EXCEPT !.collected = done]
           rec == [order |-> o, paid |-> c, income |-> usd]
<1>1. /\ Issued(o) /\ FirstTime(k)
      /\ c[2] > 0 => c[1] = 0 /\ rateToday # NoRate
      /\ ~i.collected
      /\ usd + c[3] \in 1..InvoicePending(i)
      /\ invoices' = [invoices EXCEPT ![o] = {row}]
      /\ incomeOf' = [incomeOf EXCEPT ![o] = incomeOf[o] + usd]
      /\ collectionOf' = [collectionOf EXCEPT ![k] = collectionOf[k] \union {rec}]
      /\ UNCHANGED <<rateToday, priced, quotes, vinOf, closedOrders, warrantySets>>
  BY DEF CollectInvoice
<1>2. ReceivablesTypeOK /\ i \in invoices[o] /\ i \in InvoiceRow
  BY <1>1 DEF ReceivablesInv, ReceivablesTypeOK, Issued, RowOf
<1>3. c[1] \in Nat /\ c[2] \in Nat /\ c[3] \in Nat
  BY ReceivablesAssumption
<1>4. usd \in Nat
  <2>1. rateToday \in Nat
    BY <1>2, RateNat
  <2>2. InUsd(c[2], rateToday) \in Nat
    BY <1>1, <1>3, <2>1, InUsdNat
  <2> QED BY <1>3, <2>2 DEF CollectedUsd
<1>5. InvoiceFair(i) /\ incomeOf[o] = i.atIssue + i.net
      /\ i.net = Entered(collectionOf, IncomeFor(o), RequestIds)
  BY <1>2 DEF ReceivablesInv, InvoicesFair, InvoicesBacked
<1> HIDE DEF i, usd
<1> DEFINE held == i.withheld + c[3]
           net == i.net + usd
<1>20. held \in Nat /\ net \in Nat
  BY <1>2, <1>3, <1>4 DEF InvoiceRow
<1>21. j = [i EXCEPT !.withheld = held, !.net = net]
  OBVIOUS
<1> HIDE DEF j, held, net
<1>22. /\ j \in InvoiceRow /\ j.withheld = held /\ j.net = net
       /\ j.total = i.total /\ j.retained = i.retained /\ j.atIssue = i.atIssue
  BY <1>2, <1>20, <1>21 DEF InvoiceRow
<1>6. /\ j \in InvoiceRow /\ j.withheld = i.withheld + c[3] /\ j.net = i.net + usd
      /\ j.total = i.total /\ j.retained = i.retained /\ j.atIssue = i.atIssue
  BY <1>22 DEF held, net
<1>7. done \in BOOLEAN
  OBVIOUS
<1> HIDE DEF done
<1>8. /\ row \in InvoiceRow /\ row.withheld = i.withheld + c[3] /\ row.net = i.net + usd
      /\ row.total = i.total /\ row.retained = i.retained /\ row.atIssue = i.atIssue /\ row.collected = done
  BY <1>6, <1>7 DEF InvoiceRow
<1> HIDE DEF row
<1>9. InvoiceFair(row)
  <2>1. InvoicePending(row) = InvoicePending(j)
    BY <1>6, <1>8 DEF InvoicePending, NetExpected
  <2>2. row.collected <=> InvoicePending(row) = 0
    BY <1>8, <2>1 DEF done
  <2> DEFINE room == NotBelowZero(NetExpected(i) - i.atIssue)
             rest == InvoicePending(i)
  <2>3. i.total \in Nat /\ i.retained \in Nat /\ i.atIssue \in Nat /\ i.net \in Nat /\ i.withheld \in Nat
    BY <1>2 DEF InvoiceRow
  <2>4. usd + c[3] <= rest /\ usd + c[3] >= 1 /\ rest \in Int
    BY <1>1, <1>3, <1>4, <2>3 DEF InvoicePending, NetExpected, NotBelowZero
  <2>5. rest > 0 => rest = room - i.net - i.withheld
    BY <2>3 DEF InvoicePending, NetExpected, NotBelowZero
  <2>6. room \in Nat /\ NotBelowZero(NetExpected(row) - row.atIssue) = room
    BY <1>8, <2>3 DEF NetExpected, NotBelowZero
  <2> HIDE DEF room, rest
  <2>7. row.net + row.withheld <= room
    BY <1>3, <1>4, <1>8, <2>3, <2>4, <2>5, <2>6
  <2> QED BY <2>2, <2>6, <2>7 DEF InvoiceFair
<1>10. rec \in CollectionRequest /\ rec.order = o /\ rec.income = usd
  BY <1>4 DEF CollectionRequest
<1> HIDE DEF rec
<1>11. collectionOf \in [RequestIds -> SUBSET CollectionRequest] /\ OnePerRequest(collectionOf, RequestIds)
       /\ collectionOf[k] = {} /\ IsFiniteSet(RequestIds)
  BY <1>1, <1>2, MoneyAssumption DEF ReceivablesInv, ReceivablesTypeOK, FirstTime
<1>12. ASSUME NEW p \in Invoiceable
       PROVE  /\ collectionOf' \in [RequestIds -> SUBSET CollectionRequest]
              /\ OnePerRequest(collectionOf', RequestIds)
              /\ Entered(collectionOf', IncomeFor(p), RequestIds)
                   = Entered(collectionOf, IncomeFor(p), RequestIds) + (IF p = o THEN usd ELSE 0)
  <2> DEFINE w == IncomeFor(p)
             Q == collectionOf'
  <2>1. w \in [CollectionRequest -> Nat]
    BY IncomeForNat
  <2>2. w[rec] = IF p = o THEN usd ELSE 0
    BY <1>10 DEF IncomeFor
  <2>3. Q \in [RequestIds -> SUBSET CollectionRequest] /\ Q[k] = {rec} /\ \A h \in RequestIds \ {k} : Q[h] = collectionOf[h]
    BY <1>1, <1>10, <1>11
  <2>4. Entered(collectionOf', w, RequestIds) = Entered(Q, w, RequestIds)
    OBVIOUS
  <2> HIDE DEF w, Q
  <2>5. OnePerRequest(Q, RequestIds) /\ Entered(Q, w, RequestIds) = Entered(collectionOf, w, RequestIds) + w[rec]
    BY <1>10, <1>11, <2>1, <2>3, EnteredMore
  <2> QED BY <2>2, <2>3, <2>4, <2>5 DEF w, Q
<1>13. /\ invoices' \in [Invoiceable -> SUBSET InvoiceRow] /\ invoices'[o] = {row}
       /\ \A p \in Invoiceable \ {o} : invoices'[p] = invoices[p]
       /\ incomeOf' \in [Invoiceable -> Nat] /\ incomeOf'[o] = incomeOf[o] + usd
       /\ \A p \in Invoiceable \ {o} : incomeOf'[p] = incomeOf[p]
  BY <1>1, <1>2, <1>4, <1>8 DEF ReceivablesTypeOK
<1>14. ReceivablesTypeOK' /\ WarrantedOnce'
  BY <1>1, <1>2, <1>12, <1>13 DEF ReceivablesTypeOK, ReceivablesInv, WarrantedOnce
<1>15. OneInvoiceRow(invoices') /\ InvoicesFair(invoices')
  BY <1>9, <1>13 DEF ReceivablesInv, OneInvoiceRow, InvoicesFair
<1>16. NoneBefore(invoices', collectionOf')
  <2> SUFFICES ASSUME NEW h \in RequestIds, NEW r \in collectionOf'[h]
               PROVE  invoices'[r.order] # {}
    BY DEF NoneBefore
  <2>1. r \in collectionOf[h] \/ r = rec
    BY <1>1, <1>11
  <2>2. CASE r = rec
    BY <1>10, <1>13, <2>2
  <2>3. CASE r \in collectionOf[h]
    <3>1. r.order \in Invoiceable /\ invoices[r.order] # {}
      BY <1>11, <2>3 DEF ReceivablesInv, NoneBefore, CollectionRequest
    <3> QED BY <1>13, <3>1
  <2> QED BY <2>1, <2>2, <2>3
<1>17. InvoicesBacked(invoices', incomeOf', collectionOf')
  <2> SUFFICES ASSUME NEW p \in Invoiceable, NEW x \in invoices'[p]
               PROVE  incomeOf'[p] = x.atIssue + x.net /\ x.net = Entered(collectionOf', IncomeFor(p), RequestIds)
    BY DEF InvoicesBacked
  <2>1. CASE p = o
    <3>1. i.atIssue \in Nat /\ i.net \in Nat
      BY <1>2 DEF InvoiceRow
    <3> QED BY <1>4, <1>5, <1>8, <1>12, <1>13, <2>1, <3>1
  <2>2. CASE p # o
    <3>1. x \in invoices[p] /\ x \in InvoiceRow
      BY <1>2, <1>13, <2>2 DEF ReceivablesTypeOK
    <3>2. incomeOf[p] = x.atIssue + x.net /\ x.net = Entered(collectionOf, IncomeFor(p), RequestIds) /\ x.net \in Nat
      BY <3>1 DEF ReceivablesInv, InvoicesBacked, InvoiceRow
    <3> QED BY <1>12, <1>13, <2>2, <3>2
  <2> QED BY <2>1, <2>2
<1> QED BY <1>12, <1>14, <1>15, <1>16, <1>17 DEF ReceivablesInv

\* Every operation keeps the invariant.
LEMMA ReceivablesStep == ReceivablesInv /\ [ReceivablesNext]_receivableVars => ReceivablesInv'
<1> SUFFICES ASSUME ReceivablesInv, [ReceivablesNext]_receivableVars PROVE ReceivablesInv'
  OBVIOUS
<1> USE DEF ReceivablesInv
<1>1. ASSUME NEW r \in Rates \union {NoRate}, PublishRate(r) PROVE ReceivablesInv'
  BY <1>1, OtherRoutesKeep DEF PublishRate, ReceivablesTypeOK
<1>2. ASSUME NEW o \in Invoiceable, AskQuote(o) PROVE ReceivablesInv'
  <2>1. NewQuote(o) \in Quote
    BY DEF NewQuote, Quote, ReceivablesTypeOK
  <2> QED BY <1>2, <2>1, OtherRoutesKeep DEF AskQuote, ReceivablesTypeOK
<1>3. ASSUME NEW o \in Invoiceable, NEW n \in Subtotals, Reprice(o, n) PROVE ReceivablesInv'
  BY <1>3, OtherRoutesKeep DEF Reprice, ReceivablesTypeOK
<1>4. ASSUME NEW o \in Invoiceable, SetVin(o) PROVE ReceivablesInv'
  BY <1>4, OtherRoutesKeep DEF SetVin, ReceivablesTypeOK
<1>5. ASSUME NEW o \in Invoiceable, CloseInvoiced(o) PROVE ReceivablesInv'
  <2>1. /\ warrantySets' = WarrantiesGiven(o) /\ closedOrders' = closedOrders \union {o}
        /\ UNCHANGED <<rateToday, priced, quotes, invoices, collectionOf, incomeOf, vinOf>>
    BY <1>5 DEF CloseInvoiced
  <2>2. warrantySets' \in [Invoiceable -> Nat] /\ WarrantedOnce'
    BY <2>1, GivenOnce
  <2>3. ReceivablesTypeOK'
    BY <2>1, <2>2 DEF ReceivablesTypeOK
  <2>4. \A p \in Invoiceable : Entered(collectionOf', IncomeFor(p), RequestIds) = Entered(collectionOf, IncomeFor(p), RequestIds)
    BY <2>1
  <2> QED BY <2>1, <2>2, <2>3, <2>4 DEF OneInvoiceRow, OnePerRequest, InvoicesFair, InvoicesBacked, NoneBefore
<1>6. CASE UNCHANGED receivableVars
  <2>1. UNCHANGED <<rateToday, priced, quotes, invoices, collectionOf, incomeOf, vinOf, closedOrders, warrantySets>>
    BY <1>6 DEF receivableVars
  <2>2. ReceivablesTypeOK'
    BY <2>1 DEF ReceivablesTypeOK
  <2> QED BY <2>1, <2>2, OtherRoutesKeep
<1> HIDE DEF ReceivablesInv
<1>7. CASE BillingRoutes
  BY <1>2, <1>7, IssueKeeps DEF BillingRoutes
<1>8. CASE CollectionRoutes
  BY <1>8, CollectKeeps DEF CollectionRoutes
<1> QED BY <1>1, <1>3, <1>4, <1>5, <1>6, <1>7, <1>8 DEF ReceivablesNext

\* Before the first invoice the invariant holds,
LEMMA ReceivablesStart == ReceivablesInit => ReceivablesInv
<1> SUFFICES ASSUME ReceivablesInit PROVE ReceivablesInv
  OBVIOUS
<1>1. ReceivablesTypeOK
  BY DEF ReceivablesInit, ReceivablesTypeOK
<1>2. OneInvoiceRow(invoices) /\ OnePerRequest(collectionOf, RequestIds) /\ InvoicesFair(invoices)
      /\ InvoicesBacked(invoices, incomeOf, collectionOf) /\ NoneBefore(invoices, collectionOf) /\ WarrantedOnce
  BY DEF ReceivablesInit, OneInvoiceRow, OnePerRequest, InvoicesFair, InvoicesBacked, NoneBefore, WarrantedOnce
<1> QED BY <1>1, <1>2 DEF ReceivablesInv

\* and so it does of the component on its own.
LEMMA ReceivablesHold == ReceivablesSpec => []ReceivablesInv
<1> QED BY ReceivablesStart, ReceivablesStep, PTL DEF ReceivablesSpec

\* The total of the invoice that is issued.
LEMMA IssuedTotal ==
  ASSUME NEW o \in Invoiceable, NEW t \in Tenders, NEW ret \in Retentions, Issue(o, t, ret)
  PROVE  \E x : /\ invoices' = [invoices EXCEPT ![o] = {x}]
                /\ x.total = TotalOf(priced[o]) + Percent(UsdBase(TotalOf(priced[o]), t[1], t[2]), Igtf)
<1> DEFINE base == TotalOf(priced[o])
           total == base + Percent(UsdBase(base, t[1], t[2]), Igtf)
           kept == Retained(priced[o], ret)
           row == [total |-> total, retained |-> kept, atIssue |-> PaidNow(t), withheld |-> 0, net |-> 0,
                   collected |-> PaidNow(t) >= total - kept]
<1>1. invoices' = [invoices EXCEPT ![o] = {row}]
  BY DEF Issue
<1>2. row.total = total
  OBVIOUS
<1> HIDE DEF row
<1> QED BY <1>1, <1>2

\* An invoice is issued as the quote said, at today's rate.
LEMMA IssuedAsQuoted ==
  ASSUME ReceivablesInv, ReceivablesNext, NEW o \in Invoiceable, invoices[o] = {}, invoices'[o] # {}
  PROVE  \E q \in quotes[o] : \A i \in invoices'[o] :
           /\ q.rate = rateToday
           /\ i.total - TotalOf(q.subtotal) \in 0..Percent(TotalOf(q.subtotal), Igtf)
<1>1. invoices \in [Invoiceable -> SUBSET InvoiceRow] /\ priced \in [Invoiceable -> Subtotals]
  BY DEF ReceivablesInv, ReceivablesTypeOK
<1>2. PICK t \in Tenders, ret \in Retentions : Issue(o, t, ret)
  <2>1. CASE BillingRoutes
    <3>1. PICK p \in Invoiceable : AskQuote(p) \/ \E t \in Tenders, ret \in Retentions : Issue(p, t, ret)
      BY <2>1 DEF BillingRoutes
    <3>2. CASE AskQuote(p)
      BY <3>2 DEF AskQuote
    <3>3. ASSUME NEW t \in Tenders, NEW ret \in Retentions, Issue(p, t, ret)
          PROVE  p = o
      <4>1. \E x : invoices' = [invoices EXCEPT ![p] = x]
        BY <3>3 DEF Issue
      <4> QED BY <1>1, <4>1
    <3> QED BY <3>1, <3>2, <3>3
  <2>2. CASE CollectionRoutes
    <3>1. PICK p \in Invoiceable, k \in RequestIds, c \in Collections : CollectInvoice(p, k, c)
      BY <2>2 DEF CollectionRoutes
    <3>2. invoices[p] # {} /\ \E x : invoices' = [invoices EXCEPT ![p] = x]
      BY <3>1 DEF CollectInvoice, Issued
    <3> QED BY <1>1, <3>2
  <2>3. CASE \E r \in Rates \union {NoRate} : PublishRate(r)
    BY <2>3 DEF PublishRate
  <2>4. CASE \E p \in Invoiceable : (\E n \in Subtotals : Reprice(p, n)) \/ SetVin(p) \/ CloseInvoiced(p)
    BY <2>4 DEF Reprice, SetVin, CloseInvoiced
  <2> QED BY <2>1, <2>2, <2>3, <2>4 DEF ReceivablesNext
<1> DEFINE base == TotalOf(priced[o])
           u == UsdBase(base, t[1], t[2])
<1>3. quotes[o] = {NewQuote(o)} /\ Splits(base, t[1], t[2], rateToday)
  BY <1>2 DEF Issue, SameQuote
<1>4. \E x : invoices' = [invoices EXCEPT ![o] = {x}] /\ x.total = base + Percent(u, Igtf)
  BY <1>2, IssuedTotal
<1>5. \A i \in invoices'[o] : i.total = base + Percent(u, Igtf)
  BY <1>1, <1>4
<1>6. base \in Nat /\ Igtf \in Nat
  BY <1>1, AmountsNat, MoneyAssumption
<1>7. t[1] \in Methods /\ t[2] \in Nat
  BY TenderParts
<1>8. NewQuote(o).rate = rateToday /\ TotalOf(NewQuote(o).subtotal) = base
  BY DEF NewQuote
<1> HIDE DEF base
<1>9. u \in Nat /\ u <= base
  BY <1>3, <1>6, <1>7, UsdBaseNat
<1> HIDE DEF u
<1>10. Percent(u, Igtf) \in Nat /\ Percent(base, Igtf) \in Nat /\ Percent(u, Igtf) <= Percent(base, Igtf)
  BY <1>6, <1>9, PercentNat, PercentMonotone
<1>11. \A i \in invoices'[o] : i.total - base \in 0..Percent(base, Igtf)
  BY <1>5, <1>6, <1>10
<1> QED BY <1>3, <1>8, <1>11

\* The invoices of a component on its own are as quoted.
LEMMA QuotedStep ==
  ReceivablesInv /\ [ReceivablesNext]_receivableVars =>
    [\A o \in Invoiceable : invoices[o] = {} /\ invoices'[o] # {} =>
       \E q \in quotes[o] : \A i \in invoices'[o] :
         /\ q.rate = rateToday
         /\ i.total - TotalOf(q.subtotal) \in 0..Percent(TotalOf(q.subtotal), Igtf)]_receivableVars
BY IssuedAsQuoted

-----------------------------------------------------------------------------
(* First in, first out *)

\* What is taken of lots in their order is what is asked, or all there is.
LEMMA FifoSum ==
  ASSUME NEW N \in Nat, NEW q \in Nat, NEW a, NEW t,
         \A l \in 1..N : a[l] \in Nat /\ t[l] = Least(a[l], Most(0, q - SumFunctionOnSet(a, 1..(l - 1))))
  PROVE  /\ \A l \in 1..N : t[l] \in Nat /\ t[l] <= a[l]
         /\ SumFunctionOnSet(a, 1..N) \in Nat
         /\ SumFunctionOnSet(t, 1..N) = Least(q, SumFunctionOnSet(a, 1..N))
<1> DEFINE A(n) == SumFunctionOnSet(a, 1..n)
<1>1. ASSUME NEW l \in 1..N
      PROVE  a[l] \in Nat /\ t[l] = OutOf(a[l], q - A(l - 1))
  <2>1. IsFiniteSet(1..(l - 1))
    BY PlacesFinite
  <2>2. A(l - 1) \in Nat
    BY <2>1, SumNat
  <2>3. a[l] \in Nat /\ t[l] = Least(a[l], Most(0, q - A(l - 1)))
    OBVIOUS
  <2> HIDE DEF A
  <2> QED BY <2>2, <2>3 DEF OutOf, Least, Most
<1>2. /\ \A l \in 1..N : t[l] \in Nat /\ t[l] <= a[l]
      /\ A(N) \in Nat
      /\ SumFunctionOnSet(t, 1..N) = OutOf(A(N), q)
  BY <1>1, SumServed
<1> HIDE DEF A
<1>3. SumFunctionOnSet(t, 1..N) = Least(q, A(N))
  BY <1>2 DEF OutOf, Least
<1> QED BY <1>2, <1>3 DEF A

-----------------------------------------------------------------------------
(* Counter: units, money and the stock counter *)

\* What the sales that were not cancelled took of a lot.
TakenBy(S, l) == [s \in Sales |-> IF S[s].status = "cancelado" THEN 0 ELSE S[s].takes[l]]
Taken(S, l) == SumFunctionOnSet(TakenBy(S, l), Sales)
\* What is left of each lot.
Left(P) == [l \in ShelfIds |-> P[l].remaining]
\* What a receipt says of a sale.
SaleIncome(s) == [r \in SaleReceipt |-> IF r.sale = s THEN r.income ELSE 0]

UnsoldBlank(S) == \A s \in Sales : S[s].status = "ninguna" =>
  S[s].takes = NoTakes /\ S[s].quantity = 0 /\ S[s].collected = 0 /\ S[s].igtf = 0
TakesAdd(S) == \A s \in Sales : SumFunctionOnSet(S[s].takes, ShelfIds) = S[s].quantity
ShelfBalanced(P, S) == \A l \in ShelfIds : P[l].received = P[l].remaining + Taken(S, l)
TotalOfSale(x) == x.quantity * Price + Percent(x.quantity * Price, Iva) + x.igtf
SalesFair(S) == \A s \in Sales :
  S[s].collected <= TotalOfSale(S[s]) /\ (S[s].status = "cancelado" => S[s].collected = 0)
SalesBacked(S, R) == \A s \in Sales : S[s].collected = Entered(R, SaleIncome(s), RequestIds)
\* A cancellation holds a sale that may still be cancelled, and no other handler does.
Cancelling(U, S) == \A w \in Writers : \A r \in U[w] : \A s \in r.sale :
  S[s].status \in {"pendiente", "pedido"} /\ S[s].collected = 0 /\ r.adds = S[s].quantity
HeldOnce(U) == \A w, x \in Writers : \A r \in U[w], q \in U[x] : \A s \in Sales : s \in r.sale /\ s \in q.sale => w = x
InSync == ~overwritten => stockQuantity = SumFunctionOnSet(Left(partLots), ShelfIds)

CounterInv ==
  /\ CounterTypeOK
  /\ OnePerRequest(saleReceipts, RequestIds)
  /\ UnsoldBlank(sales) /\ TakesAdd(sales) /\ ShelfBalanced(partLots, sales)
  /\ SalesFair(sales) /\ SalesBacked(sales, saleReceipts)
  /\ Cancelling(unlocked, sales) /\ HeldOnce(unlocked)
  /\ InSync

\* The lots, the sales and the requests are finitely many.
LEMMA ShelfFinite == IsFiniteSet(ShelfIds) /\ ShelfIds \subseteq Nat \ {0} /\ IsFiniteSet(Sales) /\ IsFiniteSet(RequestIds)
<1>1. MaxShelf \in Int /\ IsFiniteSet(Sales)
  BY CounterAssumption
<1>2. IsFiniteSet(ShelfIds)
  BY <1>1, PlacesFinite DEF ShelfIds
<1>3. ShelfIds \subseteq Nat \ {0}
  BY <1>1 DEF ShelfIds
<1> QED BY <1>1, <1>2, <1>3, MoneyAssumption

\* What a receipt says of a sale is an amount.
LEMMA SaleIncomeNat == ASSUME NEW s PROVE SaleIncome(s) \in [SaleReceipt -> Nat]
BY DEF SaleIncome, SaleReceipt

\* A lot has what is on it and what was taken.
LEMMA TakenNat ==
  ASSUME NEW S \in [Sales -> SaleRow], NEW l \in ShelfIds
  PROVE  (\A s \in Sales : TakenBy(S, l)[s] \in Nat) /\ Taken(S, l) \in Nat
<1>1. \A s \in Sales : TakenBy(S, l)[s] \in Nat
  BY DEF TakenBy, SaleRow
<1> QED BY <1>1, ShelfFinite, SumNat DEF Taken

\* What is left of the lots is an amount, together too.
LEMMA LeftNat ==
  ASSUME NEW P \in [ShelfIds -> [received : Nat, remaining : Nat]]
  PROVE  (\A l \in ShelfIds : Left(P)[l] = P[l].remaining /\ Left(P)[l] \in Nat) /\ SumFunctionOnSet(Left(P), ShelfIds) \in Nat
<1>1. \A l \in ShelfIds : Left(P)[l] = P[l].remaining /\ Left(P)[l] \in Nat
  BY DEF Left
<1> QED BY <1>1, ShelfFinite, SumNat

\* The units on the shelf are those left of the lots.
LEMMA OnShelfIsLeft == OnShelf = SumFunctionOnSet(Left(partLots), ShelfIds)
<1>1. DOMAIN Left(partLots) = ShelfIds
  BY DEF Left
<1>2. OnShelf = SumFunction(Left(partLots))
  BY DEF OnShelf, Left
<1> HIDE DEF Left
<1> QED BY <1>1, <1>2 DEF SumFunction

\* The invariant says what the runs check.
LEMMA BalancedIsAccounted == CounterInv => SalesAccounted
<1> SUFFICES ASSUME CounterInv PROVE SalesAccounted
  OBVIOUS
<1>1. saleReceipts \in [RequestIds -> SUBSET SaleReceipt] /\ OnePerRequest(saleReceipts, RequestIds)
  BY DEF CounterInv, CounterTypeOK
<1>2. UnitsAccountedFor
  <2> SUFFICES ASSUME NEW l \in ShelfIds
               PROVE  Received(l) = partLots[l].remaining
                        + SumFunction([s \in Sales |-> IF sales[s].status = "cancelado" THEN 0 ELSE sales[s].takes[l]])
    BY DEF UnitsAccountedFor
  <2>1. DOMAIN TakenBy(sales, l) = Sales
    BY DEF TakenBy
  <2>2. SumFunction(TakenBy(sales, l)) = Taken(sales, l)
    BY <2>1 DEF SumFunction, Taken
  <2>3. SumFunction(TakenBy(sales, l))
          = SumFunction([s \in Sales |-> IF sales[s].status = "cancelado" THEN 0 ELSE sales[s].takes[l]])
    BY DEF TakenBy
  <2> QED BY <2>2, <2>3 DEF CounterInv, ShelfBalanced, Received
<1>3. ASSUME NEW o \in Sales
      PROVE  Entered(saleReceipts, SaleIncome(o), RequestIds) = SumFunction([k \in RequestIds |->
               SumFunction([r \in saleReceipts[k] |-> IF r.sale = o THEN r.income ELSE 0])])
  <2> DEFINE part(k) == [r \in saleReceipts[k] |-> IF r.sale = o THEN r.income ELSE 0]
             parts == [k \in RequestIds |-> SumFunction(part(k))]
             w == SaleIncome(o)
             sums == [k \in RequestIds |-> SumFunctionOnSet(w, saleReceipts[k])]
  <2>1. w \in [SaleReceipt -> Nat]
    BY SaleIncomeNat
  <2>2. \A k \in RequestIds : IsFiniteSet(saleReceipts[k])
    <3> HIDE DEF w
    <3> QED BY <1>1, <2>1, ShelfFinite, EnteredNat
  <2>3. ASSUME NEW k \in RequestIds
        PROVE  parts[k] = sums[k]
    <3>1. DOMAIN part(k) = saleReceipts[k] /\ \A r \in saleReceipts[k] : part(k)[r] = w[r]
      BY <1>1 DEF SaleIncome
    <3>2. parts[k] = SumFunction(part(k)) /\ sums[k] = SumFunctionOnSet(w, saleReceipts[k])
      OBVIOUS
    <3> HIDE DEF part, w, parts, sums
    <3>3. SumFunction(part(k)) = SumFunctionOnSet(part(k), saleReceipts[k])
      BY <3>1 DEF SumFunction
    <3>4. SumFunctionOnSet(part(k), saleReceipts[k]) = SumFunctionOnSet(w, saleReceipts[k])
      BY <2>2, <3>1, SumEqual
    <3> QED BY <3>2, <3>3, <3>4
  <2>4. SumFunction(parts) = SumFunctionOnSet(parts, RequestIds)
    <3>1. DOMAIN parts = RequestIds
      OBVIOUS
    <3> HIDE DEF parts
    <3> QED BY <3>1 DEF SumFunction
  <2>5. Entered(saleReceipts, SaleIncome(o), RequestIds) = SumFunctionOnSet(sums, RequestIds)
    BY DEF Entered
  <2>6. SumFunction(parts) = SumFunction([k \in RequestIds |->
               SumFunction([r \in saleReceipts[k] |-> IF r.sale = o THEN r.income ELSE 0])])
    OBVIOUS
  <2> HIDE DEF parts, sums
  <2>7. SumFunctionOnSet(parts, RequestIds) = SumFunctionOnSet(sums, RequestIds)
    BY <2>3, ShelfFinite, SumEqual
  <2> QED BY <2>4, <2>5, <2>6, <2>7
<1>4. ASSUME NEW k \in RequestIds
      PROVE  Cardinality(saleReceipts[k]) <= 1
  <2>1. CASE saleReceipts[k] = {}
    BY <2>1, FS_EmptySet
  <2>2. ASSUME NEW x \in saleReceipts[k]
        PROVE  Cardinality(saleReceipts[k]) <= 1
    <3>1. saleReceipts[k] = {x}
      BY <1>1 DEF OnePerRequest
    <3>2. Cardinality({x}) = 1
      BY FS_Singleton
    <3>3. Cardinality(saleReceipts[k]) = 1
      BY <3>1, <3>2, Zenon
    <3> QED BY <3>3
  <2> QED BY <2>1, <2>2
<1>5. CollectedOnce
  <2>1. \A s \in Sales : SaleTotal(s) = TotalOfSale(sales[s])
    BY DEF SaleTotal, Subtotal, TotalOfSale
  <2> QED BY <1>3, <1>4, <2>1 DEF CounterInv, SalesFair, SalesBacked, CollectedOnce
<1>6. DriftsByOverwrite
  BY OnShelfIsLeft DEF CounterInv, InSync, DriftsByOverwrite, CounterInSync
<1> QED BY <1>2, <1>5, <1>6 DEF SalesAccounted

\* A collection that is not more than is due of each currency is not more than is due.
LEMMA NotMoreThanBase ==
  ASSUME NEW base \in Nat, NEW t \in Tenders, Splits(base, t[1], t[2], Bcv),
         t[3] <= DueUsd(base, t[1], t[2], Igtf), t[4] <= DueBs(base, t[1], t[2], Bcv)
  PROVE  /\ t[3] \in Nat /\ WithoutIgtf(t[3], Igtf) \in Nat /\ InUsd(t[4], Bcv) \in Nat
         /\ WithoutIgtf(t[3], Igtf) <= t[3]
         /\ WithoutIgtf(t[3], Igtf) + InUsd(t[4], Bcv) <= base
<1> DEFINE u == UsdBase(base, t[1], t[2])
           x == t[3]
           y == t[4]
           p == Igtf
           d == 100 + p
           m == base - u
           up == u * p
           xp == x * p
           ud == u * d
           xd == x * d
           mb == m * Bcv
           c == Percent(u, p)
<1>1. t[1] \in Methods /\ t[2] \in Nat /\ x \in Nat /\ y \in Nat
  BY TenderParts
<1>2. p \in Nat /\ Bcv \in Nat \ {0}
  BY MoneyAssumption, CounterAssumption
<1>3. u \in Nat /\ u <= base
  BY <1>1, UsdBaseNat
<1>4. x <= u + c /\ y <= mb
  BY DEF DueUsd, DueBs
<1>5. WithoutIgtf(t[3], Igtf) = Rounded(x * 100, d)
  BY DEF WithoutIgtf
<1>6. InUsd(t[4], Bcv) = IF y = 0 THEN 0 ELSE Rounded(y, Bcv)
  BY DEF InUsd
<1>7. c = (2 * up + 100) \div (2 * 100)
  BY DEF Percent, Rounded
<1> HIDE DEF u, x, y, p
<1>8. up \in Nat /\ xp \in Nat /\ ud = 100 * u + up /\ xd = 100 * x + xp /\ (p = 0 => up = 0)
  BY <1>1, <1>2, <1>3
<1>9. m \in Nat
  BY <1>3
<1> HIDE DEF m
<1>10. mb \in Nat
  BY <1>2, <1>9
<1>11. c \in Nat /\ 200 * c <= 2 * up + 100
  <2> HIDE DEF up, c
  <2> QED BY <1>7, <1>8
<1> HIDE DEF up, xp, ud, xd, mb, c
<1>12. 2 * (x * 100) < 2 * ud + d
  <2>1. CASE p = 0
    <3>1. c = 0
      BY <1>8, <1>11, <2>1
    <3> QED BY <1>1, <1>2, <1>3, <1>4, <1>8, <2>1, <3>1
  <2>2. CASE p > 0
    BY <1>1, <1>2, <1>3, <1>4, <1>8, <1>11, <2>2
  <2> QED BY <1>2, <2>1, <2>2
<1>13. 2 * (x * 100) < 2 * xd + d
  BY <1>1, <1>2, <1>8
<1>14. x * 100 \in Nat /\ d \in Nat \ {0}
  BY <1>1, <1>2
<1> HIDE DEF d
<1> DEFINE n == x * 100
<1>15. 2 * n < 2 * (u * d) + d /\ 2 * n < 2 * (x * d) + d /\ n \in Nat
  BY <1>12, <1>13, <1>14 DEF ud, xd
<1>16. WithoutIgtf(t[3], Igtf) = Rounded(n, d)
  BY <1>5
<1> HIDE DEF n
<1>17. Rounded(n, d) <= u
  BY <1>3, <1>14, <1>15, RoundedAtMost
<1>18. Rounded(n, d) <= x
  BY <1>1, <1>14, <1>15, RoundedAtMost
<1>19. Rounded(n, d) \in Nat
  BY <1>14, <1>15, RoundedNat
<1>20. InUsd(t[4], Bcv) \in Nat /\ InUsd(t[4], Bcv) <= m
  <2>1. 2 * y < 2 * (m * Bcv) + Bcv
    <3>1. 2 * y < 2 * mb + Bcv
      BY <1>1, <1>2, <1>4, <1>10
    <3> QED BY <3>1 DEF mb
  <2>2. Rounded(y, Bcv) <= m
    BY <1>1, <1>2, <1>9, <2>1, RoundedAtMost
  <2>3. Rounded(y, Bcv) \in Nat
    BY <1>1, <1>2, RoundedNat
  <2> QED BY <1>6, <1>9, <2>2, <2>3
<1>21. m = base - u
  BY DEF m
<1> QED BY <1>1, <1>3, <1>16, <1>17, <1>18, <1>19, <1>20, <1>21 DEF x

\* The slot of a new lot has no units.
LEMMA NextLotFree ==
  ASSUME CounterInv, FreeSlots # {}
  PROVE  NextSlot \in ShelfIds /\ partLots[NextSlot].received = 0 /\ partLots[NextSlot].remaining = 0
         /\ Taken(sales, NextSlot) = 0
<1>1. FreeSlots \in SUBSET Nat
  BY ShelfFinite DEF FreeSlots
<1>2. PICK l \in FreeSlots : \A m \in FreeSlots : l <= m
  <2> HIDE DEF FreeSlots
  <2> QED BY <1>1, LeastNumber
<1>3. NextSlot \in FreeSlots
  BY <1>2 DEF NextSlot
<1>4. NextSlot \in ShelfIds /\ partLots[NextSlot].received = 0
  BY <1>3 DEF FreeSlots, Received
<1>5. partLots[NextSlot].received = partLots[NextSlot].remaining + Taken(sales, NextSlot)
  BY <1>4 DEF CounterInv, ShelfBalanced
<1>6. partLots[NextSlot].remaining \in Nat /\ Taken(sales, NextSlot) \in Nat
  BY <1>4, TakenNat DEF CounterInv, CounterTypeOK
<1> QED BY <1>4, <1>5, <1>6

\* A new lot adds its units to the shelf.
LEMMA LotArrives ==
  ASSUME CounterInv, FreeSlots # {}, NEW n \in Nat, partLots' = WithLot(n), UNCHANGED sales
  PROVE  /\ partLots' \in [ShelfIds -> [received : Nat, remaining : Nat]]
         /\ ShelfBalanced(partLots', sales')
         /\ SumFunctionOnSet(Left(partLots'), ShelfIds) = SumFunctionOnSet(Left(partLots), ShelfIds) + n
<1> DEFINE d == NextSlot
           new == [received |-> n, remaining |-> n]
           P == partLots'
           f == Left(partLots)
           g == Left(P)
<1>1. d \in ShelfIds /\ partLots[d].received = 0 /\ partLots[d].remaining = 0 /\ Taken(sales, d) = 0
  BY NextLotFree
<1>2. partLots \in [ShelfIds -> [received : Nat, remaining : Nat]]
  BY DEF CounterInv, CounterTypeOK
<1>3. P = [partLots EXCEPT ![d] = new]
  BY DEF WithLot
<1>4. new \in [received : Nat, remaining : Nat] /\ new.received = n /\ new.remaining = n
  OBVIOUS
<1>5. SumFunctionOnSet(Left(partLots'), ShelfIds) = SumFunctionOnSet(g, ShelfIds)
      /\ SumFunctionOnSet(Left(partLots), ShelfIds) = SumFunctionOnSet(f, ShelfIds)
      /\ partLots' = P
  OBVIOUS
<1>0. \A l \in ShelfIds : Taken(sales', l) = Taken(sales, l)
  OBVIOUS
<1> HIDE DEF new, d, P
<1>6. P \in [ShelfIds -> [received : Nat, remaining : Nat]] /\ P[d] = new /\ \A l \in ShelfIds \ {d} : P[l] = partLots[l]
  BY <1>1, <1>2, <1>3, <1>4
<1>7. \A l \in ShelfIds : f[l] \in Int
  BY <1>2, LeftNat
<1>8. g[d] = n /\ f[d] = 0 /\ \A l \in ShelfIds \ {d} : g[l] = f[l]
  BY <1>1, <1>4, <1>6 DEF Left
<1>9. SumFunctionOnSet(f, ShelfIds) \in Nat
  BY <1>2, LeftNat
<1> HIDE DEF f, g
<1>10. IsFiniteSet(ShelfIds) /\ g[d] \in Int
  BY <1>8, ShelfFinite
<1>11. SumFunctionOnSet(g, ShelfIds) = SumFunctionOnSet(f, ShelfIds) - f[d] + g[d]
  BY <1>1, <1>7, <1>8, <1>10, SumChange
<1>12. ShelfBalanced(partLots', sales')
  <2> SUFFICES ASSUME NEW l \in ShelfIds
               PROVE  partLots'[l].received = partLots'[l].remaining + Taken(sales', l)
    BY DEF ShelfBalanced
  <2>1. CASE l = d
    BY <1>0, <1>1, <1>4, <1>5, <1>6, <2>1
  <2>2. CASE l # d
    BY <1>0, <1>5, <1>6, <2>2 DEF CounterInv, ShelfBalanced
  <2> QED BY <2>1, <2>2
<1> QED BY <1>5, <1>6, <1>8, <1>9, <1>11, <1>12

\* Everything but the lots, the counter and the writers stays.
LEMMA SalesStay ==
  ASSUME CounterInv, UNCHANGED <<sales, saleReceipts>>
  PROVE  /\ OnePerRequest(saleReceipts', RequestIds) /\ UnsoldBlank(sales') /\ TakesAdd(sales')
         /\ SalesFair(sales') /\ SalesBacked(sales', saleReceipts')
         /\ sales' \in [Sales -> SaleRow] /\ saleReceipts' \in [RequestIds -> SUBSET SaleReceipt]
<1>1. \A s \in Sales : Entered(saleReceipts', SaleIncome(s), RequestIds) = Entered(saleReceipts, SaleIncome(s), RequestIds)
  OBVIOUS
<1>2. \A s \in Sales : SumFunctionOnSet(sales'[s].takes, ShelfIds) = SumFunctionOnSet(sales[s].takes, ShelfIds)
  OBVIOUS
<1> QED BY <1>1, <1>2 DEF CounterInv, CounterTypeOK, OnePerRequest, UnsoldBlank, TakesAdd, SalesFair, SalesBacked, TotalOfSale

\* A stock entry is a new lot, and as many units on the counter.
LEMMA EnterKeeps == ASSUME CounterInv, EnterStock PROVE CounterInv'
<1>1. PICK n \in LotSizes : /\ FreeSlots # {} /\ partLots' = WithLot(n) /\ stockQuantity' = stockQuantity + n
                            /\ UNCHANGED <<sales, saleReceipts, unlocked, overwritten>>
  BY DEF EnterStock
<1>2. n \in Nat
  BY CounterAssumption
<1>3. /\ partLots' \in [ShelfIds -> [received : Nat, remaining : Nat]]
      /\ ShelfBalanced(partLots', sales')
      /\ SumFunctionOnSet(Left(partLots'), ShelfIds) = SumFunctionOnSet(Left(partLots), ShelfIds) + n
  BY <1>1, <1>2, LotArrives
<1>4. CounterTypeOK'
  BY <1>1, <1>2, <1>3 DEF CounterInv, CounterTypeOK
<1>5. Cancelling(unlocked', sales') /\ HeldOnce(unlocked')
  BY <1>1 DEF CounterInv, Cancelling, HeldOnce
<1>6. InSync'
  BY <1>1, <1>3 DEF CounterInv, InSync
<1> QED BY <1>1, <1>3, <1>4, <1>5, <1>6, SalesStay DEF CounterInv

\* A free sale is in no cancellation.
LEMMA FreeIsNotHeld ==
  ASSUME CounterInv, NEW s \in Sales, SaleFree(s)
  PROVE  \A w \in Writers : \A r \in unlocked[w] : s \notin r.sale
BY DEF SaleFree, HeldSales

\* A sale changes in what no lot and no writer depends on.
LEMMA SaleMoves ==
  ASSUME CounterInv, NEW s \in Sales, NEW row \in SaleRow, sales' = [sales EXCEPT ![s] = row],
         row.takes = sales[s].takes, row.quantity = sales[s].quantity,
         row.status # "cancelado", sales[s].status # "cancelado", row.status # "ninguna",
         row.collected <= TotalOfSale(row),
         \A w \in Writers : \A r \in unlocked[w] : s \notin r.sale,
         UNCHANGED <<partLots, stockQuantity, unlocked, overwritten>>,
         saleReceipts' \in [RequestIds -> SUBSET SaleReceipt], OnePerRequest(saleReceipts', RequestIds),
         \A x \in Sales : Entered(saleReceipts', SaleIncome(x), RequestIds)
           = Entered(saleReceipts, SaleIncome(x), RequestIds) + IF x = s THEN row.collected - sales[s].collected ELSE 0
  PROVE  CounterInv'
<1>1. /\ sales \in [Sales -> SaleRow] /\ sales' \in [Sales -> SaleRow] /\ sales'[s] = row
      /\ \A x \in Sales \ {s} : sales'[x] = sales[x]
  BY DEF CounterInv, CounterTypeOK
<1>2. CounterTypeOK'
  BY <1>1 DEF CounterInv, CounterTypeOK
<1>3. UnsoldBlank(sales') /\ SalesFair(sales')
  BY <1>1 DEF CounterInv, UnsoldBlank, SalesFair
<1>4. TakesAdd(sales')
  <2>1. \A x \in Sales : sales'[x].takes = sales[x].takes /\ sales'[x].quantity = sales[x].quantity
    BY <1>1
  <2> QED BY <2>1 DEF CounterInv, TakesAdd
<1>5. ShelfBalanced(partLots', sales')
  <2>1. ASSUME NEW l \in ShelfIds
        PROVE  Taken(sales', l) = Taken(sales, l)
    <3> DEFINE f == TakenBy(sales, l)
               g == TakenBy(sales', l)
    <3>1. \A x \in Sales : g[x] = f[x]
      BY <1>1 DEF TakenBy
    <3>2. Taken(sales', l) = SumFunctionOnSet(g, Sales) /\ Taken(sales, l) = SumFunctionOnSet(f, Sales)
      BY DEF Taken
    <3> HIDE DEF f, g
    <3> QED BY <3>1, <3>2, ShelfFinite, SumEqual
  <2> QED BY <2>1 DEF CounterInv, ShelfBalanced
<1>6. SalesBacked(sales', saleReceipts')
  <2> SUFFICES ASSUME NEW x \in Sales
               PROVE  sales'[x].collected = Entered(saleReceipts', SaleIncome(x), RequestIds)
    BY DEF SalesBacked
  <2>1. sales[x].collected = Entered(saleReceipts, SaleIncome(x), RequestIds) /\ sales[x].collected \in Nat
        /\ row.collected \in Nat
    BY <1>1 DEF CounterInv, SalesBacked, SaleRow
  <2>2. CASE x = s
    BY <1>1, <2>1, <2>2
  <2>3. CASE x # s
    BY <1>1, <2>1, <2>3
  <2> QED BY <2>2, <2>3
<1>7. Cancelling(unlocked', sales') /\ HeldOnce(unlocked')
  <2>1. HeldOnce(unlocked')
    BY DEF CounterInv
  <2>2. ASSUME NEW w \in Writers, NEW r \in unlocked[w], NEW x \in r.sale
        PROVE  sales'[x] = sales[x]
    <3>1. x \in Sales
      BY DEF CounterInv, CounterTypeOK, Writer
    <3> QED BY <1>1, <3>1
  <2>3. Cancelling(unlocked', sales')
    BY <2>2 DEF CounterInv, Cancelling
  <2> QED BY <2>1, <2>3
<1>8. InSync'
  <2>1. SumFunctionOnSet(Left(partLots'), ShelfIds) = SumFunctionOnSet(Left(partLots), ShelfIds)
    OBVIOUS
  <2> QED BY <2>1 DEF CounterInv, InSync
<1> QED BY <1>2, <1>3, <1>4, <1>5, <1>6, <1>7, <1>8 DEF CounterInv

\* The receipts are the same.
LEMMA ReceiptsStay ==
  ASSUME CounterInv, UNCHANGED saleReceipts, NEW s \in Sales, NEW n, n = sales[s].collected
  PROVE  /\ saleReceipts' \in [RequestIds -> SUBSET SaleReceipt] /\ OnePerRequest(saleReceipts', RequestIds)
         /\ \A x \in Sales : Entered(saleReceipts', SaleIncome(x), RequestIds)
              = Entered(saleReceipts, SaleIncome(x), RequestIds) + IF x = s THEN n - sales[s].collected ELSE 0
<1>1. n \in Nat /\ n - sales[s].collected = 0
  BY DEF CounterInv, CounterTypeOK, SaleRow
<1>2. ASSUME NEW x \in Sales
      PROVE  Entered(saleReceipts', SaleIncome(x), RequestIds)
               = Entered(saleReceipts, SaleIncome(x), RequestIds) + IF x = s THEN n - sales[s].collected ELSE 0
  <2>1. Entered(saleReceipts', SaleIncome(x), RequestIds) = Entered(saleReceipts, SaleIncome(x), RequestIds)
    OBVIOUS
  <2>2. Entered(saleReceipts, SaleIncome(x), RequestIds) \in Nat
    BY DEF CounterInv, CounterTypeOK, SalesBacked, SaleRow
  <2> QED BY <1>1, <2>1, <2>2
<1> QED BY <1>2 DEF CounterInv, CounterTypeOK

\* The warehouse pulls what was sold,
LEMMA DispatchKeeps ==
  ASSUME CounterInv, NEW s \in Sales, NEW n \in SaleSizes, DispatchSale(s, n)
  PROVE  CounterInv'
<1> DEFINE row == [sales[s] EXCEPT !.status = "pedido", !.dispatched = n]
<1>1. /\ SaleFree(s) /\ sales[s].status = "pendiente" /\ sales' = [sales EXCEPT ![s] = row]
      /\ UNCHANGED <<partLots, stockQuantity, saleReceipts, unlocked, overwritten>>
  BY DEF DispatchSale
<1>2. sales[s] \in SaleRow /\ n \in Nat
  BY CounterAssumption DEF CounterInv, CounterTypeOK
<1>3. /\ row \in SaleRow /\ row.takes = sales[s].takes /\ row.quantity = sales[s].quantity /\ row.status = "pedido"
      /\ row.collected = sales[s].collected /\ row.igtf = sales[s].igtf
  BY <1>2 DEF SaleRow, SaleStatus
<1> HIDE DEF row
<1>4. row.collected <= TotalOfSale(row)
  BY <1>3 DEF CounterInv, SalesFair, TotalOfSale
<1> DEFINE kept == row.collected
<1>5. kept = sales[s].collected /\ UNCHANGED saleReceipts
  BY <1>1, <1>3
<1> HIDE DEF kept
<1>6. /\ saleReceipts' \in [RequestIds -> SUBSET SaleReceipt] /\ OnePerRequest(saleReceipts', RequestIds)
      /\ \A x \in Sales : Entered(saleReceipts', SaleIncome(x), RequestIds)
           = Entered(saleReceipts, SaleIncome(x), RequestIds) + IF x = s THEN kept - sales[s].collected ELSE 0
  BY <1>5, ReceiptsStay
<1>7. \A x \in Sales : Entered(saleReceipts', SaleIncome(x), RequestIds)
         = Entered(saleReceipts, SaleIncome(x), RequestIds) + IF x = s THEN row.collected - sales[s].collected ELSE 0
  BY <1>6 DEF kept
<1>8. \A w \in Writers : \A r \in unlocked[w] : s \notin r.sale
  BY <1>1, FreeIsNotHeld
<1>9. sales[s].status # "cancelado" /\ row.status # "cancelado" /\ row.status # "ninguna"
  BY <1>1, <1>3
<1>10. sales' = [sales EXCEPT ![s] = row] /\ UNCHANGED <<partLots, stockQuantity, unlocked, overwritten>>
  BY <1>1
<1> QED BY <1>3, <1>4, <1>6, <1>7, <1>8, <1>9, <1>10, SaleMoves

\* and what is handed over has a warranty for each of its units.
LEMMA HandOverKeeps ==
  ASSUME CounterInv, NEW s \in Sales, HandOver(s)
  PROVE  CounterInv'
<1> DEFINE units == UnitsWarranted(s)
           row == [sales[s] EXCEPT !.status = "completado", !.warranted = units]
<1>1. /\ SaleFree(s) /\ sales[s].status = "pedido" /\ sales' = [sales EXCEPT ![s] = row]
      /\ UNCHANGED <<partLots, stockQuantity, saleReceipts, unlocked, overwritten>>
  BY DEF HandOver
<1>2. sales[s] \in SaleRow /\ units \in Nat
  <2>1. sales[s] \in SaleRow /\ sales[s].takes \in [ShelfIds -> Nat]
    BY DEF CounterInv, CounterTypeOK, SaleRow
  <2>2. SumFunctionOnSet(sales[s].takes, ShelfIds) = sales[s].quantity
    BY DEF CounterInv, TakesAdd
  <2> QED BY <2>1, <2>2 DEF UnitsWarranted, SumFunction, SaleRow
<1> HIDE DEF units
<1>3. /\ row \in SaleRow /\ row.takes = sales[s].takes /\ row.quantity = sales[s].quantity /\ row.status = "completado"
      /\ row.collected = sales[s].collected /\ row.igtf = sales[s].igtf
  BY <1>2 DEF SaleRow, SaleStatus
<1> HIDE DEF row
<1>4. row.collected <= TotalOfSale(row)
  BY <1>3 DEF CounterInv, SalesFair, TotalOfSale
<1> DEFINE kept == row.collected
<1>5. kept = sales[s].collected /\ UNCHANGED saleReceipts
  BY <1>1, <1>3
<1> HIDE DEF kept
<1>6. /\ saleReceipts' \in [RequestIds -> SUBSET SaleReceipt] /\ OnePerRequest(saleReceipts', RequestIds)
      /\ \A x \in Sales : Entered(saleReceipts', SaleIncome(x), RequestIds)
           = Entered(saleReceipts, SaleIncome(x), RequestIds) + IF x = s THEN kept - sales[s].collected ELSE 0
  BY <1>5, ReceiptsStay
<1>7. \A x \in Sales : Entered(saleReceipts', SaleIncome(x), RequestIds)
         = Entered(saleReceipts, SaleIncome(x), RequestIds) + IF x = s THEN row.collected - sales[s].collected ELSE 0
  BY <1>6 DEF kept
<1>8. \A w \in Writers : \A r \in unlocked[w] : s \notin r.sale
  BY <1>1, FreeIsNotHeld
<1>9. sales[s].status # "cancelado" /\ row.status # "cancelado" /\ row.status # "ninguna"
  BY <1>1, <1>3
<1>10. sales' = [sales EXCEPT ![s] = row] /\ UNCHANGED <<partLots, stockQuantity, unlocked, overwritten>>
  BY <1>1
<1> QED BY <1>3, <1>4, <1>6, <1>7, <1>8, <1>9, <1>10, SaleMoves

\* A collection brings no more than is pending, its rounding included.
LEMMA CollectSaleKeeps ==
  ASSUME CounterInv, NEW s \in Sales, NEW k \in RequestIds, NEW t \in Tenders, CollectSale(s, k, t)
  PROVE  CounterInv'
<1> DEFINE income == t[3] + InUsd(t[4], Bcv)
           tax == sales[s].igtf + t[3] - WithoutIgtf(t[3], Igtf)
           paid == sales[s].collected + income
           row == [sales[s] EXCEPT !.igtf = tax, !.collected = paid]
           rec == [sale |-> s, tender |-> t, income |-> income]
           base == SalePending(s)
           sub == sales[s].quantity * Price
           iva == Percent(sub, Iva)
<1>1. /\ SaleFree(s) /\ ~Remembered(k) /\ sales[s].status \notin {"ninguna", "cancelado"}
      /\ base > 0 /\ Splits(base, t[1], t[2], Bcv) /\ NotMoreThanDue(s, t)
      /\ sales' = [sales EXCEPT ![s] = row]
      /\ saleReceipts' = [saleReceipts EXCEPT ![k] = saleReceipts[k] \union {rec}]
      /\ UNCHANGED <<partLots, stockQuantity, unlocked, overwritten>>
  BY DEF CollectSale
<1>2. sales[s] \in SaleRow
  BY DEF CounterInv, CounterTypeOK
<1>3. sales[s].igtf \in Nat /\ sales[s].collected \in Nat /\ sales[s].quantity \in Nat /\ Price \in Nat /\ Iva \in Nat
  BY <1>2, CounterAssumption, MoneyAssumption DEF SaleRow
<1>4. sub \in Nat
  BY <1>3
<1>5. base = Most(0, (sub + iva + sales[s].igtf) - sales[s].collected)
  BY DEF SalePending, SaleTotal, Subtotal, Collected
<1>6. t[3] <= DueUsd(base, t[1], t[2], Igtf) /\ t[4] <= DueBs(base, t[1], t[2], Bcv)
  BY <1>1 DEF NotMoreThanDue
<1> HIDE DEF sub
<1>7. iva \in Nat
  BY <1>3, <1>4, PercentNat
<1> HIDE DEF iva, base
<1>8. base \in Nat /\ base = sub + iva + sales[s].igtf - sales[s].collected
  BY <1>1, <1>3, <1>4, <1>5, <1>7 DEF Most
<1>9. /\ t[3] \in Nat /\ WithoutIgtf(t[3], Igtf) \in Nat /\ InUsd(t[4], Bcv) \in Nat
      /\ WithoutIgtf(t[3], Igtf) <= t[3]
      /\ WithoutIgtf(t[3], Igtf) + InUsd(t[4], Bcv) <= base
  BY <1>1, <1>6, <1>8, NotMoreThanBase
<1>10. income \in Nat /\ tax \in Nat /\ paid \in Nat /\ paid = sales[s].collected + income /\ paid <= sub + iva + tax
  BY <1>3, <1>4, <1>7, <1>8, <1>9
<1> HIDE DEF income, tax, paid
<1>11. /\ row \in SaleRow /\ row.takes = sales[s].takes /\ row.quantity = sales[s].quantity
       /\ row.status = sales[s].status /\ row.collected = paid /\ row.igtf = tax
  BY <1>2, <1>10 DEF SaleRow
<1> HIDE DEF row
<1>12. row.collected <= TotalOfSale(row)
  BY <1>10, <1>11 DEF TotalOfSale, sub, iva
<1>13. rec \in SaleReceipt /\ rec.sale = s /\ rec.income = income
  BY <1>10 DEF SaleReceipt
<1> HIDE DEF rec
<1>14. /\ saleReceipts \in [RequestIds -> SUBSET SaleReceipt] /\ OnePerRequest(saleReceipts, RequestIds)
       /\ saleReceipts[k] = {} /\ IsFiniteSet(RequestIds)
  BY <1>1, MoneyAssumption DEF CounterInv, CounterTypeOK, Remembered
<1>15. ASSUME NEW x \in Sales
       PROVE  /\ saleReceipts' \in [RequestIds -> SUBSET SaleReceipt] /\ OnePerRequest(saleReceipts', RequestIds)
              /\ Entered(saleReceipts', SaleIncome(x), RequestIds)
                   = Entered(saleReceipts, SaleIncome(x), RequestIds) + IF x = s THEN row.collected - sales[s].collected ELSE 0
  <2> DEFINE w == SaleIncome(x)
             Q == saleReceipts'
  <2>1. w \in [SaleReceipt -> Nat]
    BY SaleIncomeNat
  <2>2. w[rec] = IF x = s THEN income ELSE 0
    BY <1>13 DEF SaleIncome
  <2>3. Q \in [RequestIds -> SUBSET SaleReceipt] /\ Q[k] = {rec} /\ \A h \in RequestIds \ {k} : Q[h] = saleReceipts[h]
    BY <1>1, <1>13, <1>14
  <2>4. Entered(saleReceipts', w, RequestIds) = Entered(Q, w, RequestIds)
    OBVIOUS
  <2> HIDE DEF w, Q
  <2>5. OnePerRequest(Q, RequestIds) /\ Entered(Q, w, RequestIds) = Entered(saleReceipts, w, RequestIds) + w[rec]
    BY <1>13, <1>14, <2>1, <2>3, EnteredMore
  <2>6. row.collected - sales[s].collected = income
    BY <1>3, <1>10, <1>11
  <2> QED BY <2>2, <2>3, <2>4, <2>5, <2>6 DEF w, Q
<1>16. saleReceipts' \in [RequestIds -> SUBSET SaleReceipt] /\ OnePerRequest(saleReceipts', RequestIds)
  BY <1>15
<1>17. \A w \in Writers : \A r \in unlocked[w] : s \notin r.sale
  BY <1>1, FreeIsNotHeld
<1>18. \A x \in Sales : Entered(saleReceipts', SaleIncome(x), RequestIds)
         = Entered(saleReceipts, SaleIncome(x), RequestIds) + IF x = s THEN row.collected - sales[s].collected ELSE 0
  BY <1>15
<1>19. row.status # "cancelado" /\ row.status # "ninguna" /\ sales[s].status # "cancelado"
  BY <1>1, <1>11
<1>20. sales' = [sales EXCEPT ![s] = row] /\ UNCHANGED <<partLots, stockQuantity, unlocked, overwritten>>
  BY <1>1
<1> QED BY <1>11, <1>12, <1>16, <1>17, <1>18, <1>19, <1>20, SaleMoves

\* A sale takes its units from the lots, first in first out.
LEMMA SaleTakes ==
  ASSUME CounterInv, NEW q \in Nat, q <= OnShelf
  PROVE  /\ Fifo(q) \in [ShelfIds -> Nat]
         /\ \A l \in ShelfIds : Fifo(q)[l] <= partLots[l].remaining
         /\ SumFunctionOnSet(Fifo(q), ShelfIds) = q
<1> DEFINE a == Left(partLots)
           t == Fifo(q)
<1>1. MaxShelf \in Nat /\ ShelfIds = 1..MaxShelf
  BY CounterAssumption DEF ShelfIds
<1>2. partLots \in [ShelfIds -> [received : Nat, remaining : Nat]]
  BY DEF CounterInv, CounterTypeOK
<1>3. \A l \in ShelfIds : a[l] = partLots[l].remaining /\ a[l] \in Nat
  BY <1>2, LeftNat
<1>4. ASSUME NEW l \in ShelfIds
      PROVE  Before(l) = SumFunctionOnSet(a, 1..(l - 1))
  <2> DEFINE f == [m \in 1..(l - 1) |-> partLots[m].remaining]
  <2>1. l \in Nat /\ l - 1 \in Int /\ 1..(l - 1) \subseteq ShelfIds
    BY <1>1
  <2>2. IsFiniteSet(1..(l - 1))
    BY <2>1, PlacesFinite
  <2>3. Before(l) = SumFunction(f) /\ DOMAIN f = 1..(l - 1)
    BY DEF Before
  <2>4. \A m \in 1..(l - 1) : f[m] = a[m]
    BY <1>3, <2>1
  <2> HIDE DEF f, a
  <2>5. SumFunction(f) = SumFunctionOnSet(f, 1..(l - 1))
    BY <2>3 DEF SumFunction
  <2>6. SumFunctionOnSet(f, 1..(l - 1)) = SumFunctionOnSet(a, 1..(l - 1))
    BY <2>2, <2>4, SumEqual
  <2> QED BY <2>3, <2>5, <2>6
<1>5. \A l \in ShelfIds : t[l] = Least(a[l], Most(0, q - SumFunctionOnSet(a, 1..(l - 1))))
  BY <1>3, <1>4 DEF Fifo
<1>6. t = [l \in ShelfIds |-> t[l]]
  BY DEF Fifo
<1>7. OnShelf = SumFunctionOnSet(a, ShelfIds)
  BY OnShelfIsLeft
<1> HIDE DEF a, t
<1>8. \A l \in 1..MaxShelf : a[l] \in Nat /\ t[l] = Least(a[l], Most(0, q - SumFunctionOnSet(a, 1..(l - 1))))
  BY <1>1, <1>3, <1>5
<1>9. /\ \A l \in 1..MaxShelf : t[l] \in Nat /\ t[l] <= a[l]
      /\ SumFunctionOnSet(a, 1..MaxShelf) \in Nat
      /\ SumFunctionOnSet(t, 1..MaxShelf) = Least(q, SumFunctionOnSet(a, 1..MaxShelf))
  BY <1>1, <1>8, FifoSum
<1>10. SumFunctionOnSet(t, ShelfIds) = q
  BY <1>1, <1>7, <1>9 DEF Least
<1>11. t \in [ShelfIds -> Nat]
  BY <1>1, <1>6, <1>9
<1>12. \A l \in ShelfIds : t[l] <= partLots[l].remaining
  BY <1>1, <1>3, <1>9
<1> QED BY <1>10, <1>11, <1>12 DEF t

\* A sale takes its units of the lots, oldest first.
LEMMA CreateKeeps ==
  ASSUME CounterInv, NEW s \in Sales, NEW q \in SaleSizes, CreateSale(s, q)
  PROVE  CounterInv'
<1> DEFINE take == Fifo(q)
           row == [NoSale EXCEPT !.status = "pendiente", !.quantity = q, !.takes = take]
           f == Left(partLots)
           g == Left(partLots')
<1>1. /\ sales[s].status = "ninguna" /\ q <= OnShelf
      /\ partLots' = [l \in ShelfIds |-> [partLots[l] EXCEPT !.remaining = partLots[l].remaining - take[l]]]
      /\ stockQuantity' = Most(0, stockQuantity - q)
      /\ sales' = [sales EXCEPT ![s] = row]
      /\ UNCHANGED <<saleReceipts, unlocked, overwritten>>
  BY DEF CreateSale
<1>2. q \in Nat
  BY CounterAssumption
<1>3. /\ take \in [ShelfIds -> Nat]
      /\ \A l \in ShelfIds : take[l] <= partLots[l].remaining
      /\ SumFunctionOnSet(take, ShelfIds) = q
  BY <1>1, <1>2, SaleTakes
<1>4. sales \in [Sales -> SaleRow] /\ partLots \in [ShelfIds -> [received : Nat, remaining : Nat]] /\ stockQuantity \in Nat
  BY DEF CounterInv, CounterTypeOK
<1>5. sales[s].takes = NoTakes /\ sales[s].quantity = 0 /\ sales[s].collected = 0 /\ sales[s].igtf = 0
  BY <1>1 DEF CounterInv, UnsoldBlank
<1> HIDE DEF take
<1>6. NoSale \in SaleRow /\ NoSale.collected = 0 /\ NoSale.igtf = 0
  BY DEF NoSale, SaleRow, SaleStatus, NoTakes
<1>7. /\ row \in SaleRow /\ row.takes = take /\ row.quantity = q /\ row.status = "pendiente"
      /\ row.collected = 0 /\ row.igtf = 0
  BY <1>2, <1>3, <1>6 DEF SaleRow, SaleStatus
<1> HIDE DEF row
<1>8. /\ sales' \in [Sales -> SaleRow] /\ sales'[s] = row /\ \A x \in Sales \ {s} : sales'[x] = sales[x]
  BY <1>1, <1>4, <1>7
<1>9. ASSUME NEW l \in ShelfIds
      PROVE  /\ partLots'[l] \in [received : Nat, remaining : Nat]
             /\ partLots'[l].received = partLots[l].received
             /\ partLots'[l].remaining = partLots[l].remaining - take[l]
             /\ take[l] \in Nat
  <2> DEFINE n == partLots[l].remaining - take[l]
  <2>1. take[l] \in Nat /\ n \in Nat /\ partLots[l] \in [received : Nat, remaining : Nat]
    BY <1>3, <1>4
  <2>2. partLots'[l] = [partLots[l] EXCEPT !.remaining = n]
    BY <1>1
  <2>3. n = partLots[l].remaining - take[l]
    OBVIOUS
  <2> HIDE DEF n
  <2>4. partLots'[l] \in [received : Nat, remaining : Nat] /\ partLots'[l].received = partLots[l].received
        /\ partLots'[l].remaining = n
    BY <2>1, <2>2
  <2> QED BY <2>1, <2>3, <2>4
<1>10. partLots' \in [ShelfIds -> [received : Nat, remaining : Nat]]
  <2>1. partLots' = [l \in ShelfIds |-> partLots'[l]]
    BY <1>1
  <2> QED BY <1>9, <2>1
<1>11. CounterTypeOK'
  <2>1. stockQuantity' \in Nat
    BY <1>1, <1>2, <1>4 DEF Most
  <2> QED BY <1>1, <1>8, <1>10, <2>1 DEF CounterInv, CounterTypeOK
<1>12. UnsoldBlank(sales') /\ OnePerRequest(saleReceipts', RequestIds)
  BY <1>1, <1>7, <1>8 DEF CounterInv, UnsoldBlank
<1>13. TakesAdd(sales')
  <2> SUFFICES ASSUME NEW x \in Sales PROVE SumFunctionOnSet(sales'[x].takes, ShelfIds) = sales'[x].quantity
    BY DEF TakesAdd
  <2>1. CASE x = s
    BY <1>3, <1>7, <1>8, <2>1
  <2>2. CASE x # s
    BY <1>8, <2>2 DEF CounterInv, TakesAdd
  <2> QED BY <2>1, <2>2
<1>14. SalesFair(sales')
  <2>1. 0 <= TotalOfSale(row)
    <3> DEFINE sub == row.quantity * Price
    <3>1. Price \in Nat /\ Iva \in Nat /\ row.quantity \in Nat
      BY <1>2, <1>7, CounterAssumption, MoneyAssumption
    <3>2. sub \in Nat
      BY <3>1
    <3>3. TotalOfSale(row) = sub + Percent(sub, Iva) + row.igtf
      BY DEF TotalOfSale
    <3> HIDE DEF sub
    <3>4. Percent(sub, Iva) \in Nat
      BY <3>1, <3>2, PercentNat
    <3> QED BY <1>7, <3>2, <3>3, <3>4
  <2> QED BY <1>7, <1>8, <2>1 DEF CounterInv, SalesFair
<1>15. SalesBacked(sales', saleReceipts')
  <2>1. \A x \in Sales : Entered(saleReceipts', SaleIncome(x), RequestIds) = Entered(saleReceipts, SaleIncome(x), RequestIds)
    BY <1>1
  <2>2. \A x \in Sales : sales'[x].collected = sales[x].collected
    BY <1>5, <1>7, <1>8
  <2> QED BY <2>1, <2>2 DEF CounterInv, SalesBacked
<1>16. Cancelling(unlocked', sales') /\ HeldOnce(unlocked')
  <2>1. HeldOnce(unlocked')
    BY <1>1 DEF CounterInv
  <2>2. ASSUME NEW w \in Writers, NEW r \in unlocked[w], NEW x \in r.sale
        PROVE  sales'[x] = sales[x]
    <3>1. x \in Sales /\ sales[x].status \in {"pendiente", "pedido"}
      BY DEF CounterInv, CounterTypeOK, Writer, Cancelling
    <3> QED BY <1>1, <1>8, <3>1
  <2>3. Cancelling(unlocked', sales')
    BY <1>1, <2>2 DEF CounterInv, Cancelling
  <2> QED BY <2>1, <2>3
<1>17. ShelfBalanced(partLots', sales')
  <2> SUFFICES ASSUME NEW l \in ShelfIds
               PROVE  partLots'[l].received = partLots'[l].remaining + Taken(sales', l)
    BY DEF ShelfBalanced
  <2> DEFINE a == TakenBy(sales, l)
             b == TakenBy(sales', l)
  <2>1. \A x \in Sales : a[x] \in Int
    BY <1>4, TakenNat
  <2>2. a[s] = 0
    BY <1>1, <1>5 DEF TakenBy, NoTakes
  <2>3. b[s] = take[l] /\ take[l] \in Nat /\ b[s] \in Int
    BY <1>3, <1>7, <1>8 DEF TakenBy
  <2>4. \A x \in Sales \ {s} : b[x] = a[x]
    BY <1>8 DEF TakenBy
  <2>5. Taken(sales', l) = SumFunctionOnSet(b, Sales) /\ Taken(sales, l) = SumFunctionOnSet(a, Sales)
    BY DEF Taken
  <2> HIDE DEF a, b
  <2>6. SumFunctionOnSet(b, Sales) = SumFunctionOnSet(a, Sales) - a[s] + b[s]
    BY <2>1, <2>3, <2>4, ShelfFinite, SumChange
  <2>7. partLots[l].received = partLots[l].remaining + Taken(sales, l) /\ Taken(sales, l) \in Nat
        /\ partLots[l].remaining \in Nat
    BY <1>4, TakenNat DEF CounterInv, ShelfBalanced
  <2> QED BY <1>9, <2>2, <2>3, <2>5, <2>6, <2>7
<1>18. InSync'
  <2> SUFFICES ASSUME ~overwritten PROVE stockQuantity' = SumFunctionOnSet(g, ShelfIds)
    BY <1>1 DEF InSync
  <2>1. stockQuantity = SumFunctionOnSet(f, ShelfIds) /\ SumFunctionOnSet(f, ShelfIds) = OnShelf
    BY OnShelfIsLeft DEF CounterInv, InSync
  <2>2. \A l \in ShelfIds : f[l] \in Int /\ g[l] \in Int /\ take[l] \in Int /\ f[l] = take[l] + g[l]
    BY <1>4, <1>9, <1>10, LeftNat
  <2> HIDE DEF f, g
  <2>3. SumFunctionOnSet(f, ShelfIds) = SumFunctionOnSet(take, ShelfIds) + SumFunctionOnSet(g, ShelfIds)
    BY <2>2, ShelfFinite, SumPlus
  <2>4. SumFunctionOnSet(g, ShelfIds) \in Int
    BY <2>2, ShelfFinite, SumInt
  <2> QED BY <1>1, <1>2, <1>3, <1>4, <2>1, <2>3, <2>4 DEF Most
<1> QED BY <1>11, <1>12, <1>13, <1>14, <1>15, <1>16, <1>17, <1>18 DEF CounterInv

\* A writer that reads changes nothing else.
LEMMA ReaderKeeps ==
  ASSUME CounterInv, NEW w \in Writers, NEW r \in Writer,
         unlocked' = [unlocked EXCEPT ![w] = {r}], unlocked[w] = {},
         \A s \in r.sale : /\ sales[s].status \in {"pendiente", "pedido"} /\ sales[s].collected = 0
                           /\ r.adds = sales[s].quantity /\ SaleFree(s),
         UNCHANGED <<partLots, stockQuantity, sales, saleReceipts, overwritten>>
  PROVE  CounterInv'
<1>1. /\ unlocked' \in [Writers -> SUBSET Writer] /\ unlocked'[w] = {r}
      /\ \A x \in Writers \ {w} : unlocked'[x] = unlocked[x]
  BY DEF CounterInv, CounterTypeOK
<1>2. CounterTypeOK'
  BY <1>1 DEF CounterInv, CounterTypeOK
<1>3. Cancelling(unlocked', sales')
  BY <1>1 DEF CounterInv, Cancelling
<1>4. HeldOnce(unlocked')
  <2> SUFFICES ASSUME NEW x \in Writers, NEW y \in Writers, NEW a \in unlocked'[x], NEW b \in unlocked'[y],
                      NEW s \in Sales, s \in a.sale, s \in b.sale
               PROVE  x = y
    BY DEF HeldOnce
  <2>1. s \in r.sale => \A z \in Writers : \A c \in unlocked[z] : s \notin c.sale
    BY FreeIsNotHeld
  <2> QED BY <1>1, <2>1 DEF CounterInv, HeldOnce
<1>5. ShelfBalanced(partLots', sales') /\ InSync'
  <2>1. \A l \in ShelfIds : Taken(sales', l) = Taken(sales, l)
    OBVIOUS
  <2>2. SumFunctionOnSet(Left(partLots'), ShelfIds) = SumFunctionOnSet(Left(partLots), ShelfIds)
    OBVIOUS
  <2> QED BY <2>1, <2>2 DEF CounterInv, ShelfBalanced, InSync
<1> QED BY <1>2, <1>3, <1>4, <1>5, SalesStay DEF CounterInv

\* A cancellation holds the sale that it will cancel,
LEMMA ReadToCancelKeeps ==
  ASSUME CounterInv, NEW w \in Writers, NEW s \in Sales, ReadToCancel(w, s)
  PROVE  CounterInv'
<1> DEFINE r == [kind |-> "cancel", read |-> stockQuantity, adds |-> sales[s].quantity, sale |-> {s}]
<1>1. /\ unlocked[w] = {} /\ SaleFree(s) /\ unlocked' = [unlocked EXCEPT ![w] = {r}]
      /\ sales[s].status \in {"pendiente", "pedido"} /\ sales[s].collected = 0
      /\ UNCHANGED <<partLots, stockQuantity, sales, saleReceipts, overwritten>>
  BY DEF ReadToCancel, MayCancel, Collected
<1>2. r \in Writer /\ r.sale = {s} /\ r.adds = sales[s].quantity
  BY DEF CounterInv, CounterTypeOK, SaleRow, Writer
<1> HIDE DEF r
<1> QED BY <1>1, <1>2, ReaderKeeps

\* a return or an import reads the counter that it will write,
LEMMA ReadToAddKeeps ==
  ASSUME CounterInv, NEW w \in Writers, NEW kind \in {"return", "bulk"}, NEW n \in LotSizes, ReadToAdd(w, kind, n)
  PROVE  CounterInv'
<1> DEFINE r == [kind |-> kind, read |-> stockQuantity, adds |-> n, sale |-> {}]
<1>1. /\ unlocked[w] = {} /\ unlocked' = [unlocked EXCEPT ![w] = {r}]
      /\ UNCHANGED <<partLots, stockQuantity, sales, saleReceipts, overwritten>>
  BY DEF ReadToAdd
<1>2. n \in Nat
  BY CounterAssumption
<1>3. r \in Writer /\ r.sale = {}
  BY <1>2 DEF CounterInv, CounterTypeOK, Writer
<1> HIDE DEF r
<1> QED BY <1>1, <1>3, ReaderKeeps

\* A writer that ends leaves the others what they hold.
LEMMA WriterEnds ==
  ASSUME CounterInv, NEW w \in Writers, unlocked' = [unlocked EXCEPT ![w] = {}]
  PROVE  /\ unlocked' \in [Writers -> SUBSET Writer] /\ HeldOnce(unlocked') /\ Cancelling(unlocked', sales)
         /\ unlocked'[w] = {} /\ \A x \in Writers \ {w} : unlocked'[x] = unlocked[x]
<1>1. /\ unlocked' \in [Writers -> SUBSET Writer] /\ unlocked'[w] = {}
      /\ \A x \in Writers \ {w} : unlocked'[x] = unlocked[x]
  BY DEF CounterInv, CounterTypeOK
<1> QED BY <1>1 DEF CounterInv, HeldOnce, Cancelling

\* A return and a row of an import add a lot and write the counter they read.
LEMMA AddKeeps ==
  ASSUME CounterInv, NEW w \in Writers, NEW r \in unlocked[w], FreeSlots # {}, partLots' = WithLot(r.adds),
         WriteCounter(r), unlocked' = [unlocked EXCEPT ![w] = {}], UNCHANGED <<sales, saleReceipts>>
  PROVE  CounterInv'
<1>1. r.adds \in Nat /\ r.read \in Nat /\ stockQuantity \in Nat /\ overwritten \in BOOLEAN
  BY DEF CounterInv, CounterTypeOK, Writer
<1>2. /\ partLots' \in [ShelfIds -> [received : Nat, remaining : Nat]]
      /\ ShelfBalanced(partLots', sales')
      /\ SumFunctionOnSet(Left(partLots'), ShelfIds) = SumFunctionOnSet(Left(partLots), ShelfIds) + r.adds
  BY <1>1, LotArrives
<1>3. CounterTypeOK'
  <2>1. stockQuantity' \in Nat /\ overwritten' \in BOOLEAN
    BY <1>1 DEF WriteCounter
  <2>2. unlocked' \in [Writers -> SUBSET Writer]
    BY WriterEnds
  <2>3. sales' \in [Sales -> SaleRow] /\ saleReceipts' \in [RequestIds -> SUBSET SaleReceipt]
    BY SalesStay
  <2> QED BY <1>2, <2>1, <2>2, <2>3 DEF CounterTypeOK
<1>4. Cancelling(unlocked', sales') /\ HeldOnce(unlocked')
  BY WriterEnds
<1>5. InSync'
  BY <1>2 DEF WriteCounter, CounterInv, InSync
<1> QED BY <1>2, <1>3, <1>4, <1>5, SalesStay DEF CounterInv

\* and any of them may give up.
LEMMA AbandonKeeps == ASSUME CounterInv, NEW w \in Writers, AbandonWrite(w) PROVE CounterInv'
<1>1. unlocked' = [unlocked EXCEPT ![w] = {}] /\ UNCHANGED <<partLots, stockQuantity, sales, saleReceipts, overwritten>>
  BY DEF AbandonWrite
<1>2. CounterTypeOK'
  BY <1>1, WriterEnds DEF CounterInv, CounterTypeOK
<1>3. Cancelling(unlocked', sales') /\ HeldOnce(unlocked')
  BY <1>1, WriterEnds
<1>4. ShelfBalanced(partLots', sales') /\ InSync'
  <2>1. \A l \in ShelfIds : Taken(sales', l) = Taken(sales, l)
    BY <1>1
  <2>2. SumFunctionOnSet(Left(partLots'), ShelfIds) = SumFunctionOnSet(Left(partLots), ShelfIds)
    BY <1>1
  <2> QED BY <1>1, <2>1, <2>2 DEF CounterInv, ShelfBalanced, InSync
<1> QED BY <1>1, <1>2, <1>3, <1>4, SalesStay DEF CounterInv

\* A cancellation gives each lot what the sale took of it.
LEMMA CommitCancelKeeps ==
  ASSUME CounterInv, NEW w \in Writers, CommitCancel(w)
  PROVE  CounterInv'
<1>0. PICK r \in unlocked[w] : \E s \in r.sale :
        /\ r.kind = "cancel"
        /\ partLots' = Restored(s)
        /\ WriteCounter(r)
        /\ sales' = [sales EXCEPT ![s].status = "cancelado"]
        /\ unlocked' = [unlocked EXCEPT ![w] = {}]
        /\ UNCHANGED saleReceipts
  BY Zenon DEF CommitCancel
<1>1. PICK s \in r.sale :
        /\ partLots' = Restored(s) /\ WriteCounter(r)
        /\ sales' = [sales EXCEPT ![s].status = "cancelado"]
        /\ unlocked' = [unlocked EXCEPT ![w] = {}]
        /\ UNCHANGED saleReceipts
  BY <1>0
<1> DEFINE row == [sales[s] EXCEPT !.status = "cancelado"]
           f == Left(partLots)
           g == Left(partLots')
           take == sales[s].takes
<1>2. /\ sales \in [Sales -> SaleRow] /\ partLots \in [ShelfIds -> [received : Nat, remaining : Nat]]
      /\ stockQuantity \in Nat /\ overwritten \in BOOLEAN
      /\ s \in Sales /\ r.adds \in Nat /\ r.read \in Nat
  BY DEF CounterInv, CounterTypeOK, Writer
<1>3. /\ sales[s].status \in {"pendiente", "pedido"} /\ sales[s].collected = 0 /\ r.adds = sales[s].quantity
  BY <1>1 DEF CounterInv, Cancelling
<1>4. /\ row \in SaleRow /\ row.status = "cancelado" /\ row.takes = take /\ row.quantity = sales[s].quantity
      /\ row.collected = 0 /\ row.igtf = sales[s].igtf
  BY <1>2, <1>3 DEF SaleRow, SaleStatus
<1>5. sales' = [sales EXCEPT ![s] = row]
  BY <1>1
<1> HIDE DEF row
<1>6. sales' \in [Sales -> SaleRow] /\ sales'[s] = row /\ \A x \in Sales \ {s} : sales'[x] = sales[x]
  BY <1>2, <1>4, <1>5
<1>7. take \in [ShelfIds -> Nat] /\ SumFunctionOnSet(take, ShelfIds) = sales[s].quantity
  BY <1>2 DEF CounterInv, TakesAdd, SaleRow
<1>8. ASSUME NEW l \in ShelfIds
      PROVE  /\ partLots'[l] \in [received : Nat, remaining : Nat]
             /\ partLots'[l].received = partLots[l].received
             /\ partLots'[l].remaining = partLots[l].remaining + take[l]
             /\ take[l] \in Nat
  <2> DEFINE n == partLots[l].remaining + take[l]
  <2>1. take[l] \in Nat /\ n \in Nat /\ partLots[l] \in [received : Nat, remaining : Nat]
    BY <1>2, <1>7
  <2>2. partLots'[l] = [partLots[l] EXCEPT !.remaining = n]
    BY <1>1 DEF Restored
  <2>3. n = partLots[l].remaining + take[l]
    OBVIOUS
  <2> HIDE DEF n
  <2>4. partLots'[l] \in [received : Nat, remaining : Nat] /\ partLots'[l].received = partLots[l].received
        /\ partLots'[l].remaining = n
    BY <2>1, <2>2
  <2> QED BY <2>1, <2>3, <2>4
<1>9. partLots' \in [ShelfIds -> [received : Nat, remaining : Nat]]
  <2>1. partLots' = [l \in ShelfIds |-> partLots'[l]]
    BY <1>1 DEF Restored
  <2> QED BY <1>8, <2>1
<1> HIDE DEF take
<1>10. CounterTypeOK'
  <2>1. stockQuantity' \in Nat /\ overwritten' \in BOOLEAN
    BY <1>1, <1>2 DEF WriteCounter
  <2> QED BY <1>1, <1>6, <1>9, <2>1, WriterEnds DEF CounterInv, CounterTypeOK
<1>11. UnsoldBlank(sales') /\ OnePerRequest(saleReceipts', RequestIds)
  BY <1>1, <1>4, <1>6 DEF CounterInv, UnsoldBlank
<1>12. TakesAdd(sales')
  <2>1. \A x \in Sales : sales'[x].takes = sales[x].takes /\ sales'[x].quantity = sales[x].quantity
    BY <1>4, <1>6 DEF take
  <2> QED BY <2>1 DEF CounterInv, TakesAdd
<1>13. SalesFair(sales')
  <2>1. TotalOfSale(row) = TotalOfSale(sales[s])
    BY <1>4 DEF TotalOfSale
  <2>2. 0 <= TotalOfSale(sales[s])
    BY <1>2, <1>3 DEF CounterInv, SalesFair
  <2> QED BY <1>4, <1>6, <2>1, <2>2 DEF CounterInv, SalesFair
<1>14. SalesBacked(sales', saleReceipts')
  <2>1. \A x \in Sales : Entered(saleReceipts', SaleIncome(x), RequestIds) = Entered(saleReceipts, SaleIncome(x), RequestIds)
    BY <1>1
  <2>2. \A x \in Sales : sales'[x].collected = sales[x].collected
    BY <1>3, <1>4, <1>6
  <2> QED BY <2>1, <2>2 DEF CounterInv, SalesBacked
<1>15. Cancelling(unlocked', sales') /\ HeldOnce(unlocked')
  <2>1. /\ HeldOnce(unlocked') /\ unlocked'[w] = {} /\ \A x \in Writers \ {w} : unlocked'[x] = unlocked[x]
        /\ Cancelling(unlocked', sales)
    BY <1>1, WriterEnds
  <2>2. ASSUME NEW x \in Writers, NEW b \in unlocked'[x], NEW y \in b.sale
        PROVE  sales'[y] = sales[y]
    <3>1. x # w /\ b \in unlocked[x]
      BY <2>1
    <3>2. y \in Sales
      BY <3>1 DEF CounterInv, CounterTypeOK, Writer
    <3>3. y # s
      BY <1>1, <3>1, <3>2 DEF CounterInv, HeldOnce
    <3> QED BY <1>6, <3>2, <3>3
  <2>3. Cancelling(unlocked', sales')
    BY <2>1, <2>2 DEF Cancelling
  <2> QED BY <2>1, <2>3
<1>16. ShelfBalanced(partLots', sales')
  <2> SUFFICES ASSUME NEW l \in ShelfIds
               PROVE  partLots'[l].received = partLots'[l].remaining + Taken(sales', l)
    BY DEF ShelfBalanced
  <2> DEFINE a == TakenBy(sales, l)
             b == TakenBy(sales', l)
  <2>1. \A x \in Sales : a[x] \in Int
    BY <1>2, TakenNat
  <2>2. a[s] = take[l]
    BY <1>2, <1>3 DEF TakenBy, take
  <2>3. b[s] = 0 /\ b[s] \in Int
    BY <1>2, <1>4, <1>6 DEF TakenBy
  <2>4. \A x \in Sales \ {s} : b[x] = a[x]
    BY <1>6 DEF TakenBy
  <2>5. Taken(sales', l) = SumFunctionOnSet(b, Sales) /\ Taken(sales, l) = SumFunctionOnSet(a, Sales)
    BY DEF Taken
  <2> HIDE DEF a, b
  <2>6. SumFunctionOnSet(b, Sales) = SumFunctionOnSet(a, Sales) - a[s] + b[s]
    BY <1>2, <2>1, <2>3, <2>4, ShelfFinite, SumChange
  <2>7. partLots[l].received = partLots[l].remaining + Taken(sales, l) /\ Taken(sales, l) \in Nat
        /\ partLots[l].remaining \in Nat
    BY <1>2, TakenNat DEF CounterInv, ShelfBalanced
  <2> QED BY <1>8, <2>2, <2>3, <2>5, <2>6, <2>7
<1>17. InSync'
  <2> SUFFICES ASSUME ~overwritten' PROVE stockQuantity' = SumFunctionOnSet(g, ShelfIds)
    BY DEF InSync
  <2>1. ~overwritten /\ r.read = stockQuantity /\ stockQuantity' = r.read + r.adds
    BY <1>1 DEF WriteCounter
  <2>2. stockQuantity = SumFunctionOnSet(f, ShelfIds)
    BY <2>1 DEF CounterInv, InSync
  <2>3. \A l \in ShelfIds : f[l] \in Int /\ g[l] \in Int /\ take[l] \in Int /\ g[l] = f[l] + take[l]
    BY <1>2, <1>8, <1>9, LeftNat
  <2> HIDE DEF f, g
  <2>4. SumFunctionOnSet(g, ShelfIds) = SumFunctionOnSet(f, ShelfIds) + SumFunctionOnSet(take, ShelfIds)
    BY <2>3, ShelfFinite, SumPlus
  <2> QED BY <1>3, <1>7, <2>1, <2>2, <2>4
<1> QED BY <1>10, <1>11, <1>12, <1>13, <1>14, <1>15, <1>16, <1>17 DEF CounterInv

\* Every operation keeps the invariant.
LEMMA CounterStep == CounterInv /\ [CounterNext]_counterVars => CounterInv'
<1> SUFFICES ASSUME CounterInv, [CounterNext]_counterVars PROVE CounterInv'
  OBVIOUS
<1>1. CASE EnterStock
  BY <1>1, EnterKeeps
<1>2. CASE SaleRoutes
  BY <1>2, CreateKeeps, DispatchKeeps, HandOverKeeps, ReadToCancelKeeps, CommitCancelKeeps DEF SaleRoutes
<1>3. CASE PaymentRoutes
  BY <1>3, CollectSaleKeeps DEF PaymentRoutes
<1>4. ASSUME NEW w \in Writers, CommitReturn(w) PROVE CounterInv'
  BY <1>4, AddKeeps DEF CommitReturn
<1>5. ASSUME NEW w \in Writers, CommitBulk(w) PROVE CounterInv'
  BY <1>5, AddKeeps DEF CommitBulk
<1>6. CASE ReturnRoutes
  BY <1>4, <1>6, ReadToAddKeeps DEF ReturnRoutes
<1>7. CASE UNCHANGED counterVars
  <2>1. UNCHANGED <<partLots, stockQuantity, sales, saleReceipts, unlocked, overwritten>>
    BY <1>7 DEF counterVars
  <2>2. CounterTypeOK' /\ Cancelling(unlocked', sales') /\ HeldOnce(unlocked')
    BY <2>1 DEF CounterInv, CounterTypeOK, Cancelling, HeldOnce
  <2>3. ShelfBalanced(partLots', sales') /\ InSync'
    <3>1. \A l \in ShelfIds : Taken(sales', l) = Taken(sales, l)
      BY <2>1
    <3>2. SumFunctionOnSet(Left(partLots'), ShelfIds) = SumFunctionOnSet(Left(partLots), ShelfIds)
      BY <2>1
    <3> QED BY <2>1, <3>1, <3>2 DEF CounterInv, ShelfBalanced, InSync
  <2> QED BY <2>1, <2>2, <2>3, SalesStay DEF CounterInv
<1>8. CASE \E w \in Writers : (\E n \in LotSizes : ReadToAdd(w, "bulk", n)) \/ CommitBulk(w) \/ AbandonWrite(w)
  BY <1>5, <1>8, ReadToAddKeeps, AbandonKeeps
<1> QED BY <1>1, <1>2, <1>3, <1>6, <1>7, <1>8 DEF CounterNext

\* Before the first delivery the invariant holds,
LEMMA CounterStart == CounterInit => CounterInv
<1> SUFFICES ASSUME CounterInit PROVE CounterInv
  OBVIOUS
<1>1. NoSale \in SaleRow /\ NoSale.status = "ninguna" /\ NoSale.takes = NoTakes /\ NoSale.quantity = 0
      /\ NoSale.collected = 0 /\ NoSale.igtf = 0
  BY DEF NoSale, SaleRow, SaleStatus, NoTakes
<1>2. /\ sales = [s \in Sales |-> NoSale] /\ partLots = [l \in ShelfIds |-> [received |-> 0, remaining |-> 0]]
      /\ stockQuantity = 0 /\ saleReceipts = [k \in RequestIds |-> {}]
      /\ unlocked = [w \in Writers |-> {}] /\ overwritten = FALSE
  BY DEF CounterInit
<1>3. CounterTypeOK /\ OnePerRequest(saleReceipts, RequestIds) /\ UnsoldBlank(sales)
      /\ Cancelling(unlocked, sales) /\ HeldOnce(unlocked)
  BY <1>1, <1>2 DEF CounterTypeOK, OnePerRequest, UnsoldBlank, Cancelling, HeldOnce
<1>4. TakesAdd(sales)
  <2>1. SumFunctionOnSet(NoTakes, ShelfIds) = 0
    <3>1. \A l \in ShelfIds : NoTakes[l] = 0
      BY DEF NoTakes
    <3> QED BY <3>1, ShelfFinite, SumZero
  <2> QED BY <1>1, <1>2, <2>1 DEF TakesAdd
<1>5. ShelfBalanced(partLots, sales)
  <2> SUFFICES ASSUME NEW l \in ShelfIds
               PROVE  partLots[l].received = partLots[l].remaining + Taken(sales, l)
    BY DEF ShelfBalanced
  <2>1. \A s \in Sales : TakenBy(sales, l)[s] = 0
    BY <1>1, <1>2 DEF TakenBy, NoTakes
  <2>2. Taken(sales, l) = 0
    BY <2>1, ShelfFinite, SumZero DEF Taken
  <2> QED BY <1>2, <2>2
<1>6. SalesFair(sales)
  <2>1. TotalOfSale(NoSale) \in Nat
    <3>1. 0 * Price = 0
      BY CounterAssumption
    <3>2. Percent(0, Iva) \in Nat
      BY PercentNat, MoneyAssumption
    <3> QED BY <1>1, <3>1, <3>2 DEF TotalOfSale
  <2> QED BY <1>1, <1>2, <2>1 DEF SalesFair
<1>7. SalesBacked(sales, saleReceipts)
  <2>1. \A s \in Sales : Entered(saleReceipts, SaleIncome(s), RequestIds) = 0
    BY <1>2, ShelfFinite, EnteredNone
  <2> QED BY <1>1, <1>2, <2>1 DEF SalesBacked
<1>8. InSync
  <2>1. \A l \in ShelfIds : Left(partLots)[l] = 0
    BY <1>2 DEF Left
  <2> QED BY <1>2, <2>1, ShelfFinite, SumZero DEF InSync
<1> QED BY <1>3, <1>4, <1>5, <1>6, <1>7, <1>8 DEF CounterInv

\* and so it does of the component on its own.
LEMMA CounterHolds == CounterSpec => []CounterInv
<1> QED BY CounterStart, CounterStep, PTL DEF CounterSpec

-----------------------------------------------------------------------------
(* Quotes: what a job costs and what is charged for it *)

\* A line has units, and its price is that of some of them.
Priced(row) == row \in LineRow /\ row.qty > 0 /\ row.perUnit[2] > 0
LinesPriced(L) == \A k \in LineIds : L[k] = NoLine \/ Priced(L[k])
\* Only an approved finding has lines.
LinesApproved(L, u) == u.status # "aprobado" =>
  \A v \in Visits : L[<<v, "upsellJob">>] = NoLine /\ L[<<v, "upsellPart">>] = NoLine
FindingsUnits(u) == u.status \in {"pendiente", "pospuesto"} => u.units > 0

QuotesInv ==
  /\ QuotesTypeOK
  /\ LinesPriced(quoteLines) /\ LinesApproved(quoteLines, upsell) /\ FindingsUnits(upsell)

\* The larger and the smaller of two numbers.
LEMMA MaxOfPair == ASSUME NEW a \in Int, NEW b \in Int PROVE Max({a, b}) = Most(a, b)
<1> DEFINE m == Most(a, b)
           S == {a, b}
<1>1. m \in S /\ (\A y \in S : m >= y) /\ S \subseteq Int
  BY DEF Most
<1>2. \A x \in S : (\A y \in S : x >= y) => x = m
  BY <1>1
<1> HIDE DEF m, S
<1>3. Max(S) = m
  BY <1>1, <1>2 DEF Max
<1> QED BY <1>3 DEF S, m

\* The smaller of two numbers.
LEMMA MinOfPair == ASSUME NEW a \in Int, NEW b \in Int PROVE Min({a, b}) = Least(a, b)
<1> DEFINE m == Least(a, b)
           S == {a, b}
<1>1. m \in S /\ (\A y \in S : m <= y) /\ S \subseteq Int
  BY DEF Least
<1>2. \A x \in S : (\A y \in S : x <= y) => x = m
  BY <1>1
<1> HIDE DEF m, S
<1>3. Min(S) = m
  BY <1>1, <1>2 DEF Min
<1> QED BY <1>3 DEF S, m

\* The largest of some of the first numbers.
LEMMA MaxOfSome ==
  ASSUME NEW N \in Nat, NEW S \in SUBSET (0..N), S # {}
  PROVE  Max(S) \in S
  BY LargestNumber DEF Max

\* There are finitely many lines.
LEMMA LineIdsFinite == IsFiniteSet(LineIds) /\ IsFiniteSet(Slots)
<1>1. IsFiniteSet({"job", "upsellJob"}) /\ IsFiniteSet({"part", "upsellPart"})
  <2>1. IsFiniteSet({"job"} \cup {"upsellJob"}) /\ IsFiniteSet({"part"} \cup {"upsellPart"})
    BY FS_Singleton, FS_Union
  <2>2. {"job"} \cup {"upsellJob"} = {"job", "upsellJob"} /\ {"part"} \cup {"upsellPart"} = {"part", "upsellPart"}
    OBVIOUS
  <2> QED BY <2>1, <2>2
<1>2. IsFiniteSet(Slots)
  BY <1>1, FS_Union DEF Slots, JobSlots
<1>3. IsFiniteSet(Visits)
  BY QuotesAssumption
<1>4. IsFiniteSet(Visits \X Slots)
  BY <1>2, <1>3, FS_Product
<1> QED BY <1>2, <1>4 DEF LineIds

\* The lots are numbered.
Layer == [cost : Nat, left : Nat]

\* The lots are the first numbers, and each has its cost and what is left.
LEMMA LotsKnown ==
  ASSUME QuotesTypeOK
  PROVE  /\ MaxLots \in Nat /\ Len(layers) \in 0..MaxLots /\ Lots = 1..Len(layers) /\ Lots \subseteq 1..MaxLots
         /\ layers \in [Lots -> Layer] /\ IsFiniteSet(Lots) /\ IsFiniteSet(1..MaxLots)
         /\ layers # << >> => Len(layers) \in Lots
         /\ \A l \in Lots : layers[l].cost \in Nat /\ layers[l].left \in Nat
<1>1. layers \in Seq(Layer) /\ Len(layers) <= MaxLots
  BY DEF QuotesTypeOK, Layer
<1>2. LayerCosts \in Seq(Nat)
  BY QuotesAssumption
<1>3. MaxLots \in Nat
  <2>1. Len(LayerCosts) \in Nat
    BY <1>2, LenProperties
  <2> QED BY <2>1 DEF MaxLots
<1>4. Len(layers) \in Nat /\ layers \in [1..Len(layers) -> Layer] /\ DOMAIN layers = 1..Len(layers)
  BY <1>1, LenProperties
<1>5. Lots = 1..Len(layers)
  BY <1>4 DEF Lots
<1>6. IsFiniteSet(1..MaxLots) /\ IsFiniteSet(1..Len(layers))
  BY <1>3, <1>4, PlacesFinite
<1>7. layers # << >> => Len(layers) # 0
  BY <1>1, EmptySeq
<1>8. \A l \in Lots : layers[l].cost \in Nat /\ layers[l].left \in Nat
  BY <1>4, <1>5 DEF Layer
<1> QED BY <1>1, <1>3, <1>4, <1>5, <1>6, <1>7, <1>8

\* A line that is there has units, a price and a pledge.
LEMMA LinesKnown ==
  ASSUME QuotesInv, NEW k \in LineIds, HasLine(k)
  PROVE  /\ quoteLines[k] \in LineRow /\ Priced(quoteLines[k])
         /\ quoteLines[k].qty \in Nat \ {0} /\ quoteLines[k].cost \in Nat /\ quoteLines[k].total \in Nat
         /\ quoteLines[k].perUnit[1] \in Nat /\ quoteLines[k].perUnit[2] \in Nat \ {0}
         /\ quoteLines[k].pledged \in [1..MaxLots -> Nat]
<1>1. Priced(quoteLines[k])
  BY DEF QuotesInv, LinesPriced, HasLine
<1> QED BY <1>1 DEF Priced, LineRow

\* What is on a lot and not pledged to others.
LEMMA UnpledgedNat ==
  ASSUME QuotesInv, NEW but
  PROVE  Unpledged(but) \in [Lots -> Nat] /\ \A l \in Lots : Unpledged(but)[l] <= layers[l].left
<1> DEFINE others == {k \in LineIds \ but : Pledges(k)}
<1>0. QuotesTypeOK
  BY DEF QuotesInv
<1>1. IsFiniteSet(others)
  <2>1. others \subseteq LineIds
    OBVIOUS
  <2> HIDE DEF others
  <2> QED BY <2>1, LineIdsFinite, FS_Subset
<1>2. ASSUME NEW l \in Lots
      PROVE  PledgedOf(l, but) \in Nat
  <2> DEFINE f == [k \in others |-> quoteLines[k].pledged[l]]
  <2>1. l \in 1..MaxLots
    BY <1>0, LotsKnown
  <2>2. \A k \in others : f[k] \in Nat
    BY <2>1, LinesKnown DEF Pledges
  <2>3. PledgedOf(l, but) = SumFunction(f)
    BY DEF PledgedOf, Total
  <2>4. DOMAIN f = others
    OBVIOUS
  <2> HIDE DEF f, others
  <2>5. SumFunction(f) = SumFunctionOnSet(f, others)
    BY <2>4 DEF SumFunction
  <2> QED BY <1>1, <2>2, <2>3, <2>5, SumNat
<1>3. ASSUME NEW l \in Lots
      PROVE  Unpledged(but)[l] \in Nat /\ Unpledged(but)[l] <= layers[l].left
  <2> DEFINE free == layers[l].left - PledgedOf(l, but)
  <2>1. layers[l].left \in Nat
    BY <1>0, LotsKnown
  <2>2. free \in Int /\ free <= layers[l].left
    BY <1>2, <2>1
  <2>3. Unpledged(but)[l] = Max({0, free})
    BY DEF Unpledged
  <2> HIDE DEF free
  <2>4. Unpledged(but)[l] = Most(0, free)
    BY <2>2, <2>3, MaxOfPair
  <2> QED BY <2>1, <2>2, <2>4 DEF Most
<1>4. Unpledged(but) = [l \in Lots |-> Unpledged(but)[l]]
  BY DEF Unpledged
<1> QED BY <1>3, <1>4

\* Units taken of lots that are there.
Takes(take, n) ==
  /\ take \in [1..MaxLots -> Nat] /\ \A l \in (1..MaxLots) \ Lots : take[l] = 0
  /\ Total(take) \in Nat /\ Total(take) <= n

\* FIFO takes no more than was asked, and no more of a lot than it has.
LEMMA AllocationTakes ==
  ASSUME QuotesInv, NEW avail \in [Lots -> Nat], NEW n \in Nat
  PROVE  Takes(Allocation(avail, n), n) /\ \A l \in Lots : Allocation(avail, n)[l] <= avail[l]
<1> DEFINE t == Allocation(avail, n)
           a == [l \in 1..MaxLots |-> IF l \in Lots THEN avail[l] ELSE 0]
<1>1. QuotesTypeOK
  BY DEF QuotesInv
<1>2. /\ MaxLots \in Nat /\ Len(layers) \in 0..MaxLots /\ Lots = 1..Len(layers) /\ Lots \subseteq 1..MaxLots
      /\ IsFiniteSet(1..MaxLots)
  BY <1>1, LotsKnown
<1> HIDE DEF Lots
<1>3. /\ \A l \in 1..MaxLots : a[l] \in Nat
      /\ \A l \in Lots : a[l] = avail[l]
      /\ \A l \in (1..MaxLots) \ Lots : a[l] = 0
  BY <1>2
<1>4. DOMAIN avail = Lots
  OBVIOUS
<1>5. ASSUME NEW l \in 1..MaxLots
      PROVE  t[l] = Least(a[l], Most(0, n - SumFunctionOnSet(a, 1..(l - 1))))
  <2> DEFINE sum == SumFunctionOnSet(a, 1..(l - 1))
  <2>1. l \in Nat /\ l - 1 \in Int /\ 1..(l - 1) \subseteq 1..MaxLots
    BY <1>2
  <2>2. IsFiniteSet(1..(l - 1))
    BY <2>1, PlacesFinite
  <2>3. sum \in Nat
    <3>1. \A j \in 1..(l - 1) : a[j] \in Nat
      BY <1>3, <2>1
    <3> HIDE DEF a
    <3> QED BY <2>2, <3>1, SumNat
  <2>4. CASE l \notin Lots
    <3>1. t[l] = 0
      BY <1>4, <2>4 DEF Allocation
    <3>2. a[l] = 0
      BY <1>3, <2>4
    <3> HIDE DEF a, t, sum
    <3>3. Least(0, Most(0, n - sum)) = 0
      BY <2>3 DEF Least, Most
    <3> QED BY <3>1, <3>2, <3>3 DEF sum
  <2>5. CASE l \in Lots
    <3> DEFINE f == [j \in 1..(l - 1) |-> avail[j]]
    <3>1. t[l] = Min({avail[l], Max({0, n - Total(f)})})
      BY <1>4, <2>5 DEF Allocation
    <3>2. DOMAIN f = 1..(l - 1) /\ \A j \in 1..(l - 1) : f[j] = a[j]
      BY <1>2, <1>3, <2>5
    <3>3. avail[l] = a[l] /\ a[l] \in Nat
      BY <1>3, <2>5
    <3> HIDE DEF f, a, t, sum
    <3>4. SumFunctionOnSet(f, 1..(l - 1)) = SumFunctionOnSet(a, 1..(l - 1))
      BY <2>2, <3>2, SumEqual
    <3>5. Total(f) = sum
      BY <3>2, <3>4 DEF Total, SumFunction, sum
    <3>6. Max({0, n - sum}) = Most(0, n - sum) /\ Most(0, n - sum) \in Nat
      <4>1. n - sum \in Int
        BY <2>3
      <4> QED BY <4>1, MaxOfPair DEF Most
    <3>7. t[l] = Least(a[l], Most(0, n - sum))
      BY <3>1, <3>3, <3>5, <3>6, MinOfPair
    <3> QED BY <3>7 DEF sum
  <2> QED BY <2>4, <2>5
<1>6. t = [l \in 1..MaxLots |-> t[l]] /\ DOMAIN t = 1..MaxLots
  BY DEF Allocation
<1> HIDE DEF a, t
<1>7. \A l \in 1..MaxLots : a[l] \in Nat /\ t[l] = Least(a[l], Most(0, n - SumFunctionOnSet(a, 1..(l - 1))))
  BY <1>3, <1>5
<1>8. /\ \A l \in 1..MaxLots : t[l] \in Nat /\ t[l] <= a[l]
      /\ SumFunctionOnSet(a, 1..MaxLots) \in Nat
      /\ SumFunctionOnSet(t, 1..MaxLots) = Least(n, SumFunctionOnSet(a, 1..MaxLots))
  BY <1>2, <1>7, FifoSum
<1>9. Total(t) = SumFunctionOnSet(t, 1..MaxLots)
  BY <1>6 DEF Total, SumFunction
<1>10. Total(t) \in Nat /\ Total(t) <= n
  BY <1>8, <1>9 DEF Least
<1>11. \A l \in (1..MaxLots) \ Lots : t[l] = 0
  BY <1>3, <1>8
<1>12. t \in [1..MaxLots -> Nat] /\ \A l \in Lots : t[l] <= avail[l]
  BY <1>2, <1>3, <1>6, <1>8
<1> QED BY <1>10, <1>11, <1>12 DEF Takes, t

\* The units of the lots that are there cost an amount.
LEMMA CostNat ==
  ASSUME QuotesInv, NEW take \in [1..MaxLots -> Nat]
  PROVE  CostOf(take) \in Nat
<1> DEFINE f == [l \in Lots |-> layers[l].cost * take[l]]
<1>1. IsFiniteSet(Lots) /\ Lots \subseteq 1..MaxLots /\ \A l \in Lots : layers[l].cost \in Nat
  BY LotsKnown DEF QuotesInv
<1>2. ASSUME NEW l \in Lots
      PROVE  f[l] \in Nat
  <2> DEFINE c == layers[l].cost
             t == take[l]
  <2>1. c \in Nat /\ t \in Nat
    BY <1>1
  <2>2. f[l] = c * t
    OBVIOUS
  <2> HIDE DEF c, t, f
  <2>3. c * t \in Nat
    BY <2>1
  <2> QED BY <2>2, <2>3
<1>3. DOMAIN f = Lots
  OBVIOUS
<1>4. CostOf(take) = SumFunction(f)
  BY DEF CostOf, Total
<1> HIDE DEF f
<1>5. SumFunction(f) = SumFunctionOnSet(f, Lots)
  BY <1>3 DEF SumFunction
<1> QED BY <1>1, <1>2, <1>4, <1>5, SumNat

\* When units were taken, a lot was touched last.
LEMMA LastTakenNat ==
  ASSUME QuotesInv, NEW n \in Nat, NEW take, Takes(take, n), Total(take) > 0
  PROVE  LastTaken(take) \in Nat
<1> DEFINE S == {l \in Lots : take[l] > 0}
<1>1. /\ IsFiniteSet(1..MaxLots) /\ MaxLots \in Nat /\ Lots \subseteq 1..MaxLots
      /\ \A l \in Lots : layers[l].cost \in Nat
  BY LotsKnown DEF QuotesInv
<1>2. take \in [1..MaxLots -> Nat] /\ \A l \in (1..MaxLots) \ Lots : take[l] = 0
  BY DEF Takes
<1>3. S # {}
  <2> SUFFICES ASSUME S = {} PROVE FALSE
    OBVIOUS
  <2>1. \A l \in 1..MaxLots : take[l] = 0
    BY <1>2
  <2>2. DOMAIN take = 1..MaxLots
    BY <1>2
  <2>3. Total(take) = SumFunctionOnSet(take, 1..MaxLots)
    BY <2>2 DEF Total, SumFunction
  <2>4. Total(take) = 0
    BY <1>1, <2>1, <2>3, SumZero
  <2> QED BY <2>4
<1>4. S \in SUBSET (0..MaxLots)
  <2>1. \A l \in 1..MaxLots : l \in 0..MaxLots
    BY <1>1
  <2> QED BY <1>1, <2>1
<1>5. LastTaken(take) = layers[Max(S)].cost
  BY DEF LastTaken
<1>6. \A l \in S : layers[l].cost \in Nat
  BY <1>1
<1> HIDE DEF S
<1>7. Max(S) \in S
  BY <1>1, <1>3, <1>4, MaxOfSome
<1> QED BY <1>5, <1>6, <1>7

\* So n units cost an amount, with those that the shelf lacks.
LEMMA PreviewCostNat ==
  ASSUME QuotesInv, NEW n \in Nat, NEW take, Takes(take, n), NEW fallback \in Nat
  PROVE  FifoPreviewCost(take, n, fallback) \in Nat /\ CostOf(take) \in Nat
<1>1. CostBeyond(take, fallback) \in Nat
  <2>1. CASE Total(take) > 0
    BY <2>1, LastTakenNat DEF CostBeyond
  <2>2. CASE ~(Total(take) > 0) /\ layers = << >>
    BY <2>2 DEF CostBeyond, LastKnownUnitCost
  <2>3. CASE ~(Total(take) > 0) /\ layers # << >>
    <3>1. layers[Len(layers)].cost \in Nat
      BY <2>3, LotsKnown DEF QuotesInv
    <3> QED BY <2>3, <3>1 DEF CostBeyond, LastKnownUnitCost, LastReceived
  <2> QED BY <2>1, <2>2, <2>3
<1>2. take \in [1..MaxLots -> Nat] /\ Total(take) \in Nat /\ Total(take) <= n
  BY DEF Takes
<1>3. CostOf(take) \in Nat
  BY <1>2, CostNat
<1> DEFINE b == CostBeyond(take, fallback)
           m == n - Total(take)
           p == b * m
<1>4. m \in Nat
  BY <1>2
<1>5. p \in Nat
  <2> HIDE DEF b, m
  <2> QED BY <1>1, <1>4 DEF b
<1>6. FifoPreviewCost(take, n, fallback) = CostOf(take) + p
  BY DEF FifoPreviewCost
<1> HIDE DEF p
<1> QED BY <1>3, <1>5, <1>6

\* A price is an amount.
LEMMA PriceNat ==
  ASSUME QuotesInv, NEW cost \in Nat, NEW n \in Nat, NEW tier \in Multipliers
  PROVE  PriceCatalog(cost, n, tier) \in Nat
<1>1. tier \in Nat /\ DefaultTier \in Nat \ {0}
  BY DEF Multipliers, DefaultTier
<1>2. CASE listPrice = NoList
  BY <1>1, <1>2, PercentNat DEF PriceCatalog, PricePartsCost
<1>3. CASE listPrice # NoList
  <2>1. listPrice \in Nat
    BY <1>3, QuotesAssumption DEF QuotesInv, QuotesTypeOK
  <2> DEFINE a == listPrice * tier
             b == a * n
  <2>2. a \in Nat
    BY <1>1, <2>1
  <2>3. b \in Nat
    <3> HIDE DEF a
    <3> QED BY <2>2
  <2>4. PriceCatalog(cost, n, tier) = Rounded(b, DefaultTier)
    BY <1>3 DEF PriceCatalog
  <2> HIDE DEF b
  <2> QED BY <1>1, <2>3, <2>4, RoundedNat
<1> QED BY <1>2, <1>3

\* The price of other units at the same price a unit is one too.
LEMMA UnitPriceNat ==
  ASSUME NEW p \in Nat \X Nat, p[2] > 0, NEW n \in Nat
  PROVE  AtUnitPrice(p, n) \in Nat
<1> DEFINE a == p[1] * n
<1>1. p[1] \in Nat /\ p[2] \in Nat \ {0}
  OBVIOUS
<1>2. a \in Nat
  BY <1>1
<1>3. AtUnitPrice(p, n) = Rounded(a, p[2])
  BY DEF AtUnitPrice
<1> HIDE DEF a
<1> QED BY <1>1, <1>2, <1>3, RoundedNat

\* Taxes and labour are amounts.
LEMMA TaxAndLabourNat ==
  /\ \A a \in Nat : WithTax(a) \in Nat
  /\ Labour \in Nat /\ \A n \in Nat : n * Labour \in Nat
<1>1. Iva \in Nat /\ JobHours \in Nat /\ HourlyRate \in Nat
  BY MoneyAssumption, QuotesAssumption
<1>2. ASSUME NEW a \in Nat
      PROVE  WithTax(a) \in Nat
  <2>1. Percent(a, Iva) \in Nat
    BY <1>1, PercentNat
  <2> QED BY <2>1 DEF WithTax
<1>3. Labour \in Nat
  BY <1>1 DEF Labour
<1>4. \A n \in Nat : n * Labour \in Nat
  <2> DEFINE l == Labour
  <2> HIDE DEF l
  <2>1. \A n \in Nat : n * l \in Nat
    BY <1>3 DEF l
  <2> QED BY <2>1 DEF l
<1> QED BY <1>2, <1>3, <1>4

(* Lines *)

\* A priced line is not the absence of one.
LEMMA PricedIsLine == \A row : Priced(row) => row # NoLine /\ row \in LineRow
BY DEF Priced, NoLine

\* A line that is written has units and a price.
LEMMA LineFits ==
  ASSUME NEW n \in Nat \ {0}, NEW total \in Nat, NEW cost \in Nat, NEW take \in [1..MaxLots -> Nat]
  PROVE  Priced(Line(n, total, cost, take)) /\ Line(n, total, cost, take).total = total
         /\ Line(n, total, cost, take).pledged = take
<1>1. <<total, n>> \in Nat \X Nat /\ <<total, n>>[2] = n
  OBVIOUS
<1> QED BY <1>1 DEF Priced, Line, LineRow

\* A line that is added is priced by its units, its cost and the discount of its order.
LEMMA AddedFits ==
  ASSUME QuotesInv, NEW v \in Visits, NEW n \in Nat \ {0}, NEW fallback \in Nat, NEW take, Takes(take, n)
  PROVE  /\ Priced(Added(v, n, fallback, take)) /\ Added(v, n, fallback, take).total \in Nat
         /\ Added(v, n, fallback, take).pledged = take
         /\ Added(v, n, fallback, take).total
              = PriceCatalog(FifoPreviewCost(take, n, fallback), n, visits[v].tier)
<1> DEFINE cost == FifoPreviewCost(take, n, fallback)
           total == PriceCatalog(cost, n, visits[v].tier)
<1>1. cost \in Nat
  BY PreviewCostNat
<1>2. visits[v].tier \in Multipliers
  BY DEF QuotesInv, QuotesTypeOK, VisitRow
<1>3. total \in Nat
  <2> HIDE DEF cost
  <2> QED BY <1>1, <1>2, PriceNat
<1>4. take \in [1..MaxLots -> Nat]
  BY DEF Takes
<1>5. Added(v, n, fallback, take) = Line(n, total, cost, take)
  BY DEF Added
<1> HIDE DEF total, cost
<1>6. Added(v, n, fallback, take).total = total
  BY <1>1, <1>3, <1>4, <1>5, LineFits
<1> QED BY <1>1, <1>3, <1>4, <1>5, <1>6, LineFits DEF total, cost

\* A line keeps its unit price when its quantity changes.
LEMMA ResizedFits ==
  ASSUME QuotesInv, NEW k \in LineIds, HasLine(k), NEW n \in Nat \ {0}, NEW take, Takes(take, n)
  PROVE  /\ Priced(Resized(quoteLines[k], n, take))
         /\ Resized(quoteLines[k], n, take).perUnit = quoteLines[k].perUnit
<1> DEFINE row == quoteLines[k]
<1>1. /\ row \in LineRow /\ row.qty \in Nat \ {0} /\ row.cost \in Nat
      /\ row.perUnit \in Nat \X Nat /\ row.perUnit[2] > 0
  BY LinesKnown DEF Priced, LineRow
<1>2. take \in [1..MaxLots -> Nat]
  BY DEF Takes
<1> HIDE DEF row
<1> DEFINE unit == row.cost \div row.qty
           cost == FifoPreviewCost(take, n, unit)
           total == AtUnitPrice(row.perUnit, n)
<1>3. unit \in Nat
  <2> DEFINE a == row.cost
             b == row.qty
  <2>1. a \in Nat /\ b \in Nat \ {0}
    BY <1>1
  <2> HIDE DEF a, b
  <2>2. a \div b \in Nat
    BY <2>1
  <2> QED BY <2>2 DEF a, b
<1>4. cost \in Nat
  <2> HIDE DEF unit
  <2> QED BY <1>3, PreviewCostNat
<1>5. total \in Nat
  BY <1>1, UnitPriceNat
<1>6. Resized(row, n, take) = [row EXCEPT !.qty = n, !.pledged = take, !.fresh = TRUE, !.total = total, !.cost = cost]
  BY DEF Resized
<1> HIDE DEF cost, total, unit
<1>7. Resized(row, n, take) \in LineRow
  BY <1>1, <1>2, <1>4, <1>5, <1>6 DEF LineRow
<1>8. Resized(row, n, take).perUnit = row.perUnit /\ Resized(row, n, take).qty = n
  BY <1>1, <1>6 DEF LineRow
<1> QED BY <1>1, <1>7, <1>8 DEF Priced, row

\* What the lots that nobody pledged give of n units.
LEMMA FreshTakes ==
  ASSUME QuotesInv, NEW but, NEW n \in Nat
  PROVE  Takes(Allocation(Unpledged(but), n), n)
<1>1. Unpledged(but) \in [Lots -> Nat]
  BY UnpledgedNat
<1> QED BY <1>1, AllocationTakes

\* The line of the job.
LEMMA JobLineFits ==
  ASSUME QuotesInv, NEW v \in Visits
  PROVE  /\ Priced(JobLine(v)) /\ JobLine(v).total \in Nat
         /\ JobLine(v).pledged = Allocation(Unpledged({}), JobUnits)
         /\ JobLine(v).total
              = PriceCatalog(FifoPreviewCost(Allocation(Unpledged({}), JobUnits), JobUnits, JobEstimate),
                             JobUnits, visits[v].tier)
<1>1. JobUnits \in Nat \ {0} /\ JobEstimate \in Nat
  BY QuotesAssumption
<1> DEFINE take == Allocation(Unpledged({}), JobUnits)
<1>2. Takes(take, JobUnits)
  BY <1>1, FreshTakes
<1>3. JobLine(v) = Added(v, JobUnits, JobEstimate, take)
  BY DEF JobLine
<1> HIDE DEF take
<1>4. Priced(JobLine(v)) /\ JobLine(v).total \in Nat /\ JobLine(v).pledged = take
      /\ JobLine(v).total = PriceCatalog(FifoPreviewCost(take, JobUnits, JobEstimate), JobUnits, visits[v].tier)
  BY <1>1, <1>2, <1>3, AddedFits
<1> QED BY <1>4 DEF take

\* The preview of a job that an order does not have yet is what it will cost:
\* the catalogue and the order price the units of the lots and those beyond alike.
LEMMA ChargedAsPreviewed == QuotesInv => PreviewIsCharged
<1> SUFFICES ASSUME QuotesInv, NEW v \in Visits PROVE Preview(visits[v].tier) = Charged(v)
  BY DEF PreviewIsCharged
<1> DEFINE take == Allocation(Unpledged({}), JobUnits)
           price == PriceCatalog(FifoPreviewCost(take, JobUnits, JobEstimate), JobUnits, visits[v].tier)
<1>1. CatalogCost(take) = FifoPreviewCost(take, JobUnits, JobEstimate)
  <2>1. CatalogBeyond(take) = CostBeyond(take, JobEstimate)
    <3> HIDE DEF take
    <3> QED BY DEF CatalogBeyond, CostBeyond, LastKnownUnitCost
  <2> HIDE DEF take
  <2> QED BY <2>1 DEF CatalogCost, FifoPreviewCost
<1>2. Preview(visits[v].tier) = WithTax(Labour + price)
  <2>1. Preview(visits[v].tier) = WithTax(Labour + PriceCatalog(CatalogCost(take), JobUnits, visits[v].tier))
    BY DEF Preview
  <2> HIDE DEF take
  <2> QED BY <1>1, <2>1
<1>3. JobLine(v).total = price /\ price \in Nat
  BY JobLineFits
<1>4. Charged(v) = WithTax(JobLine(v).total + Labour)
  BY DEF Charged
<1>5. Labour \in Nat
  BY TaxAndLabourNat
<1> HIDE DEF price
<1>6. Labour + price = JobLine(v).total + Labour
  BY <1>3, <1>5
<1> QED BY <1>2, <1>4, <1>6

\* The preview and the summary are amounts.
LEMMA PreviewNat ==
  ASSUME QuotesInv, NEW v \in Visits
  PROVE  Preview(visits[v].tier) \in Nat
<1> DEFINE take == Allocation(Unpledged({}), JobUnits)
           cost == CatalogCost(take)
           price == PriceCatalog(cost, JobUnits, visits[v].tier)
<1>1. JobUnits \in Nat \ {0} /\ JobEstimate \in Nat
  BY QuotesAssumption
<1>2. Takes(take, JobUnits)
  BY <1>1, FreshTakes
<1>3. cost = FifoPreviewCost(take, JobUnits, JobEstimate)
  <2> HIDE DEF take
  <2> QED BY DEF CatalogCost, FifoPreviewCost, CatalogBeyond, CostBeyond, LastKnownUnitCost
<1>4. cost \in Nat
  <2> HIDE DEF take, cost
  <2> QED BY <1>1, <1>2, <1>3, PreviewCostNat
<1>5. visits[v].tier \in Multipliers
  BY DEF QuotesInv, QuotesTypeOK, VisitRow
<1>6. price \in Nat
  <2> HIDE DEF cost
  <2> QED BY <1>1, <1>4, <1>5, PriceNat
<1>7. Preview(visits[v].tier) = WithTax(Labour + price)
  BY DEF Preview
<1> HIDE DEF price
<1>8. Labour + price \in Nat
  BY <1>6, TaxAndLabourNat
<1> QED BY <1>7, <1>8, TaxAndLabourNat

\* The summary of an order is an amount.
LEMMA SummaryNat ==
  ASSUME QuotesInv, NEW v \in Visits
  PROVE  Summary(v) \in Nat
<1> DEFINE S == {s \in Slots : HasLine(<<v, s>>)}
           f == [s \in S |-> quoteLines[<<v, s>>].total]
           sum == Total(f)
           work == visits[v].jobs * Labour
<1>1. S \subseteq Slots /\ DOMAIN f = S
  OBVIOUS
<1>2. \A s \in S : f[s] \in Nat
  <2> TAKE s \in S
  <2>1. <<v, s>> \in LineIds /\ HasLine(<<v, s>>)
    BY DEF LineIds
  <2>2. quoteLines[<<v, s>>].total \in Nat
    BY <2>1, LinesKnown
  <2> QED BY <2>2
<1>3. sum \in Nat
  <2> HIDE DEF f, S
  <2>1. IsFiniteSet(S)
    BY <1>1, LineIdsFinite, FS_Subset
  <2>2. Total(f) = SumFunctionOnSet(f, S)
    BY <1>1 DEF Total, SumFunction
  <2> QED BY <1>2, <2>1, <2>2, SumNat
<1>4. work \in Nat
  <2>1. visits[v].jobs \in Nat
    BY QuotesAssumption DEF QuotesInv, QuotesTypeOK, VisitRow
  <2> QED BY <2>1, TaxAndLabourNat
<1>5. Summary(v) = WithTax(sum + work)
  BY DEF Summary
<1> HIDE DEF sum, work
<1>6. sum + work \in Nat
  BY <1>3, <1>4
<1> QED BY <1>5, <1>6, TaxAndLabourNat

\* One line is written, or goes.
LEMMA LineWritten ==
  ASSUME QuotesInv, NEW k \in LineIds, NEW x, Priced(x) \/ x = NoLine,
         x # NoLine => HasLine(k) \/ k[2] \in {"job", "part"},
         NEW Q, Q = [quoteLines EXCEPT ![k] = x]
  PROVE  DOMAIN Q = LineIds /\ LinesPriced(Q) /\ LinesApproved(Q, upsell)
<1>1. DOMAIN quoteLines = LineIds /\ LinesPriced(quoteLines) /\ LinesApproved(quoteLines, upsell)
  BY DEF QuotesInv, QuotesTypeOK
<1>2. DOMAIN Q = LineIds /\ Q[k] = x /\ \A j \in LineIds \ {k} : Q[j] = quoteLines[j]
  BY <1>1
<1>3. LinesPriced(Q)
  BY <1>1, <1>2 DEF LinesPriced
<1>4. ASSUME upsell.status # "aprobado", NEW v \in Visits, NEW s \in {"upsellJob", "upsellPart"}
      PROVE  Q[<<v, s>>] = NoLine
  <2>1. <<v, s>> \in LineIds /\ quoteLines[<<v, s>>] = NoLine /\ <<v, s>>[2] = s
    BY <1>1, <1>4 DEF LineIds, Slots, JobSlots, LinesApproved
  <2>2. CASE k = <<v, s>>
    BY <1>2, <2>1, <2>2 DEF HasLine
  <2>3. CASE k # <<v, s>>
    BY <1>2, <2>1, <2>3
  <2> QED BY <2>2, <2>3
<1>5. LinesApproved(Q, upsell)
  BY <1>4 DEF LinesApproved
<1> QED BY <1>2, <1>3, <1>5

\* So the rest of the invariant is about the other variables.
LEMMA QuotesFrom ==
  ASSUME layers' \in Seq([cost : Nat, left : Nat]), Len(layers') <= MaxLots,
         listPrice' \in CatalogPrices \cup {NoList},
         visits' \in [Visits -> VisitRow],
         DOMAIN quoteLines' = LineIds, LinesPriced(quoteLines'), LinesApproved(quoteLines', upsell'),
         shown' \in [visit : Visits \cup {"none"}, total : Nat],
         upsell' \in UpsellRow, FindingsUnits(upsell')
  PROVE  QuotesInv'
<1>1. \A k \in LineIds : quoteLines'[k] = NoLine \/ quoteLines'[k] \in LineRow
  BY DEF LinesPriced, Priced
<1>2. QuotesTypeOK'
  BY <1>1 DEF QuotesTypeOK
<1> QED BY <1>2 DEF QuotesInv

\* A blank screen shows an amount.
LEMMA NoPreviewFits == NoPreview \in [visit : Visits \cup {"none"}, total : Nat]
BY DEF NoPreview

\* What the invariant says of each variable.
LEMMA QuotesFacts ==
  ASSUME QuotesInv
  PROVE  /\ layers \in Seq([cost : Nat, left : Nat]) /\ Len(layers) <= MaxLots
         /\ listPrice \in CatalogPrices \cup {NoList}
         /\ visits \in [Visits -> VisitRow]
         /\ DOMAIN quoteLines = LineIds /\ LinesPriced(quoteLines) /\ LinesApproved(quoteLines, upsell)
         /\ shown \in [visit : Visits \cup {"none"}, total : Nat]
         /\ upsell \in UpsellRow /\ FindingsUnits(upsell)
BY DEF QuotesInv, QuotesTypeOK

\* The unit price of a line that stays moves with the discount alone.
QuoteStays ==
  \A k \in LineIds :
    HasLine(k) /\ HasLine(k)' /\ visits[k[1]].tier' = visits[k[1]].tier =>
      quoteLines[k].perUnit' = quoteLines[k].perUnit

\* Unit prices stay when no line changes,
LEMMA SameLines == ASSUME quoteLines' = quoteLines PROVE QuoteStays
BY DEF QuoteStays

\* or when one does that keeps its unit price.
LEMMA OneLine ==
  ASSUME QuotesInv, NEW k \in LineIds, NEW x, quoteLines' = [quoteLines EXCEPT ![k] = x],
         x = NoLine \/ ~HasLine(k) \/ x.perUnit = quoteLines[k].perUnit
  PROVE  QuoteStays
<1>1. DOMAIN quoteLines = LineIds
  BY DEF QuotesInv, QuotesTypeOK
<1>2. quoteLines'[k] = x /\ \A j \in LineIds \ {k} : quoteLines'[j] = quoteLines[j]
  BY <1>1
<1> SUFFICES ASSUME NEW j \in LineIds, HasLine(j), HasLine(j)'
             PROVE  quoteLines'[j].perUnit = quoteLines[j].perUnit
  BY DEF QuoteStays
<1>3. CASE j = k
  BY <1>2, <1>3 DEF HasLine
<1>4. CASE j # k
  BY <1>2, <1>4
<1> QED BY <1>3, <1>4

(* The shelf *)

\* A delivery appends a lot.
LEMMA ReceiveLayerFits ==
  ASSUME QuotesInv, NEW n \in LotUnits, ReceiveLayer(n)
  PROVE  QuotesInv' /\ QuoteStays
<1> DEFINE S == [cost : Nat, left : Nat]
           c == LayerCosts[Len(layers) + 1]
           x == [cost |-> c, left |-> n]
<1>1. layers \in Seq(S) /\ Len(layers) \in 0..MaxLots /\ MaxLots \in Nat /\ Len(layers) < MaxLots
  BY LotsKnown DEF QuotesInv, QuotesTypeOK, ReceiveLayer
<1>2. c \in Nat
  <2>1. LayerCosts \in Seq(Nat) /\ Len(LayerCosts) = MaxLots
    BY QuotesAssumption DEF MaxLots
  <2>2. Len(layers) + 1 \in 1..Len(LayerCosts)
    BY <1>1, <2>1
  <2> QED BY <2>1, <2>2, ElementOfSeq
<1>3. n \in Nat
  BY QuotesAssumption
<1>4. layers' = Append(layers, x) /\ UNCHANGED <<listPrice, visits, quoteLines, shown, upsell>>
  BY DEF ReceiveLayer
<1>5. x \in S
  <2> HIDE DEF c
  <2> QED BY <1>2, <1>3
<1> HIDE DEF x, S
<1>6. layers' \in Seq(S) /\ Len(layers') = Len(layers) + 1
  BY <1>1, <1>4, <1>5, AppendProperties
<1>7. Len(layers') <= MaxLots
  BY <1>1, <1>6
<1>8. QuotesInv'
  BY <1>4, <1>6, <1>7, QuotesFacts, QuotesFrom DEF S
<1> QED BY <1>4, <1>8, SameLines

\* The list price changes no line.
LEMMA SetListPriceFits ==
  ASSUME QuotesInv, NEW p \in CatalogPrices, SetListPrice(p)
  PROVE  QuotesInv' /\ QuoteStays
<1>1. listPrice' = p /\ UNCHANGED <<layers, visits, quoteLines, shown, upsell>>
  BY DEF SetListPrice
<1>2. QuotesInv'
  BY <1>1, QuotesFacts, QuotesFrom
<1> QED BY <1>1, <1>2, SameLines

\* A pledge that lapses leaves the price.
LEMMA PledgeLapsesFits ==
  ASSUME QuotesInv, NEW k \in LineIds, PledgeLapses(k)
  PROVE  QuotesInv' /\ QuoteStays
<1> DEFINE row == quoteLines[k]
           x == [row EXCEPT !.fresh = FALSE]
<1>1. HasLine(k) /\ UNCHANGED <<layers, listPrice, visits, shown, upsell>>
  BY DEF PledgeLapses, Pledges
<1>2. quoteLines' = [quoteLines EXCEPT ![k] = x]
  BY DEF PledgeLapses
<1>3. Priced(row) /\ row \in LineRow
  BY <1>1, LinesKnown
<1>4. Priced(x) /\ x.perUnit = row.perUnit
  <2> HIDE DEF row
  <2>1. x \in LineRow /\ x.qty = row.qty /\ x.perUnit = row.perUnit
    BY <1>3 DEF LineRow
  <2> QED BY <1>3, <2>1 DEF Priced
<1> HIDE DEF x
<1>5. DOMAIN quoteLines' = LineIds /\ LinesPriced(quoteLines') /\ LinesApproved(quoteLines', upsell)
  BY <1>1, <1>2, <1>4, LineWritten
<1>6. QuotesInv'
  BY <1>1, <1>5, QuotesFacts, QuotesFrom
<1> QED BY <1>2, <1>4, <1>6, OneLine

\* What leaves the shelf was on it.
LEMMA TakeLineFits ==
  ASSUME QuotesInv, NEW k \in LineIds, TakeLine(k)
  PROVE  QuotesInv' /\ QuoteStays
<1> DEFINE row == quoteLines[k]
           take == Allocation(Unpledged({k}), row.qty)
           cost == CostOf(take)
           x == [row EXCEPT !.taken = TRUE, !.cost = cost, !.pledged = take]
           S == [cost : Nat, left : Nat]
<1>1. HasLine(k) /\ UNCHANGED <<listPrice, visits, shown, upsell>>
  BY DEF TakeLine
<1>2. layers' = [l \in Lots |-> [layers[l] EXCEPT !.left = @ - take[l]]]
      /\ quoteLines' = [quoteLines EXCEPT ![k] = x]
  BY DEF TakeLine
<1>3. Priced(row) /\ row \in LineRow /\ row.qty \in Nat
  BY <1>1, LinesKnown
<1>4. Unpledged({k}) \in [Lots -> Nat] /\ \A l \in Lots : Unpledged({k})[l] <= layers[l].left
  BY UnpledgedNat
<1>5. Takes(take, row.qty) /\ \A l \in Lots : take[l] <= Unpledged({k})[l]
  <2> HIDE DEF row
  <2> QED BY <1>3, <1>4, AllocationTakes
<1>6. take \in [1..MaxLots -> Nat]
  BY <1>5 DEF Takes
<1>7. cost \in Nat
  <2> HIDE DEF take
  <2> QED BY <1>6, CostNat
<1>8. Priced(x) /\ x.perUnit = row.perUnit
  <2> HIDE DEF row, take, cost
  <2>1. x \in LineRow /\ x.qty = row.qty /\ x.perUnit = row.perUnit
    BY <1>3, <1>6, <1>7 DEF LineRow
  <2> QED BY <1>3, <2>1 DEF Priced
<1>9. DOMAIN quoteLines' = LineIds /\ LinesPriced(quoteLines') /\ LinesApproved(quoteLines', upsell)
  <2> HIDE DEF x
  <2> QED BY <1>1, <1>2, <1>8, LineWritten
<1>10. layers' \in Seq(S) /\ Len(layers') <= MaxLots
  <2>1. /\ MaxLots \in Nat /\ Len(layers) \in 0..MaxLots /\ Lots = 1..Len(layers) /\ Lots \subseteq 1..MaxLots
        /\ layers \in [Lots -> S] /\ \A l \in Lots : layers[l].left \in Nat
    BY LotsKnown DEF QuotesInv, Layer
  <2> DEFINE f == [l \in Lots |-> [layers[l] EXCEPT !.left = @ - take[l]]]
             n == Len(layers)
  <2>2. ASSUME NEW l \in Lots
        PROVE  f[l] \in S
    <3> DEFINE left == layers[l].left - take[l]
    <3>1. take[l] \in Nat /\ Unpledged({k})[l] \in Nat /\ take[l] <= Unpledged({k})[l]
          /\ Unpledged({k})[l] <= layers[l].left /\ layers[l].left \in Nat /\ layers[l] \in S
      BY <1>4, <1>5, <1>6, <2>1
    <3>2. left \in Nat
      <4> HIDE DEF take
      <4> QED BY <3>1
    <3>3. f[l] = [layers[l] EXCEPT !.left = left]
      OBVIOUS
    <3> HIDE DEF left, take, f
    <3> QED BY <3>1, <3>2, <3>3
  <2>3. f \in [1..n -> S]
    <3>1. f = [l \in Lots |-> f[l]]
      OBVIOUS
    <3> HIDE DEF f, S
    <3> QED BY <2>1, <2>2, <3>1
  <2>4. layers' = f
    BY <1>2
  <2>5. n \in Nat
    BY <2>1
  <2> HIDE DEF f, S
  <2>6. f \in Seq(S)
    BY <2>3, <2>5, SeqDef
  <2>7. Len(f) = n
    <3>1. Len(f) \in Nat /\ DOMAIN f = 1..Len(f)
      BY <2>6, LenProperties
    <3>2. 1..Len(f) = 1..n
      BY <2>3, <3>1
    <3> DEFINE m == Len(f)
    <3> HIDE DEF m, n
    <3>3. \A i \in Nat : i \in 1..m <=> i \in 1..n
      BY <3>2 DEF m
    <3>4. m \in Nat
      BY <3>1 DEF m
    <3>5. m > n => FALSE
      BY <2>5, <3>3, <3>4
    <3>6. m < n => FALSE
      BY <2>5, <3>3, <3>4
    <3>7. m = n
      BY <2>5, <3>4, <3>5, <3>6
    <3> QED BY <3>7 DEF m
  <2> QED BY <2>1, <2>4, <2>6, <2>7
<1> HIDE DEF x
<1>11. QuotesInv'
  BY <1>1, <1>9, <1>10, QuotesFacts, QuotesFrom
<1> QED BY <1>2, <1>8, <1>11, OneLine

(* Orders and their lines *)

\* An order is opened,
LEMMA OpenVisitFits ==
  ASSUME QuotesInv, NEW v \in Visits, NEW tier \in Tiers, OpenVisit(v, tier)
  PROVE  QuotesInv' /\ QuoteStays
<1>1. visits' = [visits EXCEPT ![v] = Opened(tier)] /\ UNCHANGED <<layers, listPrice, quoteLines, shown, upsell>>
  BY DEF OpenVisit
<1>2. Opened(tier) \in VisitRow
  BY QuotesAssumption DEF Opened, VisitRow, VisitStatus
<1>3. visits' \in [Visits -> VisitRow]
  BY <1>1, <1>2, QuotesFacts
<1>4. QuotesInv'
  BY <1>1, <1>3, QuotesFacts, QuotesFrom
<1> QED BY <1>1, <1>4, SameLines

\* and the advisor previews the job for it.
LEMMA PreviewJobFits ==
  ASSUME QuotesInv, NEW v \in Visits, PreviewJob(v)
  PROVE  QuotesInv' /\ QuoteStays
<1> DEFINE total == Preview(visits[v].tier)
<1>1. shown' = [visit |-> v, total |-> total] /\ UNCHANGED <<layers, listPrice, visits, quoteLines, upsell>>
  BY DEF PreviewJob
<1>2. total \in Nat
  BY PreviewNat
<1> HIDE DEF total
<1>3. shown' \in [visit : Visits \cup {"none"}, total : Nat]
  BY <1>1, <1>2
<1>4. QuotesInv'
  BY <1>1, <1>3, QuotesFacts, QuotesFrom
<1> QED BY <1>1, <1>4, SameLines

\* An order with one more job.
LEMMA JobCounted ==
  ASSUME QuotesInv, NEW v \in Visits, visits[v].jobs < MaxJobs,
         NEW V, V = [visits EXCEPT ![v].jobs = @ + 1]
  PROVE  V \in [Visits -> VisitRow] /\ \A w \in Visits : V[w].tier = visits[w].tier
<1> DEFINE row == visits[v]
           n == row.jobs + 1
<1>1. visits \in [Visits -> VisitRow] /\ row \in VisitRow /\ MaxJobs \in Nat
  BY QuotesAssumption DEF QuotesInv, QuotesTypeOK
<1>2. n \in 0..MaxJobs
  BY <1>1 DEF VisitRow
<1>3. V = [visits EXCEPT ![v] = [row EXCEPT !.jobs = n]]
  BY <1>1
<1> HIDE DEF row, n
<1>4. [row EXCEPT !.jobs = n] \in VisitRow /\ [row EXCEPT !.jobs = n].tier = row.tier
  BY <1>1, <1>2 DEF VisitRow
<1> QED BY <1>1, <1>3, <1>4 DEF row

\* The job writes a line where there was none,
LEMMA AddJobFits ==
  ASSUME QuotesInv, NEW v \in Visits, NEW asShown \in BOOLEAN, AddJob(v, asShown)
  PROVE  QuotesInv' /\ QuoteStays
<1> DEFINE k == <<v, "job">>
           x == JobLine(v)
<1>1. /\ ~HasLine(k) /\ visits[v].jobs < MaxJobs
      /\ quoteLines' = [quoteLines EXCEPT ![k] = x] /\ visits' = [visits EXCEPT ![v].jobs = @ + 1]
      /\ shown' = NoPreview /\ UNCHANGED <<layers, listPrice, upsell>>
  BY DEF AddJob
<1>2. k \in LineIds /\ k[2] \in {"job", "part"}
  BY DEF LineIds, Slots, JobSlots
<1>3. Priced(x)
  BY JobLineFits
<1> HIDE DEF k, x
<1>4. DOMAIN quoteLines' = LineIds /\ LinesPriced(quoteLines') /\ LinesApproved(quoteLines', upsell)
  BY <1>1, <1>2, <1>3, LineWritten
<1>5. visits' \in [Visits -> VisitRow]
  BY <1>1, JobCounted
<1>6. QuotesInv'
  BY <1>1, <1>4, <1>5, NoPreviewFits, QuotesFacts, QuotesFrom
<1> QED BY <1>1, <1>2, <1>6, OneLine

\* and so does a part added by hand.
LEMMA AddPartFits ==
  ASSUME QuotesInv, NEW v \in Visits, NEW n \in ExtraUnits, AddPart(v, n)
  PROVE  QuotesInv' /\ QuoteStays
<1> DEFINE k == <<v, "part">>
           take == Allocation(Unpledged({}), n)
           x == Added(v, n, 0, take)
<1>1. /\ ~HasLine(k) /\ quoteLines' = [quoteLines EXCEPT ![k] = x]
      /\ shown' = NoPreview /\ UNCHANGED <<layers, listPrice, visits, upsell>>
  BY DEF AddPart
<1>2. k \in LineIds /\ k[2] \in {"job", "part"}
  BY DEF LineIds, Slots, JobSlots
<1>3. n \in Nat \ {0}
  BY QuotesAssumption
<1>4. Takes(take, n)
  BY <1>3, FreshTakes
<1>5. Priced(x)
  <2> HIDE DEF take
  <2> QED BY <1>3, <1>4, AddedFits
<1> HIDE DEF k, x
<1>6. DOMAIN quoteLines' = LineIds /\ LinesPriced(quoteLines') /\ LinesApproved(quoteLines', upsell)
  BY <1>1, <1>2, <1>5, LineWritten
<1>7. QuotesInv'
  BY <1>1, <1>6, NoPreviewFits, QuotesFacts, QuotesFrom
<1> QED BY <1>1, <1>2, <1>7, OneLine

\* A line that gets other units stays at its price.
LEMMA LineResized ==
  ASSUME QuotesInv, NEW k \in LineIds, HasLine(k), NEW n \in Nat \ {0},
         quoteLines' = [quoteLines EXCEPT ![k] = Resized(@, n, Allocation(Unpledged({k}), n))],
         shown' = NoPreview, UNCHANGED <<layers, listPrice, visits, upsell>>
  PROVE  QuotesInv' /\ QuoteStays
<1> DEFINE take == Allocation(Unpledged({k}), n)
           x == Resized(quoteLines[k], n, take)
<1>1. quoteLines' = [quoteLines EXCEPT ![k] = x]
  OBVIOUS
<1>2. Takes(take, n)
  BY FreshTakes
<1>3. Priced(x) /\ x.perUnit = quoteLines[k].perUnit
  <2> HIDE DEF take
  <2> QED BY <1>2, ResizedFits
<1> HIDE DEF x
<1>4. DOMAIN quoteLines' = LineIds /\ LinesPriced(quoteLines') /\ LinesApproved(quoteLines', upsell)
  BY <1>1, <1>3, LineWritten
<1>5. QuotesInv'
  BY <1>4, NoPreviewFits, QuotesFacts, QuotesFrom
<1> QED BY <1>1, <1>3, <1>5, OneLine

\* A second request for the part tops up its line.
LEMMA TopUpPartFits ==
  ASSUME QuotesInv, NEW v \in Visits, NEW n \in ExtraUnits, TopUpPart(v, n)
  PROVE  QuotesInv' /\ QuoteStays
<1> DEFINE k == <<v, "part">>
           qty == quoteLines[k].qty + n
<1>1. /\ HasLine(k)
      /\ quoteLines' = [quoteLines EXCEPT ![k] = Resized(@, qty, Allocation(Unpledged({k}), qty))]
      /\ shown' = NoPreview /\ UNCHANGED <<layers, listPrice, visits, upsell>>
  BY DEF TopUpPart
<1>2. k \in LineIds
  BY DEF LineIds, Slots, JobSlots
<1>3. n \in Nat \ {0}
  BY QuotesAssumption
<1> HIDE DEF k
<1>4. qty \in Nat \ {0}
  <2>1. quoteLines[k].qty \in Nat \ {0}
    BY <1>1, <1>2, LinesKnown
  <2> QED BY <1>3, <2>1
<1> HIDE DEF qty
<1> QED BY <1>1, <1>2, <1>4, LineResized

\* The advisor sets the units of a line,
LEMMA SetLineQuantityFits ==
  ASSUME QuotesInv, NEW k \in LineIds, NEW n \in ExtraUnits, SetLineQuantity(k, n)
  PROVE  QuotesInv' /\ QuoteStays
<1>1. n \in Nat \ {0}
  BY QuotesAssumption
<1>2. /\ HasLine(k)
      /\ quoteLines' = [quoteLines EXCEPT ![k] = Resized(@, n, Allocation(Unpledged({k}), n))]
      /\ shown' = NoPreview /\ UNCHANGED <<layers, listPrice, visits, upsell>>
  BY DEF SetLineQuantity
<1> QED BY <1>1, <1>2, LineResized

\* or removes it.
LEMMA RemoveLineFits ==
  ASSUME QuotesInv, NEW k \in LineIds, RemoveLine(k)
  PROVE  QuotesInv' /\ QuoteStays
<1>1. /\ quoteLines' = [quoteLines EXCEPT ![k] = NoLine]
      /\ shown' = NoPreview /\ UNCHANGED <<layers, listPrice, visits, upsell>>
  BY DEF RemoveLine
<1>2. DOMAIN quoteLines' = LineIds /\ LinesPriced(quoteLines') /\ LinesApproved(quoteLines', upsell)
  BY <1>1, LineWritten
<1>3. QuotesInv'
  BY <1>1, <1>2, NoPreviewFits, QuotesFacts, QuotesFrom
<1> QED BY <1>1, <1>3, OneLine

\* The order's discount prices its lines again, and no other order's.
LEMMA ChangeDiscountFits ==
  ASSUME QuotesInv, NEW v \in Visits, NEW tier \in LaterTiers, ChangeDiscount(v, tier)
  PROVE  QuotesInv' /\ QuoteStays
<1>1. /\ tier # visits[v].tier /\ visits' = [visits EXCEPT ![v].tier = tier]
      /\ quoteLines' = [k \in LineIds |->
           IF k[1] = v /\ HasLine(k) THEN Repriced(k, tier) ELSE quoteLines[k]]
      /\ shown' = NoPreview /\ UNCHANGED <<layers, listPrice, upsell>>
  BY DEF ChangeDiscount
<1>2. tier \in Multipliers
  BY QuotesAssumption
<1>3. visits \in [Visits -> VisitRow]
  BY QuotesFacts
<1>4. visits' \in [Visits -> VisitRow] /\ visits'[v].tier = tier
  <2> DEFINE row == visits[v]
             x == [row EXCEPT !.tier = tier]
  <2>1. visits' = [visits EXCEPT ![v] = x] /\ row \in VisitRow
    BY <1>1, <1>3
  <2> HIDE DEF row
  <2>2. x \in VisitRow /\ x.tier = tier
    BY <1>2, <2>1 DEF VisitRow
  <2> HIDE DEF x
  <2> QED BY <1>3, <2>1, <2>2
<1>5. ASSUME NEW k \in LineIds, HasLine(k)
      PROVE  Priced(Repriced(k, tier))
  <2> DEFINE row == quoteLines[k]
             total == PriceCatalog(row.cost, row.qty, tier)
             unit == <<total, row.qty>>
             x == [row EXCEPT !.total = total, !.perUnit = unit]
  <2>1. row \in LineRow /\ row.cost \in Nat /\ row.qty \in Nat \ {0}
    BY <1>5, LinesKnown
  <2>2. total \in Nat
    <3> HIDE DEF row
    <3> QED BY <1>2, <2>1, PriceNat
  <2>3. Repriced(k, tier) = x
    BY DEF Repriced
  <2>4. unit \in Nat \X Nat /\ unit[2] > 0
    <3> HIDE DEF total
    <3> QED BY <2>1, <2>2
  <2> HIDE DEF row, total, unit
  <2>5. x \in LineRow /\ x.qty = row.qty /\ x.perUnit = unit
    BY <2>1, <2>2, <2>4 DEF LineRow
  <2> QED BY <2>1, <2>3, <2>4, <2>5 DEF Priced
<1>6. \A k \in LineIds : HasLine(k) => quoteLines[k] # NoLine /\ Priced(quoteLines[k])
  BY LinesKnown DEF HasLine
<1>7. \A k \in LineIds : ~HasLine(k) => quoteLines[k] = NoLine
  BY DEF HasLine
<1>8. LinesPriced(quoteLines')
  BY <1>1, <1>5, <1>6, <1>7 DEF LinesPriced
<1>9. \A k \in LineIds : ~HasLine(k) => quoteLines'[k] = NoLine
  BY <1>1, <1>7
<1>10. LinesApproved(quoteLines', upsell)
  <2> SUFFICES ASSUME upsell.status # "aprobado", NEW w \in Visits, NEW s \in {"upsellJob", "upsellPart"}
               PROVE  quoteLines'[<<w, s>>] = NoLine
    BY DEF LinesApproved
  <2>1. quoteLines[<<w, s>>] = NoLine /\ <<w, s>> \in LineIds
    BY QuotesFacts DEF LinesApproved, LineIds, Slots, JobSlots
  <2> QED BY <1>9, <2>1 DEF HasLine
<1>11. DOMAIN quoteLines' = LineIds
  BY <1>1
<1>12. QuotesInv'
  BY <1>1, <1>4, <1>8, <1>10, <1>11, NoPreviewFits, QuotesFacts, QuotesFrom
<1>13. QuoteStays
  <2> SUFFICES ASSUME NEW k \in LineIds, visits'[k[1]].tier = visits[k[1]].tier
               PROVE  quoteLines'[k] = quoteLines[k]
    BY DEF QuoteStays
  <2>1. k[1] # v
    BY <1>1, <1>4
  <2> QED BY <1>1, <2>1
<1> QED BY <1>12, <1>13

\* An invoice freezes the summary.
LEMMA InvoiceVisitFits ==
  ASSUME QuotesInv, NEW v \in Visits, InvoiceVisit(v)
  PROVE  QuotesInv' /\ QuoteStays
<1> DEFINE row == visits[v]
           sum == Summary(v)
           x == [row EXCEPT !.status = "invoiced", !.frozen = sum]
<1>1. /\ visits' = [visits EXCEPT ![v] = x]
      /\ shown' = NoPreview /\ UNCHANGED <<layers, listPrice, quoteLines, upsell>>
  BY DEF InvoiceVisit
<1>2. visits \in [Visits -> VisitRow] /\ row \in VisitRow
  BY QuotesFacts
<1>3. sum \in Nat
  BY SummaryNat
<1> HIDE DEF row, sum
<1>4. x \in VisitRow
  BY <1>2, <1>3 DEF VisitRow, VisitStatus
<1> HIDE DEF x
<1>5. visits' \in [Visits -> VisitRow]
  BY <1>1, <1>2, <1>4
<1>6. QuotesInv'
  BY <1>1, <1>5, NoPreviewFits, QuotesFacts, QuotesFrom
<1> QED BY <1>1, <1>6, SameLines

(* Findings *)

\* A finding is written with what it would cost today.
LEMMA CreateUpsellFits ==
  ASSUME QuotesInv, NEW v \in Visits, NEW n \in ExtraUnits, CreateUpsell(v, n)
  PROVE  QuotesInv' /\ QuoteStays
<1> DEFINE take == Allocation(Unpledged({}), n)
           price == Added(v, n, 0, take).total
           quoted == Labour + price
           x == [status |-> "pendiente", origin |-> v, units |-> n, quoted |-> quoted]
<1>1. /\ upsell.status = "none" /\ upsell' = x
      /\ shown' = NoPreview /\ UNCHANGED <<layers, listPrice, visits, quoteLines>>
  BY DEF CreateUpsell
<1>2. n \in Nat \ {0}
  BY QuotesAssumption
<1>3. Takes(take, n)
  BY <1>2, FreshTakes
<1>4. price \in Nat
  <2> HIDE DEF take
  <2> QED BY <1>2, <1>3, AddedFits
<1>5. quoted \in Nat
  <2> HIDE DEF price
  <2> QED BY <1>4, TaxAndLabourNat
<1> HIDE DEF quoted
<1>6. x \in UpsellRow /\ x.status = "pendiente" /\ x.units = n
  BY <1>2, <1>5 DEF UpsellRow, UpsellStatus
<1> HIDE DEF x
<1>7. LinesApproved(quoteLines, upsell)
  BY QuotesFacts
<1>8. LinesApproved(quoteLines, upsell') /\ FindingsUnits(upsell')
  BY <1>1, <1>2, <1>6, <1>7 DEF LinesApproved, FindingsUnits
<1>9. QuotesInv'
  BY <1>1, <1>6, <1>8, NoPreviewFits, QuotesFacts, QuotesFrom
<1> QED BY <1>1, <1>9, SameLines

\* An approved finding writes two lines that were not there.
LEMMA ApproveUpsellFits ==
  ASSUME QuotesInv, NEW v \in Visits, ApproveUpsell(v)
  PROVE  QuotesInv' /\ QuoteStays
<1> DEFINE first == JobLine(v)
           free == Unpledged({})
           left == [l \in Lots |-> Max({0, free[l] - first.pledged[l]})]
           take == Allocation(left, upsell.units)
           second == Added(v, upsell.units, 0, take)
           j == <<v, "upsellJob">>
           k == <<v, "upsellPart">>
           x == [upsell EXCEPT !.status = "aprobado"]
<1>1. /\ Undecided /\ visits[v].jobs < MaxJobs
      /\ shown' = NoPreview /\ UNCHANGED <<layers, listPrice>>
  BY DEF ApproveUpsell
<1>2. Approved(v, first, second)
  BY DEF ApproveUpsell
<1>3. /\ quoteLines' = [quoteLines EXCEPT ![j] = first, ![k] = second]
      /\ visits' = [visits EXCEPT ![v].jobs = @ + 1]
      /\ upsell' = x
  BY <1>2 DEF Approved
<1>4. upsell \in UpsellRow /\ upsell.units \in Nat \ {0} /\ upsell.status # "aprobado"
  BY <1>1, QuotesFacts DEF Undecided, FindingsUnits, UpsellRow
<1>5. Priced(first) /\ first.pledged = Allocation(free, JobUnits)
  BY JobLineFits
<1>6. left \in [Lots -> Nat]
  <2>1. free \in [Lots -> Nat]
    BY UnpledgedNat
  <2>2. JobUnits \in Nat
    BY QuotesAssumption
  <2>3. first.pledged \in [1..MaxLots -> Nat]
    <3> HIDE DEF first, free
    <3> QED BY <1>5, <2>1, <2>2, AllocationTakes DEF Takes
  <2>4. Lots \subseteq 1..MaxLots
    BY LotsKnown DEF QuotesInv
  <2> DEFINE given == first.pledged
  <2> HIDE DEF free, first
  <2>5. ASSUME NEW l \in Lots
        PROVE  Max({0, free[l] - given[l]}) \in Nat
    <3> DEFINE d == free[l] - given[l]
    <3>1. d \in Int
      <4>1. free[l] \in Nat
        BY <2>1
      <4>2. given[l] \in Nat
        BY <2>3, <2>4 DEF given
      <4> QED BY <4>1, <4>2
    <3> HIDE DEF d
    <3>2. Max({0, d}) \in Nat
      BY <3>1, MaxOfPair DEF Most
    <3> QED BY <3>2 DEF d
  <2> QED BY <2>5
<1>7. Takes(take, upsell.units)
  <2> HIDE DEF left
  <2> QED BY <1>4, <1>6, AllocationTakes
<1>8. Priced(second)
  <2> HIDE DEF take
  <2> QED BY <1>4, <1>7, AddedFits
<1>9. j \in LineIds /\ k \in LineIds /\ j # k
  BY DEF LineIds, Slots, JobSlots
<1>10. DOMAIN quoteLines = LineIds /\ LinesPriced(quoteLines)
  BY QuotesFacts
<1>11. ~HasLine(j) /\ ~HasLine(k)
  BY <1>4, QuotesFacts DEF LinesApproved, HasLine
<1>12. x \in UpsellRow /\ x.status = "aprobado"
  BY <1>4 DEF UpsellRow, UpsellStatus
<1>13. visits' \in [Visits -> VisitRow]
  BY <1>1, <1>3, JobCounted
<1> HIDE DEF first, second, j, k, x
<1>14. /\ DOMAIN quoteLines' = LineIds /\ quoteLines'[j] = first /\ quoteLines'[k] = second
       /\ \A i \in LineIds \ {j, k} : quoteLines'[i] = quoteLines[i]
  BY <1>3, <1>9, <1>10
<1>15. LinesPriced(quoteLines')
  BY <1>5, <1>8, <1>10, <1>14 DEF LinesPriced
<1>16. LinesApproved(quoteLines', upsell') /\ FindingsUnits(upsell')
  BY <1>3, <1>12 DEF LinesApproved, FindingsUnits
<1>17. QuotesInv'
  BY <1>1, <1>3, <1>12, <1>13, <1>14, <1>15, <1>16, NoPreviewFits, QuotesFacts, QuotesFrom
<1>18. QuoteStays
  <2> SUFFICES ASSUME NEW i \in LineIds, HasLine(i)
               PROVE  quoteLines'[i].perUnit = quoteLines[i].perUnit
    BY DEF QuoteStays
  <2>1. i # j /\ i # k
    BY <1>11
  <2> QED BY <1>14, <2>1
<1> QED BY <1>17, <1>18

\* A finding is put off or rejected.
LEMMA PutOffUpsellFits ==
  ASSUME QuotesInv, NEW status \in UpsellStatus, PutOffUpsell(status)
  PROVE  QuotesInv' /\ QuoteStays
<1> DEFINE x == [upsell EXCEPT !.status = status]
<1>1. /\ Undecided /\ status \in {"pospuesto", "rechazado"} /\ upsell' = x
      /\ shown' = NoPreview /\ UNCHANGED <<layers, listPrice, visits, quoteLines>>
  BY DEF PutOffUpsell
<1>2. upsell \in UpsellRow /\ upsell.units > 0 /\ upsell.status # "aprobado" /\ LinesApproved(quoteLines, upsell)
  BY <1>1, QuotesFacts DEF Undecided, FindingsUnits
<1>3. x \in UpsellRow /\ x.status = status /\ x.units = upsell.units
  BY <1>2 DEF UpsellRow
<1> HIDE DEF x
<1>4. LinesApproved(quoteLines, upsell') /\ FindingsUnits(upsell')
  BY <1>1, <1>2, <1>3 DEF LinesApproved, FindingsUnits
<1>5. QuotesInv'
  BY <1>1, <1>3, <1>4, NoPreviewFits, QuotesFacts, QuotesFrom
<1> QED BY <1>1, <1>5, SameLines

\* The invariant starts and every step keeps it, and the unit prices.
LEMMA QuotesStart == QuotesInit => QuotesInv
<1> SUFFICES ASSUME QuotesInit PROVE QuotesInv
  OBVIOUS
<1>1. DefaultTier \in Multipliers /\ MaxJobs \in Nat /\ MaxLots \in Nat
  <2>1. Len(LayerCosts) \in Nat
    BY QuotesAssumption, LenProperties
  <2> QED BY <2>1, QuotesAssumption DEF DefaultTier, Multipliers, MaxLots
<1>2. layers \in Seq([cost : Nat, left : Nat]) /\ Len(layers) = 0
  BY EmptySeq DEF QuotesInit
<1>3. visits \in [Visits -> VisitRow]
  BY <1>1 DEF QuotesInit, VisitRow, VisitStatus
<1>4. DOMAIN quoteLines = LineIds /\ \A k \in LineIds : quoteLines[k] = NoLine
  BY DEF QuotesInit
<1>5. LinesPriced(quoteLines) /\ LinesApproved(quoteLines, upsell)
  BY <1>4 DEF LinesPriced, LinesApproved, LineIds, Slots, JobSlots
<1>6. upsell \in UpsellRow /\ FindingsUnits(upsell)
  BY DEF QuotesInit, UpsellRow, UpsellStatus, FindingsUnits
<1>7. shown \in [visit : Visits \cup {"none"}, total : Nat] /\ listPrice \in CatalogPrices \cup {NoList}
  BY NoPreviewFits DEF QuotesInit
<1>8. QuotesTypeOK
  BY <1>1, <1>2, <1>3, <1>4, <1>6, <1>7 DEF QuotesTypeOK
<1> QED BY <1>5, <1>6, <1>8 DEF QuotesInv

\* Every step keeps the invariant, and the unit prices.
LEMMA QuotesStep == QuotesInv /\ [QuotesNext]_quoteVars => QuotesInv' /\ [QuoteStays]_quoteVars
<1> SUFFICES ASSUME QuotesInv, [QuotesNext]_quoteVars PROVE QuotesInv' /\ [QuoteStays]_quoteVars
  OBVIOUS
<1>1. CASE UNCHANGED quoteVars
  BY <1>1, QuotesFacts, QuotesFrom DEF quoteVars
<1>2. ASSUME NEW n \in LotUnits, ReceiveLayer(n) PROVE QuotesInv' /\ QuoteStays
  BY <1>2, ReceiveLayerFits
<1>3. ASSUME NEW p \in CatalogPrices, SetListPrice(p) PROVE QuotesInv' /\ QuoteStays
  BY <1>3, SetListPriceFits
<1>4. ASSUME NEW k \in LineIds, PledgeLapses(k) \/ TakeLine(k) PROVE QuotesInv' /\ QuoteStays
  BY <1>4, PledgeLapsesFits, TakeLineFits
<1>5. ASSUME NEW v \in Visits, NEW t \in LaterTiers, ChangeDiscount(v, t) PROVE QuotesInv' /\ QuoteStays
  BY <1>5, ChangeDiscountFits
<1>6. ASSUME LineRoutes PROVE QuotesInv' /\ QuoteStays
  BY <1>6, AddPartFits, TopUpPartFits, RemoveLineFits, SetLineQuantityFits DEF LineRoutes
<1>7. ASSUME VisitRoutes PROVE QuotesInv' /\ QuoteStays
  <2>1. ASSUME NEW v \in Visits, NEW t \in Tiers, OpenVisit(v, t) PROVE QuotesInv' /\ QuoteStays
    BY <2>1, OpenVisitFits
  <2>2. ASSUME NEW v \in Visits, PreviewJob(v) \/ InvoiceVisit(v) PROVE QuotesInv' /\ QuoteStays
    BY <2>2, PreviewJobFits, InvoiceVisitFits
  <2>3. ASSUME NEW v \in Visits, NEW asShown \in BOOLEAN, AddJob(v, asShown) PROVE QuotesInv' /\ QuoteStays
    BY <2>3, AddJobFits
  <2> QED BY <1>7, <2>1, <2>2, <2>3, Zenon DEF VisitRoutes
<1>8. ASSUME UpsellRoutes PROVE QuotesInv' /\ QuoteStays
  BY <1>8, ApproveUpsellFits, CreateUpsellFits, PutOffUpsellFits DEF UpsellRoutes
<1> QED BY <1>1, <1>2, <1>3, <1>4, <1>5, <1>6, <1>7, <1>8, Zenon DEF QuotesNext

\* So the invariant holds of the component on its own.
LEMMA QuotesHold == QuotesSpec => []QuotesInv
<1>1. QuotesInv /\ [QuotesNext]_quoteVars => QuotesInv'
  BY QuotesStep
<1> QED BY <1>1, QuotesStart, PTL DEF QuotesSpec

-----------------------------------------------------------------------------
(* The components together *)

\* A behaviour of the composition is one of every component: the one in active
\* moves and the others, which share no state with it, stutter.
THEOREM CommerceIsItsComponents ==
  CommerceSpec =>
    /\ CounterSpec /\ ReceivablesSpec /\ PurchasesSpec
    /\ BooksSpec /\ AbsorptionSpec /\ QuotesSpec
<1>1. CommerceInit => /\ CounterInit /\ ReceivablesInit /\ PurchasesInit
                      /\ BooksInit /\ AbsorptionInit /\ QuotesInit
  BY DEF CommerceInit
<1>2. [CommerceNext]_commerceVars =>
        /\ [CounterNext]_counterVars /\ [ReceivablesNext]_receivableVars /\ [PurchasesNext]_purchaseVars
        /\ [BooksNext]_booksVars /\ [AbsorptionNext]_absorptionVars /\ [QuotesNext]_quoteVars
  BY Zenon DEF CommerceNext, CounterMoves, ReceivablesMove, PurchasesMove, BooksMove, AbsorptionMoves, QuotesMove,
               commerceVars
<1> QED BY <1>1, <1>2, PTL DEF CommerceSpec, CounterSpec, ReceivablesSpec, PurchasesSpec, BooksSpec, AbsorptionSpec,
                               QuotesSpec

\* The invariants of the components, together.
CommerceInv == CounterInv /\ ReceivablesInv /\ PurchasesInv /\ BooksInv /\ AbsorptionInv /\ QuotesInv

\* Each holds of its component, and so all of them of the composition.
LEMMA CommerceHolds == CommerceSpec => []CommerceInv
BY CommerceIsItsComponents, CounterHolds, ReceivablesHold, PurchasesHold, BooksHold, AbsorptionHolds, QuotesHold, PTL
   DEF CommerceInv

\* Every table keeps its columns' types: no count or amount goes below zero, no
\* quantity is taken twice of a lot, and no pointer leaves its table.
THEOREM CommerceTypeCorrect == CommerceSpec => []CommerceTypeOK
<1>1. CommerceInv => CommerceTypeOK
  BY DEF CommerceInv, CommerceTypeOK, CounterInv, ReceivablesInv, PurchasesInv, BooksInv, AbsorptionInv, QuotesInv
<1> QED BY <1>1, CommerceHolds, PTL

\* Whatever sales, cancellations, returns and imports overlap, every unit ever
\* received is on its lot or with one sale that stands, a sale collects its total
\* at most and what its receipts say, and the counter drifts by overwriting alone.
THEOREM CounterAccountsForAll == CommerceSpec => []SalesAccounted
<1>1. CommerceInv => SalesAccounted
  BY BalancedIsAccounted DEF CommerceInv
<1> QED BY <1>1, CommerceHolds, PTL

\* An invoice is collected exactly when nothing of it is pending, what entered is
\* what its receipts say, one per request, and no more than was due; and an order
\* gives its warranties once.
THEOREM InvoicesAreSettled == CommerceSpec => []InvoicesSettled
<1>1. CommerceInv => InvoicesSettled
  BY FairIsSettled DEF CommerceInv
<1> QED BY <1>1, CommerceHolds, PTL

\* An invoice is issued at the rate and for the amount that the client was
\* quoted, IGTF apart.
THEOREM InvoicesAreAsQuoted == CommerceSpec => InvoiceAsQuoted
<1>1. ReceivablesSpec => InvoiceAsQuoted
  BY QuotedStep, ReceivablesHold, PTL DEF ReceivablesSpec, InvoiceAsQuoted
<1> QED BY <1>1, CommerceIsItsComponents, PTL

\* However part, grouped and old payments, reversals and retries mix, what the
\* books posted for a purchase is no more than it was paid, and that no more than
\* its invoice, which it reaches exactly when the purchase counts as paid; and a
\* cancelled purchase brought nothing.
THEOREM PurchasesAreSettled == CommerceSpec => []PurchasesSettled
<1>1. CommerceInv => PurchasesSettled
  BY PaidUpSettles DEF CommerceInv
<1> QED BY <1>1, CommerceHolds, PTL

\* The months' flow is what the accounts hold, though different queries compute
\* them, and what was settled on the workshop's account has its own entry.
THEOREM AccountsAgreeWithBooks == CommerceSpec => []AccountsAgree
<1>1. CommerceInv => AccountsAgree
  BY BooksAgree, PostedIsSettled DEF CommerceInv, AccountsAgree
<1> QED BY <1>1, CommerceHolds, PTL

\* A month that is over keeps its result, whoever corrects its entries later.
THEOREM ClosedMonthsStay == CommerceSpec => ClosedBooksStay
BY BooksStayClosed, CommerceIsItsComponents, PTL

\* The price that the preview of a job shows for an open order is what adding
\* the job charges, whatever is on the shelf, pledged or sold out.
THEOREM JobsChargedAsPreviewed == CommerceSpec => []PreviewIsCharged
<1>1. CommerceInv => PreviewIsCharged
  BY ChargedAsPreviewed DEF CommerceInv
<1> QED BY <1>1, CommerceHolds, PTL

\* No delivery, list price, lapse, top-up, dispatch or approval moves the unit
\* price of a line that the client was quoted.
THEOREM QuotesAreKept == CommerceSpec => QuoteKept
<1>1. QuotesInv /\ [QuotesNext]_quoteVars => [QuoteStays]_quoteVars
  BY QuotesStep
<1>2. QuotesSpec => QuoteKept
  BY <1>1, QuotesHold, PTL DEF QuotesSpec, QuoteKept, QuoteStays
<1> QED BY <1>2, CommerceIsItsComponents, PTL
=============================================================================
