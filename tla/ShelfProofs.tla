---------------------------- MODULE ShelfProofs -----------------------------
(***************************************************************************)
(* What the shelf of a filial guarantees, proved for any number of lots,   *)
(* warehouses, orders, ODTs and units: the counter users see is the sum of  *)
(* the lots, no lot is promised twice, a transfer carries exactly what was *)
(* reserved, and a submitted ODT can be served.                            *)
(***************************************************************************)
EXTENDS WorkshopShelf, WorkshopProofs, Sums

-----------------------------------------------------------------------------
(* First in, first out.                                                    *)

\* There are finitely many lots.
LEMMA LotsFinite == IsFiniteSet(LotIds) /\ LotIds \subseteq Nat
<1>1. MaxLots \in Int
  BY BoundAssumption
<1> QED BY <1>1, FS_Interval DEF LotIds

\* The lot order of a pick is a strict total order.
LEMMA AheadOrder ==
  ASSUME NEW preferred
  PROVE  /\ \A l \in LotIds : ~Ahead(l, l, preferred)
         /\ \A l, m \in LotIds :
              Ahead(m, l, preferred) \/ m = l \/ Ahead(l, m, preferred)
         /\ \A l, m \in LotIds : Ahead(m, l, preferred) => ~Ahead(l, m, preferred)
         /\ \A k, l, m \in LotIds :
              Ahead(k, l, preferred) /\ Ahead(l, m, preferred) => Ahead(k, m, preferred)
BY LotsFinite DEF Ahead

\* Every nonempty set of lots has one that a pick reaches last.
LEMMA LastLot ==
  ASSUME NEW preferred, NEW D \in SUBSET LotIds, D # {}
  PROVE  \E x \in D : \A m \in D \ {x} : Ahead(m, x, preferred)
<1> DEFINE After(x) == {m \in D : Ahead(x, m, preferred)}
           Bad == {After(x) : x \in D}
<1>1. IsFiniteSet(D)
  BY LotsFinite, FS_Subset
<1>2. Bad \in SUBSET SUBSET D /\ Bad # {}
  OBVIOUS
<1>3. PICK S \in Bad : \A T \in Bad : T \subseteq S => T = S
  <2> HIDE DEF Bad
  <2> QED BY <1>1, <1>2, MinimalSubset
<1>4. PICK x \in D : S = After(x)
  BY <1>3
<1>5. ASSUME NEW y \in After(x)
      PROVE  FALSE
  <2>1. y \in D /\ y \in LotIds /\ x \in LotIds /\ Ahead(x, y, preferred)
    OBVIOUS
  <2>2. After(y) \subseteq After(x)
    BY <2>1, AheadOrder
  <2>3. y \notin After(y)
    BY <2>1, AheadOrder
  <2>4. After(y) = After(x)
    BY <1>3, <1>4, <2>1, <2>2
  <2> QED BY <2>3, <2>4
<1>6. \A m \in D \ {x} : Ahead(m, x, preferred)
  BY <1>5, AheadOrder
<1> QED BY <1>6

\* The smaller of what is asked and what there is.
Least(q, total) == IF q <= total THEN q ELSE total

\* A pick takes all that is asked, or all there is.
LEMMA PickTotal ==
  ASSUME NEW free \in [LotIds -> Nat], NEW preferred, NEW q \in Nat
  PROVE  Units(Pick(free, preferred, q), LotIds) = Least(q, Units(free, LotIds))
<1> DEFINE take == Pick(free, preferred, q)
           Before(l) == {m \in LotIds : Ahead(m, l, preferred)}
           Closed(D) == \A l \in D, m \in LotIds : Ahead(m, l, preferred) => m \in D
           Bad == {D \in SUBSET LotIds :
                     Closed(D) /\ Units(take, D) # Least(q, Units(free, D))}
<1>1. \A D \in SUBSET LotIds : Units(free, D) \in Nat /\ IsFiniteSet(D)
  BY LotsFinite, FS_Subset, SumNat DEF Units
<1> SUFFICES ASSUME Bad # {} PROVE FALSE
  OBVIOUS
<1>2. PICK D \in Bad : \A E \in Bad : E \subseteq D => E = D
  <2>1. Bad \in SUBSET SUBSET LotIds
    OBVIOUS
  <2>2. IsFiniteSet(LotIds)
    BY LotsFinite
  <2> HIDE DEF Bad
  <2> QED BY <2>1, <2>2, MinimalSubset
<1>3. D \in SUBSET LotIds /\ Closed(D) /\ Units(take, D) # Least(q, Units(free, D))
  OBVIOUS
<1>4. D # {}
  BY <1>3, SumEmpty DEF Units, Least
<1>5. PICK x \in D : \A m \in D \ {x} : Ahead(m, x, preferred)
  BY <1>3, <1>4, LastLot
<1>6. D \ {x} = Before(x) /\ x \in LotIds
  BY <1>3, <1>5, AheadOrder
<1>7. Units(take, D \ {x}) = Least(q, Units(free, D \ {x}))
  <2>1. Closed(D \ {x})
    BY <1>3, <1>5, AheadOrder
  <2>2. D \ {x} \in SUBSET LotIds /\ D \ {x} # D
    BY <1>3
  <2>3. D \ {x} \notin Bad
    BY <1>2, <2>2
  <2> HIDE DEF Closed, take
  <2> QED BY <2>1, <2>2, <2>3
<1>8. take \in [LotIds -> Nat]
  BY PickRange
<1>9. Units(take, D) = take[x] + Units(take, D \ {x})
  <2> HIDE DEF take
  <2> QED BY <1>1, <1>3, <1>5, <1>8, SumRemove DEF Units
<1>10. Units(free, D) = free[x] + Units(free, D \ {x})
  BY <1>1, <1>3, <1>5, SumRemove DEF Units
<1>11. take[x] = Clamp(q - Units(free, D \ {x}), free[x])
  BY <1>6 DEF Pick
<1>12. Units(free, D \ {x}) \in Nat /\ free[x] \in Nat /\ take[x] \in Nat
  BY <1>1, <1>3, <1>6, <1>8
<1> HIDE DEF take, Bad
<1> QED BY <1>3, <1>7, <1>9, <1>10, <1>11, <1>12 DEF Least, Clamp

\* A pick of units that are there takes exactly those.
LEMMA PickAll ==
  ASSUME NEW free \in [LotIds -> Nat], NEW preferred, NEW q \in Nat,
         Units(free, LotIds) <= q
  PROVE  \A l \in LotIds : Pick(free, preferred, q)[l] = free[l]
<1> SUFFICES ASSUME NEW l \in LotIds
             PROVE  Pick(free, preferred, q)[l] = free[l]
  OBVIOUS
<1> DEFINE Before == {m \in LotIds : Ahead(m, l, preferred)}
<1>1. l \notin Before /\ Before \in SUBSET LotIds /\ IsFiniteSet(Before)
  BY AheadOrder, LotsFinite, FS_Subset
<1>2. Units(free, Before \cup {l}) = free[l] + Units(free, Before)
  <2> HIDE DEF Before
  <2> QED BY <1>1, SumAdd DEF Units
<1>3. Units(free, Before \cup {l}) <= Units(free, LotIds)
  <2> HIDE DEF Before
  <2> QED BY <1>1, LotsFinite, SumSubset DEF Units
<1>4. Units(free, Before) \in Nat /\ Units(free, LotIds) \in Nat
  <2> HIDE DEF Before
  <2> QED BY <1>1, LotsFinite, SumNat DEF Units
<1>5. Pick(free, preferred, q)[l] = Clamp(q - Units(free, Before), free[l])
  BY DEF Pick
<1> HIDE DEF Before
<1> QED BY <1>2, <1>3, <1>4, <1>5 DEF Clamp

-----------------------------------------------------------------------------
(* The lots a received transfer creates.                                   *)

\* Counting the sources up to each of them numbers them from one.
LEMMA SourceRank ==
  ASSUME NEW take
  PROVE  LET S == Sources(take)
             rank == [l \in S |-> Cardinality({m \in S : m <= l})]
         IN  /\ rank \in [S -> 1..Cardinality(S)]
             /\ \A l, k \in S : rank[l] = rank[k] => l = k
             /\ \A n \in 1..Cardinality(S) : \E l \in S : rank[l] = n
<1> DEFINE S == Sources(take)
           UpTo(l) == {m \in S : m <= l}
           rank == [l \in S |-> Cardinality(UpTo(l))]
<1>1. S \subseteq LotIds /\ IsFiniteSet(S) /\ Cardinality(S) \in Nat
  BY LotsFinite, FS_Subset, FS_CardinalityType DEF Sources
<1> HIDE DEF S
<1>2. ASSUME NEW l \in S
      PROVE  /\ IsFiniteSet(UpTo(l)) /\ Cardinality(UpTo(l)) \in Nat
             /\ Cardinality(UpTo(l)) <= Cardinality(S)
             /\ Cardinality(UpTo(l)) >= 1
  <2>1. UpTo(l) \in SUBSET S /\ l \in UpTo(l)
    BY <1>1, LotsFinite
  <2> HIDE DEF UpTo
  <2>2. /\ IsFiniteSet(UpTo(l)) /\ Cardinality(UpTo(l)) \in Nat
        /\ Cardinality(UpTo(l)) <= Cardinality(S)
    BY <1>1, <2>1, FS_Subset, FS_CardinalityType
  <2>3. Cardinality(UpTo(l)) # 0
    BY <2>1, <2>2, FS_EmptySet
  <2> QED BY <2>2, <2>3
<1>3. rank \in [S -> 1..Cardinality(S)]
  <2> HIDE DEF UpTo
  <2> QED BY <1>1, <1>2
<1>4. ASSUME NEW l \in S, NEW k \in S, l < k
      PROVE  Cardinality(UpTo(l)) # Cardinality(UpTo(k))
  <2>1. UpTo(l) \in SUBSET UpTo(k) /\ k \in UpTo(k) /\ k \notin UpTo(l)
    <3>1. S \subseteq Nat /\ l \in Nat /\ k \in Nat
      BY <1>1, LotsFinite
    <3>2. \A m \in S : m <= l => m <= k
      BY <1>4, <3>1
    <3>3. k <= k /\ ~(k <= l)
      BY <1>4, <3>1
    <3> QED BY <3>2, <3>3
  <2> HIDE DEF UpTo
  <2> QED BY <1>2, <2>1, FS_Subset
<1>5. \A l, k \in S : rank[l] = rank[k] => l = k
  <2>1. \A l, k \in S : l < k \/ l = k \/ k < l
    BY <1>1, LotsFinite
  <2>2. \A l \in S : rank[l] = Cardinality(UpTo(l))
    OBVIOUS
  <2> HIDE DEF UpTo, rank
  <2> QED BY <1>4, <2>1, <2>2
<1>6. \A n \in 1..Cardinality(S) : \E l \in S : rank[l] = n
  <2> DEFINE c == Cardinality(S)
  <2>1. IsFiniteSet(1..c) /\ Cardinality(1..c) = c
    <3>1. c \in Nat
      BY <1>1
    <3> HIDE DEF c
    <3> QED BY <3>1, FS_Interval
  <2> HIDE DEF rank
  <2>2. rank \in Injection(S, 1..c)
    BY <1>3, <1>5 DEF Injection, IsInjective
  <2>3. rank \in Surjection(S, 1..c)
    BY <2>1, <2>2, FS_Injection
  <2> QED BY <2>3 DEF Surjection
<1>7. /\ rank \in [S -> 1..Cardinality(S)]
      /\ \A l, k \in S : rank[l] = rank[k] => l = k
      /\ \A n \in 1..Cardinality(S) : \E l \in S : rank[l] = n
  BY <1>3, <1>5, <1>6
<1> QED BY <1>7 DEF S

\* What arrives are the lots after the last one, with the units that left, one
\* lot each: none is lost and none is made.
LEMMA ArrivingTotal ==
  ASSUME NEW take \in [LotIds -> Nat], nlots \in Nat,
         nlots + Cardinality(Sources(take)) <= MaxLots
  PROVE  /\ Units(Arriving(take), LotIds) = Units(take, LotIds)
         /\ \A n \in LotIds : Arriving(take)[n] > 0 =>
              n > nlots /\ n <= nlots + Cardinality(Sources(take))
<1> DEFINE S == Sources(take)
           c == Cardinality(S)
           rank == [l \in S |-> Cardinality({m \in S : m <= l})]
           new == Arriving(take)
           T == (nlots + 1)..(nlots + c)
           b == [l \in S |-> nlots + rank[l]]
<1>1. /\ rank \in [S -> 1..c]
      /\ \A l, k \in S : rank[l] = rank[k] => l = k
      /\ \A n \in 1..c : \E l \in S : rank[l] = n
  BY SourceRank
<1>2. S \in SUBSET LotIds /\ IsFiniteSet(S) /\ c \in Nat
  BY LotsFinite, FS_Subset, FS_CardinalityType DEF Sources
<1>3. \A n \in LotIds : Heirs(take, n) = {l \in S : n = nlots + rank[l]}
  BY DEF Heirs
<1>4. new \in [LotIds -> Nat]
  BY ArrivingRange
<1>5. \A n \in LotIds :
        new[n] = IF Heirs(take, n) = {} THEN 0 ELSE take[CHOOSE l \in Heirs(take, n) : TRUE]
  BY DEF Arriving
<1> HIDE DEF rank, new, c, S
<1>6. T \in SUBSET LotIds
  BY <1>2, BoundAssumption DEF LotIds, c, S
<1>7. \A l \in S : b[l] \in T
  BY <1>1, <1>2
<1>8. ASSUME NEW l \in S
      PROVE  new[b[l]] = take[l]
  <2>1. Heirs(take, b[l]) = {l}
    BY <1>1, <1>2, <1>3, <1>6, <1>7
  <2> HIDE DEF b, T
  <2> QED BY <1>5, <1>6, <1>7, <2>1
<1>9. \A n \in LotIds \ T : new[n] = 0
  BY <1>1, <1>2, <1>3, <1>5
<1>10. \A n \in T : \E l \in S : b[l] = n
  <2> SUFFICES ASSUME NEW n \in T PROVE \E l \in S : b[l] = n
    OBVIOUS
  <2>1. n - nlots \in 1..c
    BY <1>2
  <2>2. PICK l \in S : rank[l] = n - nlots
    BY <1>1, <2>1
  <2> QED BY <2>2
<1>11. Units(new, T) = Units(take, S)
  <2>1. b \in [S -> T]
    BY <1>7
  <2>2. \A x, y \in S : b[x] = b[y] => x = y
    BY <1>1
  <2>3. \A x \in S : take[x] \in Int
    BY <1>2
  <2> HIDE DEF b, T
  <2> QED BY <1>2, <1>8, <1>10, <2>1, <2>2, <2>3, SumRename DEF Units
<1>12. Units(new, LotIds) = Units(new, T)
  <2>1. IsFiniteSet(LotIds)
    BY LotsFinite
  <2>2. \A n \in T : new[n] \in Int /\ new[n] = new[n]
    BY <1>4, <1>6
  <2> HIDE DEF T
  <2> QED BY <1>6, <1>9, <2>1, <2>2, SumPart DEF Units
<1>13. Units(take, LotIds) = Units(take, S)
  <2>1. \A l \in LotIds \ S : take[l] = 0
    BY DEF S, Sources
  <2>2. IsFiniteSet(LotIds)
    BY LotsFinite
  <2>3. \A l \in S : take[l] \in Int /\ take[l] = take[l]
    BY <1>2
  <2> QED BY <1>2, <2>1, <2>2, <2>3, SumPart DEF Units
<1>14. \A n \in LotIds : new[n] > 0 => n \in T
  BY <1>9
<1> QED BY <1>11, <1>12, <1>13, <1>14 DEF new, S, c

-----------------------------------------------------------------------------
(* The counter and the lots.  StockMatchesLots is not inductive: a new lot  *)
(* takes a slot that must have been empty, which LotsInOrder says.          *)

LotsInOrder == \A l \in LotIds : l > nlots => lots[l].remaining = 0

Remaining == [l \in LotIds |-> lots[l].remaining]

CounterInv == LotsInOrder /\ StockMatchesLots

\* Units in the lots and units in a pick are amounts.
LEMMA UnitsType ==
  /\ \A take \in [LotIds -> Nat], S \in SUBSET LotIds : Units(take, S) \in Nat
  /\ TypeOK => Remaining \in [LotIds -> Nat] /\ OnHand = Units(Remaining, LotIds)
<1>1. \A take \in [LotIds -> Nat], S \in SUBSET LotIds : Units(take, S) \in Nat
  BY LotsFinite, FS_Subset, SumNat DEF Units
<1> QED BY <1>1 DEF TypeOK, LotRow, Remaining, OnHand

\* Units consumed leave the sum of the lots, one for one.
LEMMA ConsumeTotal ==
  ASSUME TypeOK, NEW take \in [LotIds -> Nat],
         \A l \in LotIds : take[l] <= lots[l].remaining, lots' = Consume(take)
  PROVE  /\ \A l \in LotIds : /\ lots'[l].remaining = lots[l].remaining - take[l]
                              /\ lots'[l].wh = lots[l].wh
         /\ Remaining' \in [LotIds -> Nat]
         /\ Units(take, LotIds) <= Units(Remaining, LotIds)
         /\ Units(Remaining', LotIds) = Units(Remaining, LotIds) - Units(take, LotIds)
<1>1. \A l \in LotIds : /\ lots[l] \in LotRow /\ lots[l].remaining \in Nat
                        /\ lots'[l] = [lots[l] EXCEPT !.remaining = @ - take[l]]
  BY DEF TypeOK, LotRow, Consume
<1>2. \A l \in LotIds : /\ lots'[l].remaining = lots[l].remaining - take[l]
                        /\ lots'[l].wh = lots[l].wh
  BY <1>1 DEF LotRow
<1>3. /\ Remaining \in [LotIds -> Nat] /\ Remaining' \in [LotIds -> Nat]
      /\ \A l \in LotIds : Remaining[l] = Remaining'[l] + take[l]
  <2>1. ASSUME NEW l \in LotIds
        PROVE  /\ lots'[l].remaining \in Nat
               /\ lots[l].remaining = lots'[l].remaining + take[l]
    <3>1. take[l] \in Nat /\ take[l] <= lots[l].remaining /\ lots[l].remaining \in Nat
      BY <1>1
    <3> QED BY <1>2, <3>1
  <2> QED BY <1>1, <2>1 DEF Remaining
<1>4. Units(Remaining, LotIds) = Units(Remaining', LotIds) + Units(take, LotIds)
  <2>1. IsFiniteSet(LotIds)
    BY LotsFinite
  <2>2. \A l \in LotIds : Remaining'[l] \in Int /\ take[l] \in Int
                            /\ Remaining[l] = Remaining'[l] + take[l]
    BY <1>3
  <2> HIDE DEF Remaining
  <2> QED BY <2>1, <2>2, SumPlus DEF Units
<1>5. /\ Units(Remaining, LotIds) \in Nat /\ Units(Remaining', LotIds) \in Nat
      /\ Units(take, LotIds) \in Nat
  BY <1>3, UnitsType
<1> QED BY <1>2, <1>3, <1>4, <1>5

\* Units moved stay in the sum of the lots, and the new lots come last.
LEMMA RelocateTotal ==
  ASSUME TypeOK, LotsInOrder, NEW take \in [LotIds -> Nat], NEW to,
         \A l \in LotIds : take[l] <= lots[l].remaining,
         nlots + Cardinality(Sources(take)) <= MaxLots,
         lots' = Relocate(take, to), nlots' = nlots + Cardinality(Sources(take))
  PROVE  /\ \A l \in LotIds :
              /\ lots'[l].remaining = lots[l].remaining - take[l] + Arriving(take)[l]
              /\ lots'[l].wh = IF Arriving(take)[l] > 0 THEN to ELSE lots[l].wh
              /\ Arriving(take)[l] > 0 => l > nlots /\ take[l] = 0 /\ lots[l].remaining = 0
         /\ LotsInOrder'
         /\ Remaining' \in [LotIds -> Nat]
         /\ Units(Remaining', LotIds) = Units(Remaining, LotIds)
<1> DEFINE new == Arriving(take)
<1>1. \A l \in LotIds : /\ lots[l] \in LotRow /\ lots[l].remaining \in Nat
                        /\ lots'[l] = IF new[l] > 0 THEN [wh |-> to, remaining |-> new[l]]
                                      ELSE [lots[l] EXCEPT !.remaining = @ - take[l]]
  BY DEF TypeOK, LotRow, Relocate
<1>2. new \in [LotIds -> Nat] /\ nlots \in Nat
  BY ArrivingRange, BoundAssumption DEF TypeOK
<1>3. /\ Units(new, LotIds) = Units(take, LotIds)
      /\ \A l \in LotIds : new[l] > 0 => l > nlots /\ l <= nlots'
  BY <1>2, ArrivingTotal
<1> HIDE DEF new
<1>4. \A l \in LotIds : new[l] > 0 => l > nlots /\ take[l] = 0 /\ lots[l].remaining = 0
  BY <1>1, <1>3 DEF LotsInOrder
<1>5. ASSUME NEW l \in LotIds
      PROVE  /\ lots'[l].remaining = lots[l].remaining - take[l] + new[l]
             /\ lots'[l].remaining \in Nat
             /\ lots'[l].wh = IF new[l] > 0 THEN to ELSE lots[l].wh
  <2>1. take[l] \in Nat /\ take[l] <= lots[l].remaining /\ lots[l].remaining \in Nat
        /\ new[l] \in Nat
    BY <1>1, <1>2
  <2>2. CASE new[l] > 0
    <3> DEFINE heir == [wh |-> to, remaining |-> new[l]]
    <3>1. lots'[l].remaining = new[l] /\ lots'[l].wh = to
      <4>1. lots'[l] = heir
        BY <1>1, <2>2
      <4>2. heir.remaining = new[l] /\ heir.wh = to
        OBVIOUS
      <4> HIDE DEF heir
      <4> QED BY <4>1, <4>2
    <3> QED BY <1>4, <2>1, <2>2, <3>1
  <2>3. CASE ~(new[l] > 0)
    <3>1. lots'[l].remaining = lots[l].remaining - take[l] /\ lots'[l].wh = lots[l].wh
      BY <1>1, <2>3 DEF LotRow
    <3>2. new[l] = 0
      BY <2>1, <2>3
    <3> QED BY <2>1, <3>1, <3>2
  <2> QED BY <2>2, <2>3
<1>6. LotsInOrder'
  <2> SUFFICES ASSUME NEW l \in LotIds, l > nlots' PROVE lots'[l].remaining = 0
    BY DEF LotsInOrder
  <2>1. Cardinality(Sources(take)) \in Nat
    BY SourcesCount
  <2>2. l \in Nat /\ l > nlots
    BY <1>2, <2>1, LotsFinite
  <2>3. ~(new[l] > 0) /\ new[l] \in Nat
    BY <1>2, <1>3, <2>1, <2>2
  <2>4. lots[l].remaining = 0 /\ take[l] = 0
    BY <1>1, <2>2 DEF LotsInOrder
  <2> QED BY <1>5, <2>3, <2>4
<1>7. /\ Remaining \in [LotIds -> Nat] /\ Remaining' \in [LotIds -> Nat]
      /\ \A l \in LotIds : Remaining[l] + new[l] = Remaining'[l] + take[l]
  <2>1. ASSUME NEW l \in LotIds
        PROVE  lots[l].remaining + new[l] = lots'[l].remaining + take[l]
    <3>1. take[l] \in Nat /\ lots[l].remaining \in Nat /\ new[l] \in Nat
      BY <1>1, <1>2
    <3> QED BY <1>5, <3>1
  <2> QED BY <1>1, <1>5, <2>1 DEF Remaining
<1>8. Units(Remaining, LotIds) + Units(new, LotIds) = Units(Remaining', LotIds) + Units(take, LotIds)
  <2> DEFINE sum == [l \in LotIds |-> Remaining[l] + new[l]]
  <2>1. \A l \in LotIds : /\ sum[l] = Remaining[l] + new[l] /\ sum[l] = Remaining'[l] + take[l]
                          /\ Remaining[l] \in Int /\ new[l] \in Int
                          /\ Remaining'[l] \in Int /\ take[l] \in Int
    BY <1>2, <1>7
  <2>2. IsFiniteSet(LotIds)
    BY LotsFinite
  <2> HIDE DEF sum, Remaining
  <2>3. Units(sum, LotIds) = Units(Remaining, LotIds) + Units(new, LotIds)
    BY <2>1, <2>2, SumPlus DEF Units
  <2>4. Units(sum, LotIds) = Units(Remaining', LotIds) + Units(take, LotIds)
    BY <2>1, <2>2, SumPlus DEF Units
  <2> QED BY <2>3, <2>4
<1>9. /\ Units(Remaining, LotIds) \in Nat /\ Units(Remaining', LotIds) \in Nat
      /\ Units(take, LotIds) \in Nat
  BY <1>7, UnitsType
<1>10. Units(Remaining', LotIds) = Units(Remaining, LotIds)
  BY <1>3, <1>8, <1>9
<1> QED BY <1>4, <1>5, <1>6, <1>7, <1>10 DEF new

\* A pick from one warehouse, past the holds of others, is a take the lots
\* can bear, of at most what is asked.
LEMMA TakeFrom ==
  ASSUME TypeOK, NEW w \in Warehouses, NEW own, NEW preferred, NEW q \in Nat
  PROVE  LET take == Pick(FreeIn(w, own), preferred, q)
         IN  /\ take \in [LotIds -> Nat]
             /\ \A l \in LotIds : take[l] <= lots[l].remaining
             /\ \A l \in LotIds : take[l] <= FreeAt(l, own)
             /\ \A l \in LotIds : lots[l].wh # w => take[l] = 0
<1> DEFINE free == FreeIn(w, own)
           take == Pick(free, preferred, q)
<1>1. take \in [LotIds -> Nat] /\ \A l \in LotIds : take[l] <= lots[l].remaining
  BY TakeType
<1>2. free \in [LotIds -> Nat]
  BY FreeRange
<1>3. \A l \in LotIds : take[l] <= free[l]
  <2> HIDE DEF free
  <2> QED BY <1>2, PickRange
<1>4. ASSUME NEW l \in LotIds
      PROVE  /\ take[l] <= FreeAt(l, own)
             /\ lots[l].wh # w => take[l] = 0
  <2>1. lots[l].remaining \in Nat
    BY DEF TypeOK, LotRow
  <2>2. FreeAt(l, own) \in Nat
    BY <2>1, ClampRange DEF FreeAt
  <2>3. free[l] = IF lots[l].wh = w THEN FreeAt(l, own) ELSE 0
    BY DEF FreeIn
  <2>4. take[l] \in Nat /\ take[l] <= free[l]
    BY <1>1, <1>3
  <2> HIDE DEF take, free
  <2> QED BY <2>2, <2>3, <2>4
<1> QED BY <1>1, <1>4

\* The warehouse's own operations keep the counter and the lots together.
LEMMA WarehouseStepCounter ==
  ASSUME TypeOK, CounterInv, WarehouseStep
  PROVE  CounterInv'
<1>1. stock = Units(Remaining, LotIds) /\ LotsInOrder /\ stock \in Nat /\ nlots \in Nat
  BY BoundAssumption DEF CounterInv, StockMatchesLots, Remaining, TypeOK
<1>2. ASSUME stock' = Units(Remaining', LotIds), LotsInOrder'
      PROVE  CounterInv'
  BY <1>2 DEF CounterInv, StockMatchesLots, Remaining
<1>3. ASSUME UNCHANGED shelf
      PROVE  CounterInv'
  BY <1>3 DEF shelf, CounterInv, StockMatchesLots, LotsInOrder
<1>4. ASSUME NEW e \in Entries, StockIn(e[1], e[2])
      PROVE  CounterInv'
  <2> DEFINE n == nlots + 1
  <2>1. e[2] \in Nat /\ n \in LotIds
    BY <1>1, <1>4, EntryAssumption, BoundAssumption DEF StockIn, LotIds
  <2>2. /\ lots \in [LotIds -> LotRow]
        /\ lots' = [lots EXCEPT ![n] = [wh |-> e[1], remaining |-> e[2]]]
        /\ nlots' = n /\ stock' = stock + e[2]
    BY <1>4 DEF StockIn, TypeOK
  <2>3. lots[n].remaining = 0
    BY <1>1, <2>1 DEF LotsInOrder
  <2>4. /\ Remaining \in [LotIds -> Nat] /\ Remaining[n] = 0 /\ Remaining'[n] = e[2]
        /\ \A l \in LotIds \ {n} : Remaining'[l] = Remaining[l]
    BY <2>1, <2>2, <2>3 DEF Remaining, LotRow
  <2>5. Units(Remaining', LotIds) = Units(Remaining, LotIds) - 0 + e[2]
    <3> HIDE DEF Remaining, n
    <3>1. IsFiniteSet(LotIds) /\ e[2] \in Int
      BY <2>1, LotsFinite
    <3>2. Units(Remaining', LotIds)
            = Units(Remaining, LotIds) - Remaining[n] + Remaining'[n]
      BY <2>1, <2>4, <3>1, SumChange DEF Units
    <3> QED BY <2>4, <3>2
  <2>6. LotsInOrder'
    BY <1>1, <2>1, <2>2, LotsFinite DEF LotsInOrder
  <2> QED BY <1>1, <1>2, <2>1, <2>2, <2>5, <2>6
<1>5. ASSUME NEW e \in Exits, StockOut(e[1], e[2])
      PROVE  CounterInv'
  <2> DEFINE take == Pick(FreeIn(e[1], None), None, e[2])
  <2>1. e[1] \in Warehouses /\ e[2] \in Nat
    BY EntryAssumption
  <2>2. take \in [LotIds -> Nat] /\ \A l \in LotIds : take[l] <= lots[l].remaining
    BY <2>1, TakeFrom
  <2>3. /\ lots' = Consume(take) /\ Units(take, LotIds) = e[2] /\ nlots' = nlots
        /\ stock' = Clamp(stock - e[2], stock)
    BY <1>5 DEF StockOut
  <2> HIDE DEF take
  <2>4. /\ \A l \in LotIds : lots'[l].remaining = lots[l].remaining - take[l]
        /\ e[2] <= stock
        /\ Units(Remaining', LotIds) = stock - e[2]
    BY <1>1, <2>2, <2>3, ConsumeTotal
  <2>5. stock' = stock - e[2]
    BY <1>1, <2>1, <2>3, <2>4 DEF Clamp
  <2>6. LotsInOrder'
    BY <1>1, <2>2, <2>3, <2>4 DEF LotsInOrder
  <2> QED BY <1>2, <2>4, <2>5, <2>6
<1>6. ASSUME NEW t \in Relocations, ReceiveRelocation(t)
      PROVE  CounterInv'
  <2> DEFINE take == Pick(FreeIn(manual[t].from, None), None, manual[t].qty)
  <2>1. manual[t].from \in Warehouses /\ manual[t].qty \in Nat
    BY DEF TypeOK, ManualRow
  <2>2. take \in [LotIds -> Nat] /\ \A l \in LotIds : take[l] <= lots[l].remaining
    BY <2>1, TakeFrom
  <2>3. /\ nlots + Cardinality(Sources(take)) <= MaxLots
        /\ lots' = Relocate(take, manual[t].to)
        /\ nlots' = nlots + Cardinality(Sources(take)) /\ stock' = stock
    BY <1>6 DEF ReceiveRelocation
  <2> HIDE DEF take
  <2>4. LotsInOrder' /\ Units(Remaining', LotIds) = Units(Remaining, LotIds)
    BY <1>1, <2>2, <2>3, RelocateTotal
  <2> QED BY <1>1, <1>2, <2>3, <2>4
<1> QED BY <1>3, <1>4, <1>5, <1>6
        DEF WarehouseStep, RequestRelocation, StartRelocation, CancelRelocation, DeleteRelocation,
            shelf

\* So do the ODT's steps: a dispatch lowers both, a received transfer neither.
LEMMA RequestStepCounter ==
  ASSUME TypeOK, CounterInv, NEW r \in Requests, RequestStep(r)
  PROVE  CounterInv'
<1>1. stock = Units(Remaining, LotIds) /\ LotsInOrder /\ stock \in Nat /\ nlots \in Nat
  BY BoundAssumption DEF CounterInv, StockMatchesLots, Remaining, TypeOK
<1>2. ASSUME stock' = Units(Remaining', LotIds), LotsInOrder'
      PROVE  CounterInv'
  BY <1>2 DEF CounterInv, StockMatchesLots, Remaining
<1>3. ASSUME UNCHANGED shelf
      PROVE  CounterInv'
  BY <1>3 DEF shelf, CounterInv, StockMatchesLots, LotsInOrder
<1>4. CASE Dispatch(r)
  <2> DEFINE q == requests[r].qty
             take == Pick(Dispatchable(r), None, q)
  <2>1. q \in Nat
    BY DEF TypeOK, RequestRow
  <2>2. take \in [LotIds -> Nat] /\ \A l \in LotIds : take[l] <= lots[l].remaining
    BY <2>1, ShopAssumption, TakeFrom DEF Dispatchable
  <2>3. /\ lots' = Consume(take) /\ Units(take, LotIds) = q /\ nlots' = nlots
        /\ stock' = Clamp(stock - q, stock)
    BY <1>4 DEF Dispatch
  <2> HIDE DEF take, q
  <2>4. /\ \A l \in LotIds : lots'[l].remaining = lots[l].remaining - take[l]
        /\ q <= stock
        /\ Units(Remaining', LotIds) = stock - q
    BY <1>1, <2>2, <2>3, ConsumeTotal
  <2>5. stock' = stock - q
    BY <1>1, <2>1, <2>3, <2>4 DEF Clamp
  <2>6. LotsInOrder'
    BY <1>1, <2>2, <2>3, <2>4 DEF LotsInOrder
  <2> QED BY <1>2, <2>4, <2>5, <2>6
<1>5. ASSUME NEW w \in Warehouses, ReceiveLinked(r, w)
      PROVE  CounterInv'
  <2> DEFINE take == Pick(FreeIn(w, {r}), None, linked[r][w].qty)
  <2>1. linked[r][w].qty \in Nat
    BY DEF TypeOK, LinkedRow
  <2>2. take \in [LotIds -> Nat] /\ \A l \in LotIds : take[l] <= lots[l].remaining
    BY <2>1, TakeFrom
  <2>3. /\ nlots + Cardinality(Sources(take)) <= MaxLots
        /\ lots' = Relocate(take, Shop)
        /\ nlots' = nlots + Cardinality(Sources(take)) /\ stock' = stock
    BY <1>5 DEF ReceiveLinked
  <2> HIDE DEF take
  <2>4. LotsInOrder' /\ Units(Remaining', LotIds) = Units(Remaining, LotIds)
    BY <1>1, <2>2, <2>3, RelocateTotal
  <2> QED BY <1>1, <1>2, <2>3, <2>4
<1> QED BY <1>3, <1>4, <1>5 DEF RequestStep, Submit, StartLinked, DeleteRequest, shelf

\* The counter shown to users is the sum of the lots, in every reachable state:
\* reopened orders, straddling edits and split transfers included.
THEOREM CounterCorrect == Spec => []CounterInv
<1>1. Init => CounterInv
  <2> SUFFICES ASSUME Init PROVE CounterInv
    OBVIOUS
  <2>1. Units([l \in LotIds |-> lots[l].remaining], LotIds) = 0
    <3>1. \A l \in LotIds : [k \in LotIds |-> lots[k].remaining][l] = 0
      BY DEF Init, NoLot
    <3> QED BY <3>1, LotsFinite, SumZero DEF Units
  <2> QED BY <2>1 DEF Init, NoLot, CounterInv, StockMatchesLots, LotsInOrder
<1>2. TypeOK /\ CounterInv /\ [Next]_vars => CounterInv'
  <2> SUFFICES ASSUME TypeOK, CounterInv, [Next]_vars PROVE CounterInv'
    OBVIOUS
  <2>1. ASSUME UNCHANGED shelf
        PROVE  CounterInv'
    BY <2>1 DEF shelf, CounterInv, StockMatchesLots, LotsInOrder
  <2>2. ASSUME NEW r \in Requests, LineStep(r)
        PROVE  UNCHANGED shelf
    BY <2>2 DEF LineStep, AddLine, ReadLine, ResizeLine, RemoveLine, AbandonEdit, CommitLine,
                HoldExpires, shelf
  <2>3. ASSUME NEW o \in Orders, OrderStep(o)
        PROVE  UNCHANGED shelf
    BY <2>3 DEF OrderStep, Invoice, Close, Cancel, Reopen, shelf
  <2>4. CASE Next
    BY <2>1, <2>2, <2>3, <2>4, WarehouseStepCounter, RequestStepCounter DEF Next
  <2>5. CASE UNCHANGED vars
    BY <2>1, <2>5 DEF vars, shelf
  <2> QED BY <2>4, <2>5
<1> QED BY <1>1, <1>2, TypeCorrect, PTL DEF Spec

\* The counter and the lots never part.
THEOREM StockIsLots == Spec => []StockMatchesLots
<1>1. CounterInv => StockMatchesLots
  BY DEF CounterInv
<1> QED BY <1>1, CounterCorrect, PTL

-----------------------------------------------------------------------------
(* Reservations.  What a submitted ODT holds is inductive only together:    *)
(* the lots cover the holds because a receipt consumes what its transfer    *)
(* carries, and the transfer carries it because the lots cover it.          *)

Carries(r) == \A w \in Warehouses \ {Shop} :
  FirmHold(r) => Units(requests[r].alloc, LotsIn(w)) =
                   IF Pending(r, w) THEN linked[r][w].qty ELSE 0
Accounts(r) ==
  FirmHold(r) => Units(requests[r].alloc, LotIds) + requests[r].shortfall = requests[r].qty
AsksForUnits(r) == FirmHold(r) => requests[r].qty > 0

HoldInv(r) == Carries(r) /\ Accounts(r) /\ AsksForUnits(r)

\* The workshop's own warehouse sends it no transfer.
NoneFromShop == \A r \in Requests : linked[r][Shop].status = "ninguno"

ReservationInv ==
  /\ EditsOnlyPending
  /\ NoneFromShop
  /\ ReservationsCovered
  /\ \A r \in Requests : HoldInv(r)

\* A step makes no hold of s and changes nothing about one it has.
HoldKept(s) == FirmHold(s)' =>
  /\ FirmHold(s)
  /\ requests'[s].alloc = requests[s].alloc
  /\ requests'[s].qty = requests[s].qty
  /\ requests'[s].shortfall = requests[s].shortfall
  /\ \A w \in Warehouses : /\ Pending(s, w)' = Pending(s, w)
                           /\ linked'[s][w].qty = linked[s][w].qty
\* A step may change the warehouse of empty lots only.
LotsStay == \A l \in LotIds : lots'[l].wh = lots[l].wh \/ lots[l].remaining = 0

Firm(S) == {r \in S : FirmHold(r)}
AllocIn(l) == [r \in Requests |-> requests[r].alloc[l]]

\* The holds on a lot are amounts, over finitely many ODTs.
LEMMA HoldsType ==
  ASSUME TypeOK, NEW S \in SUBSET Requests, NEW l \in LotIds
  PROVE  /\ IsFiniteSet(S) /\ IsFiniteSet(Firm(S)) /\ Firm(S) \in SUBSET Requests
         /\ \A r \in Requests : AllocIn(l)[r] \in Nat /\ AllocIn(l)[r] = requests[r].alloc[l]
         /\ FirmUnits(l, S) = Units(AllocIn(l), Firm(S))
         /\ FirmUnits(l, S) \in Nat
<1>1. IsFiniteSet(S) /\ IsFiniteSet(Firm(S)) /\ Firm(S) \in SUBSET Requests
  BY RequestAssumption, FS_Subset DEF Firm
<1>2. \A r \in Requests : AllocIn(l)[r] \in Nat /\ AllocIn(l)[r] = requests[r].alloc[l]
  BY DEF TypeOK, RequestRow, AllocIn
<1>3. FirmUnits(l, S) = Units(AllocIn(l), Firm(S))
  BY DEF FirmUnits, AllocIn, Firm
<1>4. Units(AllocIn(l), Firm(S)) \in Nat
  <2> HIDE DEF Firm, AllocIn
  <2> QED BY <1>1, <1>2, SumNat DEF Units
<1> QED BY <1>1, <1>2, <1>3, <1>4

\* A hold of r is its allocation and the holds of the others.
LEMMA HoldSplit ==
  ASSUME TypeOK, NEW l \in LotIds, NEW r \in Requests
  PROVE  FirmUnits(l, Requests) =
           (IF FirmHold(r) THEN requests[r].alloc[l] ELSE 0) + FirmUnits(l, Requests \ {r})
<1>1. /\ IsFiniteSet(Firm(Requests)) /\ \A s \in Firm(Requests) : AllocIn(l)[s] \in Int
      /\ FirmUnits(l, Requests) = Units(AllocIn(l), Firm(Requests))
      /\ FirmUnits(l, Requests \ {r}) = Units(AllocIn(l), Firm(Requests \ {r}))
      /\ FirmUnits(l, Requests \ {r}) \in Nat
      /\ AllocIn(l)[r] = requests[r].alloc[l]
  BY HoldsType
<1>2. CASE FirmHold(r)
  <2>1. r \in Firm(Requests) /\ Firm(Requests \ {r}) = Firm(Requests) \ {r}
    BY <1>2 DEF Firm
  <2> HIDE DEF Firm
  <2>2. Units(AllocIn(l), Firm(Requests))
          = AllocIn(l)[r] + Units(AllocIn(l), Firm(Requests) \ {r})
    BY <1>1, <2>1, SumRemove DEF Units
  <2> QED BY <1>1, <1>2, <2>1, <2>2
<1>3. CASE ~FirmHold(r)
  <2>1. Firm(Requests \ {r}) = Firm(Requests)
    BY <1>3 DEF Firm
  <2> HIDE DEF Firm
  <2> QED BY <1>1, <1>3, <2>1
<1> QED BY <1>2, <1>3

\* The same of the state after a step.
HoldsSplit == \A l \in LotIds, r \in Requests : FirmUnits(l, Requests) =
  (IF FirmHold(r) THEN requests[r].alloc[l] ELSE 0) + FirmUnits(l, Requests \ {r})
LEMMA HoldSplitState == TypeOK => HoldsSplit
BY HoldSplit DEF HoldsSplit
LEMMA HoldSplitAfter == TypeOK' => HoldsSplit'
BY HoldSplitState, PTL

\* Fewer ODTs hold less.
LEMMA FewerHolds ==
  ASSUME TypeOK, NEW l \in LotIds, NEW S \in SUBSET Requests
  PROVE  FirmUnits(l, S) <= FirmUnits(l, Requests)
<1>1. Firm(S) \in SUBSET Firm(Requests)
  BY DEF Firm
<1> HIDE DEF Firm
<1>2. /\ IsFiniteSet(Firm(Requests)) /\ \A s \in Firm(Requests) : AllocIn(l)[s] \in Nat
      /\ FirmUnits(l, Requests) = Units(AllocIn(l), Firm(Requests))
      /\ FirmUnits(l, S) = Units(AllocIn(l), Firm(S))
  BY HoldsType
<1> QED BY <1>1, <1>2, SumSubset DEF Units

\* What is free for a consumer leaves room for the holds of everyone else.
LEMMA FreePastHolds ==
  ASSUME TypeOK, ReservationsCovered, NEW l \in LotIds, NEW own
  PROVE  FreeAt(l, own) + FirmUnits(l, Requests \ own) <= lots[l].remaining
<1> DEFINE others == Requests \ own
           Held == {r \in others : FirmHold(r) \/ SoftHold(r)}
<1>1. /\ Reserved(l, others) = Units(AllocIn(l), Held)
      /\ Firm(others) \in SUBSET Held
      /\ Held \in SUBSET Requests /\ others \in SUBSET Requests
  BY DEF Reserved, AllocIn, Firm
<1> HIDE DEF Held, others
<1>2. /\ \A s \in Requests : AllocIn(l)[s] \in Nat
      /\ FirmUnits(l, others) = Units(AllocIn(l), Firm(others))
      /\ FirmUnits(l, others) \in Nat /\ FirmUnits(l, Requests) \in Nat
  BY <1>1, HoldsType
<1>3. IsFiniteSet(Held) /\ \A s \in Held : AllocIn(l)[s] \in Nat
  BY <1>1, <1>2, RequestAssumption, FS_Subset
<1>4. Units(AllocIn(l), Held) \in Nat
  BY <1>3, SumNat DEF Units
<1>5. FirmUnits(l, others) <= Reserved(l, others)
  BY <1>1, <1>2, <1>3, SumSubset DEF Units
<1>6. FirmUnits(l, others) <= FirmUnits(l, Requests) /\ FirmUnits(l, Requests) <= lots[l].remaining
  BY <1>1, FewerHolds DEF ReservationsCovered
<1>7. lots[l].remaining \in Nat /\ Reserved(l, others) \in Nat
  BY <1>1, <1>4 DEF TypeOK, LotRow
<1>8. FreeAt(l, own) = Clamp(lots[l].remaining - Reserved(l, others), lots[l].remaining)
  BY DEF FreeAt, others
<1>9. FreeAt(l, own) + FirmUnits(l, others) <= lots[l].remaining
  BY <1>2, <1>5, <1>6, <1>7, <1>8 DEF Clamp
<1> QED BY <1>9 DEF others

\* Holds that a step keeps or drops weigh no more after it.
LEMMA HoldsShrink ==
  ASSUME TypeOK, TypeOK', NEW S \in SUBSET Requests, \A s \in S : HoldKept(s), NEW l \in LotIds
  PROVE  FirmUnits(l, S)' \in Nat /\ FirmUnits(l, S)' <= FirmUnits(l, S)
<1>1. Firm(S)' \in SUBSET Firm(S)
  BY DEF Firm, HoldKept
<1>2. \A s \in Firm(S)' : AllocIn(l)'[s] = AllocIn(l)[s]
  BY DEF Firm, HoldKept, AllocIn
<1>3. /\ IsFiniteSet(Firm(S)) /\ Firm(S) \in SUBSET Requests
      /\ \A r \in Requests : AllocIn(l)[r] \in Nat
      /\ FirmUnits(l, S) = Units(AllocIn(l), Firm(S))
  BY HoldsType
<1>4. FirmUnits(l, S)' = Units(AllocIn(l)', Firm(S)')
  BY DEF FirmUnits, AllocIn, Firm, Units
<1>5. IsFiniteSet(Firm(S)')
  BY <1>1, <1>3, FS_Subset
<1> DEFINE before == AllocIn(l)
           after  == AllocIn(l)'
           fewer  == Firm(S)'
           held   == Firm(S)
<1>6. /\ fewer \in SUBSET held /\ IsFiniteSet(held) /\ IsFiniteSet(fewer)
      /\ \A s \in fewer : after[s] = before[s]
      /\ \A s \in held : before[s] \in Nat
  BY <1>1, <1>2, <1>3, <1>5
<1> HIDE DEF before, after, fewer, held
<1>7. Units(after, fewer) = Units(before, fewer)
  BY <1>6, SumEqual DEF Units
<1>8. Units(before, fewer) <= Units(before, held)
  BY <1>6, SumSubset DEF Units
<1>9. Units(before, fewer) \in Nat
  BY <1>6, SumNat DEF Units
<1> QED BY <1>3, <1>4, <1>7, <1>8, <1>9 DEF before, after, fewer, held

\* An ODT holds nothing in an empty lot.
LEMMA NothingInEmpty ==
  ASSUME TypeOK, ReservationsCovered, NEW r \in Requests, FirmHold(r), NEW l \in LotIds
  PROVE  /\ requests[r].alloc[l] \in Nat /\ requests[r].alloc[l] <= lots[l].remaining
         /\ lots[l].remaining = 0 => requests[r].alloc[l] = 0
<1>1. /\ FirmUnits(l, Requests) = requests[r].alloc[l] + FirmUnits(l, Requests \ {r})
      /\ FirmUnits(l, Requests) <= lots[l].remaining
  BY HoldSplit DEF ReservationsCovered
<1>2. FirmUnits(l, Requests \ {r}) \in Nat /\ requests[r].alloc[l] \in Nat
  BY HoldsType DEF TypeOK, RequestRow
<1>3. lots[l].remaining \in Nat
  BY DEF TypeOK, LotRow
<1> QED BY <1>1, <1>2, <1>3

\* What an allocation holds in a warehouse, as a sum over all the lots.
LEMMA HeldIn ==
  ASSUME TypeOK, NEW alloc \in [LotIds -> Nat], NEW w
  PROVE  Units(alloc, LotsIn(w)) = Units([l \in LotIds |-> IF lots[l].wh = w THEN alloc[l] ELSE 0], LotIds)
<1> DEFINE part == [l \in LotIds |-> IF lots[l].wh = w THEN alloc[l] ELSE 0]
<1>1. /\ LotsIn(w) \in SUBSET LotIds /\ IsFiniteSet(LotIds)
      /\ \A l \in LotsIn(w) : alloc[l] \in Int /\ part[l] = alloc[l]
      /\ \A l \in LotIds \ LotsIn(w) : part[l] = 0
  BY LotsFinite DEF LotsIn
<1> HIDE DEF part
<1>2. Units(part, LotIds) = Units(alloc, LotsIn(w))
  BY <1>1, SumPart DEF Units
<1> QED BY <1>2 DEF part

\* A hold that a step keeps stays carried and accounted for.
LEMMA HoldInvKept ==
  ASSUME TypeOK, TypeOK', ReservationsCovered, LotsStay,
         NEW s \in Requests, HoldInv(s), HoldKept(s)
  PROVE  HoldInv(s)'
<1> SUFFICES ASSUME FirmHold(s)' PROVE HoldInv(s)'
  BY DEF HoldInv, Carries, Accounts, AsksForUnits
<1>1. /\ FirmHold(s) /\ requests'[s].alloc = requests[s].alloc
      /\ requests'[s].qty = requests[s].qty
      /\ requests'[s].shortfall = requests[s].shortfall
      /\ \A w \in Warehouses : /\ Pending(s, w)' = Pending(s, w)
                               /\ linked'[s][w].qty = linked[s][w].qty
  BY DEF HoldKept
<1>2. Accounts(s)' /\ AsksForUnits(s)'
  BY <1>1 DEF HoldInv, Accounts, AsksForUnits, Units
<1>3. ASSUME NEW w \in Warehouses \ {Shop}
      PROVE  Units(requests'[s].alloc, LotsIn(w)') = Units(requests[s].alloc, LotsIn(w))
  <2> DEFINE alloc == requests[s].alloc
             Part(wh) == [l \in LotIds |-> IF wh[l] = w THEN alloc[l] ELSE 0]
  <2>1. alloc \in [LotIds -> Nat]
    BY DEF TypeOK, RequestRow
  <2>2. Units(alloc, LotsIn(w)) = Units([l \in LotIds |-> IF lots[l].wh = w THEN alloc[l] ELSE 0], LotIds)
    BY <2>1, HeldIn
  <2>3. Units(alloc, LotsIn(w)') = Units([l \in LotIds |-> IF lots'[l].wh = w THEN alloc[l] ELSE 0], LotIds)
    <3> DEFINE part == [l \in LotIds |-> IF lots'[l].wh = w THEN alloc[l] ELSE 0]
    <3>1. /\ LotsIn(w)' \in SUBSET LotIds /\ IsFiniteSet(LotIds)
          /\ \A l \in LotsIn(w)' : alloc[l] \in Int /\ part[l] = alloc[l]
          /\ \A l \in LotIds \ LotsIn(w)' : part[l] = 0
      BY <2>1, LotsFinite DEF LotsIn
    <3> HIDE DEF part, alloc
    <3>2. Units(part, LotIds) = Units(alloc, LotsIn(w)')
      BY <3>1, SumPart DEF Units
    <3> QED BY <3>2 DEF part
  <2>4. \A l \in LotIds : (IF lots'[l].wh = w THEN alloc[l] ELSE 0)
                            = (IF lots[l].wh = w THEN alloc[l] ELSE 0)
    BY <1>1, NothingInEmpty DEF LotsStay
  <2>5. [l \in LotIds |-> IF lots'[l].wh = w THEN alloc[l] ELSE 0]
          = [l \in LotIds |-> IF lots[l].wh = w THEN alloc[l] ELSE 0]
    BY <2>4
  <2> QED BY <1>1, <2>2, <2>3, <2>5
<1>4. Carries(s)'
  <2> SUFFICES ASSUME NEW w \in Warehouses \ {Shop}
               PROVE  Units(requests'[s].alloc, LotsIn(w)')
                        = IF Pending(s, w)' THEN linked'[s][w].qty ELSE 0
    BY DEF Carries, Units
  <2>1. Units(requests[s].alloc, LotsIn(w)) = IF Pending(s, w) THEN linked[s][w].qty ELSE 0
    BY <1>1 DEF HoldInv, Carries
  <2> QED BY <1>1, <1>3, <2>1
<1> QED BY <1>2, <1>4 DEF HoldInv

\* Steps that keep every hold keep the reservations, as long as the lots they
\* leave still cover the holds there were.
LEMMA ReservationFrame ==
  ASSUME TypeOK, TypeOK', ReservationInv, EditsOnlyPending', NoneFromShop', LotsStay,
         \A s \in Requests : HoldKept(s),
         \A l \in LotIds : FirmUnits(l, Requests) <= lots'[l].remaining
  PROVE  ReservationInv'
<1>1. ReservationsCovered'
  <2> SUFFICES ASSUME NEW l \in LotIds PROVE FirmUnits(l, Requests)' <= lots'[l].remaining
    BY DEF ReservationsCovered
  <2>1. FirmUnits(l, Requests)' \in Nat /\ FirmUnits(l, Requests)' <= FirmUnits(l, Requests)
    BY HoldsShrink
  <2>2. FirmUnits(l, Requests) \in Nat /\ lots'[l].remaining \in Nat
    BY HoldsType DEF TypeOK, LotRow
  <2>3. FirmUnits(l, Requests) <= lots'[l].remaining
    OBVIOUS
  <2> QED BY <2>1, <2>2, <2>3
<1>2. \A s \in Requests : HoldInv(s)'
  BY HoldInvKept DEF ReservationInv
<1> QED BY <1>1, <1>2 DEF ReservationInv

\* When only r's hold is new or moves, the lots must cover it and the others'.
LEMMA ReservationOf ==
  ASSUME TypeOK, TypeOK', ReservationInv, EditsOnlyPending', NoneFromShop', LotsStay,
         NEW r \in Requests, \A s \in Requests \ {r} : HoldKept(s), HoldInv(r)',
         \A l \in LotIds : (IF FirmHold(r)' THEN requests'[r].alloc[l] ELSE 0)
                             + FirmUnits(l, Requests \ {r}) <= lots'[l].remaining
  PROVE  ReservationInv'
<1>1. ReservationsCovered'
  <2> SUFFICES ASSUME NEW l \in LotIds PROVE FirmUnits(l, Requests)' <= lots'[l].remaining
    BY DEF ReservationsCovered
  <2> DEFINE mine == IF FirmHold(r)' THEN requests'[r].alloc[l] ELSE 0
             others == Requests \ {r}
  <2>1. FirmUnits(l, others)' \in Nat /\ FirmUnits(l, others)' <= FirmUnits(l, others)
    BY HoldsShrink
  <2>2. FirmUnits(l, others) \in Nat /\ lots'[l].remaining \in Nat /\ mine \in Nat
    <3>1. requests'[r].alloc[l] \in Nat /\ lots'[l].remaining \in Nat
      BY DEF TypeOK, LotRow, RequestRow
    <3>2. FirmUnits(l, others) \in Nat
      BY HoldsType
    <3> QED BY <3>1, <3>2
  <2>3. FirmUnits(l, Requests)' = mine + FirmUnits(l, others)'
    BY HoldSplitAfter DEF HoldsSplit
  <2>4. mine + FirmUnits(l, others) <= lots'[l].remaining
    OBVIOUS
  <2> HIDE DEF mine, others
  <2> QED BY <2>1, <2>2, <2>3, <2>4
<1>2. \A s \in Requests \ {r} : HoldInv(s)'
  BY HoldInvKept DEF ReservationInv
<1> QED BY <1>1, <1>2 DEF ReservationInv

\* Editing a line holds nothing: the ODT it edits has not been submitted.
LEMMA LineStepHolds ==
  ASSUME TypeOK, EditsOnlyPending, NEW r \in Requests, LineStep(r), NEW s \in Requests
  PROVE  HoldKept(s)
<1>1. requests \in [Requests -> RequestRow] /\ edit \in [Requests -> EditRow]
  BY DEF TypeOK
<1>2. UNCHANGED <<orders, linked>>
  BY DEF LineStep, AddLine, ReadLine, ResizeLine, RemoveLine, AbandonEdit, CommitLine, HoldExpires
<1>3. CASE requests'[s] = requests[s]
  BY <1>2, <1>3 DEF HoldKept, FirmHold, Live, Terminal, Pending
<1>4. CASE HoldExpires(r)
  <2>1. \/ requests'[s] = requests[s]
        \/ requests[s].status = "pendiente" /\ requests'[s].status = "pendiente"
    BY <1>1, <1>4 DEF HoldExpires, RequestRow
  <2> QED BY <1>3, <2>1 DEF HoldKept, FirmHold
<1>5. CASE RemoveLine(r)
  <2>1. requests'[s] = requests[s] \/ requests'[s].status # "pedido"
    BY <1>1, <1>5 DEF RemoveLine, RequestRow, EditsOnlyPending
  <2> QED BY <1>3, <2>1 DEF HoldKept, FirmHold
<1>6. CASE CommitLine(r)
  <2>1. requests'[s] = requests[s] \/ requests'[s].status # "pedido"
    BY <1>1, <1>6 DEF CommitLine, Edited, RequestRow, EditsOnlyPending
  <2> QED BY <1>3, <2>1 DEF HoldKept, FirmHold
<1>7. CASE UNCHANGED requests
  BY <1>3, <1>7
<1> QED BY <1>4, <1>5, <1>6, <1>7 DEF LineStep, AddLine, ReadLine, ResizeLine, AbandonEdit

\* Invoicing, delivering and cancelling keep or drop holds; nothing reopens.
LEMMA OrderStepHolds ==
  ASSUME MaxReopens = 0, TypeOK, NEW o \in Orders, OrderStep(o), NEW s \in Requests
  PROVE  HoldKept(s)
<1>1. /\ requests \in [Requests -> RequestRow] /\ orders \in [Orders -> OrderRow]
      /\ OrderOf[s] \in Orders
  BY OrderAssumption DEF TypeOK
<1>2. CASE Invoice(o)
  BY <1>1, <1>2 DEF Invoice, HoldKept, FirmHold, Live, Terminal, Pending, OrderRow
<1>3. CASE Close(o)
  <2>1. CASE OrderOf[s] = o
    <3>1. orders'[OrderOf[s]].status = "orden_cerrada"
      BY <1>1, <1>3, <2>1 DEF Close, OrderRow
    <3> QED BY <3>1 DEF HoldKept, FirmHold, Live, Terminal
  <2>2. CASE OrderOf[s] # o
    <3>1. /\ requests'[s] = requests[s] /\ orders'[OrderOf[s]] = orders[OrderOf[s]]
          /\ \A w \in Warehouses : linked'[s][w] = linked[s][w]
      BY <1>1, <1>3, <2>2 DEF Close, ClosedRow, ClosedLink
    <3> QED BY <3>1 DEF HoldKept, FirmHold, Live, Terminal, Pending
  <2> QED BY <2>1, <2>2
<1>4. CASE Cancel(o)
  BY <1>1, <1>4 DEF Cancel, HoldKept, FirmHold, Live, Terminal, Pending, OrderRow
<1>5. CASE Reopen(o)
  BY <1>1, <1>5 DEF Reopen, OrderRow
<1> QED BY <1>2, <1>3, <1>4, <1>5 DEF OrderStep

\* Entries, exits and transfers of the warehouse's own touch no promised unit.
LEMMA WarehouseStepReservations ==
  ASSUME TypeOK, TypeOK', CounterInv, ReservationInv, EditsOnlyPending', NoneFromShop', WarehouseStep
  PROVE  ReservationInv'
<1>1. \A s \in Requests : HoldKept(s)
  BY WarehouseFrame DEF Life, HoldKept, FirmHold, Live, Terminal, Pending
<1>2. \A l \in LotIds : /\ lots[l].remaining \in Nat /\ FirmUnits(l, Requests) \in Nat
                        /\ FirmUnits(l, Requests) <= lots[l].remaining
  BY HoldsType DEF TypeOK, LotRow, ReservationInv, ReservationsCovered
<1>3. CASE UNCHANGED lots
  BY <1>1, <1>2, <1>3, ReservationFrame DEF LotsStay
<1>4. ASSUME NEW take \in [LotIds -> Nat], \A l \in LotIds : take[l] <= FreeAt(l, None)
      PROVE  \A l \in LotIds : FirmUnits(l, Requests) <= lots[l].remaining - take[l]
  <2> SUFFICES ASSUME NEW l \in LotIds
               PROVE  FirmUnits(l, Requests) <= lots[l].remaining - take[l]
    OBVIOUS
  <2>1. FreeAt(l, None) + FirmUnits(l, Requests \ None) <= lots[l].remaining
    BY FreePastHolds DEF ReservationInv
  <2>2. Requests \ None = Requests
    BY DEF None
  <2>3. FreeAt(l, None) \in Nat
    BY <1>2, ClampRange DEF FreeAt
  <2>4. take[l] \in Nat /\ take[l] <= FreeAt(l, None)
    BY <1>4
  <2>5. FreeAt(l, None) + FirmUnits(l, Requests) <= lots[l].remaining
    BY <2>1, <2>2
  <2> QED BY <1>2, <2>3, <2>4, <2>5
<1>5. ASSUME NEW e \in Entries, StockIn(e[1], e[2])
      PROVE  ReservationInv'
  <2> DEFINE n == nlots + 1
  <2>1. /\ n \in LotIds /\ e[2] \in Nat /\ nlots \in Nat
        /\ lots' = [lots EXCEPT ![n] = [wh |-> e[1], remaining |-> e[2]]]
    BY <1>5, EntryAssumption, BoundAssumption DEF StockIn, LotIds, TypeOK
  <2>2. lots[n].remaining = 0
    BY <2>1 DEF CounterInv, LotsInOrder
  <2>3. \A l \in LotIds : l # n => lots'[l] = lots[l]
    BY <2>1 DEF TypeOK
  <2>4. lots'[n].remaining = e[2]
    BY <2>1 DEF TypeOK
  <2> HIDE DEF n
  <2>5. LotsStay
    BY <2>2, <2>3 DEF LotsStay
  <2>6. \A l \in LotIds : FirmUnits(l, Requests) <= lots'[l].remaining
    BY <1>2, <2>1, <2>2, <2>3, <2>4
  <2> QED BY <1>1, <2>5, <2>6, ReservationFrame
<1>6. ASSUME NEW e \in Exits, StockOut(e[1], e[2])
      PROVE  ReservationInv'
  <2> DEFINE take == Pick(FreeIn(e[1], None), None, e[2])
  <2>1. e[1] \in Warehouses /\ e[2] \in Nat
    BY EntryAssumption
  <2>2. /\ take \in [LotIds -> Nat]
        /\ \A l \in LotIds : take[l] <= lots[l].remaining /\ take[l] <= FreeAt(l, None)
    BY <2>1, TakeFrom
  <2>3. lots' = Consume(take)
    BY <1>6 DEF StockOut
  <2> HIDE DEF take
  <2>4. \A l \in LotIds : /\ lots'[l].remaining = lots[l].remaining - take[l]
                          /\ lots'[l].wh = lots[l].wh
    BY <2>2, <2>3, ConsumeTotal
  <2> QED BY <1>1, <1>4, <2>2, <2>4, ReservationFrame DEF LotsStay
<1>7. ASSUME NEW t \in Relocations, ReceiveRelocation(t)
      PROVE  ReservationInv'
  <2> DEFINE take == Pick(FreeIn(manual[t].from, None), None, manual[t].qty)
  <2>1. manual[t].from \in Warehouses /\ manual[t].qty \in Nat
    BY DEF TypeOK, ManualRow
  <2>2. /\ take \in [LotIds -> Nat]
        /\ \A l \in LotIds : take[l] <= lots[l].remaining /\ take[l] <= FreeAt(l, None)
    BY <2>1, TakeFrom
  <2>3. /\ nlots + Cardinality(Sources(take)) <= MaxLots
        /\ lots' = Relocate(take, manual[t].to)
        /\ nlots' = nlots + Cardinality(Sources(take))
    BY <1>7 DEF ReceiveRelocation
  <2> HIDE DEF take
  <2>4. \A l \in LotIds :
          /\ lots'[l].remaining = lots[l].remaining - take[l] + Arriving(take)[l]
          /\ lots'[l].wh = IF Arriving(take)[l] > 0 THEN manual[t].to ELSE lots[l].wh
          /\ Arriving(take)[l] > 0 => lots[l].remaining = 0
    BY <2>2, <2>3, RelocateTotal DEF CounterInv
  <2>5. \A l \in LotIds : Arriving(take)[l] \in Nat
    BY <2>2, ArrivingRange
  <2>6. \A l \in LotIds : FirmUnits(l, Requests) <= lots'[l].remaining
    BY <1>2, <1>4, <2>2, <2>4, <2>5
  <2>7. LotsStay
    BY <2>4 DEF LotsStay
  <2> QED BY <1>1, <2>6, <2>7, ReservationFrame
<1> QED BY <1>3, <1>5, <1>6, <1>7
        DEF WarehouseStep, RequestRelocation, StartRelocation, CancelRelocation, DeleteRelocation

\* Submitting takes only what nobody holds, and asks for transfers of exactly
\* what it takes elsewhere.
LEMMA SubmitReservations ==
  ASSUME TypeOK, TypeOK', Lifecycle, ReservationInv, EditsOnlyPending', NoneFromShop',
         NEW r \in Requests, Submit(r)
  PROVE  ReservationInv'
<1> DEFINE q == requests[r].qty
           take == Pick(Free({r}), {Shop}, q)
           from(w) == Clamp(Units(take, LotsIn(w)), q)
<1>1. q \in Nat /\ q > 0 /\ requests[r].status = "pendiente" /\ UNCHANGED <<lots, orders>>
  BY DEF Submit, Submittable, TypeOK, RequestRow
<1>2. Free({r}) \in [LotIds -> Nat] /\ \A l \in LotIds : Free({r})[l] = FreeAt(l, {r})
  BY FreeRange DEF Free
<1>3. take \in [LotIds -> Nat] /\ \A l \in LotIds : take[l] <= Free({r})[l]
  BY <1>2, PickRange
<1>4. Units(take, LotIds) = Least(q, Units(Free({r}), LotIds))
  BY <1>1, <1>2, PickTotal
<1>5. Units(take, LotIds) \in Nat /\ Units(Free({r}), LotIds) \in Nat
  BY <1>2, <1>3, UnitsType
<1>6. Units(take, LotIds) <= q
  BY <1>1, <1>4, <1>5 DEF Least
<1>7. requests' = [requests EXCEPT ![r] = Submitted(r, take)]
  BY DEF Submit
<1>8. linked' = [linked EXCEPT ![r] = [w \in Warehouses |->
            IF w # Shop /\ from(w) > 0 THEN [status |-> "pedido", qty |-> from(w)] ELSE @[w]]]
  BY DEF Submit
<1>9. \A w : Units(take, LotsIn(w)) \in Nat /\ Units(take, LotsIn(w)) <= Units(take, LotIds)
  <2> TAKE w
  <2>1. LotsIn(w) \in SUBSET LotIds /\ IsFiniteSet(LotIds)
    BY LotsFinite DEF LotsIn
  <2> HIDE DEF take
  <2>2. Units(take, LotsIn(w)) \in Nat
    BY <1>3, <2>1, UnitsType
  <2>3. Units(take, LotsIn(w)) <= Units(take, LotIds)
    BY <1>3, <2>1, SumSubset DEF Units
  <2> QED BY <2>2, <2>3
<1> HIDE DEF take
<1>10. \A w : from(w) = Units(take, LotsIn(w))
  BY <1>1, <1>5, <1>6, <1>9 DEF Clamp
<1> HIDE DEF from
<1>11. /\ requests'[r].alloc = take /\ requests'[r].qty = q
       /\ requests'[r].shortfall = q - Units(take, LotIds)
  <2>1. requests[r] \in RequestRow /\ requests \in [Requests -> RequestRow]
    BY DEF TypeOK
  <2>2. /\ requests'[r].alloc = take /\ requests'[r].qty = q
        /\ requests'[r].shortfall = Clamp(q - Units(take, LotIds), q)
    BY <1>7, <2>1 DEF Submitted, RequestRow
  <2> QED BY <1>1, <1>5, <1>6, <2>2 DEF Clamp
<1>12. \A w \in Warehouses : linked[r][w].status = "ninguno"
  BY <1>1 DEF Lifecycle, LinkedIfSubmitted
<1>13. \A w \in Warehouses \ {Shop} :
         Units(take, LotsIn(w)) = IF Pending(r, w)' THEN linked'[r][w].qty ELSE 0
  <2> SUFFICES ASSUME NEW w \in Warehouses \ {Shop}
               PROVE  Units(take, LotsIn(w)) = IF Pending(r, w)' THEN linked'[r][w].qty ELSE 0
    OBVIOUS
  <2>1. linked'[r][w] = IF from(w) > 0 THEN [status |-> "pedido", qty |-> from(w)]
                        ELSE linked[r][w]
    BY <1>8 DEF TypeOK
  <2>2. CASE from(w) > 0
    BY <1>10, <2>1, <2>2 DEF Pending
  <2>3. CASE ~(from(w) > 0)
    BY <1>9, <1>10, <1>12, <2>1, <2>3 DEF Pending
  <2> QED BY <2>2, <2>3
<1>14. HoldInv(r)'
  <2>1. Carries(r)'
    BY <1>1, <1>11, <1>13 DEF Carries, LotsIn, Units
  <2>2. Accounts(r)'
    BY <1>1, <1>5, <1>11 DEF Accounts, Units
  <2>3. AsksForUnits(r)'
    BY <1>1, <1>11 DEF AsksForUnits
  <2> QED BY <2>1, <2>2, <2>3 DEF HoldInv
<1>15. \A s \in Requests \ {r} : HoldKept(s)
  BY <1>1, <1>7, <1>8 DEF TypeOK, HoldKept, FirmHold, Live, Terminal, Pending
<1>16. ASSUME NEW l \in LotIds
       PROVE  (IF FirmHold(r)' THEN requests'[r].alloc[l] ELSE 0)
                + FirmUnits(l, Requests \ {r}) <= lots'[l].remaining
  <2>1. FreeAt(l, {r}) + FirmUnits(l, Requests \ {r}) <= lots[l].remaining
    BY FreePastHolds DEF ReservationInv
  <2>2. lots[l].remaining \in Nat /\ FirmUnits(l, Requests \ {r}) \in Nat
    BY HoldsType DEF TypeOK, LotRow
  <2>3. take[l] \in Nat /\ take[l] <= FreeAt(l, {r}) /\ FreeAt(l, {r}) \in Nat
    BY <1>2, <1>3
  <2> QED BY <1>1, <1>11, <2>1, <2>2, <2>3
<1> QED BY <1>1, <1>14, <1>15, <1>16, ReservationOf DEF LotsStay

\* Dispatch takes only what the others do not hold, and ends the ODT's hold.
LEMMA DispatchReservations ==
  ASSUME TypeOK, TypeOK', ReservationInv, EditsOnlyPending', NoneFromShop', NEW r \in Requests, Dispatch(r)
  PROVE  ReservationInv'
<1> DEFINE take == Pick(FreeIn(Shop, {r}), None, requests[r].qty)
<1>1. requests[r].qty \in Nat /\ requests \in [Requests -> RequestRow]
  BY DEF TypeOK, RequestRow
<1>2. /\ take \in [LotIds -> Nat]
      /\ \A l \in LotIds : take[l] <= lots[l].remaining /\ take[l] <= FreeAt(l, {r})
  BY <1>1, ShopAssumption, TakeFrom
<1>3. lots' = Consume(take) /\ UNCHANGED <<orders, linked>>
  BY DEF Dispatch, Dispatchable
<1>4. requests' = [requests EXCEPT ![r] = [@ EXCEPT
        !.status = "completado", !.alloc = take, !.shortfall = 0, !.deducted = TRUE]]
  BY DEF Dispatch, Dispatchable
<1> HIDE DEF take
<1>5. \A l \in LotIds : /\ lots'[l].remaining = lots[l].remaining - take[l]
                        /\ lots'[l].wh = lots[l].wh
  BY <1>2, <1>3, ConsumeTotal
<1>6. ~FirmHold(r)'
  BY <1>1, <1>4 DEF FirmHold, RequestRow
<1>7. \A s \in Requests \ {r} : HoldKept(s)
  BY <1>3, <1>4 DEF TypeOK, HoldKept, FirmHold, Live, Terminal, Pending
<1>8. HoldInv(r)'
  BY <1>6 DEF HoldInv, Carries, Accounts, AsksForUnits
<1>9. ASSUME NEW l \in LotIds
      PROVE  (IF FirmHold(r)' THEN requests'[r].alloc[l] ELSE 0)
               + FirmUnits(l, Requests \ {r}) <= lots'[l].remaining
  <2>1. FreeAt(l, {r}) + FirmUnits(l, Requests \ {r}) <= lots[l].remaining
    BY FreePastHolds DEF ReservationInv
  <2>2. lots[l].remaining \in Nat /\ FirmUnits(l, Requests \ {r}) \in Nat
    BY HoldsType DEF TypeOK, LotRow
  <2>3. take[l] \in Nat /\ take[l] <= FreeAt(l, {r}) /\ FreeAt(l, {r}) \in Nat
    BY <1>2, <2>2, ClampRange DEF FreeAt
  <2> QED BY <1>5, <1>6, <2>1, <2>2, <2>3
<1> QED BY <1>5, <1>7, <1>8, <1>9, ReservationOf DEF LotsStay

\* A received transfer brings what it carried: the ODT's hold moves with it.
LEMMA ReceiptReservations ==
  ASSUME TypeOK, TypeOK', Lifecycle, CounterInv, ReservationInv, EditsOnlyPending', NoneFromShop',
         NEW r \in Requests, NEW w \in Warehouses, ReceiveLinked(r, w)
  PROVE  ReservationInv'
<1> DEFINE q     == linked[r][w].qty
           take  == Pick(FreeIn(w, {r}), None, q)
           new   == Arriving(take)
           alloc == requests[r].alloc
           there == [l \in LotIds |-> IF lots[l].wh = w THEN alloc[l] ELSE 0]
           left  == Pick(there, None, q)
<1>1. /\ requests \in [Requests -> RequestRow] /\ requests[r] \in RequestRow
      /\ linked \in [Requests -> [Warehouses -> LinkedRow]] /\ linked[r][w] \in LinkedRow
      /\ q \in Nat /\ alloc \in [LotIds -> Nat]
      /\ \A l \in LotIds : lots[l].remaining \in Nat
  BY DEF TypeOK, RequestRow, LinkedRow, LotRow
<1>2. /\ linked[r][w].status = "en_proceso" /\ ~Terminal(OrderOf[r])
      /\ Units(take, LotIds) = q /\ nlots + Cardinality(Sources(take)) <= MaxLots
      /\ lots' = Relocate(take, Shop) /\ nlots' = nlots + Cardinality(Sources(take))
      /\ UNCHANGED orders /\ w # Shop
  BY DEF ReceiveLinked, ReservationInv, NoneFromShop
<1>3. FirmHold(r) /\ Pending(r, w)
  BY <1>1, <1>2 DEF Lifecycle, LinkedIfSubmitted, NothingToReceive, DispatchedOnce, Pending,
                    FirmHold, Live, RequestRow
<1>4. requests[r].qty > 0 /\ Units(alloc, LotsIn(w)) = q
  <2>1. Carries(r) /\ AsksForUnits(r) /\ w \in Warehouses \ {Shop}
    BY <1>2 DEF ReservationInv, HoldInv
  <2>2. requests[r].qty > 0
    BY <1>3, <2>1 DEF AsksForUnits
  <2>3. Units(alloc, LotsIn(w)) = IF Pending(r, w) THEN q ELSE 0
    BY <1>3, <2>1 DEF Carries
  <2> QED BY <1>3, <2>2, <2>3
<1>5. requests' = [requests EXCEPT ![r].alloc = Moved(r, w, q, new)]
  <2>1. requests' = [requests EXCEPT ![r].alloc =
          IF requests[r].qty = 0 THEN @ ELSE Moved(r, w, q, new)]
    BY DEF ReceiveLinked
  <2>2. requests[r].qty # 0
    BY <1>1, <1>4 DEF RequestRow
  <2> HIDE DEF new, q
  <2> QED BY <2>1, <2>2
<1>6. linked' = [linked EXCEPT ![r][w].status = "completada"]
  BY DEF ReceiveLinked
<1>7. /\ take \in [LotIds -> Nat]
      /\ \A l \in LotIds : take[l] <= lots[l].remaining /\ take[l] <= FreeAt(l, {r})
      /\ \A l \in LotIds : lots[l].wh # w => take[l] = 0
  BY <1>1, TakeFrom
<1> HIDE DEF take
<1>8. new \in [LotIds -> Nat] /\ Units(new, LotIds) = q
  BY <1>2, <1>7, ArrivingRange, ArrivingTotal, BoundAssumption DEF TypeOK
<1>9. \A l \in LotIds :
        /\ lots'[l].remaining = lots[l].remaining - take[l] + new[l]
        /\ lots'[l].wh = IF new[l] > 0 THEN Shop ELSE lots[l].wh
        /\ new[l] > 0 => l > nlots /\ take[l] = 0 /\ lots[l].remaining = 0
  BY <1>2, <1>7, RelocateTotal DEF CounterInv
<1> HIDE DEF new
<1>10. there \in [LotIds -> Nat] /\ Units(there, LotIds) = q
  BY <1>1, <1>4, HeldIn
<1>11. \A l \in LotIds : left[l] = there[l]
  <2> HIDE DEF there
  <2> QED BY <1>1, <1>10, PickAll
<1>12. /\ requests'[r].alloc = Moved(r, w, q, new)
       /\ requests'[r].qty = requests[r].qty
       /\ requests'[r].shortfall = requests[r].shortfall
       /\ requests'[r].status = requests[r].status
       /\ requests'[r].deducted = requests[r].deducted
       /\ requests'[r].closed = requests[r].closed
  BY <1>1, <1>5 DEF RequestRow
<1>13. ASSUME NEW l \in LotIds
       PROVE  requests'[r].alloc[l] = alloc[l] - there[l] + new[l]
  <2>1. requests'[r].alloc[l] = alloc[l] - left[l] + new[l]
    BY <1>12 DEF Moved
  <2> HIDE DEF left, there, alloc
  <2> QED BY <1>11, <2>1
<1>14. FirmHold(r)'
  BY <1>2, <1>3, <1>12 DEF FirmHold, Live, Terminal
<1>15. \A s \in Requests \ {r} : HoldKept(s)
  BY <1>1, <1>2, <1>5, <1>6 DEF HoldKept, FirmHold, Live, Terminal, Pending
<1>16. \A l \in LotIds : alloc[l] <= lots[l].remaining /\ (lots[l].remaining = 0 => alloc[l] = 0)
  BY <1>3, NothingInEmpty DEF ReservationInv
<1>17. ASSUME NEW l \in LotIds
       PROVE  (IF FirmHold(r)' THEN requests'[r].alloc[l] ELSE 0)
                + FirmUnits(l, Requests \ {r}) <= lots'[l].remaining
  <2>1. FreeAt(l, {r}) + FirmUnits(l, Requests \ {r}) <= lots[l].remaining
    BY FreePastHolds DEF ReservationInv
  <2>2. /\ FirmUnits(l, Requests \ {r}) \in Nat /\ FirmUnits(l, Requests) \in Nat
        /\ FirmUnits(l, Requests) = alloc[l] + FirmUnits(l, Requests \ {r})
        /\ FirmUnits(l, Requests) <= lots[l].remaining
    BY <1>3, HoldsType, HoldSplit DEF ReservationInv, ReservationsCovered
  <2>3. /\ take[l] \in Nat /\ take[l] <= FreeAt(l, {r}) /\ FreeAt(l, {r}) \in Nat
        /\ new[l] \in Nat /\ alloc[l] \in Nat /\ lots[l].remaining \in Nat
    BY <1>1, <1>7, <1>8, ClampRange DEF FreeAt
  <2>4. there[l] = IF lots[l].wh = w THEN alloc[l] ELSE 0
    OBVIOUS
  <2> HIDE DEF there, alloc
  <2>5. CASE lots[l].wh = w
    BY <1>9, <1>13, <1>14, <2>1, <2>2, <2>3, <2>4, <2>5
  <2>6. CASE lots[l].wh # w
    <3>1. take[l] = 0
      BY <1>7, <2>6
    <3> QED BY <1>9, <1>13, <1>14, <2>2, <2>3, <2>4, <2>6, <3>1
  <2> QED BY <2>5, <2>6
<1>18. LotsStay
  BY <1>9 DEF LotsStay
<1>19. Accounts(r)'
  <2> DEFINE after == requests'[r].alloc
             sum   == [l \in LotIds |-> alloc[l] + new[l]]
  <2>1. after \in [LotIds -> Nat]
    BY DEF TypeOK, RequestRow
  <2>2. \A l \in LotIds : /\ sum[l] = alloc[l] + new[l] /\ sum[l] = after[l] + there[l]
                          /\ alloc[l] \in Int /\ new[l] \in Int
                          /\ after[l] \in Int /\ there[l] \in Int
    BY <1>1, <1>8, <1>10, <1>13, <2>1
  <2>3. IsFiniteSet(LotIds)
    BY LotsFinite
  <2> HIDE DEF sum, there, alloc, after
  <2>4. Units(sum, LotIds) = Units(alloc, LotIds) + Units(new, LotIds)
    BY <2>2, <2>3, SumPlus DEF Units
  <2>5. Units(sum, LotIds) = Units(after, LotIds) + Units(there, LotIds)
    BY <2>2, <2>3, SumPlus DEF Units
  <2>6. Units(after, LotIds) \in Nat /\ Units(alloc, LotIds) \in Nat
    BY <1>1, <2>1, UnitsType
  <2>7. Units(after, LotIds) = Units(alloc, LotIds)
    <3>1. Units(new, LotIds) = q /\ Units(there, LotIds) = q /\ q \in Nat
      BY <1>1, <1>8, <1>10
    <3> HIDE DEF q
    <3> QED BY <2>4, <2>5, <2>6, <3>1
  <2>8. Units(alloc, LotIds) + requests[r].shortfall = requests[r].qty
    BY <1>3 DEF ReservationInv, HoldInv, Accounts, alloc
  <2> QED BY <1>12, <2>7, <2>8 DEF Accounts, Units, after
<1>20. Carries(r)'
  <2> SUFFICES ASSUME NEW v \in Warehouses \ {Shop}
               PROVE  Units(requests'[r].alloc, LotsIn(v)')
                        = IF Pending(r, v)' THEN linked'[r][v].qty ELSE 0
    BY DEF Carries, Units
  <2> DEFINE after == requests'[r].alloc
             part  == [l \in LotIds |-> IF lots'[l].wh = v THEN after[l] ELSE 0]
  <2>1. after \in [LotIds -> Nat]
    BY DEF TypeOK, RequestRow
  <2>2. Units(after, LotsIn(v)') = Units(part, LotIds)
    <3>1. /\ LotsIn(v)' \in SUBSET LotIds /\ IsFiniteSet(LotIds)
          /\ \A l \in LotsIn(v)' : after[l] \in Int /\ part[l] = after[l]
          /\ \A l \in LotIds \ LotsIn(v)' : part[l] = 0
      BY <2>1, LotsFinite DEF LotsIn
    <3> HIDE DEF part, after
    <3> QED BY <3>1, SumPart DEF Units
  <2>3. CASE v = w
    <3>1. ASSUME NEW l \in LotIds
          PROVE  part[l] = 0
      <4>1. part[l] = IF lots'[l].wh = w THEN after[l] ELSE 0
        BY <2>3
      <4>2. CASE new[l] > 0
        <5>1. lots'[l].wh = Shop
          BY <1>9, <4>2
        <5> QED BY <4>1, <5>1
      <4>3. CASE ~(new[l] > 0)
        <5>1. lots'[l].wh = lots[l].wh /\ new[l] = 0
          BY <1>8, <1>9, <4>3
        <5>2. after[l] = alloc[l] - there[l] + 0 /\ alloc[l] \in Nat
          BY <1>1, <1>13, <5>1
        <5>3. lots[l].wh = w => there[l] = alloc[l]
          OBVIOUS
        <5> HIDE DEF part, after, alloc, there
        <5> QED BY <4>1, <5>1, <5>2, <5>3
      <4> QED BY <4>2, <4>3
    <3>2. Units(part, LotIds) = 0
      <4> HIDE DEF part
      <4> QED BY <3>1, LotsFinite, SumZero DEF Units
    <3>3. ~Pending(r, v)'
      BY <1>1, <1>6, <2>3 DEF Pending, LinkedRow
    <3> QED BY <2>2, <3>2, <3>3
  <2>4. CASE v # w
    <3> DEFINE before == [l \in LotIds |-> IF lots[l].wh = v THEN alloc[l] ELSE 0]
    <3>1. ASSUME NEW l \in LotIds
          PROVE  part[l] = before[l]
      <4>1. /\ part[l] = IF lots'[l].wh = v THEN after[l] ELSE 0
            /\ before[l] = IF lots[l].wh = v THEN alloc[l] ELSE 0
        OBVIOUS
      <4>2. CASE new[l] > 0
        <5>1. lots'[l].wh = Shop /\ alloc[l] = 0
          BY <1>9, <1>16, <4>2
        <5> QED BY <4>1, <5>1
      <4>3. CASE ~(new[l] > 0)
        <5>1. lots'[l].wh = lots[l].wh /\ new[l] = 0
          BY <1>8, <1>9, <4>3
        <5>2. after[l] = alloc[l] - there[l] + 0 /\ alloc[l] \in Nat
          BY <1>1, <1>13, <5>1
        <5>3. lots[l].wh = v => there[l] = 0
          BY <2>4
        <5> HIDE DEF part, after, alloc, there, before
        <5> QED BY <4>1, <5>1, <5>2, <5>3
      <4> QED BY <4>2, <4>3
    <3>2. Units(part, LotIds) = Units(before, LotIds)
      <4> HIDE DEF part, before
      <4> QED BY <3>1, LotsFinite, SumEqual DEF Units
    <3>3. Units(alloc, LotsIn(v)) = Units(before, LotIds)
      BY <1>1, HeldIn
    <3>4. Units(alloc, LotsIn(v)) = IF Pending(r, v) THEN linked[r][v].qty ELSE 0
      BY <1>3 DEF ReservationInv, HoldInv, Carries
    <3>5. linked'[r][v] = linked[r][v]
      BY <1>1, <1>6, <2>4
    <3>6. Pending(r, v)' = Pending(r, v) /\ linked'[r][v].qty = linked[r][v].qty
      BY <3>5 DEF Pending
    <3> HIDE DEF part, before, after, alloc
    <3> QED BY <2>2, <3>2, <3>3, <3>4, <3>6 DEF after
  <2> QED BY <2>3, <2>4
<1>21. HoldInv(r)'
  BY <1>4, <1>12, <1>19, <1>20 DEF HoldInv, AsksForUnits
<1> QED BY <1>15, <1>17, <1>18, <1>21, ReservationOf

\* No step makes the workshop's warehouse the origin of a transfer.
LEMMA NoneFromShopStep ==
  ASSUME TypeOK, NoneFromShop, Next
  PROVE  NoneFromShop'
<1> USE DEF NoneFromShop
<1>1. linked \in [Requests -> [Warehouses -> LinkedRow]] /\ Shop \in Warehouses
  BY ShopAssumption DEF TypeOK
<1>2. CASE WarehouseStep
  BY <1>2, WarehouseFrame DEF Life
<1>3. ASSUME NEW r \in Requests, LineStep(r)
      PROVE  NoneFromShop'
  BY <1>3 DEF LineStep, AddLine, ReadLine, ResizeLine, RemoveLine, AbandonEdit, CommitLine,
              HoldExpires
<1>4. ASSUME NEW r \in Requests, RequestStep(r)
      PROVE  NoneFromShop'
  <2>1. CASE Submit(r)
    BY <1>1, <2>1 DEF Submit
  <2>2. CASE Dispatch(r)
    BY <2>2 DEF Dispatch
  <2>3. CASE DeleteRequest(r)
    BY <1>1, <2>3 DEF DeleteRequest, NoLinked
  <2>4. ASSUME NEW w \in Warehouses, StartLinked(r, w) \/ ReceiveLinked(r, w)
        PROVE  NoneFromShop'
    <3>1. w # Shop
      BY <2>4 DEF StartLinked, ReceiveLinked
    <3> QED BY <1>1, <2>4, <3>1 DEF StartLinked, ReceiveLinked
  <2> QED BY <1>4, <2>1, <2>2, <2>3, <2>4 DEF RequestStep
<1>5. ASSUME NEW o \in Orders, OrderStep(o)
      PROVE  NoneFromShop'
  <2>1. CASE Close(o)
    BY <1>1, <2>1 DEF Close, ClosedLink
  <2> QED BY <1>5, <2>1 DEF OrderStep, Invoice, Cancel, Reopen
<1> QED BY <1>2, <1>3, <1>4, <1>5 DEF Next

\* Starting a transfer and deleting a pending ODT keep every hold.
LEMMA QuietRequestSteps ==
  ASSUME TypeOK, NEW r \in Requests,
         DeleteRequest(r) \/ \E w \in Warehouses : StartLinked(r, w),
         NEW s \in Requests
  PROVE  HoldKept(s)
<1>1. /\ requests \in [Requests -> RequestRow]
      /\ linked \in [Requests -> [Warehouses -> LinkedRow]]
  BY DEF TypeOK
<1>2. CASE DeleteRequest(r)
  <2>1. CASE s = r
    BY <1>1, <1>2, <2>1 DEF DeleteRequest, NoRequest, HoldKept, FirmHold
  <2>2. CASE s # r
    BY <1>1, <1>2, <2>2 DEF DeleteRequest, HoldKept, FirmHold, Live, Terminal, Pending
  <2> QED BY <2>1, <2>2
<1>3. ASSUME NEW w \in Warehouses, StartLinked(r, w)
      PROVE  HoldKept(s)
  <2>1. UNCHANGED <<requests, orders>>
    BY <1>3 DEF StartLinked
  <2>2. ASSUME NEW v \in Warehouses
        PROVE  Pending(s, v)' = Pending(s, v) /\ linked'[s][v].qty = linked[s][v].qty
    <3>1. linked[r][w] \in LinkedRow
      BY <1>1
    <3>2. CASE s = r /\ v = w
      BY <1>1, <1>3, <3>1, <3>2 DEF StartLinked, Pending, LinkedRow
    <3>3. CASE ~(s = r /\ v = w)
      <4>1. linked'[s][v] = linked[s][v]
        BY <1>1, <1>3, <3>3 DEF StartLinked
      <4> QED BY <4>1 DEF Pending
    <3> QED BY <3>2, <3>3
  <2> QED BY <2>1, <2>2 DEF HoldKept, FirmHold, Live, Terminal
<1> QED BY <1>2, <1>3

\* When nothing reopens a cancelled order and no edit straddles a submission,
\* every hold is covered, carried and accounted for.
THEOREM HoldsHonoured ==
  ASSUME ~EditsOverlapSubmit, MaxReopens = 0
  PROVE  Spec => []ReservationInv
<1>1. Init => ReservationInv
  <2> SUFFICES ASSUME Init PROVE ReservationInv
    OBVIOUS
  <2>1. \A r \in Requests : ~FirmHold(r)
    BY DEF Init, NoRequest, FirmHold
  <2>2. ASSUME NEW l \in LotIds
        PROVE  FirmUnits(l, Requests) <= lots[l].remaining
    <3>1. {r \in Requests : FirmHold(r)} = {}
      BY <2>1
    <3>2. FirmUnits(l, Requests) = 0
      BY <3>1, SumEmpty DEF FirmUnits, Units
    <3> QED BY <3>2 DEF Init, NoLot
  <2> QED BY <2>1, <2>2, ShopAssumption
          DEF Init, ReservationInv, EditsOnlyPending, NoEdit, NoneFromShop, NoLinked,
              ReservationsCovered, HoldInv, Carries, Accounts, AsksForUnits
<1>2. TypeOK /\ TypeOK' /\ Lifecycle /\ CounterInv /\ ReservationInv /\ [Next]_vars
        => ReservationInv'
  <2> SUFFICES ASSUME TypeOK, TypeOK', Lifecycle, CounterInv, ReservationInv, [Next]_vars
               PROVE  ReservationInv'
    OBVIOUS
  <2>1. CASE UNCHANGED vars
    BY <2>1 DEF vars, ReservationInv, EditsOnlyPending, NoneFromShop, ReservationsCovered,
                HoldInv, Carries, Accounts, AsksForUnits, FirmUnits, FirmHold, Live, Terminal,
                Pending, LotsIn, Units
  <2>2. CASE Next
    <3>1. EditsOnlyPending' /\ NoneFromShop'
      BY <2>2, EditsOnlyPendingStep, NoneFromShopStep DEF ReservationInv
    <3>2. ASSUME UNCHANGED lots, \A s \in Requests : HoldKept(s)
          PROVE  ReservationInv'
      BY <3>1, <3>2, ReservationFrame DEF ReservationInv, ReservationsCovered, LotsStay
    <3>3. CASE WarehouseStep
      BY <3>1, <3>3, WarehouseStepReservations
    <3>4. ASSUME NEW r \in Requests, LineStep(r)
          PROVE  ReservationInv'
      <4>1. UNCHANGED lots
        BY <3>4 DEF LineStep, AddLine, ReadLine, ResizeLine, RemoveLine, AbandonEdit, CommitLine,
                    HoldExpires
      <4> QED BY <3>2, <3>4, <4>1, LineStepHolds DEF ReservationInv
    <3>5. ASSUME NEW r \in Requests, RequestStep(r)
          PROVE  ReservationInv'
      <4>1. CASE DeleteRequest(r) \/ \E w \in Warehouses : StartLinked(r, w)
        <5>1. UNCHANGED lots
          BY <4>1 DEF DeleteRequest, StartLinked
        <5> QED BY <3>2, <4>1, <5>1, QuietRequestSteps
      <4> QED BY <3>1, <3>5, <4>1, SubmitReservations, DispatchReservations, ReceiptReservations
              DEF RequestStep
    <3>6. ASSUME NEW o \in Orders, OrderStep(o)
          PROVE  ReservationInv'
      <4>1. UNCHANGED lots
        BY <3>6 DEF OrderStep, Invoice, Close, Cancel, Reopen
      <4> QED BY <3>2, <3>6, <4>1, OrderStepHolds
    <3> QED BY <2>2, <3>3, <3>4, <3>5, <3>6 DEF Next
  <2> QED BY <2>1, <2>2
<1> QED BY <1>1, <1>2, TypeCorrect, LifecycleInvariant, CounterCorrect, PTL DEF Spec

\* No lot is promised to submitted ODTs beyond what is in it.
THEOREM LotsNotOverpromised ==
  ASSUME ~EditsOverlapSubmit, MaxReopens = 0
  PROVE  Spec => []ReservationsCovered
<1>1. ReservationInv => ReservationsCovered
  BY DEF ReservationInv
<1> QED BY <1>1, HoldsHonoured, PTL

\* A pending transfer brings exactly what its ODT reserved at its origin.
THEOREM TransfersBringReserved ==
  ASSUME ~EditsOverlapSubmit, MaxReopens = 0
  PROVE  Spec => []TransfersCarryReservation
<1>1. ReservationInv => TransfersCarryReservation
  BY DEF ReservationInv, HoldInv, Carries, TransfersCarryReservation
<1> QED BY <1>1, HoldsHonoured, PTL

\* Every unit a submitted ODT asks for is reserved or counted as missing.
THEOREM ShortfallIsTheRest ==
  ASSUME ~EditsOverlapSubmit, MaxReopens = 0
  PROVE  Spec => []ShortfallAccounts
<1>1. ReservationInv => ShortfallAccounts
  BY DEF ReservationInv, HoldInv, Accounts, ShortfallAccounts
<1> QED BY <1>1, HoldsHonoured, PTL

\* Amounts that add up to nothing are nothing.
LEMMA NoUnitsAnywhere ==
  ASSUME NEW take \in [LotIds -> Nat], NEW S \in SUBSET LotIds, Units(take, S) = 0
  PROVE  \A l \in S : take[l] = 0
<1> SUFFICES ASSUME NEW l \in S PROVE take[l] = 0
  OBVIOUS
<1>1. IsFiniteSet(S) /\ S \ {l} \in SUBSET LotIds /\ \A x \in S : take[x] \in Int
  <2>1. IsFiniteSet(S)
    BY LotsFinite, FS_Subset
  <2> QED BY <2>1
<1>2. Units(take, S) = take[l] + Units(take, S \ {l})
  BY <1>1, SumRemove DEF Units
<1>3. Units(take, S \ {l}) \in Nat /\ take[l] \in Nat
  BY <1>1, UnitsType
<1> QED BY <1>2, <1>3

\* Once its transfers arrived, an ODT without shortfall finds its units in the
\* workshop, past the holds of every other ODT: it can be dispatched.
LEMMA HoldsKeepPromise ==
  ASSUME TypeOK, ReservationInv
  PROVE  PromiseKept
<1> SUFFICES ASSUME NEW r \in Requests, FirmHold(r), requests[r].shortfall = 0,
                    \A w \in Warehouses : ~Pending(r, w)
             PROVE  requests[r].qty <=
                      Units([l \in LotIds |-> lots[l].remaining - FirmUnits(l, Requests \ {r})],
                            LotsIn(Shop))
  BY DEF PromiseKept
<1> DEFINE alloc == requests[r].alloc
           room  == [l \in LotIds |-> lots[l].remaining - FirmUnits(l, Requests \ {r})]
           atShop == LotsIn(Shop)
<1>1. /\ alloc \in [LotIds -> Nat] /\ requests[r].qty \in Nat
      /\ \A l \in LotIds : lots[l].remaining \in Nat /\ lots[l].wh \in Warehouses
  BY DEF TypeOK, RequestRow, LotRow
<1>2. Carries(r) /\ Accounts(r)
  BY DEF ReservationInv, HoldInv
<1>3. Units(alloc, LotIds) = requests[r].qty
  <2>1. Units(alloc, LotIds) + 0 = requests[r].qty /\ Units(alloc, LotIds) \in Nat
    BY <1>1, <1>2, UnitsType DEF Accounts
  <2> QED BY <2>1
<1>4. ASSUME NEW l \in LotIds, lots[l].wh # Shop
      PROVE  alloc[l] = 0
  <2> DEFINE w == lots[l].wh
  <2>1. w \in Warehouses \ {Shop} /\ l \in LotsIn(w) /\ LotsIn(w) \in SUBSET LotIds
    BY <1>1, <1>4 DEF LotsIn
  <2>2. Units(alloc, LotsIn(w)) = 0
    BY <1>2, <2>1 DEF Carries
  <2> HIDE DEF w, alloc
  <2> QED BY <1>1, <2>1, <2>2, NoUnitsAnywhere
<1>5. Units(alloc, atShop) = Units(alloc, LotIds)
  <2>1. /\ atShop \in SUBSET LotIds /\ IsFiniteSet(LotIds)
        /\ \A l \in atShop : alloc[l] \in Int /\ alloc[l] = alloc[l]
    BY <1>1, LotsFinite DEF LotsIn
  <2>2. \A l \in LotIds \ atShop : alloc[l] = 0
    BY <1>4 DEF LotsIn
  <2> HIDE DEF alloc, atShop
  <2> QED BY <2>1, <2>2, SumPart DEF Units
<1>6. Units(alloc, atShop) <= Units(room, atShop)
  <2>1. ASSUME NEW l \in LotIds
        PROVE  room[l] \in Int /\ alloc[l] \in Int /\ alloc[l] <= room[l]
    <3>1. /\ FirmUnits(l, Requests) = alloc[l] + FirmUnits(l, Requests \ {r})
          /\ FirmUnits(l, Requests) <= lots[l].remaining
      BY HoldSplit DEF ReservationInv, ReservationsCovered
    <3>2. FirmUnits(l, Requests \ {r}) \in Nat /\ alloc[l] \in Nat
      BY <1>1, HoldsType
    <3>3. room[l] = lots[l].remaining - FirmUnits(l, Requests \ {r})
      OBVIOUS
    <3> HIDE DEF room, alloc
    <3> QED BY <1>1, <3>1, <3>2, <3>3
  <2>2. atShop \in SUBSET LotIds /\ IsFiniteSet(atShop)
    BY LotsFinite, FS_Subset DEF LotsIn
  <2> HIDE DEF alloc, room, atShop
  <2> QED BY <2>1, <2>2, SumMono DEF Units
<1> QED BY <1>3, <1>5, <1>6

\* "Las reservas enviadas permanecen vigentes hasta el despacho": in every
\* reachable state a submitted ODT without shortfall whose transfers arrived
\* finds its units in the workshop's warehouse.
THEOREM SubmittedCanBeServed ==
  ASSUME ~EditsOverlapSubmit, MaxReopens = 0
  PROVE  Spec => []PromiseKept
<1>1. TypeOK /\ ReservationInv => PromiseKept
  BY HoldsKeepPromise
<1> QED BY <1>1, TypeCorrect, HoldsHonoured, PTL

-----------------------------------------------------------------------------
(* The lots, transfers and ODTs implement the abstract shelf.              *)

HoldsFit ==
  /\ Promised \in [Requests -> Nat]
  /\ OnHand \in Nat
  /\ Units(Promised, Requests) <= OnHand

\* The library's sum, named through the instance, is the same sum.
LEMMA SameSum ==
  ASSUME NEW f, NEW S
  PROVE  AbstractShelf!SumFunctionOnSet(f, S) = Units(f, S)
BY DEF AbstractShelf!SumFunctionOnSet, AbstractShelf!FoldFunctionOnSet,
       AbstractShelf!MapThenFoldSet, Units, SumFunctionOnSet, FoldFunctionOnSet, MapThenFoldSet

\* What is promised, over all the ODTs, is on hand.
LEMMA PromisedOnHand == TypeOK /\ ReservationsCovered => HoldsFit
<1> SUFFICES ASSUME TypeOK, ReservationsCovered PROVE HoldsFit
  OBVIOUS
<1> DEFINE held  == [r \in Requests |-> IF FirmHold(r) THEN requests[r].alloc ELSE NoUnits]
           byOdt == [r \in Requests |-> Units(held[r], LotIds)]
           byLot == [l \in LotIds |-> Units([r \in Requests |-> held[r][l]], Requests)]
<1>1. \A r \in Requests : held[r] \in [LotIds -> Nat]
  BY DEF TypeOK, RequestRow, NoUnits
<1>2. IsFiniteSet(Requests) /\ IsFiniteSet(LotIds)
  BY RequestAssumption, LotsFinite
<1>3. Units(byOdt, Requests) = Units(byLot, LotIds)
  <2>1. \A r \in Requests, l \in LotIds : held[r][l] \in Int
    BY <1>1
  <2> HIDE DEF held
  <2> QED BY <1>2, <2>1, SumSwap DEF Units
<1>4. Promised = byOdt
  <2>1. ASSUME NEW r \in Requests
        PROVE  Units(held[r], LotIds) = IF FirmHold(r) THEN Units(requests[r].alloc, LotIds) ELSE 0
    <3>1. Units(NoUnits, LotIds) = 0
      BY <1>2, SumZero DEF Units, NoUnits
    <3> QED BY <3>1
  <2> HIDE DEF held
  <2> QED BY <2>1 DEF Promised
<1>5. ASSUME NEW l \in LotIds
      PROVE  byLot[l] = FirmUnits(l, Requests)
  <2> DEFINE column == [r \in Requests |-> held[r][l]]
             given  == AllocIn(l)
             firm   == Firm(Requests)
  <2>1. /\ firm \in SUBSET Requests
        /\ \A r \in firm : given[r] \in Int /\ column[r] = given[r]
        /\ \A r \in Requests \ firm : column[r] = 0
    <3>1. \A r \in Requests : given[r] \in Nat /\ given[r] = requests[r].alloc[l]
      BY HoldsType
    <3>2. \A r \in Requests :
            column[r] = IF FirmHold(r) THEN requests[r].alloc[l] ELSE 0
      BY DEF NoUnits
    <3> HIDE DEF given, column
    <3> QED BY <3>1, <3>2 DEF Firm
  <2>2. byLot[l] = Units(column, Requests)
    OBVIOUS
  <2>3. FirmUnits(l, Requests) = Units(given, firm)
    BY HoldsType
  <2> HIDE DEF column, given, firm, byLot
  <2>4. Units(column, Requests) = Units(given, firm)
    BY <1>2, <2>1, SumPart DEF Units
  <2> QED BY <2>2, <2>3, <2>4
<1>6. Remaining \in [LotIds -> Nat] /\ OnHand = Units(Remaining, LotIds)
  BY UnitsType
<1>7. \A l \in LotIds : byLot[l] \in Int /\ Remaining[l] \in Int /\ byLot[l] <= Remaining[l]
  <2> SUFFICES ASSUME NEW l \in LotIds
               PROVE  byLot[l] \in Int /\ Remaining[l] \in Int /\ byLot[l] <= Remaining[l]
    OBVIOUS
  <2>1. FirmUnits(l, Requests) \in Nat /\ FirmUnits(l, Requests) <= lots[l].remaining
    BY HoldsType DEF ReservationsCovered
  <2>2. Remaining[l] = lots[l].remaining /\ Remaining[l] \in Nat
    BY <1>6 DEF Remaining
  <2> HIDE DEF byLot
  <2> QED BY <1>5, <2>1, <2>2
<1>8. Units(byLot, LotIds) <= Units(Remaining, LotIds)
  <2> HIDE DEF byLot
  <2> QED BY <1>2, <1>7, SumMono DEF Units
<1>9. Promised \in [Requests -> Nat]
  <2>1. \A r \in Requests : Units(held[r], LotIds) \in Nat
    <3> HIDE DEF held
    <3> QED BY <1>1, UnitsType
  <2> HIDE DEF held
  <2> QED BY <1>4, <2>1
<1>10. OnHand \in Nat
  BY <1>6, UnitsType
<1> QED BY <1>3, <1>4, <1>6, <1>8, <1>9, <1>10 DEF HoldsFit
LEMMA PromisedOnHandAfter == TypeOK' /\ ReservationsCovered' => HoldsFit'
BY PromisedOnHand, PTL

\* A hold that weighs as much as before, for the abstract shelf.
HoldWeighed(s) == FirmHold(s)' =>
  FirmHold(s) /\ Units(requests'[s].alloc, LotIds) = Units(requests[s].alloc, LotIds)

\* A step that moves no unit in or out and only drops holds releases them.
LEMMA ReleaseStep ==
  ASSUME OnHand' = OnHand, Served' = Served, \A s \in Requests : HoldWeighed(s)
  PROVE  AbstractShelf!Next
<1> DEFINE S == {s \in Requests : ~FirmHold(s)'}
<1>1. Promised' = [s \in Requests |-> IF s \in S THEN 0 ELSE Promised[s]]
  BY DEF Promised, HoldWeighed, Units
<1>2. AbstractShelf!Release(S)
  <2> HIDE DEF S
  <2> QED BY <1>1 DEF AbstractShelf!Release
<1>3. S \in SUBSET Requests
  OBVIOUS
<1> QED BY <1>2, <1>3 DEF AbstractShelf!Next

\* A hold that is kept weighs the same.
LEMMA KeptWeighs ==
  ASSUME NEW s \in Requests, HoldKept(s)
  PROVE  HoldWeighed(s)
BY DEF HoldKept, HoldWeighed

\* The warehouse's operations: units received, units issued, or nothing.
LEMMA WarehouseStepShelf ==
  ASSUME TypeOK, TypeOK', CounterInv, CounterInv', ReservationInv', WarehouseStep
  PROVE  AbstractShelf!Next \/ UNCHANGED <<OnHand, Promised, Served>>
<1>1. Promised' = Promised /\ Served' = Served
  BY WarehouseFrame DEF Life, Promised, Served, FirmHold, Live, Terminal, Units
<1>2. stock = OnHand /\ stock' = OnHand' /\ stock \in Nat /\ stock' \in Nat
  BY DEF CounterInv, StockMatchesLots, OnHand, TypeOK, Units
<1>3. CASE OnHand' = OnHand
  BY <1>1, <1>3
<1>4. CASE OnHand' > OnHand
  BY <1>1, <1>4 DEF AbstractShelf!Receive, AbstractShelf!Next
<1>5. CASE OnHand' < OnHand
  <2>1. Units(Promised', Requests) <= OnHand'
    BY PromisedOnHandAfter DEF ReservationInv, HoldsFit, Units
  <2>2. AbstractShelf!Issue
    <3>1. Units(Promised', Requests) \in Nat
      BY PromisedOnHandAfter, RequestAssumption, SumNat DEF ReservationInv, HoldsFit, Units
    <3> QED BY <1>1, <1>2, <1>5, <2>1, <3>1, SameSum
            DEF AbstractShelf!Issue, AbstractShelf!Total
  <2> QED BY <2>2 DEF AbstractShelf!Next
<1> QED BY <1>2, <1>3, <1>4, <1>5

\* Submitting promises what the ODT takes, out of what nobody was promised.
LEMMA SubmitShelf ==
  ASSUME TypeOK, TypeOK', Lifecycle, ReservationInv, ReservationInv',
         NEW r \in Requests, Submit(r)
  PROVE  AbstractShelf!Next \/ UNCHANGED <<OnHand, Promised, Served>>
<1> DEFINE n == Promised'[r]
<1>1. OnHand' = OnHand /\ OnHand \in Nat
  BY PromisedOnHand DEF Submit, OnHand, Units, ReservationInv, HoldsFit
<1>2. /\ requests[r].status = "pendiente" /\ ~requests[r].deducted
      /\ requests[r] \in RequestRow /\ requests \in [Requests -> RequestRow]
  BY DEF Submit, Submittable, Lifecycle, DispatchedOnce, TypeOK
<1>3. /\ \A s \in Requests \ {r} : requests'[s] = requests[s]
      /\ ~requests'[r].deducted /\ UNCHANGED orders
  BY <1>2 DEF Submit, Submitted, RequestRow
<1>4. Served' = Served /\ r \notin Served
  BY <1>2, <1>3 DEF Served
<1>5. Promised \in [Requests -> Nat] /\ Promised' \in [Requests -> Nat] /\ Promised[r] = 0
  <2>1. ~FirmHold(r)
    BY <1>2 DEF FirmHold
  <2> QED BY <2>1, PromisedOnHand, PromisedOnHandAfter DEF Promised, ReservationInv, HoldsFit
<1>6. \A s \in Requests \ {r} : Promised'[s] = Promised[s]
  BY <1>3 DEF Promised, FirmHold, Live, Terminal, Units
<1>7. Promised' = [Promised EXCEPT ![r] = n]
  BY <1>5, <1>6
<1>8. Units(Promised', Requests) = Units(Promised, Requests) - Promised[r] + Promised'[r]
  BY <1>5, <1>6, RequestAssumption, SumChange DEF Units
<1>9. Units(Promised', Requests) <= OnHand
  BY <1>1, PromisedOnHandAfter DEF ReservationInv, HoldsFit, Units
<1>10. Units(Promised, Requests) \in Nat /\ n \in Nat
  BY <1>5, RequestAssumption, SumNat DEF Units
<1> HIDE DEF n
<1>11. CASE n = 0
  <2>1. Promised' = Promised
    BY <1>5, <1>7, <1>11
  <2> QED BY <1>1, <1>4, <2>1
<1>12. CASE n > 0
  <2>1. n <= OnHand - Units(Promised, Requests) /\ n \in 1..OnHand
    BY <1>1, <1>5, <1>8, <1>9, <1>10, <1>12 DEF n
  <2>2. AbstractShelf!Promise(r, n)
    BY <1>1, <1>4, <1>5, <1>7, <2>1, SameSum DEF AbstractShelf!Promise, AbstractShelf!Total
  <2> QED BY <2>1, <2>2 DEF AbstractShelf!Next
<1> QED BY <1>10, <1>11, <1>12

\* Dispatching serves the ODT once, with all it was promised.
LEMMA DispatchShelf ==
  ASSUME TypeOK, TypeOK', Lifecycle, CounterInv, CounterInv', ReservationInv, ReservationInv',
         NEW r \in Requests, Dispatch(r)
  PROVE  AbstractShelf!Next \/ UNCHANGED <<OnHand, Promised, Served>>
<1> DEFINE q == requests[r].qty
           take == Pick(FreeIn(Shop, {r}), None, q)
<1>1. /\ requests[r].status = "pedido" /\ ~requests[r].deducted
      /\ requests[r] \in RequestRow /\ requests \in [Requests -> RequestRow] /\ q \in Nat
  BY DEF Dispatch, Lifecycle, DispatchedOnce, TypeOK, RequestRow
<1>2. FirmHold(r)
  BY <1>1 DEF Dispatch, FirmHold, Live
<1>3. /\ \A s \in Requests \ {r} : requests'[s] = requests[s]
      /\ requests'[r].deducted /\ requests'[r].status = "completado" /\ UNCHANGED orders
  BY <1>1 DEF Dispatch, RequestRow
<1>4. Served' = Served \union {r} /\ r \notin Served
  BY <1>1, <1>3 DEF Served
<1>5. Promised \in [Requests -> Nat] /\ Promised' \in [Requests -> Nat] /\ Promised'[r] = 0
  <2>1. ~FirmHold(r)'
    BY <1>3 DEF FirmHold
  <2> QED BY <2>1, PromisedOnHand, PromisedOnHandAfter DEF Promised, ReservationInv, HoldsFit
<1>6. \A s \in Requests \ {r} : Promised'[s] = Promised[s]
  BY <1>3 DEF Promised, FirmHold, Live, Terminal, Units
<1>7. Promised' = [Promised EXCEPT ![r] = 0]
  BY <1>5, <1>6
<1>8. OnHand' = OnHand - q /\ OnHand \in Nat /\ OnHand' \in Nat
  <2>1. /\ take \in [LotIds -> Nat] /\ \A l \in LotIds : take[l] <= lots[l].remaining
    BY <1>1, ShopAssumption, TakeFrom
  <2>2. lots' = Consume(take) /\ Units(take, LotIds) = q
    BY DEF Dispatch, Dispatchable
  <2> HIDE DEF take, q
  <2>3. Units(Remaining', LotIds) = Units(Remaining, LotIds) - q
    BY <2>1, <2>2, ConsumeTotal
  <2> QED BY <2>3, PromisedOnHand, PromisedOnHandAfter
          DEF OnHand, Remaining, ReservationInv, HoldsFit
<1>9. Promised[r] <= q
  <2>1. Units(requests[r].alloc, LotIds) + requests[r].shortfall = q
    BY <1>2 DEF ReservationInv, HoldInv, Accounts
  <2>2. Promised[r] = Units(requests[r].alloc, LotIds)
    BY <1>2 DEF Promised
  <2>3. requests[r].shortfall \in Nat /\ Promised[r] \in Nat
    BY <1>1, <1>5 DEF RequestRow
  <2> HIDE DEF q
  <2> QED BY <1>1, <2>1, <2>2, <2>3
<1>10. OnHand' >= Units(Promised, Requests \ {r})
  <2>1. IsFiniteSet(Requests \ {r})
    BY RequestAssumption, FS_RemoveElement
  <2>2. Units(Promised', Requests) = Promised'[r] + Units(Promised', Requests \ {r})
    BY <1>5, RequestAssumption, SumRemove DEF Units
  <2>3. Units(Promised', Requests \ {r}) = Units(Promised, Requests \ {r})
    BY <1>6, <2>1, SumEqual DEF Units
  <2>4. Units(Promised, Requests \ {r}) \in Nat
    BY <1>5, <2>1, SumNat DEF Units
  <2>5. Units(Promised', Requests) <= OnHand'
    BY PromisedOnHandAfter DEF ReservationInv, HoldsFit, Units
  <2> QED BY <1>5, <1>8, <2>2, <2>3, <2>4, <2>5
<1>11. OnHand' <= OnHand - Promised[r]
  <2>1. Promised[r] \in Nat
    BY <1>5
  <2> HIDE DEF q
  <2> QED BY <1>1, <1>8, <1>9, <2>1
<1>12. AbstractShelf!Serve(r)
  BY <1>4, <1>7, <1>10, <1>11, SameSum DEF AbstractShelf!Serve, AbstractShelf!Total
<1> QED BY <1>12 DEF AbstractShelf!Next

\* Receiving a transfer is nothing to the abstract shelf.
LEMMA ReceiptShelf ==
  ASSUME TypeOK, TypeOK', Lifecycle, CounterInv, CounterInv', ReservationInv, ReservationInv',
         NEW r \in Requests, NEW w \in Warehouses, ReceiveLinked(r, w)
  PROVE  AbstractShelf!Next
<1>1. OnHand' = OnHand
  BY DEF ReceiveLinked, CounterInv, StockMatchesLots, OnHand, Units
<1>2. /\ requests \in [Requests -> RequestRow] /\ requests[r] \in RequestRow
      /\ \A s \in Requests \ {r} : requests'[s] = requests[s]
      /\ requests'[r].qty = requests[r].qty /\ requests'[r].shortfall = requests[r].shortfall
      /\ requests'[r].status = requests[r].status
      /\ requests'[r].deducted = requests[r].deducted
      /\ requests'[r].closed = requests[r].closed /\ UNCHANGED orders
  BY DEF TypeOK, RequestRow, ReceiveLinked
<1>3. Served' = Served
  BY <1>2 DEF Served
<1>4. \A s \in Requests : FirmHold(s)' = FirmHold(s)
  BY <1>2 DEF FirmHold, Live, Terminal
<1>5. HoldWeighed(r)
  <2> SUFFICES ASSUME FirmHold(r)'
               PROVE  Units(requests'[r].alloc, LotIds) = Units(requests[r].alloc, LotIds)
    BY <1>4 DEF HoldWeighed
  <2> DEFINE a == Units(requests'[r].alloc, LotIds)
             b == Units(requests[r].alloc, LotIds)
  <2>1. b + requests[r].shortfall = requests[r].qty
    BY <1>4 DEF ReservationInv, HoldInv, Accounts
  <2>2. a + requests'[r].shortfall = requests'[r].qty
    BY DEF ReservationInv, HoldInv, Accounts, Units
  <2>3. a \in Nat /\ b \in Nat /\ requests[r].shortfall \in Nat
    BY UnitsType DEF TypeOK, RequestRow
  <2> HIDE DEF a, b
  <2>4. a = b
    BY <1>2, <2>1, <2>2, <2>3
  <2> QED BY <2>4 DEF a, b
<1>6. \A s \in Requests : HoldWeighed(s)
  BY <1>2, <1>4, <1>5 DEF HoldWeighed
<1> QED BY <1>1, <1>3, <1>6, ReleaseStep

\* Every step of the filial is one step of the abstract shelf, or none.
LEMMA ShelfStep ==
  ASSUME TypeOK, TypeOK', Lifecycle, CounterInv, CounterInv',
         ReservationInv, ReservationInv', [Next]_vars, MaxReopens = 0
  PROVE  AbstractShelf!Next \/ UNCHANGED <<OnHand, Promised, Served>>
<1>1. CASE UNCHANGED vars
  BY <1>1 DEF vars, OnHand, Promised, Served, FirmHold, Live, Terminal,
              Units
<1>2. ASSUME UNCHANGED lots, Served' = Served, \A s \in Requests : HoldKept(s)
      PROVE  AbstractShelf!Next
  BY <1>2, KeptWeighs, ReleaseStep DEF OnHand, Units
<1>3. ASSUME NEW r \in Requests, LineStep(r)
      PROVE  AbstractShelf!Next
  <2>1. UNCHANGED lots
    BY <1>3 DEF LineStep, AddLine, ReadLine, ResizeLine, RemoveLine, AbandonEdit, CommitLine,
                HoldExpires
  <2>2. \A s \in Requests : requests'[s].deducted = requests[s].deducted
    <3>1. requests \in [Requests -> RequestRow]
      BY DEF TypeOK
    <3>2. CASE RemoveLine(r)
      BY <3>1, <3>2 DEF RemoveLine, RequestRow
    <3>3. CASE CommitLine(r)
      BY <3>1, <3>3 DEF CommitLine, Edited, RequestRow
    <3>4. CASE HoldExpires(r)
      BY <3>1, <3>4 DEF HoldExpires, RequestRow
    <3>5. CASE UNCHANGED requests
      BY <3>5
    <3> QED BY <1>3, <3>2, <3>3, <3>4, <3>5
            DEF LineStep, AddLine, ReadLine, ResizeLine, AbandonEdit
  <2> QED BY <1>2, <1>3, <2>1, <2>2, LineStepHolds DEF ReservationInv, Served
<1>4. ASSUME NEW r \in Requests, RequestStep(r)
      PROVE  AbstractShelf!Next \/ UNCHANGED <<OnHand, Promised, Served>>
  <2>1. CASE DeleteRequest(r) \/ \E w \in Warehouses : StartLinked(r, w)
    <3>1. UNCHANGED lots
      BY <2>1 DEF DeleteRequest, StartLinked
    <3>2. \A s \in Requests : requests'[s].deducted <=> requests[s].deducted
      <4>1. requests \in [Requests -> RequestRow]
        BY DEF TypeOK
      <4>2. CASE DeleteRequest(r)
        BY <4>1, <4>2 DEF DeleteRequest, NoRequest, RequestRow
      <4>3. CASE \E w \in Warehouses : StartLinked(r, w)
        BY <4>3 DEF StartLinked
      <4> QED BY <2>1, <4>2, <4>3
    <3> QED BY <1>2, <2>1, <3>1, <3>2, QuietRequestSteps DEF Served
  <2> QED BY <1>4, <2>1, SubmitShelf, DispatchShelf, ReceiptShelf DEF RequestStep
<1>5. ASSUME NEW o \in Orders, OrderStep(o)
      PROVE  AbstractShelf!Next
  <2>1. UNCHANGED lots
    BY <1>5 DEF OrderStep, Invoice, Close, Cancel, Reopen
  <2>2. \A s \in Requests : requests'[s].deducted = requests[s].deducted
    BY <1>5 DEF TypeOK, RequestRow, OrderStep, Invoice, Close, ClosedRow, Cancel, Reopen
  <2> QED BY <1>2, <1>5, <2>1, <2>2, OrderStepHolds DEF Served
<1>6. CASE Next
  BY <1>3, <1>4, <1>5, <1>6, WarehouseStepShelf DEF Next
<1> QED BY <1>1, <1>6

\* The abstract shelf is what the code offers, when nothing reopens a cancelled
\* order and no edit straddles a submission: units come in, leave once, and a
\* promised unit leaves with the ODT it was promised to or is released.
THEOREM ShelfImplemented ==
  ASSUME ~EditsOverlapSubmit, MaxReopens = 0
  PROVE  Spec => ShelfPromise
<1>1. Init /\ CounterInv => AbstractShelf!Init
  <2> SUFFICES ASSUME Init, CounterInv PROVE AbstractShelf!Init
    OBVIOUS
  <2>1. OnHand = 0
    BY DEF Init, CounterInv, StockMatchesLots, OnHand
  <2>2. Promised = [r \in Requests |-> 0] /\ Served = {}
    BY DEF Init, Promised, Served, NoRequest, FirmHold
  <2> QED BY <2>1, <2>2 DEF AbstractShelf!Init
<1>2. TypeOK /\ TypeOK' /\ Lifecycle /\ CounterInv /\ CounterInv'
      /\ ReservationInv /\ ReservationInv' /\ [Next]_vars
        => [AbstractShelf!Next]_(AbstractShelf!shelfVars)
  BY ShelfStep DEF AbstractShelf!shelfVars
<1> QED BY <1>1, <1>2, TypeCorrect, LifecycleInvariant, CounterCorrect, HoldsHonoured, PTL
        DEF Spec, ShelfPromise, AbstractShelf!Spec
=============================================================================
