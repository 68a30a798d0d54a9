-------------------------------- MODULE Sums --------------------------------
(***************************************************************************)
(* Facts about sums over finite sets (SumFunctionOnSet of the community     *)
(* module Functions), for any set and any values.  The modules of this     *)
(* project add up lots, requests, debts and payments with it.              *)
(***************************************************************************)
EXTENDS Integers, Functions, FiniteSetTheorems, TLAPS

-----------------------------------------------------------------------------
(* Places of a list *)

\* A list, and what comes before one of its places, has finitely many places.
LEMMA PlacesFinite ==
  ASSUME NEW n \in Int
  PROVE  IsFiniteSet(1..n)
<1>1. 1 \in Int
  OBVIOUS
<1> QED BY <1>1, FS_Interval

-----------------------------------------------------------------------------
(* Induction over a finite set, with the property as a set of subsets.     *)

\* A nonempty family of subsets of a finite set has a minimal member.
LEMMA MinimalSubset ==
  ASSUME NEW U, IsFiniteSet(U), NEW Bad \in SUBSET SUBSET U, Bad # {}
  PROVE  \E S \in Bad : \A T \in Bad : T \subseteq S => T = S
<1>1. Bad \subseteq FiniteSubsetsOf(U)
  BY FS_FiniteSubsetsOfFinite
<1>2. \E S \in Bad : \A T \in Bad : ~(<<T, S>> \in StrictSubsetOrdering(U))
  BY <1>1, FS_StrictSubsetOrderingWellFounded, WFMin
<1> QED BY <1>2 DEF StrictSubsetOrdering

\* A family that holds the empty set and grows one element at a time holds
\* every subset.
LEMMA SetInduction ==
  ASSUME NEW U, IsFiniteSet(U), NEW Good, {} \in Good,
         \A S \in SUBSET U, x \in U : S \in Good /\ x \notin S => S \cup {x} \in Good
  PROVE  \A S \in SUBSET U : S \in Good
<1> DEFINE Bad == (SUBSET U) \ Good
<1> SUFFICES ASSUME Bad # {} PROVE FALSE
  OBVIOUS
<1>1. PICK S \in Bad : \A T \in Bad : T \subseteq S => T = S
  <2>1. Bad \in SUBSET SUBSET U
    OBVIOUS
  <2> HIDE DEF Bad
  <2> QED BY <2>1, MinimalSubset
<1>2. S # {} /\ S \subseteq U
  OBVIOUS
<1>3. PICK x \in S : TRUE
  BY <1>2
<1>4. S \ {x} \in Good
  BY <1>1, <1>2, <1>3
<1>5. S = (S \ {x}) \cup {x} /\ x \in U
  BY <1>2, <1>3
<1> QED BY <1>2, <1>4, <1>5

\* Of some natural numbers, one is the least.
LEMMA LeastNumber ==
  ASSUME NEW S \in SUBSET Nat, S # {}
  PROVE  \E n \in S : \A m \in S : n <= m
<1>1. PICK n \in S : \A m \in S : ~(<<m, n>> \in OpToRel(<, Nat))
  BY NatLessThanWellFounded, WFMin, Zenon
<1>2. ASSUME NEW m \in S
      PROVE  ~(m < n)
  <2>1. m \in Nat /\ n \in Nat
    OBVIOUS
  <2>2. m < n => <<m, n>> \in {r \in Nat \X Nat : r[1] < r[2]}
    BY <2>1
  <2>3. OpToRel(<, Nat) = {r \in Nat \X Nat : r[1] < r[2]}
    BY Zenon DEF OpToRel
  <2> QED BY <1>1, <2>2, <2>3
<1>3. S \subseteq Int
  OBVIOUS
<1> QED BY <1>2, <1>3

\* Of some of the first numbers, one is the largest.
LEMMA LargestNumber ==
  ASSUME NEW N \in Nat, NEW S \in SUBSET (0..N), S # {}
  PROVE  \E n \in S : \A m \in S : n >= m
<1> DEFINE D == {N - n : n \in S}
<1>1. D \in SUBSET Nat /\ D # {}
  <2>1. \A n \in S : N - n \in Nat
    OBVIOUS
  <2>2. D \in SUBSET Nat
    BY <2>1
  <2>3. D # {}
    BY <2>1
  <2> QED BY <2>2, <2>3
<1> HIDE DEF D
<1>2. PICK d \in D : \A e \in D : d <= e
  BY <1>1, LeastNumber
<1>3. PICK n \in S : d = N - n
  BY DEF D
<1>4. \A m \in S : N - m \in D
  BY DEF D
<1>5. \A m \in S : n >= m
  BY <1>2, <1>3, <1>4
<1> QED BY <1>5

-----------------------------------------------------------------------------
(* The recursion behind a sum, and why it has a solution.                  *)

\* The element a sum takes out of s first.
First(s) == CHOOSE x \in s : TRUE
\* One unfolding of the sum of f, when h gives the smaller sums.
Unfolded(f, h, s) == IF s = {} THEN 0 ELSE f[First(s)] + h[s \ {First(s)}]
\* h is the table of the sums of f over the subsets of U.
Table(f, h, U) == h = [s \in SUBSET U |-> Unfolded(f, h, s)]

\* The definition of the library, with its operators expanded.
LEMMA SumUnfold ==
  ASSUME NEW f, NEW U
  PROVE  SumFunctionOnSet(f, U) = (CHOOSE h : Table(f, h, U))[U]
BY DEF SumFunctionOnSet, FoldFunctionOnSet, MapThenFoldSet, Table, Unfolded, First

\* Every finite set has its table.
LEMMA TableExists ==
  ASSUME NEW f, NEW U, IsFiniteSet(U)
  PROVE  \E h : Table(f, h, U)
<1> DEFINE Solves(h, n) == /\ h = [s \in SUBSET U |-> h[s]]
                           /\ \A s \in SUBSET U :
                                Cardinality(s) <= n => h[s] = Unfolded(f, h, s)
           Good == {T \in SUBSET U : \E h : Solves(h, Cardinality(T))}
<1>1. {} \in Good
  <2>1. Solves([s \in SUBSET U |-> 0], Cardinality({}))
    <3>1. ASSUME NEW s \in SUBSET U, Cardinality(s) <= 0
          PROVE  s = {}
      BY <3>1, FS_Subset, FS_EmptySet, FS_CardinalityType
    <3> QED BY <3>1, FS_EmptySet DEF Unfolded
  <2> QED BY <2>1
<1>2. ASSUME NEW S \in SUBSET U, NEW x \in U, S \in Good, x \notin S
      PROVE  S \cup {x} \in Good
  <2>1. PICK h : Solves(h, Cardinality(S))
    BY <1>2
  <2>2. Cardinality(S) \in Nat /\ Cardinality(S \cup {x}) = Cardinality(S) + 1
    BY <1>2, FS_Subset, FS_AddElement, FS_CardinalityType
  <2> DEFINE k == [s \in SUBSET U |-> Unfolded(f, h, s)]
  <2>3. ASSUME NEW s \in SUBSET U, Cardinality(s) <= Cardinality(S) + 1
        PROVE  k[s] = Unfolded(f, k, s)
    <3>1. CASE s = {}
      BY <3>1 DEF Unfolded
    <3>2. CASE s # {}
      <4> DEFINE c == First(s)
                 t == s \ {c}
      <4>1. c \in s /\ t \in SUBSET U
        BY <3>2 DEF First
      <4>2. Cardinality(t) <= Cardinality(S)
        <5>1. IsFiniteSet(s) /\ Cardinality(s) \in Nat
          BY FS_Subset, FS_CardinalityType
        <5>2. Cardinality(t) = Cardinality(s) - 1
          BY <4>1, <5>1, FS_RemoveElement
        <5> HIDE DEF t
        <5> QED BY <2>2, <2>3, <5>1, <5>2
      <4>3. h[t] = Unfolded(f, h, t)
        BY <2>1, <4>1, <4>2
      <4>4. k[t] = h[t]
        BY <4>1, <4>3
      <4> HIDE DEF k
      <4>5. k[s] = Unfolded(f, h, s)
        BY DEF k
      <4> QED BY <3>2, <4>4, <4>5 DEF Unfolded
    <3> QED BY <3>1, <3>2
  <2>4. Solves(k, Cardinality(S \cup {x}))
    <3>1. k = [s \in SUBSET U |-> k[s]]
      OBVIOUS
    <3> HIDE DEF k
    <3> QED BY <2>2, <2>3, <3>1
  <2> HIDE DEF Solves, k
  <2> QED BY <2>4
<1>3. U \in Good
  <2> HIDE DEF Good
  <2> QED BY <1>1, <1>2, SetInduction
<1>4. PICK h : Solves(h, Cardinality(U))
  BY <1>3
<1>5. ASSUME NEW s \in SUBSET U
      PROVE  h[s] = Unfolded(f, h, s)
  BY <1>4, FS_Subset
<1>6. h = [s \in SUBSET U |-> Unfolded(f, h, s)]
  BY <1>4, <1>5
<1> QED BY <1>6 DEF Table

\* Two tables agree on the subsets they share.
LEMMA TableUnique ==
  ASSUME NEW f, NEW U, NEW V \in SUBSET U, IsFiniteSet(U),
         NEW g, NEW h, Table(f, g, U), Table(f, h, V)
  PROVE  g[V] = h[V]
<1> DEFINE Bad == {S \in SUBSET V : g[S] # h[S]}
<1>1. IsFiniteSet(V)
  BY FS_Subset
<1> SUFFICES ASSUME Bad # {} PROVE FALSE
  OBVIOUS
<1>2. PICK S \in Bad : \A T \in Bad : T \subseteq S => T = S
  <2>1. Bad \in SUBSET SUBSET V
    OBVIOUS
  <2> HIDE DEF Bad
  <2> QED BY <1>1, <2>1, MinimalSubset
<1>3. g[S] = Unfolded(f, g, S) /\ h[S] = Unfolded(f, h, S)
  BY DEF Table
<1>4. S # {}
  BY <1>3 DEF Unfolded
<1>5. First(S) \in S
  BY <1>4 DEF First
<1>6. g[S \ {First(S)}] = h[S \ {First(S)}]
  BY <1>2, <1>5
<1> QED BY <1>3, <1>6 DEF Unfolded

\* The sum over nothing is zero.
LEMMA SumEmpty ==
  ASSUME NEW f
  PROVE  SumFunctionOnSet(f, {}) = 0
<1>1. Table(f, CHOOSE h : Table(f, h, {}), {})
  BY TableExists, FS_EmptySet
<1> QED BY <1>1, SumUnfold DEF Table, Unfolded

\* The sum over a nonempty set is its first element's value and the rest.
LEMMA SumFirst ==
  ASSUME NEW f, NEW S, IsFiniteSet(S), S # {}
  PROVE  SumFunctionOnSet(f, S) = f[First(S)] + SumFunctionOnSet(f, S \ {First(S)})
<1> DEFINE c == First(S)
           g == CHOOSE h : Table(f, h, S)
           k == CHOOSE h : Table(f, h, S \ {c})
<1>1. c \in S /\ IsFiniteSet(S \ {c})
  BY FS_RemoveElement DEF First
<1>2. Table(f, g, S) /\ Table(f, k, S \ {c})
  BY <1>1, TableExists
<1>3. SumFunctionOnSet(f, S) = g[S] /\ SumFunctionOnSet(f, S \ {c}) = k[S \ {c}]
  BY SumUnfold
<1> HIDE DEF g, k
<1>4. g[S \ {c}] = k[S \ {c}]
  BY <1>2, TableUnique
<1>5. g[S] = f[c] + g[S \ {c}]
  BY <1>2 DEF Table, Unfolded
<1> QED BY <1>3, <1>4, <1>5

-----------------------------------------------------------------------------
(* Sums of whole numbers.                                                  *)

\* Where two functions agree so do their sums.
LEMMA SumEqual ==
  ASSUME NEW f, NEW g, NEW S, IsFiniteSet(S), \A x \in S : f[x] = g[x]
  PROVE  SumFunctionOnSet(f, S) = SumFunctionOnSet(g, S)
<1> DEFINE Bad == {T \in SUBSET S : SumFunctionOnSet(f, T) # SumFunctionOnSet(g, T)}
<1> SUFFICES ASSUME Bad # {} PROVE FALSE
  OBVIOUS
<1>1. PICK T \in Bad : \A V \in Bad : V \subseteq T => V = T
  <2>1. Bad \in SUBSET SUBSET S
    OBVIOUS
  <2> HIDE DEF Bad
  <2> QED BY <2>1, MinimalSubset
<1>2. T # {}
  BY SumEmpty
<1>3. First(T) \in T /\ IsFiniteSet(T)
  BY <1>2, FS_Subset DEF First
<1>4. SumFunctionOnSet(f, T \ {First(T)}) = SumFunctionOnSet(g, T \ {First(T)})
  BY <1>1, <1>3
<1> QED BY <1>2, <1>3, <1>4, SumFirst

\* A sum of whole numbers is one.
LEMMA SumInt ==
  ASSUME NEW f, NEW S, IsFiniteSet(S), \A x \in S : f[x] \in Int
  PROVE  SumFunctionOnSet(f, S) \in Int
<1> DEFINE Bad == {T \in SUBSET S : SumFunctionOnSet(f, T) \notin Int}
<1> SUFFICES ASSUME Bad # {} PROVE FALSE
  OBVIOUS
<1>1. PICK T \in Bad : \A V \in Bad : V \subseteq T => V = T
  <2>1. Bad \in SUBSET SUBSET S
    OBVIOUS
  <2> HIDE DEF Bad
  <2> QED BY <2>1, MinimalSubset
<1>2. T # {}
  BY SumEmpty
<1>3. First(T) \in T /\ IsFiniteSet(T)
  BY <1>2, FS_Subset DEF First
<1>4. SumFunctionOnSet(f, T \ {First(T)}) \in Int /\ f[First(T)] \in Int
  BY <1>1, <1>3
<1>5. SumFunctionOnSet(f, T) = f[First(T)] + SumFunctionOnSet(f, T \ {First(T)})
  BY <1>2, <1>3, SumFirst
<1> QED BY <1>4, <1>5

\* Any element may be taken out first.
LEMMA SumRemove ==
  ASSUME NEW f, NEW S, IsFiniteSet(S), \A x \in S : f[x] \in Int, NEW x \in S
  PROVE  SumFunctionOnSet(f, S) = f[x] + SumFunctionOnSet(f, S \ {x})
<1> DEFINE Bad == {T \in SUBSET S :
             \E y \in T : SumFunctionOnSet(f, T) # f[y] + SumFunctionOnSet(f, T \ {y})}
<1> SUFFICES ASSUME Bad # {} PROVE FALSE
  OBVIOUS
<1>1. PICK T \in Bad : \A V \in Bad : V \subseteq T => V = T
  <2>1. Bad \in SUBSET SUBSET S
    OBVIOUS
  <2> HIDE DEF Bad
  <2> QED BY <2>1, MinimalSubset
<1>2. PICK y \in T : SumFunctionOnSet(f, T) # f[y] + SumFunctionOnSet(f, T \ {y})
  OBVIOUS
<1> DEFINE c == First(T)
<1>3. c \in T /\ T \in SUBSET S
  BY <1>2 DEF First
<1>4. SumFunctionOnSet(f, T) = f[c] + SumFunctionOnSet(f, T \ {c})
  BY <1>2, <1>3, FS_Subset, SumFirst
<1> HIDE DEF c
<1>5. c # y
  BY <1>2, <1>4
<1>6. SumFunctionOnSet(f, T \ {c}) = f[y] + SumFunctionOnSet(f, (T \ {c}) \ {y})
  <2>1. T \ {c} \in SUBSET S /\ T \ {c} \notin Bad /\ y \in T \ {c}
    BY <1>1, <1>2, <1>3, <1>5
  <2> QED BY <2>1
<1>7. SumFunctionOnSet(f, T \ {y}) = f[c] + SumFunctionOnSet(f, (T \ {y}) \ {c})
  <2>1. T \ {y} \in SUBSET S /\ T \ {y} \notin Bad /\ c \in T \ {y}
    BY <1>1, <1>2, <1>3, <1>5
  <2> QED BY <2>1
<1>8. (T \ {c}) \ {y} = (T \ {y}) \ {c}
  OBVIOUS
<1>9. SumFunctionOnSet(f, (T \ {c}) \ {y}) \in Int
  <2>1. (T \ {c}) \ {y} \in SUBSET S
    BY <1>3
  <2>2. IsFiniteSet((T \ {c}) \ {y})
    BY <2>1, FS_Subset
  <2>3. \A z \in (T \ {c}) \ {y} : f[z] \in Int
    BY <2>1
  <2> QED BY <2>2, <2>3, SumInt
<1>10. f[c] \in Int /\ f[y] \in Int
  BY <1>2, <1>3
<1> DEFINE rest == SumFunctionOnSet(f, (T \ {c}) \ {y})
           fc   == f[c]
           fy   == f[y]
<1>11. /\ SumFunctionOnSet(f, T) = fc + (fy + rest)
       /\ SumFunctionOnSet(f, T) # fy + (fc + rest)
  BY <1>2, <1>4, <1>6, <1>7, <1>8
<1> HIDE DEF rest, fc, fy, Bad
<1>12. fc + (fy + rest) = fy + (fc + rest)
  BY <1>9, <1>10 DEF rest, fc, fy
<1> QED BY <1>11, <1>12

\* One element more is one value more.
LEMMA SumAdd ==
  ASSUME NEW f, NEW S, IsFiniteSet(S), NEW x, x \notin S,
         \A y \in S \cup {x} : f[y] \in Int
  PROVE  SumFunctionOnSet(f, S \cup {x}) = f[x] + SumFunctionOnSet(f, S)
<1>1. IsFiniteSet(S \cup {x}) /\ x \in S \cup {x} /\ (S \cup {x}) \ {x} = S
  BY FS_AddElement
<1> QED BY <1>1, SumRemove

\* A sum is linear in what it adds up.
LEMMA SumPlus ==
  ASSUME NEW S, IsFiniteSet(S), NEW f, NEW g, NEW h,
         \A x \in S : f[x] \in Int /\ g[x] \in Int /\ h[x] = f[x] + g[x]
  PROVE  SumFunctionOnSet(h, S) = SumFunctionOnSet(f, S) + SumFunctionOnSet(g, S)
<1> DEFINE Good == {T \in SUBSET S : SumFunctionOnSet(h, T)
                      = SumFunctionOnSet(f, T) + SumFunctionOnSet(g, T)}
<1>1. {} \in Good
  BY SumEmpty
<1>2. ASSUME NEW T \in SUBSET S, NEW x \in S, T \in Good, x \notin T
      PROVE  T \cup {x} \in Good
  <2>1. IsFiniteSet(T)
    BY FS_Subset
  <2>2. SumFunctionOnSet(h, T \cup {x}) = h[x] + SumFunctionOnSet(h, T)
    <3>1. \A y \in T \cup {x} : h[y] \in Int
      OBVIOUS
    <3> QED BY <1>2, <2>1, <3>1, SumAdd
  <2>3. SumFunctionOnSet(f, T \cup {x}) = f[x] + SumFunctionOnSet(f, T)
    BY <1>2, <2>1, SumAdd
  <2>4. SumFunctionOnSet(g, T \cup {x}) = g[x] + SumFunctionOnSet(g, T)
    BY <1>2, <2>1, SumAdd
  <2>5. SumFunctionOnSet(f, T) \in Int /\ SumFunctionOnSet(g, T) \in Int
    BY <2>1, SumInt
  <2> QED BY <1>2, <2>2, <2>3, <2>4, <2>5
<1>3. S \in Good
  <2> HIDE DEF Good
  <2> QED BY <1>1, <1>2, SetInduction
<1> QED BY <1>3

\* A sum of larger values is larger.
LEMMA SumMono ==
  ASSUME NEW S, IsFiniteSet(S), NEW f, NEW g,
         \A x \in S : f[x] \in Int /\ g[x] \in Int /\ f[x] <= g[x]
  PROVE  SumFunctionOnSet(f, S) <= SumFunctionOnSet(g, S)
<1> DEFINE Good == {T \in SUBSET S : SumFunctionOnSet(f, T) <= SumFunctionOnSet(g, T)}
<1>1. {} \in Good
  BY SumEmpty
<1>2. ASSUME NEW T \in SUBSET S, NEW x \in S, T \in Good, x \notin T
      PROVE  T \cup {x} \in Good
  <2>1. IsFiniteSet(T)
    BY FS_Subset
  <2>2. SumFunctionOnSet(f, T \cup {x}) = f[x] + SumFunctionOnSet(f, T)
    BY <1>2, <2>1, SumAdd
  <2>3. SumFunctionOnSet(g, T \cup {x}) = g[x] + SumFunctionOnSet(g, T)
    BY <1>2, <2>1, SumAdd
  <2>4. SumFunctionOnSet(f, T) \in Int /\ SumFunctionOnSet(g, T) \in Int
    BY <2>1, SumInt
  <2> QED BY <1>2, <2>2, <2>3, <2>4
<1>3. S \in Good
  <2> HIDE DEF Good
  <2> QED BY <1>1, <1>2, SetInduction
<1> QED BY <1>3

\* A sum of zeros is zero.
LEMMA SumZero ==
  ASSUME NEW S, IsFiniteSet(S), NEW f, \A x \in S : f[x] = 0
  PROVE  SumFunctionOnSet(f, S) = 0
<1> DEFINE sum == SumFunctionOnSet(f, S)
<1>1. sum \in Int
  BY SumInt
<1>2. sum = sum + sum
  BY SumPlus
<1> HIDE DEF sum
<1>3. sum = 0
  BY <1>1, <1>2
<1> QED BY <1>3 DEF sum

\* A sum of amounts is an amount.
LEMMA SumNat ==
  ASSUME NEW f, NEW S, IsFiniteSet(S), \A x \in S : f[x] \in Nat
  PROVE  SumFunctionOnSet(f, S) \in Nat
<1> DEFINE zero == [x \in S |-> 0]
<1>1. SumFunctionOnSet(zero, S) = 0
  BY SumZero
<1>2. SumFunctionOnSet(zero, S) <= SumFunctionOnSet(f, S)
  BY SumMono
<1>3. SumFunctionOnSet(f, S) \in Int
  BY SumInt
<1> HIDE DEF zero
<1> QED BY <1>1, <1>2, <1>3

\* The sum over a union of disjoint sets.
LEMMA SumDisjoint ==
  ASSUME NEW f, NEW S, NEW T, IsFiniteSet(S), IsFiniteSet(T), S \cap T = {},
         \A x \in S \cup T : f[x] \in Int
  PROVE  SumFunctionOnSet(f, S \cup T) = SumFunctionOnSet(f, S) + SumFunctionOnSet(f, T)
<1> DEFINE Good == {V \in SUBSET T :
             SumFunctionOnSet(f, S \cup V) = SumFunctionOnSet(f, S) + SumFunctionOnSet(f, V)}
<1>1. {} \in Good
  <2>1. S \cup {} = S /\ SumFunctionOnSet(f, S) \in Int
    BY SumInt
  <2> QED BY <2>1, SumEmpty
<1>2. ASSUME NEW V \in SUBSET T, NEW x \in T, V \in Good, x \notin V
      PROVE  V \cup {x} \in Good
  <2>1. IsFiniteSet(V) /\ IsFiniteSet(S \cup V)
    BY FS_Subset, FS_Union
  <2>2. x \notin S \cup V /\ S \cup (V \cup {x}) = (S \cup V) \cup {x}
    BY <1>2
  <2>3. SumFunctionOnSet(f, (S \cup V) \cup {x}) = f[x] + SumFunctionOnSet(f, S \cup V)
    BY <2>1, <2>2, SumAdd
  <2>4. SumFunctionOnSet(f, V \cup {x}) = f[x] + SumFunctionOnSet(f, V)
    BY <1>2, <2>1, SumAdd
  <2>5. SumFunctionOnSet(f, S) \in Int /\ SumFunctionOnSet(f, V) \in Int /\ f[x] \in Int
    BY <2>1, SumInt
  <2> DEFINE a == SumFunctionOnSet(f, S)
             v == SumFunctionOnSet(f, V)
  <2>6. SumFunctionOnSet(f, S \cup (V \cup {x})) = f[x] + (a + v)
    BY <1>2, <2>2, <2>3
  <2>7. f[x] + (a + v) = a + (f[x] + v)
    <3> HIDE DEF a, v
    <3> QED BY <2>5 DEF a, v
  <2> QED BY <2>4, <2>6, <2>7
<1>3. T \in Good
  <2> HIDE DEF Good
  <2> QED BY <1>1, <1>2, SetInduction
<1> QED BY <1>3

\* The sum over part of a set is the sum over all of it, zero elsewhere.
LEMMA SumPart ==
  ASSUME NEW f, NEW g, NEW S, NEW T \in SUBSET S, IsFiniteSet(S),
         \A x \in T : f[x] \in Int /\ g[x] = f[x], \A x \in S \ T : g[x] = 0
  PROVE  SumFunctionOnSet(g, S) = SumFunctionOnSet(f, T)
<1>1. IsFiniteSet(T) /\ IsFiniteSet(S \ T) /\ S = T \cup (S \ T) /\ T \cap (S \ T) = {}
  BY FS_Subset
<1>2. SumFunctionOnSet(g, S) = SumFunctionOnSet(g, T) + SumFunctionOnSet(g, S \ T)
  <2>1. \A x \in T \cup (S \ T) : g[x] \in Int
    OBVIOUS
  <2> QED BY <1>1, <2>1, SumDisjoint
<1>3. SumFunctionOnSet(g, S \ T) = 0
  BY <1>1, SumZero
<1>4. SumFunctionOnSet(g, T) = SumFunctionOnSet(f, T)
  BY <1>1, SumEqual
<1>5. SumFunctionOnSet(f, T) \in Int
  BY <1>1, SumInt
<1> QED BY <1>2, <1>3, <1>4, <1>5

\* A part of a set of amounts adds up to no more than all of it.
LEMMA SumSubset ==
  ASSUME NEW f, NEW S, NEW T \in SUBSET S, IsFiniteSet(S), \A x \in S : f[x] \in Nat
  PROVE  SumFunctionOnSet(f, T) <= SumFunctionOnSet(f, S)
<1>1. IsFiniteSet(T) /\ IsFiniteSet(S \ T) /\ S = T \cup (S \ T) /\ T \cap (S \ T) = {}
  BY FS_Subset
<1>2. SumFunctionOnSet(f, S) = SumFunctionOnSet(f, T) + SumFunctionOnSet(f, S \ T)
  BY <1>1, SumDisjoint
<1>3. SumFunctionOnSet(f, T) \in Nat /\ SumFunctionOnSet(f, S \ T) \in Nat
  BY <1>1, SumNat
<1> QED BY <1>2, <1>3

\* Changing one value changes the sum by as much.
LEMMA SumChange ==
  ASSUME NEW f, NEW g, NEW S, IsFiniteSet(S), NEW x \in S,
         \A y \in S : f[y] \in Int, g[x] \in Int, \A y \in S \ {x} : g[y] = f[y]
  PROVE  SumFunctionOnSet(g, S) = SumFunctionOnSet(f, S) - f[x] + g[x]
<1>1. IsFiniteSet(S \ {x})
  BY FS_RemoveElement
<1>2. SumFunctionOnSet(g, S \ {x}) = SumFunctionOnSet(f, S \ {x})
  BY <1>1, SumEqual
<1>3. SumFunctionOnSet(f, S) = f[x] + SumFunctionOnSet(f, S \ {x})
  BY SumRemove
<1>4. SumFunctionOnSet(g, S) = g[x] + SumFunctionOnSet(g, S \ {x})
  <2>1. \A y \in S : g[y] \in Int
    OBVIOUS
  <2> QED BY <2>1, SumRemove
<1>5. SumFunctionOnSet(f, S \ {x}) \in Int
  BY <1>1, SumInt
<1> QED BY <1>2, <1>3, <1>4, <1>5

\* Renaming the elements one to one does not change the sum.
LEMMA SumRename ==
  ASSUME NEW S, IsFiniteSet(S), NEW T, NEW b \in [S -> T],
         \A x \in S, y \in S : b[x] = b[y] => x = y,
         \A z \in T : \E x \in S : b[x] = z,
         NEW f, NEW g, \A x \in S : g[x] \in Int /\ f[b[x]] = g[x]
  PROVE  SumFunctionOnSet(f, T) = SumFunctionOnSet(g, S)
<1> DEFINE Image(V) == {b[x] : x \in V}
           Good == {V \in SUBSET S : /\ IsFiniteSet(Image(V))
                                     /\ SumFunctionOnSet(f, Image(V)) = SumFunctionOnSet(g, V)}
<1>1. {} \in Good
  <2>1. Image({}) = {}
    OBVIOUS
  <2> HIDE DEF Image
  <2> QED BY <2>1, SumEmpty, FS_EmptySet
<1>2. ASSUME NEW V \in SUBSET S, NEW x \in S, V \in Good, x \notin V
      PROVE  V \cup {x} \in Good
  <2>1. Image(V \cup {x}) = Image(V) \cup {b[x]} /\ b[x] \notin Image(V)
    BY <1>2
  <2>2. \A z \in Image(V) \cup {b[x]} : f[z] \in Int
    OBVIOUS
  <2>3. IsFiniteSet(V) /\ IsFiniteSet(Image(V))
    BY <1>2, FS_Subset
  <2> HIDE DEF Image
  <2> DEFINE im == Image(V)
             z  == b[x]
  <2> HIDE DEF im, z
  <2>4. IsFiniteSet(im \cup {z})
    BY <2>3, FS_AddElement DEF im
  <2>5. SumFunctionOnSet(f, im \cup {z}) = f[z] + SumFunctionOnSet(f, im)
    BY <2>1, <2>2, <2>3, SumAdd DEF im, z
  <2>6. SumFunctionOnSet(g, V \cup {x}) = g[x] + SumFunctionOnSet(g, V)
    BY <1>2, <2>3, SumAdd
  <2> QED BY <1>2, <2>1, <2>4, <2>5, <2>6 DEF im, z
<1>3. S \in Good
  <2> HIDE DEF Good
  <2> QED BY <1>1, <1>2, SetInduction
<1>4. Image(S) = T
  OBVIOUS
<1> QED BY <1>3, <1>4

\* A table of values adds up the same by rows and by columns.
LEMMA SumSwap ==
  ASSUME NEW R, NEW C, IsFiniteSet(R), IsFiniteSet(C), NEW t,
         \A r \in R, c \in C : t[r][c] \in Int
  PROVE  SumFunctionOnSet([r \in R |-> SumFunctionOnSet(t[r], C)], R)
           = SumFunctionOnSet([c \in C |-> SumFunctionOnSet([r \in R |-> t[r][c]], R)], C)
<1> DEFINE Row == [r \in R |-> SumFunctionOnSet(t[r], C)]
           Col(S) == [c \in C |-> SumFunctionOnSet([r \in R |-> t[r][c]], S)]
           Good == {S \in SUBSET R : SumFunctionOnSet(Row, S) = SumFunctionOnSet(Col(S), C)}
<1>1. {} \in Good
  <2>1. \A c \in C : Col({})[c] = 0
    BY SumEmpty
  <2> HIDE DEF Col
  <2>2. SumFunctionOnSet(Col({}), C) = 0
    BY <2>1, SumZero
  <2> QED BY <2>2, SumEmpty
<1>2. ASSUME NEW S \in SUBSET R, NEW x \in R, S \in Good, x \notin S
      PROVE  S \cup {x} \in Good
  <2>1. IsFiniteSet(S)
    BY FS_Subset
  <2>2. \A r \in R : Row[r] \in Int
    BY SumInt
  <2>3. SumFunctionOnSet(Row, S \cup {x}) = SumFunctionOnSet(t[x], C) + SumFunctionOnSet(Row, S)
    <3>1. Row[x] = SumFunctionOnSet(t[x], C)
      OBVIOUS
    <3> HIDE DEF Row
    <3> QED BY <1>2, <2>1, <2>2, <3>1, SumAdd
  <2>4. \A c \in C : /\ Col(S \cup {x})[c] = t[x][c] + Col(S)[c]
                     /\ Col(S)[c] \in Int
    <3> TAKE c \in C
    <3> DEFINE column == [r \in R |-> t[r][c]]
    <3>1. \A r \in R : column[r] \in Int
      OBVIOUS
    <3>2. column[x] = t[x][c]
      OBVIOUS
    <3>3. Col(S)[c] = SumFunctionOnSet(column, S)
          /\ Col(S \cup {x})[c] = SumFunctionOnSet(column, S \cup {x})
      OBVIOUS
    <3> HIDE DEF column, Col
    <3>4. SumFunctionOnSet(column, S \cup {x}) = column[x] + SumFunctionOnSet(column, S)
      BY <1>2, <2>1, <3>1, SumAdd
    <3>5. SumFunctionOnSet(column, S) \in Int
      BY <2>1, <3>1, SumInt
    <3> QED BY <3>2, <3>3, <3>4, <3>5
  <2>5. SumFunctionOnSet(Col(S \cup {x}), C)
          = SumFunctionOnSet(t[x], C) + SumFunctionOnSet(Col(S), C)
    <3> HIDE DEF Col
    <3> QED BY <2>4, SumPlus
  <2> HIDE DEF Row, Col
  <2> QED BY <1>2, <2>3, <2>5
<1>3. R \in Good
  <2> HIDE DEF Good
  <2> QED BY <1>1, <1>2, SetInduction
<1> QED BY <1>3

\* The sum over one element is its value.
LEMMA SumOne ==
  ASSUME NEW f, NEW x, f[x] \in Int
  PROVE  SumFunctionOnSet(f, {x}) = f[x]
<1>1. IsFiniteSet({}) /\ x \notin {} /\ {} \cup {x} = {x} /\ \A y \in {} \cup {x} : f[y] \in Int
  BY FS_EmptySet
<1>2. SumFunctionOnSet(f, {} \cup {x}) = f[x] + SumFunctionOnSet(f, {})
  BY <1>1, SumAdd
<1> QED BY <1>1, <1>2, SumEmpty

\* Sums over groups that have no element in common add up to the sum over all of them.
LEMMA SumGroups ==
  ASSUME NEW S, NEW K, IsFiniteSet(S), IsFiniteSet(K), NEW f, \A x \in S : f[x] \in Int,
         NEW In, \A k \in K : In[k] \in SUBSET S,
         \A x \in S, k \in K, j \in K : x \in In[k] /\ x \in In[j] => k = j
  PROVE  SumFunctionOnSet([k \in K |-> SumFunctionOnSet(f, In[k])], K)
           = SumFunctionOnSet(f, {x \in S : \E k \in K : x \in In[k]})
<1> DEFINE t == [k \in K |-> [x \in S |-> IF x \in In[k] THEN f[x] ELSE 0]]
           Parts == [k \in K |-> SumFunctionOnSet(f, In[k])]
           Rows == [k \in K |-> SumFunctionOnSet(t[k], S)]
           Col(x) == [k \in K |-> t[k][x]]
           Cols == [x \in S |-> SumFunctionOnSet(Col(x), K)]
           All == {x \in S : \E k \in K : x \in In[k]}
<1>1. \A k \in K, x \in S : t[k][x] = (IF x \in In[k] THEN f[x] ELSE 0) /\ t[k][x] \in Int
  OBVIOUS
<1>2. ASSUME NEW k \in K
      PROVE  Rows[k] = Parts[k]
  <2>1. SumFunctionOnSet(t[k], S) = SumFunctionOnSet(f, In[k])
    <3>1. In[k] \in SUBSET S /\ \A x \in In[k] : f[x] \in Int /\ t[k][x] = f[x]
      BY <1>1
    <3>2. \A x \in S \ In[k] : t[k][x] = 0
      BY <1>1
    <3> HIDE DEF t
    <3> QED BY <3>1, <3>2, SumPart
  <2> QED BY <2>1
<1>3. ASSUME NEW x \in S
      PROVE  Cols[x] = IF x \in All THEN f[x] ELSE 0
  <2>1. \A k \in K : Col(x)[k] = IF x \in In[k] THEN f[x] ELSE 0
    BY <1>1
  <2>2. CASE x \in All
    <3>1. PICK k \in K : x \in In[k]
      BY <2>2
    <3>2. \A j \in K \ {k} : Col(x)[j] = 0
      BY <2>1, <3>1
    <3>3. Col(x)[k] = f[x] /\ f[x] \in Int
      BY <2>1, <3>1
    <3> HIDE DEF Col
    <3>4. {k} \in SUBSET K /\ \A j \in {k} : Col(x)[j] \in Int /\ Col(x)[j] = Col(x)[j]
      BY <3>3
    <3>5. SumFunctionOnSet(Col(x), K) = SumFunctionOnSet(Col(x), {k})
      BY <3>2, <3>4, SumPart
    <3>6. SumFunctionOnSet(Col(x), {k}) = Col(x)[k]
      BY <3>3, SumOne
    <3> QED BY <2>2, <3>3, <3>5, <3>6
  <2>3. CASE x \notin All
    <3>1. \A k \in K : Col(x)[k] = 0
      BY <2>1, <2>3
    <3> HIDE DEF Col
    <3>2. SumFunctionOnSet(Col(x), K) = 0
      BY <3>1, SumZero
    <3> QED BY <2>3, <3>2
  <2> QED BY <2>2, <2>3
<1>4. SumFunctionOnSet(Rows, K) = SumFunctionOnSet(Cols, S)
  <2>0. \A k \in K, x \in S : t[k][x] \in Int
    BY <1>1
  <2> HIDE DEF t
  <2>1. SumFunctionOnSet([k \in K |-> SumFunctionOnSet(t[k], S)], K)
          = SumFunctionOnSet([x \in S |-> SumFunctionOnSet([k \in K |-> t[k][x]], K)], S)
    BY <2>0, SumSwap, Zenon
  <2> QED BY <2>1
<1>5. SumFunctionOnSet(Rows, K) = SumFunctionOnSet(Parts, K)
  <2> HIDE DEF Rows, Parts
  <2> QED BY <1>2, SumEqual
<1>6. SumFunctionOnSet(Cols, S) = SumFunctionOnSet(f, All)
  <2>1. All \in SUBSET S /\ \A x \in All : f[x] \in Int /\ Cols[x] = f[x]
    BY <1>3
  <2>2. \A x \in S \ All : Cols[x] = 0
    BY <1>3
  <2> HIDE DEF Cols, All
  <2> QED BY <2>1, <2>2, SumPart
<1> QED BY <1>4, <1>5, <1>6

-----------------------------------------------------------------------------
(* Sums along a list.                                                      *)

\* From its place m on, the list h has the n whole numbers of g.
Along(g, h, m, n) == \A j \in 1..n : g[j] \in Int /\ h[m + j] = g[j]

\* The sum over a list and one that follows it.
LEMMA SumJoined ==
  ASSUME NEW m \in Nat, NEW n \in Nat, NEW f, NEW g, NEW h, Along(f, h, 0, m), Along(g, h, m, n)
  PROVE  SumFunctionOnSet(h, 1..(m + n)) = SumFunctionOnSet(f, 1..m) + SumFunctionOnSet(g, 1..n)
<1> DEFINE S == 1..m
           T == (m + 1)..(m + n)
           b == [j \in 1..n |-> m + j]
<1>0. /\ \A i \in 1..m : f[i] \in Int /\ h[i] = f[i]
      /\ \A j \in 1..n : g[j] \in Int /\ h[m + j] = g[j]
  BY DEF Along
<1>1. IsFiniteSet(S) /\ IsFiniteSet(T) /\ IsFiniteSet(1..n) /\ S \cap T = {} /\ S \cup T = 1..(m + n)
  <2>1. IsFiniteSet(S) /\ IsFiniteSet(1..n)
    BY FS_Interval
  <2>2. m + 1 \in Int /\ m + n \in Int
    OBVIOUS
  <2>3. IsFiniteSet(T)
    BY <2>2, FS_Interval
  <2>4. S \cap T = {} /\ S \cup T = 1..(m + n)
    OBVIOUS
  <2> QED BY <2>1, <2>3, <2>4
<1>2. b \in [1..n -> T] /\ (\A j \in 1..n : b[j] = m + j)
  OBVIOUS
<1>3. \A i, j \in 1..n : b[i] = b[j] => i = j
  OBVIOUS
<1>4. ASSUME NEW z \in T
      PROVE  \E j \in 1..n : b[j] = z
  <2>1. z - m \in 1..n /\ m + (z - m) = z
    OBVIOUS
  <2> HIDE DEF b, T
  <2> QED BY <1>2, <2>1
<1>5. \A z \in T : h[z] \in Int
  <2> SUFFICES ASSUME NEW z \in T PROVE h[z] \in Int
    OBVIOUS
  <2>1. PICK j \in 1..n : b[j] = z
    BY <1>4
  <2> QED BY <1>0, <1>2, <2>1
<1> HIDE DEF S, T, b
<1>6. SumFunctionOnSet(h, T) = SumFunctionOnSet(g, 1..n)
  <2> DEFINE I == 1..n
  <2>1. \A j \in I : g[j] \in Int /\ h[b[j]] = g[j]
    BY <1>0, <1>2
  <2>2. IsFiniteSet(I) /\ b \in [I -> T] /\ (\A i \in I, j \in I : b[i] = b[j] => i = j)
        /\ (\A z \in T : \E j \in I : b[j] = z)
    BY <1>1, <1>2, <1>3, <1>4
  <2> HIDE DEF I
  <2>3. SumFunctionOnSet(h, T) = SumFunctionOnSet(g, I)
    BY <2>1, <2>2, SumRename
  <2> QED BY <2>3 DEF I
<1>7. SumFunctionOnSet(h, S) = SumFunctionOnSet(f, S)
  BY <1>0, <1>1, SumEqual DEF S
<1>8. \A z \in S \cup T : h[z] \in Int
  BY <1>0, <1>5 DEF S
<1>9. SumFunctionOnSet(h, S \cup T) = SumFunctionOnSet(h, S) + SumFunctionOnSet(h, T)
  BY <1>1, <1>8, SumDisjoint
<1> QED BY <1>1, <1>6, <1>7, <1>9 DEF S

\* What a demand takes of what there is.
OutOf(have, want) == IF want < 0 THEN 0 ELSE IF have < want THEN have ELSE want

\* First in, first out: each place gives what those before it did not, and all of them together
\* give the demand, or all they have.
LEMMA SumServed ==
  ASSUME NEW N \in Nat, NEW q \in Nat, NEW a, NEW t,
         \A l \in 1..N : a[l] \in Nat /\ t[l] = OutOf(a[l], q - SumFunctionOnSet(a, 1..(l - 1)))
  PROVE  /\ \A l \in 1..N : t[l] \in Nat /\ t[l] <= a[l]
         /\ SumFunctionOnSet(a, 1..N) \in Nat
         /\ SumFunctionOnSet(t, 1..N) = OutOf(SumFunctionOnSet(a, 1..N), q)
<1> DEFINE A(n) == SumFunctionOnSet(a, 1..n)
           T(n) == SumFunctionOnSet(t, 1..n)
           Bad == {n \in 0..N : T(n) # OutOf(A(n), q)}
<1>1. ASSUME NEW n \in 0..N
      PROVE  A(n) \in Nat /\ IsFiniteSet(1..n)
  <2>1. IsFiniteSet(1..n)
    BY PlacesFinite
  <2>2. \A l \in 1..n : a[l] \in Nat
    OBVIOUS
  <2> QED BY <2>1, <2>2, SumNat
<1>2. ASSUME NEW l \in 1..N
      PROVE  t[l] \in Nat /\ t[l] <= a[l] /\ a[l] \in Nat /\ t[l] = OutOf(a[l], q - A(l - 1))
  <2>1. l - 1 \in 0..N
    OBVIOUS
  <2>2. A(l - 1) \in Nat
    BY <1>1, <2>1
  <2>3. a[l] \in Nat /\ t[l] = OutOf(a[l], q - A(l - 1))
    OBVIOUS
  <2> HIDE DEF A
  <2> QED BY <2>2, <2>3 DEF OutOf
<1>3. ASSUME NEW n \in Bad
      PROVE  n # 0 /\ n - 1 \in Bad
  <2>1. n # 0
    <3>1. 1..0 = {}
      OBVIOUS
    <3>2. A(0) = 0 /\ T(0) = 0
      BY <3>1, SumEmpty
    <3> QED BY <3>2 DEF OutOf
  <2> SUFFICES ASSUME n - 1 \notin Bad PROVE FALSE
    BY <2>1
  <2> DEFINE m == n - 1
  <2>2. m \in 0..N /\ n \in 1..N /\ 1..n = (1..m) \cup {n} /\ n \notin 1..m
    BY <2>1
  <2>3. T(m) = OutOf(A(m), q)
    BY <2>2
  <2>4. IsFiniteSet(1..m) /\ A(m) \in Nat /\ A(n) \in Nat
    BY <1>1, <2>2
  <2>5. \A y \in (1..m) \cup {n} : a[y] \in Int /\ t[y] \in Int
    BY <1>2, <2>2
  <2>6. t[n] = OutOf(a[n], q - A(m)) /\ a[n] \in Nat /\ t[n] \in Nat
    BY <1>2, <2>2
  <2>7. T(n) # OutOf(A(n), q)
    OBVIOUS
  <2> HIDE DEF m
  <2>8. SumFunctionOnSet(a, (1..m) \cup {n}) = a[n] + SumFunctionOnSet(a, 1..m)
    BY <2>2, <2>4, <2>5, SumAdd
  <2>9. SumFunctionOnSet(t, (1..m) \cup {n}) = t[n] + SumFunctionOnSet(t, 1..m)
    BY <2>2, <2>4, <2>5, SumAdd
  <2>10. A(n) = a[n] + A(m) /\ T(n) = t[n] + T(m)
    BY <2>2, <2>8, <2>9
  <2> HIDE DEF A, T
  <2> QED BY <2>3, <2>4, <2>6, <2>7, <2>10 DEF OutOf
<1>4. Bad = {}
  <2> SUFFICES ASSUME Bad # {} PROVE FALSE
    OBVIOUS
  <2>1. Bad \in SUBSET Nat
    OBVIOUS
  <2> HIDE DEF Bad
  <2>2. PICK n \in Bad : \A m \in Bad : n <= m
    BY <2>1, LeastNumber
  <2>3. n \in Nat /\ n - 1 \in Bad
    BY <1>3, <2>1
  <2>4. n <= n - 1
    BY <2>2, <2>3
  <2> QED BY <2>3, <2>4
<1>5. T(N) = OutOf(A(N), q) /\ A(N) \in Nat
  BY <1>1, <1>4
<1> QED BY <1>2, <1>5

=============================================================================
