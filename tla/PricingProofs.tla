---------------------------- MODULE PricingProofs ----------------------------
(***************************************************************************)
(* What the arithmetic of internal/pricing guarantees for every amount and *)
(* every rate, and how a refund is divided over any ledger; with the sums  *)
(* and the lists of rows that both rest on.                                *)
(***************************************************************************)
EXTENDS Pricing, RefundPlan, FiniteSetTheorems, WellFoundedInduction, TLAPS

(* Sums, as the fold takes them: element by element, in an order of its own.*)

First(s) == CHOOSE x \in s : TRUE

Adds(g, f, S) ==
  g = [s \in SUBSET S |-> IF s = {} THEN 0 ELSE f[First(s)] + g[s \ {First(s)}]]

(* A set of natural numbers has a least one: the induction of the lemmas    *)
(* below, over the size of a set.                                          *)
LEMMA Least ==
  ASSUME NEW T, T \subseteq Nat, T # {}
  PROVE  \E n \in T : \A m \in T : n <= m
<1> DEFINE less == {ss \in Nat \X Nat : ss[1] < ss[2]}
<1>1. IsWellFoundedOn(less, Nat)
  BY NatLessThanWellFounded DEF OpToRel
<1>2. PICK n \in T : \A m \in T : ~(<<m, n>> \in less)
  <2> HIDE DEF less
  <2> QED
    BY <1>1, WFMin
<1>3. ASSUME NEW m \in T PROVE n <= m
  <2>1. ~(<<m, n>> \in less) /\ m \in Nat /\ n \in Nat
    BY <1>2
  <2> QED
    BY <2>1
<1> QED
  BY <1>3

(* Among finite sets with a property there is one of the least size. *)
LEMMA Smallest ==
  ASSUME NEW C, C # {}, \A s \in C : IsFiniteSet(s)
  PROVE  \E s \in C : \A t \in C : Cardinality(s) <= Cardinality(t)
<1> DEFINE sizes == {Cardinality(s) : s \in C}
<1>1. sizes \subseteq Nat /\ sizes # {}
  BY FS_CardinalityType
<1>2. PICK n \in sizes : \A m \in sizes : n <= m
  <2> HIDE DEF sizes
  <2> QED
    BY <1>1, Least
<1> QED
  BY <1>2

LEMMA TotalIs ==
  ASSUME NEW f, NEW S
  PROVE  SumFunctionOnSet(f, S) = (CHOOSE g : Adds(g, f, S))[S]
BY DEF SumFunctionOnSet, FoldFunctionOnSet, MapThenFoldSet, Adds, First

LEMMA FirstIn ==
  ASSUME NEW s, s # {}
  PROVE  First(s) \in s
BY DEF First

LEMMA OneLess ==
  ASSUME NEW s, IsFiniteSet(s), NEW x \in s
  PROVE  /\ IsFiniteSet(s \ {x}) /\ Cardinality(s \ {x}) < Cardinality(s)
         /\ s \ {x} \subseteq s /\ s \ {x} # s
<1>1. IsFiniteSet(s \ {x}) /\ Cardinality(s \ {x}) = Cardinality(s) - 1
  BY FS_RemoveElement
<1>2. Cardinality(s) \in Nat
  BY FS_CardinalityType
<1> QED
  BY <1>1, <1>2

(* Two sums that add up agree wherever both are defined. *)
LEMMA AddsAgree ==
  ASSUME NEW f, NEW S, NEW T, NEW g, NEW h, Adds(g, f, S), Adds(h, f, T),
         NEW s, IsFiniteSet(s), s \subseteq S, s \subseteq T
  PROVE  g[s] = h[s]
<1> DEFINE C == {t \in SUBSET s : g[t] # h[t]}
<1>1. SUFFICES ASSUME C # {} PROVE FALSE
  OBVIOUS
<1>2. \A t \in C : IsFiniteSet(t)
  BY FS_Subset
<1>3. PICK t \in C : \A u \in C : Cardinality(t) <= Cardinality(u)
  <2> HIDE DEF C
  <2> QED
    BY <1>1, <1>2, Smallest
<1>4. t # {}
  BY <1>3 DEF Adds
<1> DEFINE u == t \ {First(t)}
<1>5. First(t) \in t
  BY <1>4, FirstIn
<1>6. Cardinality(u) < Cardinality(t) /\ u \subseteq s /\ IsFiniteSet(u) /\ IsFiniteSet(t)
  BY <1>2, <1>3, <1>5, OneLess
<1>7. g[u] = h[u]
  <2>1. u \notin C
    BY <1>3, <1>6, FS_CardinalityType
  <2> QED
    BY <1>6, <2>1
<1>8. g[t] = f[First(t)] + g[u] /\ h[t] = f[First(t)] + h[u]
  BY <1>3, <1>4 DEF Adds
<1> QED
  BY <1>3, <1>7, <1>8

(* The recursion of the fold is well founded. *)
LEMMA AddsExists ==
  ASSUME NEW f, NEW S, IsFiniteSet(S)
  PROVE  Adds(CHOOSE g : Adds(g, f, S), f, S)
<1> DEFINE C == {t \in SUBSET S : \A g : ~Adds(g, f, t)}
<1>1. SUFFICES ASSUME C # {} PROVE FALSE
  <2>1. S \notin C => \E g : Adds(g, f, S)
    OBVIOUS
  <2> QED
    BY <2>1
<1>2. \A t \in C : IsFiniteSet(t)
  BY FS_Subset
<1>3. PICK t \in C : \A u \in C : Cardinality(t) <= Cardinality(u)
  <2> HIDE DEF C
  <2> QED
    BY <1>1, <1>2, Smallest
<1>4. ASSUME NEW s \in SUBSET t, s # t
      PROVE  Adds(CHOOSE g : Adds(g, f, s), f, s) /\ IsFiniteSet(s)
  <2>1. IsFiniteSet(s) /\ IsFiniteSet(t) /\ Cardinality(s) < Cardinality(t)
    BY <1>2, <1>4, FS_Subset, FS_CardinalityType
  <2>2. s \notin C
    BY <1>3, <2>1, FS_CardinalityType
  <2>3. \E g : Adds(g, f, s)
    BY <2>2
  <2> QED
    BY <2>1, <2>3
<1>5. ASSUME NEW s \in SUBSET t, s # {}
      PROVE  s \ {First(s)} \in SUBSET t /\ s \ {First(s)} # t
  BY <1>5, FirstIn
<1> DEFINE k == [s \in SUBSET t |-> IF s = {} THEN 0
                                   ELSE f[First(s)] + SumFunctionOnSet(f, s \ {First(s)})]
<1>6. ASSUME NEW s \in SUBSET t, s # t PROVE k[s] = SumFunctionOnSet(f, s)
  <2> DEFINE g == CHOOSE g : Adds(g, f, s)
  <2>1. Adds(g, f, s) /\ SumFunctionOnSet(f, s) = g[s]
    BY <1>4, <1>6, TotalIs
  <2>2. CASE s = {}
    <3> HIDE DEF g
    <3> QED
      BY <2>1, <2>2 DEF Adds
  <2>3. CASE s # {}
    <3> DEFINE u == s \ {First(s)}
               h == CHOOSE h : Adds(h, f, u)
    <3>1. u \in SUBSET t /\ u # t
      BY <1>5, <2>3
    <3>2. Adds(h, f, u) /\ SumFunctionOnSet(f, u) = h[u] /\ IsFiniteSet(u)
      BY <1>4, <3>1, TotalIs
    <3> HIDE DEF g, h
    <3>3. g[u] = h[u]
      BY <2>1, <3>2, AddsAgree
    <3>4. g[s] = f[First(s)] + g[u]
      BY <2>1, <2>3 DEF Adds
    <3> QED
      BY <2>1, <2>3, <3>2, <3>3, <3>4
  <2> QED
    BY <2>2, <2>3
<1>7. Adds(k, f, t)
  BY <1>5, <1>6 DEF Adds
<1> QED
  BY <1>3, <1>7

(* What the fold computes, one element at a time. *)
LEMMA TotalStep ==
  ASSUME NEW f, NEW S, IsFiniteSet(S)
  PROVE  SumFunctionOnSet(f, S) =
           IF S = {} THEN 0 ELSE f[First(S)] + SumFunctionOnSet(f, S \ {First(S)})
<1> DEFINE u == S \ {First(S)}
           g == CHOOSE g : Adds(g, f, S)
           h == CHOOSE h : Adds(h, f, u)
<1>1. IsFiniteSet(u)
  BY FS_Subset
<1>2. /\ Adds(g, f, S) /\ Adds(h, f, u)
      /\ SumFunctionOnSet(f, S) = g[S] /\ SumFunctionOnSet(f, u) = h[u]
  BY <1>1, AddsExists, TotalIs
<1> HIDE DEF g, h
<1>3. g[u] = h[u]
  BY <1>1, <1>2, AddsAgree
<1>4. g[S] = IF S = {} THEN 0 ELSE f[First(S)] + g[u]
  BY <1>2 DEF Adds
<1> QED
  BY <1>2, <1>3, <1>4

(* A sum of integers is an integer.                                        *)
LEMMA SumIsWhole ==
  ASSUME NEW f, NEW S, IsFiniteSet(S), \A x \in S : f[x] \in Int
  PROVE  SumFunctionOnSet(f, S) \in Int
<1> DEFINE C == {t \in SUBSET S : SumFunctionOnSet(f, t) \notin Int}
<1>1. SUFFICES ASSUME C # {} PROVE FALSE
  OBVIOUS
<1>2. \A t \in C : IsFiniteSet(t)
  BY FS_Subset
<1>3. PICK t \in C : \A u \in C : Cardinality(t) <= Cardinality(u)
  <2> HIDE DEF C
  <2> QED
    BY <1>1, <1>2, Smallest
<1> DEFINE u == t \ {First(t)}
<1>4. SumFunctionOnSet(f, t) = IF t = {} THEN 0 ELSE f[First(t)] + SumFunctionOnSet(f, u)
  BY <1>2, <1>3, TotalStep
<1>5. t # {}
  BY <1>3, <1>4
<1>6. First(t) \in t
  BY <1>5, FirstIn
<1>7. u \subseteq S /\ IsFiniteSet(u) /\ IsFiniteSet(t) /\ Cardinality(u) < Cardinality(t)
  BY <1>2, <1>3, <1>6, OneLess
<1>8. SumFunctionOnSet(f, u) \in Int
  <2>1. u \notin C
    BY <1>3, <1>7, FS_CardinalityType
  <2> QED
    BY <1>7, <2>1
<1> HIDE DEF u
<1> QED
  BY <1>3, <1>4, <1>5, <1>6, <1>8

(* A sum depends on the values at its own elements only. *)
LEMMA SumDependsOn ==
  ASSUME NEW f, NEW h, NEW S, IsFiniteSet(S), \A x \in S : f[x] = h[x]
  PROVE  SumFunctionOnSet(f, S) = SumFunctionOnSet(h, S)
<1> DEFINE C == {t \in SUBSET S : SumFunctionOnSet(f, t) # SumFunctionOnSet(h, t)}
<1>1. SUFFICES ASSUME C # {} PROVE FALSE
  OBVIOUS
<1>2. \A t \in C : IsFiniteSet(t)
  BY FS_Subset
<1>3. PICK t \in C : \A u \in C : Cardinality(t) <= Cardinality(u)
  <2> HIDE DEF C
  <2> QED
    BY <1>1, <1>2, Smallest
<1> DEFINE u == t \ {First(t)}
<1>4. /\ SumFunctionOnSet(f, t) = IF t = {} THEN 0 ELSE f[First(t)] + SumFunctionOnSet(f, u)
      /\ SumFunctionOnSet(h, t) = IF t = {} THEN 0 ELSE h[First(t)] + SumFunctionOnSet(h, u)
  BY <1>2, <1>3, TotalStep
<1>5. t # {}
  BY <1>3, <1>4
<1>6. First(t) \in t
  BY <1>5, FirstIn
<1>7. u \subseteq S /\ IsFiniteSet(u) /\ IsFiniteSet(t) /\ Cardinality(u) < Cardinality(t)
  BY <1>2, <1>3, <1>6, OneLess
<1>8. SumFunctionOnSet(f, u) = SumFunctionOnSet(h, u)
  <2>1. u \notin C
    BY <1>3, <1>7, FS_CardinalityType
  <2> QED
    BY <1>7, <2>1
<1> HIDE DEF u
<1> QED
  BY <1>3, <1>4, <1>5, <1>6, <1>8

(* Whichever element is taken first, the sum is the same. *)
LEMMA SumTakeAny ==
  ASSUME NEW f, NEW S, IsFiniteSet(S), \A x \in S : f[x] \in Int
  PROVE  \A y \in S : SumFunctionOnSet(f, S) = f[y] + SumFunctionOnSet(f, S \ {y})
<1> DEFINE C == {t \in SUBSET S :
                  \E y \in t : SumFunctionOnSet(f, t) # f[y] + SumFunctionOnSet(f, t \ {y})}
<1>1. SUFFICES ASSUME C # {} PROVE FALSE
  OBVIOUS
<1>2. \A t \in C : IsFiniteSet(t)
  BY FS_Subset
<1>3. PICK t \in C : \A u \in C : Cardinality(t) <= Cardinality(u)
  <2> HIDE DEF C
  <2> QED
    BY <1>1, <1>2, Smallest
<1>4. PICK y \in t : SumFunctionOnSet(f, t) # f[y] + SumFunctionOnSet(f, t \ {y})
  BY <1>3
<1> DEFINE x == First(t)
           both == (t \ {x}) \ {y}
<1>5. x \in t /\ IsFiniteSet(t) /\ t \subseteq S
  BY <1>2, <1>3, <1>4, FirstIn
<1>6. SumFunctionOnSet(f, t) = f[x] + SumFunctionOnSet(f, t \ {x})
  BY <1>4, <1>5, TotalStep
<1>7. x # y
  BY <1>4, <1>6
<1> HIDE DEF x
<1>8. ASSUME NEW z \in t, NEW w \in t, z # w
      PROVE  SumFunctionOnSet(f, t \ {z}) = f[w] + SumFunctionOnSet(f, (t \ {z}) \ {w})
  <2>1. IsFiniteSet(t \ {z}) /\ Cardinality(t \ {z}) < Cardinality(t)
    BY <1>5, OneLess
  <2>2. t \ {z} \notin C
    <3> HIDE DEF C
    <3>1. Cardinality(t) \in Nat /\ Cardinality(t \ {z}) \in Nat
      BY <1>5, <2>1, FS_CardinalityType
    <3> QED
      BY <1>3, <2>1, <3>1
  <2> QED
    BY <1>5, <1>8, <2>2
<1>9. /\ SumFunctionOnSet(f, t \ {x}) = f[y] + SumFunctionOnSet(f, both)
      /\ SumFunctionOnSet(f, t \ {y}) = f[x] + SumFunctionOnSet(f, both)
  <2>1. (t \ {y}) \ {x} = both
    OBVIOUS
  <2> HIDE DEF both
  <2>2. SumFunctionOnSet(f, t \ {y}) = f[x] + SumFunctionOnSet(f, both)
    BY <1>5, <1>7, <1>8, <2>1
  <2>3. SumFunctionOnSet(f, t \ {x}) = f[y] + SumFunctionOnSet(f, both)
    BY <1>5, <1>7, <1>8 DEF both
  <2> QED
    BY <2>2, <2>3
<1>10. SumFunctionOnSet(f, both) \in Int /\ f[x] \in Int /\ f[y] \in Int
  <2>1. both \in SUBSET t
    OBVIOUS
  <2>2. IsFiniteSet(both) /\ both \subseteq S
    BY <1>5, <2>1, FS_Subset
  <2> HIDE DEF both
  <2> QED
    BY <1>5, <2>2, SumIsWhole
<1> HIDE DEF both
<1> QED
  BY <1>4, <1>6, <1>9, <1>10

(* One more element adds its own value. *)
LEMMA SumAdd ==
  ASSUME NEW f, NEW S, IsFiniteSet(S), NEW x, x \notin S, \A y \in S \union {x} : f[y] \in Int
  PROVE  SumFunctionOnSet(f, S \union {x}) = SumFunctionOnSet(f, S) + f[x]
<1>1. IsFiniteSet(S \union {x}) /\ (S \union {x}) \ {x} = S
  BY FS_AddElement
<1>2. SumFunctionOnSet(f, S \union {x}) = f[x] + SumFunctionOnSet(f, S)
  BY <1>1, SumTakeAny
<1>3. SumFunctionOnSet(f, S) \in Int
  BY SumIsWhole
<1> QED
  BY <1>2, <1>3

LEMMA SumOfNone ==
  ASSUME NEW f
  PROVE  SumFunctionOnSet(f, {}) = 0
BY FS_EmptySet, TotalStep

LEMMA SumOfOne ==
  ASSUME NEW f, NEW x, f[x] \in Int
  PROVE  SumFunctionOnSet(f, {x}) = f[x]
<1>1. IsFiniteSet({x}) /\ {x} # {}
  BY FS_Singleton
<1>2. First({x}) = x /\ {x} \ {x} = {}
  BY FirstIn
<1>3. SumFunctionOnSet(f, {x}) = f[x] + SumFunctionOnSet(f, {})
  BY <1>1, <1>2, TotalStep
<1> QED
  BY <1>3, SumOfNone

(* What is added up in two halves.                                          *)
LEMMA SumSplit ==
  ASSUME NEW f, NEW A, NEW B, IsFiniteSet(A), IsFiniteSet(B), A \cap B = {},
         \A x \in A \union B : f[x] \in Int
  PROVE  SumFunctionOnSet(f, A \union B) = SumFunctionOnSet(f, A) + SumFunctionOnSet(f, B)
<1> DEFINE C == {t \in SUBSET B :
                  SumFunctionOnSet(f, A \union t) # SumFunctionOnSet(f, A) + SumFunctionOnSet(f, t)}
<1>1. SUFFICES ASSUME C # {} PROVE FALSE
  OBVIOUS
<1>2. \A t \in C : IsFiniteSet(t)
  BY FS_Subset
<1>3. PICK t \in C : \A u \in C : Cardinality(t) <= Cardinality(u)
  <2> HIDE DEF C
  <2> QED
    BY <1>1, <1>2, Smallest
<1>4. SumFunctionOnSet(f, A) \in Int
  BY SumIsWhole
<1>5. t # {}
  <2>1. SumFunctionOnSet(f, {}) = 0 /\ A \union {} = A
    BY SumOfNone
  <2> QED
    BY <1>3, <1>4, <2>1
<1>6. PICK x : x \in t
  BY <1>5
<1> DEFINE u == t \ {x}
<1>7. IsFiniteSet(t) /\ IsFiniteSet(u) /\ Cardinality(u) < Cardinality(t) /\ u \subseteq B /\ x \in B
  BY <1>2, <1>3, <1>6, OneLess
<1>8. SumFunctionOnSet(f, A \union u) = SumFunctionOnSet(f, A) + SumFunctionOnSet(f, u)
  <2>1. u \notin C
    BY <1>3, <1>7, FS_CardinalityType
  <2> QED
    BY <1>7, <2>1
<1>9. /\ IsFiniteSet(A \union u) /\ x \notin A \union u /\ x \notin u
      /\ t = u \union {x} /\ A \union t = (A \union u) \union {x}
      /\ \A y \in (A \union u) \union {x} : f[y] \in Int
  BY <1>6, <1>7, FS_Union
<1> HIDE DEF u, C
<1>10. /\ SumFunctionOnSet(f, A \union t) = SumFunctionOnSet(f, A \union u) + f[x]
       /\ SumFunctionOnSet(f, t) = SumFunctionOnSet(f, u) + f[x]
       /\ SumFunctionOnSet(f, u) \in Int /\ f[x] \in Int
  <2>1. \A y \in u \union {x} : f[y] \in Int
    BY <1>9
  <2>2. SumFunctionOnSet(f, (A \union u) \union {x}) = SumFunctionOnSet(f, A \union u) + f[x]
    BY <1>9, SumAdd
  <2>3. SumFunctionOnSet(f, u \union {x}) = SumFunctionOnSet(f, u) + f[x]
    BY <1>7, <1>9, <2>1, SumAdd
  <2> QED
    BY <1>7, <1>9, <2>1, <2>2, <2>3, SumIsWhole
<1>11. SumFunctionOnSet(f, A \union t) = SumFunctionOnSet(f, A) + SumFunctionOnSet(f, t)
  BY <1>4, <1>8, <1>10
<1> QED
  BY <1>3, <1>11 DEF C

(* A sum of nothing negative. *)
LEMMA SumIsNat ==
  ASSUME NEW f, NEW S, IsFiniteSet(S), \A x \in S : f[x] \in Nat
  PROVE  SumFunctionOnSet(f, S) \in Nat
<1> DEFINE C == {t \in SUBSET S : SumFunctionOnSet(f, t) \notin Nat}
<1>1. SUFFICES ASSUME C # {} PROVE FALSE
  OBVIOUS
<1>2. \A t \in C : IsFiniteSet(t)
  BY FS_Subset
<1>3. PICK t \in C : \A u \in C : Cardinality(t) <= Cardinality(u)
  <2> HIDE DEF C
  <2> QED
    BY <1>1, <1>2, Smallest
<1> DEFINE u == t \ {First(t)}
<1>4. SumFunctionOnSet(f, t) = IF t = {} THEN 0 ELSE f[First(t)] + SumFunctionOnSet(f, u)
  BY <1>2, <1>3, TotalStep
<1>5. t # {}
  BY <1>3, <1>4
<1>6. First(t) \in t
  BY <1>5, FirstIn
<1>7. u \subseteq S /\ IsFiniteSet(u) /\ IsFiniteSet(t) /\ Cardinality(u) < Cardinality(t)
  BY <1>2, <1>3, <1>6, OneLess
<1>8. SumFunctionOnSet(f, u) \in Nat
  <2>1. u \notin C
    BY <1>3, <1>7, FS_CardinalityType
  <2> QED
    BY <1>7, <2>1
<1> HIDE DEF u
<1> QED
  BY <1>3, <1>4, <1>5, <1>6, <1>8

-----------------------------------------------------------------------------
(* The rows of a ledger that are kept, and in which place.                 *)

Upto(K, i) == {j \in K : j <= i}
Place(K, i) == Cardinality(Upto(K, i))

LEMMA PlaceIsCount ==
  ASSUME NEW n \in Nat, NEW K \in SUBSET (1..n)
  PROVE  /\ IsFiniteSet(K) /\ Cardinality(K) \in 0..n
         /\ \A i : IsFiniteSet(Upto(K, i)) /\ Place(K, i) \in 0..Cardinality(K)
<1>1. IsFiniteSet(1..n) /\ Cardinality(1..n) = n
  BY FS_Interval
<1>2. IsFiniteSet(K) /\ Cardinality(K) <= n /\ Cardinality(K) \in Nat
  BY <1>1, FS_Subset, FS_CardinalityType
<1>3. ASSUME NEW i
      PROVE  IsFiniteSet(Upto(K, i)) /\ Cardinality(Upto(K, i)) \in 0..Cardinality(K)
  <2>1. Upto(K, i) \in SUBSET K
    BY DEF Upto
  <2>2. IsFiniteSet(Upto(K, i)) /\ Cardinality(Upto(K, i)) <= Cardinality(K)
    BY <1>2, <2>1, FS_Subset
  <2>3. Cardinality(Upto(K, i)) \in Nat
    BY <2>2, FS_CardinalityType
  <2> QED
    BY <1>2, <2>2, <2>3
<1> QED
  BY <1>2, <1>3 DEF Place

LEMMA PlaceGrows ==
  ASSUME NEW n \in Nat, NEW K \in SUBSET (1..n), NEW i \in K, NEW j \in K, i < j
  PROVE  Place(K, i) < Place(K, j)
<1>1. Upto(K, i) \in SUBSET Upto(K, j) /\ j \in Upto(K, j) /\ j \notin Upto(K, i)
  <2>1. i \in Int /\ j \in Int /\ \A x \in K : x \in Int
    OBVIOUS
  <2>2. \A x \in K : x <= i => x <= j
    BY <2>1
  <2>3. j <= j /\ ~(j <= i)
    BY <2>1
  <2> QED
    BY <2>2, <2>3, Zenon DEF Upto
<1>2. IsFiniteSet(Upto(K, j)) /\ Place(K, i) \in Nat /\ Place(K, j) \in Nat
  BY PlaceIsCount
<1> QED
  BY <1>1, <1>2, FS_Subset DEF Place

LEMMA PlaceTells ==
  ASSUME NEW n \in Nat, NEW K \in SUBSET (1..n), NEW i \in K, NEW j \in K, Place(K, i) = Place(K, j)
  PROVE  i = j
<1>1. Place(K, i) \in Int /\ i \in Int /\ j \in Int
  BY PlaceIsCount
<1>2. ASSUME i < j PROVE FALSE
  <2>1. Place(K, i) < Place(K, j)
    BY <1>2, PlaceGrows
  <2> QED
    BY <1>1, <2>1
<1>3. ASSUME j < i PROVE FALSE
  <2>1. Place(K, j) < Place(K, i)
    BY <1>3, PlaceGrows
  <2> QED
    BY <1>1, <2>1
<1> QED
  BY <1>1, <1>2, <1>3

(* Every place is somebody's. *)
LEMMA PlaceOnto ==
  ASSUME NEW n \in Nat, NEW K \in SUBSET (1..n), NEW m \in 1..Cardinality(K)
  PROVE  \E i \in K : Place(K, i) = m
<1> DEFINE T == {i \in 0..n : Place(K, i) >= m}
<1>1. \A x \in K : x \in Nat /\ 1 <= x /\ x <= n
  OBVIOUS
<1>2. T \subseteq Nat /\ n \in T
  <2>1. Upto(K, n) = K
    BY <1>1, Zenon DEF Upto
  <2> QED
    BY <2>1, PlaceIsCount DEF Place
<1>3. PICK i \in T : \A j \in T : i <= j
  <2> HIDE DEF T
  <2> QED
    BY <1>2, Least
<1>4. i # 0
  <2>1. \A x \in K : ~(x <= 0)
    BY <1>1
  <2>2. Upto(K, 0) = {}
    BY <2>1, Zenon DEF Upto
  <2>3. Place(K, 0) = 0
    BY <2>2, FS_EmptySet DEF Place
  <2> QED
    BY <1>3, <2>3
<1>5. \A j : Place(K, j) \in Int
  BY PlaceIsCount
<1>6. Place(K, i - 1) < m
  <2>1. i - 1 \in 0..n /\ i - 1 \notin T
    BY <1>3, <1>4
  <2> QED
    BY <2>1, PlaceIsCount
<1>7. i \in K
  <2>1. i \notin K => \A x \in K : x <= i <=> x <= i - 1
    BY <1>1, <1>3
  <2>2. i \notin K => Upto(K, i) = Upto(K, i - 1)
    BY <2>1, Zenon DEF Upto
  <2>3. Place(K, i) >= m
    BY <1>3
  <2>4. Place(K, i - 1) \in Int
    BY <1>5
  <2> QED
    BY <1>6, <2>2, <2>3, <2>4 DEF Place
<1>8. Place(K, i) = Place(K, i - 1) + 1
  <2>1. \A x \in K : x <= i <=> (x <= i - 1 \/ x = i)
    BY <1>1, <1>3
  <2>2. Upto(K, i) = Upto(K, i - 1) \union {i}
    BY <2>1, <1>7, Zenon DEF Upto
  <2>3. i \notin Upto(K, i - 1)
    BY <1>3 DEF Upto
  <2>4. IsFiniteSet(Upto(K, i - 1))
    BY PlaceIsCount
  <2> QED
    BY <2>2, <2>4, <2>3, FS_AddElement DEF Place
<1>9. Place(K, i) \in Int /\ Place(K, i - 1) \in Int
  BY PlaceIsCount
<1>10. Place(K, i) = m
  BY <1>3, <1>6, <1>8, <1>9
<1> QED
  BY <1>7, <1>10

LEMMA AtIndicesAre ==
  ASSUME NEW n \in Nat, NEW K \in SUBSET (1..n), NEW s
  PROVE  /\ AtIndices(s, K) = [m \in 1..Cardinality(K) |-> AtIndices(s, K)[m]]
         /\ \A i \in K : Place(K, i) \in 1..Cardinality(K) /\ AtIndices(s, K)[Place(K, i)] = s[i]
         /\ \A m \in 1..Cardinality(K) : \E i \in K : Place(K, i) = m /\ AtIndices(s, K)[m] = s[i]
<1> DEFINE who(m) == CHOOSE i \in K : Place(K, i) = m
<1>1. AtIndices(s, K) = [m \in 1..Cardinality(K) |-> s[who(m)]]
  BY DEF AtIndices, Place, Upto
<1>2. ASSUME NEW i \in K
      PROVE  Place(K, i) \in 1..Cardinality(K) /\ who(Place(K, i)) = i
  <2>1. Place(K, i) \in 0..Cardinality(K) /\ i \in Upto(K, i) /\ IsFiniteSet(Upto(K, i))
    BY PlaceIsCount DEF Upto
  <2>2. Place(K, i) # 0
    BY <2>1, FS_EmptySet DEF Place
  <2>3. who(Place(K, i)) \in K /\ Place(K, who(Place(K, i))) = Place(K, i)
    OBVIOUS
  <2>4. who(Place(K, i)) = i
    <3> HIDE DEF who
    <3> QED
      BY <2>3, PlaceTells
  <2> QED
    BY <2>1, <2>2, <2>4
<1>3. ASSUME NEW m \in 1..Cardinality(K)
      PROVE  who(m) \in K /\ Place(K, who(m)) = m
  BY PlaceOnto
<1> HIDE DEF who
<1> QED
  BY <1>1, <1>2, <1>3

LEMMA AtIndicesType ==
  ASSUME NEW S, NEW s \in Seq(S), NEW K \in SUBSET (1..Len(s))
  PROVE  AtIndices(s, K) \in Seq(S) /\ Len(AtIndices(s, K)) = Cardinality(K) /\ Cardinality(K) \in Nat
<1>1. Len(s) \in Nat /\ \A i \in 1..Len(s) : s[i] \in S
  OBVIOUS
<1>2. Cardinality(K) \in Nat
  BY <1>1, PlaceIsCount
<1> DEFINE c == Cardinality(K)
           a == AtIndices(s, K)
<1>3. a = [m \in 1..c |-> a[m]] /\ \A m \in 1..c : a[m] \in S
  <2>1. /\ a = [m \in 1..c |-> a[m]]
        /\ \A m \in 1..c : \E i \in K : Place(K, i) = m /\ a[m] = s[i]
    BY <1>1, AtIndicesAre
  <2> QED
    BY <1>1, <2>1
<1> HIDE DEF c, a
<1>4. c \in Nat
  BY <1>2 DEF c
<1>5. a \in Seq(S) /\ Len(a) = c
  BY <1>3, <1>4
<1> QED
  BY <1>4, <1>5 DEF a, c

LEMMA RowInPlace ==
  ASSUME NEW S, NEW s \in Seq(S), NEW K \in SUBSET (1..Len(s)), NEW i \in K
  PROVE  Place(K, i) \in 1..Len(AtIndices(s, K)) /\ AtIndices(s, K)[Place(K, i)] = s[i]
<1>1. Len(s) \in Nat
  OBVIOUS
<1>2. Len(AtIndices(s, K)) = Cardinality(K)
  BY AtIndicesType
<1> QED
  BY <1>1, <1>2, AtIndicesAre

LEMMA PlaceHasRow ==
  ASSUME NEW S, NEW s \in Seq(S), NEW K \in SUBSET (1..Len(s)), NEW m \in 1..Len(AtIndices(s, K))
  PROVE  \E i \in K : Place(K, i) = m /\ AtIndices(s, K)[m] = s[i]
<1>1. Len(s) \in Nat
  OBVIOUS
<1>2. m \in 1..Cardinality(K)
  BY AtIndicesType
<1> QED
  BY <1>1, <1>2, AtIndicesAre

(* What is kept depends on the rows kept only. *)
LEMMA AtIndicesSame ==
  ASSUME NEW n \in Nat, NEW K \in SUBSET (1..n), NEW s, NEW t, \A i \in K : s[i] = t[i]
  PROVE  AtIndices(s, K) = AtIndices(t, K)
<1> DEFINE a == AtIndices(s, K)
           b == AtIndices(t, K)
           c == Cardinality(K)
<1>1. ASSUME NEW m \in 1..c PROVE a[m] = b[m]
  <2>1. PICK i \in K : Place(K, i) = m /\ a[m] = s[i]
    BY AtIndicesAre
  <2>2. b[m] = t[i]
    BY <2>1, AtIndicesAre
  <2> QED
    BY <2>1, <2>2
<1>2. a = [m \in 1..c |-> a[m]] /\ b = [m \in 1..c |-> b[m]]
  BY AtIndicesAre
<1> QED
  BY <1>1, <1>2

(* A row kept after the others comes last. *)
LEMMA AtIndicesLast ==
  ASSUME NEW S, NEW s \in Seq(S), NEW K \in SUBSET (1..Len(s)), NEW k \in 1..Len(s),
         \A i \in K : i < k
  PROVE  AtIndices(s, K \union {k}) = Append(AtIndices(s, K), s[k])
<1> DEFINE J == K \union {k}
           c == Cardinality(K)
           a == AtIndices(s, K)
           b == AtIndices(s, J)
<1>1. Len(s) \in Nat /\ k \in Nat /\ \A i \in 1..Len(s) : s[i] \in S
  OBVIOUS
<1>2. J \in SUBSET (1..Len(s)) /\ k \notin K /\ \A i \in J : i \in Nat /\ i <= k
  BY <1>1
<1>3. IsFiniteSet(K) /\ c \in Nat /\ Cardinality(J) = c + 1
  <2>1. IsFiniteSet(K) /\ c \in Nat
    BY <1>1, PlaceIsCount
  <2> QED
    BY <1>2, <2>1, FS_AddElement
<1>4. ASSUME NEW i \in K PROVE Place(J, i) = Place(K, i)
  <2>1. i \in Int /\ i < k
    BY <1>2
  <2>2. Upto(J, i) = Upto(K, i)
    BY <2>1 DEF Upto
  <2> QED
    BY <2>2 DEF Place
<1>5. Place(J, k) = c + 1
  <2>1. \A x \in J : x <= k
    BY <1>2
  <2>2. Upto(J, k) = J
    BY <2>1 DEF Upto
  <2> QED
    BY <2>2, <1>3 DEF Place
<1>6. /\ b = [m \in 1..Cardinality(J) |-> b[m]]
      /\ \A i \in J : b[Place(J, i)] = s[i]
  <2> HIDE DEF J
  <2> QED
    BY <1>1, <1>2, AtIndicesAre
<1>7. b[c + 1] = s[k]
  BY <1>5, <1>6
<1>8. ASSUME NEW m \in 1..c PROVE b[m] = a[m] /\ a[m] \in S
  <2>1. PICK i \in K : Place(K, i) = m /\ a[m] = s[i]
    BY <1>1, <1>2, AtIndicesAre
  <2>2. b[m] = s[i]
    BY <1>4, <1>6, <2>1
  <2> QED
    BY <2>1, <2>2
<1>9. a = [m \in 1..c |-> a[m]] /\ b = [m \in 1..(c + 1) |-> b[m]]
  BY <1>1, <1>2, <1>3, <1>6, AtIndicesAre
<1>10. s[k] \in S
  BY <1>1
<1> HIDE DEF a, b, c, J
<1>11. a \in Seq(S) /\ Len(a) = c
  <2>1. c \in Nat /\ \A m \in 1..c : a[m] \in S
    BY <1>3, <1>8
  <2>2. [m \in 1..c |-> a[m]] \in Seq(S) /\ Len([m \in 1..c |-> a[m]]) = c
    BY <2>1
  <2> QED
    BY <1>9, <2>2
<1>12. Append(a, s[k]) = [m \in 1..(c + 1) |-> IF m = c + 1 THEN s[k] ELSE a[m]]
  BY <1>3, <1>10, <1>11
<1>13. Append(a, s[k]) = b
  <2>1. \A m \in 1..(c + 1) : b[m] = IF m = c + 1 THEN s[k] ELSE a[m]
    BY <1>3, <1>7, <1>8
  <2> QED
    BY <1>9, <1>12, <2>1
<1> QED
  BY <1>13 DEF a, b, J

LEMMA AtIndicesNone ==
  ASSUME NEW s
  PROVE  AtIndices(s, {}) = <<>>
<1>1. Cardinality({}) = 0
  BY FS_EmptySet
<1>2. AtIndices(s, {}) = [m \in 1..0 |-> AtIndices(s, {})[m]]
  BY <1>1, AtIndicesAre
<1> QED
  BY <1>2

(* The rows after the m-th. *)
LEMMA AtIndicesTail ==
  ASSUME NEW S, NEW s \in Seq(S), NEW m \in 0..Len(s)
  PROVE  AtIndices(s, (m + 1)..Len(s)) = SubSeq(s, m + 1, Len(s))
<1> DEFINE L == Len(s)
           K == (m + 1)..L
           a == AtIndices(s, K)
<1>1. L \in Nat /\ K \in SUBSET (1..L) /\ \A i \in 1..L : s[i] \in S
  OBVIOUS
<1>2. Cardinality(K) = L - m
  <2>1. m + 1 \in Int /\ L \in Int
    BY <1>1
  <2>2. Cardinality(K) = IF m + 1 > L THEN 0 ELSE L - (m + 1) + 1
    BY <2>1, FS_Interval
  <2> QED
    BY <2>2, <1>1
<1>3. ASSUME NEW i \in K PROVE Place(K, i) = i - m
  <2>1. Upto(K, i) = (m + 1)..i
    BY DEF Upto
  <2> QED
    BY <2>1, FS_Interval DEF Place
<1>4. a = [n \in 1..(L - m) |-> a[n]]
  BY <1>1, <1>2, AtIndicesAre, ZenonT(40)
<1>5. ASSUME NEW n \in 1..(L - m) PROVE a[n] = s[m + n]
  <2>1. m + n \in K
    BY <1>1
  <2>2. Place(K, m + n) = n
    BY <1>3, <2>1
  <2> HIDE DEF K
  <2>3. a[Place(K, m + n)] = s[m + n]
    BY <1>1, <2>1, RowInPlace
  <2> QED
    BY <2>2, <2>3
<1>6. SubSeq(s, m + 1, L) = [n \in 1..(L - m) |-> s[m + n]]
  BY <1>1
<1> QED
  BY <1>4, <1>5, <1>6

-----------------------------------------------------------------------------
(* The amounts of a list.                                                  *)

Priced(S) == \A x \in S : x.amount \in Nat

SumTo(s, n) == SumFunctionOnSet(AmountAt(s), 1..n)

LEMMA AmountsOf ==
  ASSUME NEW S, Priced(S), NEW s \in Seq(S)
  PROVE  /\ Len(s) \in Nat /\ DOMAIN s = 1..Len(s)
         /\ \A i \in 1..Len(s) : s[i] \in S /\ AmountAt(s)[i] = s[i].amount /\ s[i].amount \in Nat
         /\ Amounts(s) = SumTo(s, Len(s))
<1>1. Len(s) \in Nat /\ DOMAIN s = 1..Len(s) /\ \A i \in 1..Len(s) : s[i] \in S
  OBVIOUS
<1>2. \A i \in 1..Len(s) : AmountAt(s)[i] = s[i].amount /\ s[i].amount \in Nat
  BY <1>1 DEF AmountAt, Priced
<1>3. Amounts(s) = SumTo(s, Len(s))
  <2>1. DOMAIN AmountAt(s) = DOMAIN s
    BY DEF AmountAt
  <2>2. Amounts(s) = SumFunctionOnSet(AmountAt(s), DOMAIN AmountAt(s))
    BY DEF Amounts, SumFunction
  <2> QED
    BY <1>1, <2>1, <2>2 DEF SumTo
<1> QED
  BY <1>1, <1>2, <1>3

LEMMA SumToSteps ==
  ASSUME NEW S, Priced(S), NEW s \in Seq(S)
  PROVE  /\ SumTo(s, 0) = 0
         /\ \A n \in 0..Len(s) : SumTo(s, n) \in Nat
         /\ \A n \in 1..Len(s) : SumTo(s, n) = SumTo(s, n - 1) + s[n].amount
         /\ Amounts(s) \in Nat
<1>1. SumTo(s, 0) = 0
  <2>1. 1..0 = {}
    OBVIOUS
  <2> QED
    BY <2>1, SumOfNone DEF SumTo
<1>2. ASSUME NEW n \in 0..Len(s)
      PROVE  SumTo(s, n) \in Nat
  <2>1. IsFiniteSet(1..n)
    BY FS_Interval
  <2>2. \A i \in 1..n : i \in 1..Len(s)
    BY AmountsOf
  <2>3. \A i \in 1..n : AmountAt(s)[i] \in Nat
    BY <2>2, AmountsOf
  <2> QED
    BY <2>1, <2>3, SumIsNat DEF SumTo
<1>3. ASSUME NEW n \in 1..Len(s)
      PROVE  SumTo(s, n) = SumTo(s, n - 1) + s[n].amount
  <2>1. n - 1 \in Int /\ IsFiniteSet(1..(n - 1))
    BY FS_Interval
  <2>2. IsFiniteSet(1..(n - 1)) /\ n \notin 1..(n - 1) /\ 1..n = (1..(n - 1)) \union {n}
    BY <2>1
  <2>3. \A i \in (1..(n - 1)) \union {n} : i \in 1..Len(s)
    BY AmountsOf
  <2>4. \A i \in (1..(n - 1)) \union {n} : AmountAt(s)[i] \in Int
    BY <2>3, AmountsOf
  <2>5. SumFunctionOnSet(AmountAt(s), (1..(n - 1)) \union {n})
          = SumFunctionOnSet(AmountAt(s), 1..(n - 1)) + AmountAt(s)[n]
    BY <2>2, <2>4, SumAdd
  <2> QED
    BY <2>2, <2>5, AmountsOf DEF SumTo
<1>4. Amounts(s) \in Nat
  BY <1>2, AmountsOf
<1> QED
  BY <1>1, <1>2, <1>3, <1>4

LEMMA SumToGrows ==
  ASSUME NEW S, Priced(S), NEW s \in Seq(S), NEW i \in 0..Len(s), NEW j \in 0..Len(s), i <= j
  PROVE  SumTo(s, i) <= SumTo(s, j)
<1>1. /\ IsFiniteSet(1..i) /\ IsFiniteSet((i + 1)..j)
      /\ (1..i) \cap ((i + 1)..j) = {} /\ (1..i) \union ((i + 1)..j) = 1..j
  BY FS_Interval
<1>2. \A k \in (1..i) \union ((i + 1)..j) : k \in 1..Len(s)
  BY AmountsOf
<1>3. \A k \in (1..i) \union ((i + 1)..j) : AmountAt(s)[k] \in Nat
  BY <1>2, AmountsOf
<1>4. SumTo(s, j) = SumTo(s, i) + SumFunctionOnSet(AmountAt(s), (i + 1)..j)
  BY <1>1, <1>3, SumSplit DEF SumTo
<1>5. SumFunctionOnSet(AmountAt(s), (i + 1)..j) \in Nat /\ SumTo(s, i) \in Nat
  BY <1>1, <1>3, SumIsNat, SumToSteps
<1> QED
  BY <1>4, <1>5

LEMMA SumToSame ==
  ASSUME NEW S, Priced(S), NEW s \in Seq(S), NEW T, Priced(T), NEW t \in Seq(T),
         NEW n \in 0..Len(s), n <= Len(t),
         \A i \in 1..n : s[i].amount = t[i].amount
  PROVE  SumTo(s, n) = SumTo(t, n)
<1>1. n \in Nat /\ Len(s) \in Nat /\ Len(t) \in Nat
  BY AmountsOf
<1>2. IsFiniteSet(1..n) /\ \A i \in 1..n : i \in 1..Len(s) /\ i \in 1..Len(t)
  <2>1. IsFiniteSet(1..n)
    BY <1>1, FS_Interval
  <2>2. \A i \in 1..n : i \in 1..Len(s) /\ i \in 1..Len(t)
    BY <1>1
  <2> QED
    BY <2>1, <2>2
<1>3. \A i \in 1..n : AmountAt(s)[i] = AmountAt(t)[i]
  BY <1>2, AmountsOf
<1> QED
  BY <1>2, <1>3, SumDependsOn DEF SumTo

LEMMA AmountsOfFirst ==
  ASSUME NEW S, Priced(S), NEW s \in Seq(S), NEW n \in 0..Len(s)
  PROVE  Amounts(SubSeq(s, 1, n)) = SumTo(s, n)
<1> DEFINE t == SubSeq(s, 1, n)
<1>1. t \in Seq(S) /\ Len(t) = n /\ n \in Nat /\ \A i \in 1..n : t[i] = s[i]
  OBVIOUS
<1> HIDE DEF t
<1>2. Amounts(t) = SumTo(t, n)
  BY <1>1, AmountsOf
<1>3. SumTo(s, n) = SumTo(t, n)
  BY <1>1, SumToSame
<1> QED
  BY <1>2, <1>3 DEF t

LEMMA AmountsAppend ==
  ASSUME NEW S, Priced(S), NEW s \in Seq(S), NEW x \in S
  PROVE  Amounts(Append(s, x)) = Amounts(s) + x.amount
<1> DEFINE t == Append(s, x)
<1>1. t \in Seq(S) /\ Len(t) = Len(s) + 1 /\ t[Len(s) + 1] = x /\ \A i \in 1..Len(s) : t[i] = s[i]
  OBVIOUS
<1>2. Len(s) \in Nat
  OBVIOUS
<1> HIDE DEF t
<1>3. Amounts(t) = SumTo(t, Len(s) + 1) /\ Amounts(s) = SumTo(s, Len(s))
  BY <1>1, AmountsOf
<1>4. SumTo(t, Len(s) + 1) = SumTo(t, Len(s)) + x.amount
  BY <1>1, <1>2, SumToSteps
<1>5. SumTo(s, Len(s)) = SumTo(t, Len(s))
  BY <1>1, <1>2, SumToSame
<1> QED
  BY <1>3, <1>4, <1>5 DEF t

(* The rows kept are worth what they are worth where they stood. *)
LEMMA AmountsKept ==
  ASSUME NEW S, Priced(S), NEW s \in Seq(S), NEW K \in SUBSET (1..Len(s))
  PROVE  Amounts(AtIndices(s, K)) = SumFunctionOnSet(AmountAt(s), K)
<1> DEFINE held(n) == K \cap (1..n)
           T == {n \in 0..Len(s) : Amounts(AtIndices(s, held(n))) # SumFunctionOnSet(AmountAt(s), held(n))}
<1>1. SUFFICES ASSUME T # {} PROVE FALSE
  <2>1. Len(s) \in Nat
    OBVIOUS
  <2>2. held(Len(s)) = K
    <3> HIDE DEF T
    <3> QED
      OBVIOUS
  <2>3. Len(s) \in 0..Len(s)
    BY <2>1
  <2>4. Len(s) \notin T
    BY <1>1
  <2> QED
    BY <2>2, <2>3, <2>4
<1>2. PICK n \in T : \A m \in T : n <= m
  <2>1. T \subseteq Nat
    OBVIOUS
  <2> HIDE DEF T
  <2> QED
    BY <1>1, <2>1, Least
<1>3. n # 0
  <2>1. held(0) = {}
    OBVIOUS
  <2>2. AtIndices(s, {}) = <<>> /\ Len(<<>>) = 0 /\ <<>> \in Seq(S)
    BY AtIndicesNone
  <2>3. Amounts(<<>>) = 0
    BY <2>2, AmountsOf, SumToSteps
  <2> QED
    BY <1>2, <2>1, <2>2, <2>3, SumOfNone
<1>4. n \in Nat /\ n - 1 \in 0..Len(s) /\ n \in 1..Len(s)
  BY <1>2, <1>3, AmountsOf
<1>5. Amounts(AtIndices(s, held(n - 1))) = SumFunctionOnSet(AmountAt(s), held(n - 1))
  <2>1. n - 1 \notin T
    BY <1>2, <1>4
  <2> QED
    BY <1>4, <2>1
<1>6. n \in K
  <2>1. n \notin K => held(n) = held(n - 1)
    BY <1>4
  <2> QED
    BY <1>2, <1>5, <2>1
<1>7. held(n) = held(n - 1) \union {n}
  BY <1>4, <1>6
<1> DEFINE H == held(n - 1)
<1>8. H \in SUBSET (1..(n - 1)) /\ H \in SUBSET (1..Len(s)) /\ n \notin H /\ n - 1 \in Nat
  BY <1>4
<1>9. IsFiniteSet(H)
  BY <1>8, PlaceIsCount
<1>10. \A i \in H \union {n} : s[i] \in S /\ AmountAt(s)[i] \in Int
  BY <1>4, <1>8, AmountsOf
<1> HIDE DEF T, held, H
<1>11. AtIndices(s, H \union {n}) = Append(AtIndices(s, H), s[n])
  <2>1. \A i \in H : i < n
    BY <1>4, <1>8
  <2> QED
    BY <1>4, <1>8, <2>1, AtIndicesLast
<1>12. AtIndices(s, H) \in Seq(S)
  BY <1>8, AtIndicesType
<1>13. Amounts(AtIndices(s, H \union {n})) = Amounts(AtIndices(s, H)) + s[n].amount
  BY <1>10, <1>11, <1>12, AmountsAppend, ZenonT(40)
<1>14. SumFunctionOnSet(AmountAt(s), H \union {n}) = SumFunctionOnSet(AmountAt(s), H) + AmountAt(s)[n]
  BY <1>8, <1>9, <1>10, SumAdd
<1>15. Amounts(AtIndices(s, H \union {n})) = SumFunctionOnSet(AmountAt(s), H \union {n})
  BY <1>4, <1>5, <1>13, <1>14, AmountsOf DEF H
<1> QED
  BY <1>2, <1>7, <1>15 DEF H, T

LEMMA AmountsOfRest ==
  ASSUME NEW S, Priced(S), NEW s \in Seq(S), NEW m \in 0..Len(s)
  PROVE  SumTo(s, m) + Amounts(SubSeq(s, m + 1, Len(s))) = Amounts(s)
<1> DEFINE L == Len(s)
<1>1. L \in Nat /\ m \in Nat /\ m + 1 \in Int
  BY AmountsOf
<1>2. /\ IsFiniteSet(1..m) /\ IsFiniteSet((m + 1)..L)
      /\ (1..m) \cap ((m + 1)..L) = {} /\ (1..m) \union ((m + 1)..L) = 1..L
  <2>1. IsFiniteSet(1..m) /\ IsFiniteSet((m + 1)..L)
    BY <1>1, FS_Interval
  <2>2. (1..m) \cap ((m + 1)..L) = {} /\ (1..m) \union ((m + 1)..L) = 1..L
    BY <1>1
  <2> QED
    BY <2>1, <2>2
<1>3. \A k \in (1..m) \union ((m + 1)..L) : AmountAt(s)[k] \in Int
  BY <1>2, AmountsOf
<1>4. SumTo(s, L) = SumTo(s, m) + SumFunctionOnSet(AmountAt(s), (m + 1)..L)
  BY <1>2, <1>3, SumSplit DEF SumTo
<1>5. (m + 1)..L \in SUBSET (1..L)
  BY <1>2
<1>6. Amounts(SubSeq(s, m + 1, L)) = SumFunctionOnSet(AmountAt(s), (m + 1)..L)
  BY <1>5, AmountsKept, AtIndicesTail
<1> QED
  BY <1>4, <1>6, AmountsOf

-----------------------------------------------------------------------------
(* How a refund is divided.                                                *)

(* What the parts are to come to, and the rows they are made of. *)
Sought(charges, target) == IF target <= 0 THEN Amounts(charges) ELSE target

Shares(S) == [id : {x.id : x \in S}, amount : Nat]

LEMMA SharesPriced ==
  ASSUME NEW S
  PROVE  Priced(Shares(S))
BY DEF Priced, Shares

(* A set that holds whatever comes before one of its own is a first stretch. *)
LEMMA FirstOnes ==
  ASSUME NEW n \in Nat, NEW K \in SUBSET (1..n),
         \A i \in K, j \in 1..n : j <= i => j \in K
  PROVE  K = 1..Cardinality(K)
<1> DEFINE T == {i \in 1..(n + 1) : i \notin K}
<1>1. T \subseteq Nat /\ T # {}
  <2>1. n + 1 \notin K /\ n + 1 \in 1..(n + 1)
    OBVIOUS
  <2>2. n + 1 \in T
    BY <2>1
  <2>3. T \subseteq Nat
    OBVIOUS
  <2> QED
    BY <2>2, <2>3
<1>2. PICK i \in T : \A j \in T : i <= j
  <2> HIDE DEF T
  <2> QED
    BY <1>1, Least
<1>3. i \in Nat /\ i - 1 \in Nat /\ i <= n + 1
  BY <1>2
<1>4. \A j \in 1..(i - 1) : j \in K
  <2> SUFFICES ASSUME NEW j \in 1..(i - 1) PROVE j \in K
    OBVIOUS
  <2>1. j \in 1..(n + 1) /\ j \in Nat /\ ~(i <= j)
    BY <1>3
  <2> QED
    BY <1>2, <2>1
<1>5. \A j \in K : j \in 1..(i - 1)
  <2> SUFFICES ASSUME NEW j \in K PROVE j \in 1..(i - 1)
    OBVIOUS
  <2>1. j \in Nat /\ 1 <= j /\ j <= n
    OBVIOUS
  <2>2. i <= j => i \in 1..n
    BY <1>2, <1>3, <2>1
  <2>3. i <= j => i \in K
    BY <2>2
  <2>4. ~(i <= j)
    BY <1>2, <2>3
  <2> QED
    BY <1>3, <2>1, <2>4
<1>6. K = 1..(i - 1)
  BY <1>4, <1>5
<1>7. Cardinality(1..(i - 1)) = i - 1
  <2>1. 1 \in Int /\ i - 1 \in Int
    BY <1>3
  <2>2. Cardinality(1..(i - 1)) = IF 1 > i - 1 THEN 0 ELSE (i - 1) - 1 + 1
    BY <2>1, FS_Interval
  <2> QED
    BY <1>3, <2>2
<1> QED
  BY <1>6, <1>7

(* The parts, element by element. *)
LEMMA PartsAre ==
  ASSUME NEW S, Priced(S), NEW c \in Seq(S), NEW t \in Int
  PROVE  LET p == Parts(c, t)
             g == Sought(c, t)
         IN  /\ g \in Nat /\ p \in Seq(Shares(S)) /\ Len(p) \in 0..Len(c)
             /\ \A i \in 1..Len(c) : i <= Len(p) <=> SumTo(c, i - 1) < g
             /\ \A i \in 1..Len(p) :
                  /\ p[i].id = c[i].id /\ p[i].amount <= c[i].amount
                  /\ p[i].amount = IF c[i].amount > g - SumTo(c, i - 1)
                                   THEN g - SumTo(c, i - 1) ELSE c[i].amount
<1> DEFINE g == Sought(c, t)
           K == {j \in 1..Len(c) : SumTo(c, j - 1) < g}
           k == Cardinality(K)
           part(i) == [id |-> c[i].id,
                       amount |-> IF c[i].amount > g - SumTo(c, i - 1)
                                  THEN g - SumTo(c, i - 1) ELSE c[i].amount]
           p == [i \in 1..k |-> part(i)]
<1>1. g \in Nat /\ Len(c) \in Nat
  BY SumToSteps, AmountsOf DEF Sought
<1>2. \A i \in 1..Len(c) : SumTo(c, i - 1) \in Nat /\ i - 1 \in 0..Len(c)
  BY <1>1, SumToSteps
<1>3. K = 1..k /\ k \in 0..Len(c)
  <2>1. K \in SUBSET (1..Len(c))
    OBVIOUS
  <2>2. ASSUME NEW i \in K, NEW j \in 1..Len(c), j <= i PROVE j \in K
    <3>1. i \in 1..Len(c) /\ SumTo(c, i - 1) < g /\ j - 1 <= i - 1
      BY <2>2, <1>1
    <3>2. SumTo(c, j - 1) <= SumTo(c, i - 1)
      BY <1>2, <3>1, SumToGrows
    <3> QED
      BY <1>1, <1>2, <3>1, <3>2
  <2> HIDE DEF K
  <2> QED
    BY <1>1, <2>1, <2>2, FirstOnes, PlaceIsCount
<1>4. Parts(c, t) = p
  <2>1. \A i \in 1..Len(c) : Amounts(SubSeq(c, 1, i - 1)) = SumTo(c, i - 1)
    BY <1>2, AmountsOfFirst
  <2>2. {j \in DOMAIN c : Amounts(SubSeq(c, 1, j - 1)) < g} = K
    BY <2>1
  <2>3. \A i \in 1..k : i \in 1..Len(c)
    BY <1>1, <1>3
  <2>4. Parts(c, t) = [i \in 1..k |->
          [id |-> c[i].id,
           amount |-> IF c[i].amount > g - Amounts(SubSeq(c, 1, i - 1))
                      THEN g - Amounts(SubSeq(c, 1, i - 1)) ELSE c[i].amount]]
    BY <2>2 DEF Parts, Sought
  <2> HIDE DEF k, K, g
  <2> QED
    BY <2>1, <2>3, <2>4
<1>5. ASSUME NEW i \in 1..k
      PROVE  /\ part(i) \in Shares(S) /\ part(i).amount <= c[i].amount
  <2>1. i \in K /\ i \in 1..Len(c)
    BY <1>3
  <2>2. c[i] \in S /\ c[i].amount \in Nat /\ SumTo(c, i - 1) < g /\ SumTo(c, i - 1) \in Nat
    BY <1>2, <2>1, AmountsOf
  <2> HIDE DEF g, K, k
  <2> QED
    BY <1>1, <2>2 DEF Shares
<1>6. p \in Seq(Shares(S)) /\ Len(p) = k
  <2> HIDE DEF part, k
  <2> QED
    BY <1>1, <1>3, <1>5
<1>7. \A i \in 1..Len(c) : i <= k <=> SumTo(c, i - 1) < g
  <2>1. \A i \in 1..Len(c) : i \in K <=> SumTo(c, i - 1) < g
    OBVIOUS
  <2>2. \A i \in 1..Len(c) : i \in 1..k <=> i <= k
    BY <1>1, <1>3
  <2> QED
    BY <1>3, <2>1, <2>2
<1>8. \A i \in 1..k : p[i] = part(i)
  OBVIOUS
<1>9. \A i \in 1..k :
        /\ p[i].id = c[i].id /\ p[i].amount <= c[i].amount
        /\ p[i].amount = IF c[i].amount > g - SumTo(c, i - 1)
                         THEN g - SumTo(c, i - 1) ELSE c[i].amount
  <2> SUFFICES ASSUME NEW i \in 1..k
               PROVE  /\ p[i].id = c[i].id /\ p[i].amount <= c[i].amount
                      /\ p[i].amount = IF c[i].amount > g - SumTo(c, i - 1)
                                       THEN g - SumTo(c, i - 1) ELSE c[i].amount
    OBVIOUS
  <2>1. p[i] = part(i) /\ part(i).amount <= c[i].amount
    BY <1>5, <1>8
  <2>2. /\ part(i).id = c[i].id
        /\ part(i).amount = IF c[i].amount > g - SumTo(c, i - 1)
                            THEN g - SumTo(c, i - 1) ELSE c[i].amount
    <3> HIDE DEF g, k, p
    <3> QED
      OBVIOUS
  <2> HIDE DEF part, p, g, k
  <2> QED
    BY <2>1, <2>2
<1> HIDE DEF g, k, p, part
<1> QED
  BY <1>1, <1>3, <1>4, <1>6, <1>7, <1>9 DEF g

(* What the first parts come to, and all of them. *)
LEMMA PartsSum ==
  ASSUME NEW S, Priced(S), NEW c \in Seq(S), NEW t \in Int
  PROVE  LET p == Parts(c, t)
             g == Sought(c, t)
         IN  /\ \A i \in 0..Len(p) : SumTo(p, i) = IF SumTo(c, i) <= g THEN SumTo(c, i) ELSE g
             /\ Amounts(p) = IF Amounts(c) <= g THEN Amounts(c) ELSE g
<1> DEFINE p == Parts(c, t)
           g == Sought(c, t)
           least(x) == IF x <= g THEN x ELSE g
           T == {n \in 0..Len(p) : SumTo(p, n) # least(SumTo(c, n))}
<1>1. /\ g \in Nat /\ p \in Seq(Shares(S)) /\ Len(p) \in 0..Len(c)
      /\ \A i \in 1..Len(c) : i <= Len(p) <=> SumTo(c, i - 1) < g
      /\ \A i \in 1..Len(p) : p[i].amount = IF c[i].amount > g - SumTo(c, i - 1)
                                            THEN g - SumTo(c, i - 1) ELSE c[i].amount
  BY PartsAre
<1> HIDE DEF p, g
<1>2. /\ SumTo(p, 0) = 0 /\ SumTo(c, 0) = 0 /\ Amounts(c) \in Nat
      /\ \A n \in 1..Len(p) : SumTo(p, n) = SumTo(p, n - 1) + p[n].amount
      /\ \A n \in 1..Len(c) : SumTo(c, n) = SumTo(c, n - 1) + c[n].amount
      /\ \A n \in 0..Len(c) : SumTo(c, n) \in Nat
  BY <1>1, SharesPriced, SumToSteps
<1>3. /\ Len(c) \in Nat /\ Len(p) \in Nat /\ \A n \in 1..Len(c) : c[n].amount \in Nat
      /\ Amounts(c) = SumTo(c, Len(c)) /\ Amounts(p) = SumTo(p, Len(p))
  BY <1>1, SharesPriced, AmountsOf
<1>4. T = {}
  <2>1. SUFFICES ASSUME T # {} PROVE FALSE
    OBVIOUS
  <2>2. T \subseteq Nat
    BY <1>3
  <2>3. PICK n \in T : \A m \in T : n <= m
    <3> HIDE DEF T
    <3> QED
      BY <2>1, <2>2, Least
  <2>4. n # 0
    BY <2>3, <1>1, <1>2
  <2>5. n \in 1..Len(p) /\ n - 1 \in 0..Len(p) /\ n \in 1..Len(c) /\ n - 1 \in 0..Len(c) /\ n <= Len(p)
    BY <1>1, <1>3, <2>3, <2>4
  <2>6. SumTo(p, n - 1) = least(SumTo(c, n - 1))
    <3>1. n - 1 \notin T
      BY <2>3, <2>5
    <3> QED
      BY <2>5, <3>1
  <2>7. SumTo(c, n - 1) < g /\ SumTo(c, n - 1) \in Nat /\ c[n].amount \in Nat
    BY <1>1, <1>2, <1>3, <2>5
  <2>8. SumTo(p, n - 1) = SumTo(c, n - 1)
    BY <1>1, <2>6, <2>7
  <2>9. SumTo(p, n) = SumTo(p, n - 1) + p[n].amount /\ SumTo(c, n) = SumTo(c, n - 1) + c[n].amount
    BY <1>2, <2>5
  <2>10. p[n].amount = IF c[n].amount > g - SumTo(c, n - 1) THEN g - SumTo(c, n - 1) ELSE c[n].amount
    BY <1>1, <2>5
  <2>11. SumTo(p, n) = least(SumTo(c, n))
    BY <1>1, <2>7, <2>8, <2>9, <2>10
  <2> QED
    BY <2>3, <2>11
<1>5. \A i \in 0..Len(p) : SumTo(p, i) = least(SumTo(c, i))
  BY <1>4
<1>6. Amounts(p) = least(Amounts(c))
  <2>1. Amounts(p) = least(SumTo(c, Len(p)))
    BY <1>3, <1>5
  <2>2. CASE Len(p) = Len(c)
    BY <1>3, <2>1, <2>2
  <2>3. CASE Len(p) # Len(c)
    <3>1. Len(p) + 1 \in 1..Len(c) /\ Len(p) \in 0..Len(c)
      BY <1>1, <1>3, <2>3
    <3>2. ~(Len(p) + 1 <= Len(p)) /\ (Len(p) + 1) - 1 = Len(p)
      BY <1>3
    <3>3. ~(SumTo(c, Len(p)) < g)
      BY <1>1, <3>1, <3>2
    <3>4. SumTo(c, Len(p)) <= SumTo(c, Len(c))
      <4>1. Len(p) <= Len(c) /\ Len(c) \in 0..Len(c)
        BY <1>3, <3>1
      <4> QED
        BY <3>1, <4>1, SumToGrows
    <3> QED
      BY <1>1, <1>2, <1>3, <2>1, <3>1, <3>3, <3>4
  <2> QED
    BY <2>2, <2>3
<1> QED
  BY <1>5, <1>6 DEF p, g

(* A charge taken later leaves the parts already laid out as they were. *)
LEMMA PartsGrow ==
  ASSUME NEW S, Priced(S), NEW c \in Seq(S), NEW x \in S, NEW t \in Int, t <= Amounts(c)
  PROVE  /\ Len(Parts(c, t)) <= Len(Parts(Append(c, x), t))
         /\ \A i \in 1..Len(Parts(c, t)) : Parts(Append(c, x), t)[i] = Parts(c, t)[i]
<1> DEFINE d == Append(c, x)
           p == Parts(c, t)
           q == Parts(d, t)
           g == Sought(c, t)
           h == Sought(d, t)
<1>1. /\ d \in Seq(S) /\ Len(d) = Len(c) + 1 /\ Len(c) \in Nat
      /\ \A i \in 1..Len(c) : d[i] = c[i]
  OBVIOUS
<1>2. Amounts(d) = Amounts(c) + x.amount /\ Amounts(c) \in Nat /\ x.amount \in Nat
  BY AmountsAppend, SumToSteps DEF Priced
<1> HIDE DEF d
<1>3. /\ g \in Nat /\ p \in Seq(Shares(S)) /\ Len(p) \in 0..Len(c)
      /\ \A i \in 1..Len(c) : i <= Len(p) <=> SumTo(c, i - 1) < g
      /\ \A i \in 1..Len(p) :
           /\ p[i].id = c[i].id
           /\ p[i].amount = IF c[i].amount > g - SumTo(c, i - 1)
                            THEN g - SumTo(c, i - 1) ELSE c[i].amount
  BY PartsAre
<1>4. /\ h \in Nat /\ q \in Seq(Shares(S)) /\ Len(q) \in 0..Len(d)
      /\ \A i \in 1..Len(d) : i <= Len(q) <=> SumTo(d, i - 1) < h
      /\ \A i \in 1..Len(q) :
           /\ q[i].id = d[i].id
           /\ q[i].amount = IF d[i].amount > h - SumTo(d, i - 1)
                            THEN h - SumTo(d, i - 1) ELSE d[i].amount
  BY <1>1, PartsAre
<1>5. g <= h /\ (g # h => g = Amounts(c))
  BY <1>2 DEF g, h, Sought
<1> HIDE DEF p, q, g, h
<1>6. ASSUME NEW i \in 1..Len(p)
      PROVE  i <= Len(q) /\ q[i] = p[i]
  <2>1. i \in 1..Len(c) /\ i \in 1..Len(d) /\ i <= Len(p) /\ i - 1 \in 0..Len(c) /\ i - 1 <= Len(d) /\ i \in 0..Len(c)
    BY <1>1, <1>3
  <2>2. SumTo(c, i - 1) = SumTo(d, i - 1)
    <3>1. \A j \in 1..(i - 1) : c[j].amount = d[j].amount
      BY <1>1, <2>1
    <3> QED
      BY <1>1, <2>1, <3>1, SumToSame
  <2>3. SumTo(c, i - 1) < g /\ SumTo(c, i - 1) \in Nat /\ SumTo(c, i) \in Nat
    BY <1>3, <2>1, SumToSteps
  <2>4. i <= Len(q)
    BY <1>3, <1>4, <1>5, <2>1, <2>2, <2>3
  <2>5. d[i] = c[i] /\ c[i].amount \in Nat
    BY <1>1, <2>1, AmountsOf
  <2>6. SumTo(c, i) = SumTo(c, i - 1) + c[i].amount /\ SumTo(c, i) <= Amounts(c)
    <3>1. Len(c) \in 0..Len(c) /\ i <= Len(c)
      BY <1>1, <2>1
    <3> QED
      BY <2>1, <3>1, SumToSteps, SumToGrows, AmountsOf
  <2>7. i \in 1..Len(q)
    BY <1>4, <2>1, <2>4
  <2>8. p[i].id = q[i].id /\ p[i].amount = q[i].amount
    <3>1. p[i].amount = IF c[i].amount > g - SumTo(c, i - 1) THEN g - SumTo(c, i - 1) ELSE c[i].amount
      BY <1>3
    <3>2. q[i].amount = IF c[i].amount > h - SumTo(c, i - 1) THEN h - SumTo(c, i - 1) ELSE c[i].amount
      BY <1>4, <2>2, <2>5, <2>7
    <3>3. p[i].amount = q[i].amount
      <4>1. CASE g = h
        BY <3>1, <3>2, <4>1
      <4>2. CASE g # h
        <5>1. g \in Nat /\ h \in Nat /\ g <= h /\ g = Amounts(c)
          BY <1>3, <1>4, <1>5, <4>2
        <5>2. g - SumTo(c, i - 1) >= c[i].amount /\ h - SumTo(c, i - 1) >= c[i].amount
          BY <2>3, <2>5, <2>6, <5>1, SMTT(30)
        <5>3. p[i].amount = c[i].amount
          BY <2>3, <2>5, <3>1, <5>1, <5>2
        <5>4. q[i].amount = c[i].amount
          BY <2>3, <2>5, <3>2, <5>1, <5>2
        <5> QED
          BY <5>3, <5>4
      <4> QED
        BY <4>1, <4>2
    <3> QED
      BY <1>3, <1>4, <2>5, <2>7, <3>3
  <2>9. p[i] \in Shares(S) /\ q[i] \in Shares(S)
    BY <1>3, <1>4, <2>7
  <2> QED
    BY <2>4, <2>8, <2>9 DEF Shares
<1>7. Len(p) <= Len(q)
  <2>1. CASE Len(p) = 0
    BY <1>3, <1>4, <2>1
  <2>2. CASE Len(p) # 0
    <3>1. Len(p) \in 1..Len(p)
      BY <1>3, <2>2
    <3> QED
      BY <1>6, <3>1
  <2> QED
    BY <2>1, <2>2
<1> QED
  BY <1>6, <1>7 DEF p, q, d

(* A retry: when what went back is the first parts in order, what is planned *)
(* is the parts that follow.                                               *)
LEMMA AllocateRest ==
  ASSUME NEW S, Priced(S), NEW rows \in Seq(S), NEW t \in Int,
         LET p == Parts(ChargeRows(rows), t)
             r == RefundRows(rows)
         IN  Len(r) <= Len(p) /\ \A n \in 1..Len(r) : r[n].amount = p[n].amount
  PROVE  LET p == Parts(ChargeRows(rows), t)
         IN  Allocate(rows, t) = SubSeq(p, Len(RefundRows(rows)) + 1, Len(p))
<1> DEFINE c == ChargeRows(rows)
           r == RefundRows(rows)
           p == Parts(c, t)
           like(s, n, a) == {i \in 1..n : s[i].amount = a}
           same(s, n, a) == Cardinality(like(s, n, a))
           done(i) == same(p, i - 1, p[i].amount) < same(r, Len(r), p[i].amount)
<1>1. Charges(rows) \in SUBSET (1..Len(rows)) /\ Refunds(rows) \in SUBSET (1..Len(rows))
  BY DEF Charges, Refunds
<1>2. c \in Seq(S) /\ r \in Seq(S) /\ Len(r) \in Nat
  BY <1>1, AtIndicesType DEF ChargeRows, RefundRows
<1>3. p \in Seq(Shares(S)) /\ Len(p) \in Nat
  BY <1>2, PartsAre
<1>4. Allocate(rows, t) = AtIndices(p, {i \in 1..Len(p) : ~done(i)})
  <2>1. DOMAIN p = 1..Len(p)
    BY <1>3
  <2> QED
    BY <2>1 DEF Allocate
<1>5. Len(r) <= Len(p) /\ \A n \in 1..Len(r) : r[n].amount = p[n].amount
  OBVIOUS
<1> HIDE DEF p, r, c
<1>6. \A a : like(r, Len(r), a) = like(p, Len(r), a)
  BY <1>5
<1>7. \A a : \A n \in Nat : IsFiniteSet(like(p, n, a)) /\ same(p, n, a) \in Nat
  <2> SUFFICES ASSUME NEW a, NEW n \in Nat PROVE IsFiniteSet(like(p, n, a))
    BY FS_CardinalityType
  <2>1. like(p, n, a) \in SUBSET (1..n)
    OBVIOUS
  <2> HIDE DEF like
  <2> QED
    BY <2>1, PlaceIsCount
<1>8. ASSUME NEW i \in 1..Len(p)
      PROVE  ~done(i) <=> i >= Len(r) + 1
  <2> DEFINE a == p[i].amount
  <2>1. i - 1 \in Nat /\ i \in Nat
    BY <1>3
  <2>2. same(p, i - 1, a) \in Nat /\ same(p, Len(r), a) \in Nat
    BY <1>2, <1>7, <2>1
  <2>3. CASE i <= Len(r)
    <3>1. like(p, i - 1, a) \in SUBSET like(p, Len(r), a)
      BY <1>2, <2>1, <2>3
    <3>2. i \in like(p, Len(r), a) /\ i \notin like(p, i - 1, a)
      BY <1>2, <2>1, <2>3
    <3>3. IsFiniteSet(like(p, Len(r), a))
      BY <1>2, <1>7
    <3> HIDE DEF like
    <3>4. same(p, i - 1, a) < same(p, Len(r), a)
      BY <2>2, <3>1, <3>2, <3>3, FS_Subset
    <3> QED
      BY <1>2, <1>6, <2>1, <2>3, <3>4
  <2>4. CASE i >= Len(r) + 1
    <3>1. like(p, Len(r), a) \in SUBSET like(p, i - 1, a)
      BY <1>2, <2>1, <2>4
    <3>2. IsFiniteSet(like(p, i - 1, a))
      BY <1>7, <2>1
    <3> HIDE DEF like
    <3>3. same(p, Len(r), a) <= same(p, i - 1, a)
      BY <3>1, <3>2, FS_Subset
    <3> QED
      BY <1>6, <2>2, <2>4, <3>3
  <2> QED
    BY <1>2, <2>1, <2>3, <2>4
<1>9. {i \in 1..Len(p) : ~done(i)} = (Len(r) + 1)..Len(p)
  <2> HIDE DEF done
  <2>1. \A i \in 1..Len(p) : i \in Nat
    BY <1>3
  <2>2. \A i \in (Len(r) + 1)..Len(p) : i \in 1..Len(p) /\ i >= Len(r) + 1
    BY <1>2, <1>3
  <2>3. \A i \in 1..Len(p) : i >= Len(r) + 1 => i \in (Len(r) + 1)..Len(p)
    BY <1>2, <1>3
  <2> QED
    BY <1>8, <2>2, <2>3
<1>10. AtIndices(p, (Len(r) + 1)..Len(p)) = SubSeq(p, Len(r) + 1, Len(p))
  <2>1. Len(r) \in 0..Len(p)
    BY <1>2, <1>3, <1>5
  <2> QED
    BY <1>3, <2>1, AtIndicesTail
<1> QED
  BY <1>4, <1>9, <1>10 DEF p, r, c

-----------------------------------------------------------------------------
(* The ledger of a booking.                                                *)

(* What was charged and what went back, as lists of rows. *)
LEMMA LedgerSums ==
  ASSUME NEW S, Priced(S), NEW rows \in Seq(S)
  PROVE  /\ ChargeRows(rows) \in Seq(S) /\ RefundRows(rows) \in Seq(S)
         /\ Charged(rows) = Amounts(ChargeRows(rows)) /\ Charged(rows) \in Nat
         /\ Refunded(rows) = Amounts(RefundRows(rows)) /\ Refunded(rows) \in Nat
<1>1. Charges(rows) \in SUBSET (1..Len(rows)) /\ Refunds(rows) \in SUBSET (1..Len(rows))
  BY DEF Charges, Refunds
<1>2. ChargeRows(rows) \in Seq(S) /\ RefundRows(rows) \in Seq(S)
  BY <1>1, AtIndicesType DEF ChargeRows, RefundRows
<1>3. Charged(rows) = Amounts(ChargeRows(rows)) /\ Refunded(rows) = Amounts(RefundRows(rows))
  BY <1>1, AmountsKept DEF Charged, Refunded, ChargeRows, RefundRows
<1> QED
  BY <1>2, <1>3, SumToSteps

(* A row written at the end joins the list it belongs to, at its end. *)
LEMMA LedgerAppend ==
  ASSUME NEW S, NEW rows \in Seq(S), NEW x \in S
  PROVE  /\ ChargeRows(Append(rows, x)) =
              IF x.status = "succeeded" /\ x.kind # "refund"
              THEN Append(ChargeRows(rows), x) ELSE ChargeRows(rows)
         /\ RefundRows(Append(rows, x)) =
              IF x.status = "succeeded" /\ x.kind = "refund"
              THEN Append(RefundRows(rows), x) ELSE RefundRows(rows)
<1> DEFINE more == Append(rows, x)
           k == Len(rows) + 1
<1>1. /\ Len(rows) \in Nat /\ more \in Seq(S) /\ Len(more) = k /\ k \in 1..k /\ more[k] = x
      /\ DOMAIN rows = 1..Len(rows) /\ DOMAIN more = 1..k
      /\ \A i \in 1..Len(rows) : more[i] = rows[i] /\ i \in 1..k /\ i < k
      /\ \A i \in 1..k : i \in 1..Len(rows) \/ i = k
      /\ k \notin 1..Len(rows)
  OBVIOUS
<1> HIDE DEF more, k
<1>2. Charges(more) = IF x.status = "succeeded" /\ x.kind # "refund"
                      THEN Charges(rows) \union {k} ELSE Charges(rows)
  BY <1>1 DEF Charges
<1>3. Refunds(more) = IF x.status = "succeeded" /\ x.kind = "refund"
                      THEN Refunds(rows) \union {k} ELSE Refunds(rows)
  BY <1>1 DEF Refunds
<1>4. ASSUME NEW K \in SUBSET (1..Len(rows))
      PROVE  /\ AtIndices(more, K) = AtIndices(rows, K)
             /\ AtIndices(more, K \union {k}) = Append(AtIndices(rows, K), x)
  <2>1. AtIndices(more, K) = AtIndices(rows, K)
    <3>1. \A i \in K : more[i] = rows[i]
      BY <1>1
    <3> QED
      BY <1>1, <3>1, AtIndicesSame
  <2>2. AtIndices(more, K \union {k}) = Append(AtIndices(more, K), more[k])
    <3>1. K \in SUBSET (1..Len(more)) /\ k \in 1..Len(more) /\ \A i \in K : i < k
      BY <1>1
    <3> QED
      BY <1>1, <3>1, AtIndicesLast
  <2> QED
    BY <1>1, <2>1, <2>2
<1>5. Charges(rows) \in SUBSET (1..Len(rows)) /\ Refunds(rows) \in SUBSET (1..Len(rows))
  BY <1>1 DEF Charges, Refunds
<1> QED
  BY <1>2, <1>3, <1>4, <1>5 DEF ChargeRows, RefundRows, more

-----------------------------------------------------------------------------

(* Rounding up never loses to the exact product, and is less than one cent *)
(* above it.                                                               *)
LEMMA CeilBounds ==
  ASSUME NEW base \in Nat, NEW rate \in Nat
  PROVE  /\ ceilScaled(base, rate) \in Nat
         /\ RateScale * ceilScaled(base, rate) >= base * rate
         /\ RateScale * ceilScaled(base, rate) < base * rate + RateScale
<1> DEFINE p == base * rate
<1>1. p \in Nat
  OBVIOUS
<1>2. \A n \in Nat : LET c == (n + RateScale - 1) \div RateScale
                     IN  c \in Nat /\ RateScale * c >= n /\ RateScale * c < n + RateScale
  BY ScaleAssumption, SMTT(30)
<1> QED
  BY <1>1, <1>2 DEF ceilScaled

(* Compute: the deposit and the balance of a quote are its total, and the  *)
(* deposit is the larger half by at most a cent.                           *)
THEOREM SplitIsExact ==
  ASSUME NEW total \in Nat
  PROVE  /\ QuoteOf(total).deposit \in Nat /\ QuoteOf(total).balance \in Nat
         /\ QuoteOf(total).deposit + QuoteOf(total).balance = QuoteOf(total).total
         /\ QuoteOf(total).deposit - QuoteOf(total).balance \in {0, 1}
BY DEF QuoteOf, halfRoundedUp

(* Refund: what goes back is never negative and never more than was         *)
(* collected.                                                               *)
THEOREM RefundBounded ==
  ASSUME NEW total \in Nat, NEW paid \in Nat, NEW late \in BOOLEAN, NEW rate \in Nat
  PROVE  Refund(QuoteOf(total), paid, late, rate) \in 0..paid
<1>1. ProcessingFee(paid, rate) \in Nat
  BY CeilBounds DEF ProcessingFee
<1>2. Penalty(QuoteOf(total), late) \in Nat
  BY SplitIsExact DEF Penalty
<1> QED
  BY <1>1, <1>2 DEF Refund, Retained

(* ProcessingFee: "the inn is never short": while the rate is at most 100%, *)
(* what is kept of a cancelled stay covers the processor's cut.             *)
THEOREM KeepsTheFee ==
  ASSUME NEW total \in Nat, NEW paid \in Nat, NEW late \in BOOLEAN,
         NEW rate \in 0..RateScale
  PROVE  RateScale * (paid - Refund(QuoteOf(total), paid, late, rate)) >= paid * rate
<1> DEFINE fee == ProcessingFee(paid, rate)
           refund == Refund(QuoteOf(total), paid, late, rate)
<1>1. rate \in Nat
  BY ScaleAssumption
<1>2. fee \in Nat /\ RateScale * fee >= paid * rate
  <2>1. CASE paid = 0 \/ rate = 0
    BY <2>1, <1>1, ScaleAssumption DEF ProcessingFee
  <2>2. CASE paid > 0 /\ rate > 0
    <3>1. fee = ceilScaled(paid, rate)
      BY <2>2, <1>1 DEF ProcessingFee
    <3> HIDE DEF fee
    <3> QED
      BY <3>1, <1>1, CeilBounds
  <2> QED
    BY <1>1, <2>1, <2>2
<1>3. paid * rate <= RateScale * paid
  BY <1>1, ScaleAssumption
<1>4. Penalty(QuoteOf(total), late) \in Nat
  BY SplitIsExact DEF Penalty
<1>5. refund \in 0..paid
  BY <1>1, RefundBounded
<1>6. refund = 0 \/ paid - refund >= fee
  BY <1>2, <1>4 DEF Refund, Retained
<1>7. CASE refund = 0
  BY <1>1, <1>3, <1>7, ScaleAssumption
<1>8. CASE paid - refund >= fee
  <2>1. \A x, y \in Nat : x >= y => RateScale * x >= RateScale * y
    BY ScaleAssumption
  <2>2. paid - refund \in Nat
    BY <1>5
  <2>3. RateScale * (paid - refund) >= RateScale * fee
    BY <1>2, <1>8, <2>1, <2>2
  <2> QED
    BY <1>1, <1>2, <1>5, <2>2, <2>3, ScaleAssumption
<1> QED
  BY <1>6, <1>7, <1>8

(* A balance put off at booking still has the day before its charge ahead   *)
(* of it, the day the guest is warned.                                      *)
THEOREM ScheduledIsAhead ==
  ASSUME NEW today \in Int, NEW checkin \in Int, ~IsShortNotice(today, checkin)
  PROVE  BalanceChargeDate(checkin) - 1 >= today
BY LeadAssumption DEF IsShortNotice, BalanceChargeDate
=============================================================================
