----------------------------- MODULE SumTheorems -----------------------------
(***************************************************************************)
(* Facts about SumOf, proved from the library theorems on cardinalities,   *)
(* and about the numbers, products and intervals that the sums need.       *)
(***************************************************************************)
EXTENDS Sums, FiniteSetTheorems, FunctionTheorems,
        WellFoundedInduction, TLAPS

(***************************************************************************)
(* Every summand contributes as many units as its value.                   *)
(***************************************************************************)
LEMMA UnitsOfOne ==
    ASSUME NEW x, NEW n \in Nat
    PROVE  /\ IsFiniteSet({x} \X (1..n))
           /\ Cardinality({x} \X (1..n)) = n
<1>1. IsFiniteSet({x}) /\ Cardinality({x}) = 1
  BY FS_Singleton
<1>2. IsFiniteSet(1..n) /\ Cardinality(1..n) = n
  <2>1. n \in Int /\ 1 \in Int
    OBVIOUS
  <2>2. /\ IsFiniteSet(1..n)
        /\ Cardinality(1..n) = IF 1 > n THEN 0 ELSE n - 1 + 1
    BY <2>1, FS_Interval
  <2>3. QED
    BY <2>2
<1>3. /\ IsFiniteSet({x} \X (1..n))
      /\ Cardinality({x} \X (1..n)) = Cardinality({x}) * Cardinality(1..n)
  BY <1>1, <1>2, FS_Product
<1>4. QED
  BY <1>1, <1>2, <1>3

(***************************************************************************)
(* The sum of a natural-valued function over a finite set is a natural.    *)
(***************************************************************************)
LEMMA SumType ==
    ASSUME NEW S, IsFiniteSet(S), NEW f, \A x \in S : f[x] \in Nat
    PROVE  /\ IsFiniteSet(Units(f, S))
           /\ SumOf(f, S) \in Nat
<1> DEFINE part == [x \in S |-> {x} \X (1..f[x])]
           Parts == {{x} \X (1..f[x]) : x \in S}
<1>1. part \in Surjection(S, Parts)
  BY DEF Surjection
<1>2. IsFiniteSet(Parts)
  BY <1>1, FS_Surjection
<1>3. ASSUME NEW P \in Parts
      PROVE  IsFiniteSet(P)
  <2>1. PICK x \in S : P = {x} \X (1..f[x])
    OBVIOUS
  <2>2. f[x] \in Nat
    OBVIOUS
  <2>3. QED
    BY <2>1, <2>2, UnitsOfOne
<1>4. IsFiniteSet(UNION Parts)
  BY <1>2, <1>3, FS_UNION
<1>5. QED
  BY <1>4, FS_CardinalityType DEF Units, SumOf

LEMMA SumEmpty ==
    ASSUME NEW f
    PROVE  SumOf(f, {}) = 0
BY FS_EmptySet DEF SumOf, Units

LEMMA SumSingleton ==
    ASSUME NEW f, NEW x, f[x] \in Nat
    PROVE  SumOf(f, {x}) = f[x]
<1>1. Units(f, {x}) = {x} \X (1..f[x])
  BY DEF Units
<1>2. QED
  BY <1>1, UnitsOfOne DEF SumOf

(***************************************************************************)
(* Sums depend only on the values of the function on the set.              *)
(***************************************************************************)
LEMMA SumSame ==
    ASSUME NEW S, NEW f, NEW g, \A x \in S : f[x] = g[x]
    PROVE  SumOf(f, S) = SumOf(g, S)
<1>1. Units(f, S) = Units(g, S)
  BY DEF Units
<1>2. QED
  BY <1>1 DEF SumOf

(***************************************************************************)
(* A sum splits over a disjoint union.                                     *)
(***************************************************************************)
LEMMA SumUnion ==
    ASSUME NEW S, IsFiniteSet(S), NEW T, IsFiniteSet(T), S \cap T = {},
           NEW f, \A x \in S \cup T : f[x] \in Nat
    PROVE  SumOf(f, S \cup T) = SumOf(f, S) + SumOf(f, T)
<1>1. /\ IsFiniteSet(Units(f, S)) /\ SumOf(f, S) \in Nat
      /\ IsFiniteSet(Units(f, T)) /\ SumOf(f, T) \in Nat
  BY SumType
<1>2. Units(f, S \cup T) = Units(f, S) \cup Units(f, T)
  BY DEF Units
<1>3. Units(f, S) \cap Units(f, T) = {}
  BY DEF Units
<1>4. Cardinality(Units(f, S) \cup Units(f, T)) =
        Cardinality(Units(f, S)) + Cardinality(Units(f, T))
            - Cardinality(Units(f, S) \cap Units(f, T))
  BY <1>1, FS_Union
<1>5. Cardinality(Units(f, S) \cap Units(f, T)) = 0
  BY <1>3, FS_EmptySet
<1>6. /\ SumOf(f, S \cup T) = Cardinality(Units(f, S) \cup Units(f, T))
      /\ SumOf(f, S) = Cardinality(Units(f, S))
      /\ SumOf(f, T) = Cardinality(Units(f, T))
  BY <1>2 DEF SumOf
<1>7. QED
  BY <1>1, <1>4, <1>5, <1>6

(***************************************************************************)
(* Changing one summand changes the sum by the difference.                 *)
(***************************************************************************)
LEMMA SumUpdate ==
    ASSUME NEW S, IsFiniteSet(S), NEW x \in S, NEW f, NEW g,
           \A y \in S : f[y] \in Nat /\ g[y] \in Nat,
           \A y \in S \ {x} : f[y] = g[y]
    PROVE  SumOf(g, S) + f[x] = SumOf(f, S) + g[x]
<1> DEFINE rest == S \ {x}
<1>1. S = rest \cup {x} /\ rest \cap {x} = {}
  OBVIOUS
<1>2. IsFiniteSet(rest) /\ IsFiniteSet({x})
  BY FS_RemoveElement, FS_Singleton
<1>3. SumOf(f, rest) = SumOf(g, rest)
  BY SumSame
<1>4. SumOf(f, {x}) = f[x] /\ SumOf(g, {x}) = g[x]
  BY SumSingleton
<1>5. SumOf(f, rest \cup {x}) = SumOf(f, rest) + SumOf(f, {x})
  BY <1>1, <1>2, SumUnion
<1>6. SumOf(g, rest \cup {x}) = SumOf(g, rest) + SumOf(g, {x})
  BY <1>1, <1>2, SumUnion
<1>7. SumOf(f, rest) \in Nat
  BY <1>2, SumType
<1>8. f[x] \in Nat /\ g[x] \in Nat
  OBVIOUS
<1>9. SumOf(f, S) = SumOf(f, rest) + f[x] /\ SumOf(g, S) = SumOf(f, rest) + g[x]
  BY <1>1, <1>3, <1>4, <1>5, <1>6
<1>10. QED
  BY <1>7, <1>8, <1>9

(***************************************************************************)
(* Induction over the subsets of a finite set, stated with a set F of sets *)
(* in place of a predicate.  A smallest subset outside F cannot exist.     *)
(***************************************************************************)
LEMMA SubsetInduction ==
    ASSUME NEW S, IsFiniteSet(S), NEW F, {} \in F,
           \A T \in SUBSET S : \A x \in S \ T : T \in F => T \cup {x} \in F
    PROVE  S \in F
<1> DEFINE Bad == (SUBSET S) \ F
<1> SUFFICES ASSUME Bad # {} PROVE FALSE
  OBVIOUS
<1>1. IsWellFoundedOn(StrictSubsetOrdering(S), SUBSET S)
  BY FS_StrictSubsetOrderingWellFounded, FS_FiniteSubsetsOfFinite
<1>2. PICK T \in Bad : \A U \in Bad : ~ (<<U, T>> \in StrictSubsetOrdering(S))
  BY <1>1, WFMin
<1>3. PICK x \in S : x \in T
  BY <1>2
<1>4. T \ {x} \notin Bad
  BY <1>2, <1>3 DEF StrictSubsetOrdering
<1>5. (T \ {x}) \cup {x} \in F
  BY <1>3, <1>4
<1>6. (T \ {x}) \cup {x} = T
  BY <1>3
<1>7. QED
  BY <1>5, <1>6

(***************************************************************************)
(* From one number to the next, up to a bound; for any set of numbers.     *)
(***************************************************************************)
LEMMA IntervalInduction ==
    ASSUME NEW N \in Nat, NEW F, 0 \in F,
           \A n \in 0..(N - 1) : n \in F => n + 1 \in F
    PROVE  \A n \in 0..N : n \in F
<1> DEFINE Bad == (0..N) \ F
           Least == {T \in SUBSET Bad : T = {} \/ \E m \in T : \A x \in T : m <= x}
<1>1. IsFiniteSet(Bad)
  <2>1. IsFiniteSet(0..N)
    BY FS_Interval
  <2>2. QED
    BY <2>1, FS_Subset
<1>2. {} \in Least
  OBVIOUS
<1>3. ASSUME NEW T \in SUBSET Bad, NEW x \in Bad \ T, T \in Least
      PROVE  T \cup {x} \in Least
  <2>1. T \cup {x} \in SUBSET Bad /\ \A y \in Bad : y \in Int
    BY <1>3
  <2>2. CASE T = {}
    BY <2>1, <2>2
  <2>3. CASE T # {}
    <3>1. PICK m \in T : \A y \in T : m <= y
      BY <1>3, <2>3
    <3>2. CASE m <= x
      BY <2>1, <3>1, <3>2
    <3>3. CASE ~(m <= x)
      BY <2>1, <3>1, <3>3, <1>3
    <3>4. QED
      BY <3>2, <3>3
  <2>4. QED
    BY <2>2, <2>3
<1>4. Bad \in Least
  <2> HIDE DEF Bad, Least
  <2>1. QED
    BY <1>1, <1>2, <1>3, SubsetInduction
<1>5. ASSUME NEW m \in Bad, \A x \in Bad : m <= x PROVE FALSE
  <2>1. m # 0 /\ m \in 0..N
    BY <1>5
  <2>2. m - 1 \in 0..(N - 1) /\ m - 1 \in F
    BY <1>5, <2>1
  <2>3. (m - 1) + 1 = m
    BY <2>1
  <2>4. QED
    BY <1>5, <2>2, <2>3
<1>6. QED
  BY <1>4, <1>5

(***************************************************************************)
(* The sum of a pointwise sum.                                             *)
(***************************************************************************)
LEMMA SumPlus ==
    ASSUME NEW S, IsFiniteSet(S), NEW f, NEW g, NEW h,
           \A x \in S : f[x] \in Nat /\ g[x] \in Nat /\ h[x] = f[x] + g[x]
    PROVE  SumOf(h, S) = SumOf(f, S) + SumOf(g, S)
<1> DEFINE F == {T \in SUBSET S : SumOf(h, T) = SumOf(f, T) + SumOf(g, T)}
<1>1. {} \in F
  BY SumEmpty
<1>2. ASSUME NEW T \in SUBSET S, NEW x \in S \ T, T \in F
      PROVE  T \cup {x} \in F
  <2>1. IsFiniteSet(T) /\ IsFiniteSet({x}) /\ T \cap {x} = {}
    BY FS_Subset, FS_Singleton
  <2>2. f[x] \in Nat /\ g[x] \in Nat /\ h[x] \in Nat /\ h[x] = f[x] + g[x]
    OBVIOUS
  <2>3. \A y \in T \cup {x} : f[y] \in Nat /\ g[y] \in Nat /\ h[y] \in Nat
    OBVIOUS
  <2>4. SumOf(f, T) \in Nat /\ SumOf(g, T) \in Nat /\ SumOf(h, T) = SumOf(f, T) + SumOf(g, T)
    BY <1>2, <2>1, <2>3, SumType
  <2>5. SumOf(f, {x}) = f[x] /\ SumOf(g, {x}) = g[x] /\ SumOf(h, {x}) = h[x]
    BY <2>2, SumSingleton
  <2>6. /\ SumOf(f, T \cup {x}) = SumOf(f, T) + f[x]
        /\ SumOf(g, T \cup {x}) = SumOf(g, T) + g[x]
        /\ SumOf(h, T \cup {x}) = SumOf(h, T) + h[x]
    BY <2>1, <2>3, <2>5, SumUnion
  <2>7. SumOf(h, T \cup {x}) = SumOf(f, T \cup {x}) + SumOf(g, T \cup {x})
    BY <2>2, <2>4, <2>6
  <2>8. QED
    BY <2>7
<1>3. S \in F
  <2> HIDE DEF F
  <2>1. QED
    BY <1>1, <1>2, SubsetInduction
<1>4. QED
  BY <1>3

(***************************************************************************)
(* Larger summands give a larger sum.                                      *)
(***************************************************************************)
LEMMA SumMonotone ==
    ASSUME NEW S, IsFiniteSet(S), NEW f, NEW g,
           \A x \in S : f[x] \in Nat /\ g[x] \in Nat /\ f[x] <= g[x]
    PROVE  SumOf(f, S) <= SumOf(g, S)
<1> DEFINE rest == [x \in S |-> g[x] - f[x]]
<1>1. \A x \in S : rest[x] \in Nat /\ g[x] = f[x] + rest[x]
  OBVIOUS
<1>2. SumOf(f, S) \in Nat /\ SumOf(rest, S) \in Nat
  BY <1>1, SumType
<1>3. SumOf(g, S) = SumOf(f, S) + SumOf(rest, S)
  <2> HIDE DEF rest
  <2>1. QED
    BY <1>1, SumPlus
<1>4. QED
  BY <1>2, <1>3

(***************************************************************************)
(* Grouping the summands by a key does not change the sum.                 *)
(***************************************************************************)
LEMMA SumByKey ==
    ASSUME NEW I, IsFiniteSet(I), NEW K, IsFiniteSet(K), NEW key \in [I -> K],
           NEW f, \A i \in I : f[i] \in Nat,
           NEW g, \A k \in K : g[k] = SumOf(f, {i \in I : key[i] = k})
    PROVE  SumOf(g, K) = SumOf(f, I)
<1> DEFINE Of(T) == {i \in I : key[i] \in T}
           F == {T \in SUBSET K : SumOf(g, T) = SumOf(f, Of(T))}
<1>1. {} \in F
  <2>1. Of({}) = {}
    OBVIOUS
  <2>2. QED
    BY <2>1, SumEmpty
<1>2. ASSUME NEW T \in SUBSET K, NEW k \in K \ T, T \in F
      PROVE  T \cup {k} \in F
  <2> DEFINE One == {i \in I : key[i] = k}
  <2>1. IsFiniteSet(T) /\ IsFiniteSet({k}) /\ T \cap {k} = {}
    BY FS_Subset, FS_Singleton
  <2>2. Of(T) \in SUBSET I /\ One \in SUBSET I
    OBVIOUS
  <2>3. IsFiniteSet(Of(T)) /\ IsFiniteSet(One)
    BY <2>2, FS_Subset
  <2>4. Of(T \cup {k}) = Of(T) \cup One /\ Of(T) \cap One = {}
    OBVIOUS
  <2>5. SumOf(f, Of(T) \cup One) = SumOf(f, Of(T)) + SumOf(f, One)
    BY <2>3, <2>4, SumUnion
  <2>6. \A j \in K : g[j] \in Nat
    <3>1. SUFFICES ASSUME NEW j \in K PROVE g[j] \in Nat
      OBVIOUS
    <3>2. {i \in I : key[i] = j} \in SUBSET I
      OBVIOUS
    <3>3. IsFiniteSet({i \in I : key[i] = j})
      BY <3>2, FS_Subset
    <3>4. SumOf(f, {i \in I : key[i] = j}) \in Nat
      BY <3>3, SumType
    <3>5. QED
      BY <3>4
  <2>7. SumOf(g, T \cup {k}) = SumOf(g, T) + SumOf(g, {k})
    BY <2>1, <2>6, SumUnion
  <2>8. SumOf(g, {k}) = SumOf(f, One)
    BY <2>6, SumSingleton
  <2>9. SumOf(g, T) = SumOf(f, Of(T))
    BY <1>2
  <2>10. SumOf(g, T \cup {k}) = SumOf(f, Of(T \cup {k}))
    BY <2>4, <2>5, <2>7, <2>8, <2>9
  <2>11. QED
    BY <2>10
<1>3. K \in F
  <2> HIDE DEF F
  <2>1. QED
    BY <1>1, <1>2, SubsetInduction
<1>4. Of(K) = I
  OBVIOUS
<1>5. QED
  BY <1>3, <1>4

(***************************************************************************)
(* A common factor of the summands is a factor of the sum.                 *)
(***************************************************************************)
LEMMA SumScale ==
    ASSUME NEW S, IsFiniteSet(S), NEW k \in Nat, NEW f, NEW g,
           \A x \in S : f[x] \in Nat /\ g[x] = k * f[x]
    PROVE  SumOf(g, S) = k * SumOf(f, S)
<1> DEFINE F == {T \in SUBSET S : SumOf(g, T) = k * SumOf(f, T)}
<1>0. \A x \in S : f[x] \in Nat /\ g[x] \in Nat
  OBVIOUS
<1>1. {} \in F
  BY SumEmpty
<1>2. ASSUME NEW T \in SUBSET S, NEW x \in S \ T, T \in F
      PROVE  T \cup {x} \in F
  <2>1. IsFiniteSet(T) /\ IsFiniteSet({x}) /\ T \cap {x} = {}
    BY FS_Subset, FS_Singleton
  <2>2. \A y \in T \cup {x} : f[y] \in Nat /\ g[y] \in Nat
    BY <1>0
  <2>3. SumOf(f, T) \in Nat /\ SumOf(g, T) = k * SumOf(f, T)
    BY <1>2, <2>1, <2>2, SumType
  <2>4. SumOf(f, {x}) = f[x] /\ SumOf(g, {x}) = g[x] /\ g[x] = k * f[x] /\ f[x] \in Nat
    BY <2>2, SumSingleton
  <2>5. /\ SumOf(f, T \cup {x}) = SumOf(f, T) + f[x]
        /\ SumOf(g, T \cup {x}) = SumOf(g, T) + k * f[x]
    BY <2>1, <2>2, <2>4, SumUnion
  <2>6. k * (SumOf(f, T) + f[x]) = k * SumOf(f, T) + k * f[x]
    BY <2>3, <2>4
  <2>7. SumOf(g, T \cup {x}) = k * SumOf(f, T \cup {x})
    BY <2>3, <2>5, <2>6
  <2>8. QED
    BY <2>7
<1>3. S \in F
  <2> HIDE DEF F
  <2>1. QED
    BY <1>1, <1>2, SubsetInduction
<1>4. QED
  BY <1>3

(***************************************************************************)
(* Elements that count nothing can be left out of a sum.                   *)
(***************************************************************************)
LEMMA SumSupport ==
    ASSUME NEW S, NEW T \in SUBSET S, NEW f, \A x \in S \ T : f[x] = 0
    PROVE  SumOf(f, T) = SumOf(f, S)
<1>1. \A x \in S \ T : 1..f[x] = {}
  OBVIOUS
<1>2. Units(f, S) = Units(f, T)
  BY <1>1 DEF Units
<1>3. QED
  BY <1>2 DEF SumOf

(***************************************************************************)
(* A sum of equal summands is a product.                                   *)
(***************************************************************************)
LEMMA SumConstant ==
    ASSUME NEW S, IsFiniteSet(S), NEW k \in Nat, NEW f, \A x \in S : f[x] = k
    PROVE  SumOf(f, S) = k * Cardinality(S)
<1> DEFINE F == {T \in SUBSET S : SumOf(f, T) = k * Cardinality(T)}
<1>1. {} \in F
  BY SumEmpty, FS_EmptySet
<1>2. ASSUME NEW T \in SUBSET S, NEW x \in S \ T, T \in F
      PROVE  T \cup {x} \in F
  <2>1. IsFiniteSet(T) /\ IsFiniteSet({x}) /\ T \cap {x} = {}
    BY FS_Subset, FS_Singleton
  <2>2. \A y \in T \cup {x} : f[y] \in Nat
    OBVIOUS
  <2>3. SumOf(f, T \cup {x}) = SumOf(f, T) + SumOf(f, {x}) /\ SumOf(f, {x}) = k
    BY <2>1, <2>2, SumUnion, SumSingleton
  <2>4. Cardinality(T \cup {x}) = Cardinality(T) + 1 /\ Cardinality(T) \in Nat
    BY <2>1, FS_AddElement, FS_CardinalityType
  <2>5. SumOf(f, T) = k * Cardinality(T)
    BY <1>2
  <2>6. k * (Cardinality(T) + 1) = k * Cardinality(T) + k
    BY <2>4
  <2>7. QED
    BY <2>3, <2>4, <2>5, <2>6
<1>3. S \in F
  <2> HIDE DEF F
  <2>1. QED
    BY <1>1, <1>2, SubsetInduction
<1>4. QED
  BY <1>3

(***************************************************************************)
(* Products and quotients.                                                 *)
(***************************************************************************)
\* Of two products that are equal, that with the greater factor has the
\* smaller one.
LEMMA EqualProducts ==
    ASSUME NEW x \in Nat, NEW y \in Nat, NEW s \in Nat, NEW t \in Nat,
           s > 0, t >= s, x * t = y * s
    PROVE  x <= y
<1> SUFFICES ASSUME x > y PROVE FALSE
  OBVIOUS
<1>1. PICK d \in Nat : x = y + d /\ d > 0
  <2>1. x - y \in Nat /\ x - y > 0 /\ x = y + (x - y)
    OBVIOUS
  <2>2. QED
    BY <2>1
<1>2. PICK e \in Nat : t = s + e
  <2>1. t - s \in Nat /\ t = s + (t - s)
    OBVIOUS
  <2>2. QED
    BY <2>1
<1>3. x * t = y * s + d * s + y * e + d * e
  BY <1>1, <1>2
<1>4. d * s \in Nat /\ d * s > 0 /\ y * e \in Nat /\ d * e \in Nat /\ y * s \in Nat
  BY <1>1, <1>2
<1>5. QED
  BY <1>3, <1>4

\* A factor of two equal products can be cancelled.
LEMMA Cancel ==
    ASSUME NEW x \in Nat, NEW y \in Nat, NEW k \in Nat, k > 0, x * k = y * k
    PROVE  x = y
<1>1. x <= y
  BY EqualProducts
<1>2. y <= x
  BY EqualProducts
<1>3. QED
  BY <1>1, <1>2

\* A division without remainder.
LEMMA WholeQuotient ==
    ASSUME NEW x \in Nat, NEW k \in Nat, k > 0, x % k = 0
    PROVE  x \div k \in Nat /\ (x \div k) * k = x
OBVIOUS

(***************************************************************************)
(* A function defined by recursion on an interval of numbers exists.       *)
(***************************************************************************)
\* f is the orbit of a under the first k of the functions G, all within D.
Orbit(f, a, k, G, D) ==
    f \in [0..k -> D] /\ \A n \in 0..k : f[n] = IF n = 0 THEN a ELSE G[n][f[n - 1]]

LEMMA OrbitExists ==
    ASSUME NEW D, NEW a \in D, NEW k \in Nat, NEW G \in [1..k -> [D -> D]]
    PROVE  \E f : Orbit(f, a, k, G, D)
<1> DEFINE F == {n \in 0..k : \E f \in [0..n -> D] :
                    \A i \in 0..n : f[i] = IF i = 0 THEN a ELSE G[i][f[i - 1]]}
<1>1. 0 \in F
  <2> DEFINE base == [i \in 0..0 |-> a]
  <2>1. base \in [0..0 -> D] /\ \A i \in 0..0 : base[i] = IF i = 0 THEN a ELSE G[i][base[i - 1]]
    OBVIOUS
  <2> HIDE DEF base
  <2>2. QED
    BY <2>1
<1>2. ASSUME NEW n \in 0..(k - 1), n \in F PROVE n + 1 \in F
  <2>1. PICK f \in [0..n -> D] : \A i \in 0..n : f[i] = IF i = 0 THEN a ELSE G[i][f[i - 1]]
    BY <1>2
  <2>2. n + 1 \in 1..k /\ f[n] \in D
    BY <2>1
  <2> DEFINE g == [i \in 0..(n + 1) |-> IF i <= n THEN f[i] ELSE G[n + 1][f[n]]]
  <2>3. g \in [0..(n + 1) -> D]
    <3>1. G[n + 1][f[n]] \in D
      BY <2>2
    <3>2. \A i \in 0..(n + 1) : i <= n => i \in 0..n
      OBVIOUS
    <3>3. QED
      BY <3>1, <3>2, <2>1
  <2>4. ASSUME NEW i \in 0..(n + 1)
        PROVE  g[i] = IF i = 0 THEN a ELSE G[i][g[i - 1]]
    <3>1. CASE i = n + 1
      BY <3>1
    <3>2. CASE i <= n
      <4>1. i \in 0..n /\ g[i] = f[i] /\ (i # 0 => g[i - 1] = f[i - 1])
        BY <3>2
      <4>2. QED
        BY <4>1, <2>1
    <3>3. QED
      BY <3>1, <3>2
  <2>5. n + 1 \in 0..k
    OBVIOUS
  <2> HIDE DEF g
  <2>6. QED
    BY <2>3, <2>4, <2>5
<1>3. \A n \in 0..k : n \in F
  <2> HIDE DEF F
  <2>1. QED
    BY <1>1, <1>2, IntervalInduction
<1>4. QED
  BY <1>3 DEF Orbit
=============================================================================
