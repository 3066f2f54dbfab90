------------------------------ MODULE SumsProofs ------------------------------
(* The laws of sums, whatever they add up. *)
EXTENDS Sums, FiniteSetTheorems, FunctionTheorems, TLAPS

(* What a sum is, whatever it adds up.  A function is summable if it gives  *)
(* natural numbers to finitely many.                                        *)

Summable(f) == IsFiniteSet(DOMAIN f) /\ f \in [DOMAIN f -> Nat]

LEMMA UnitsOf ==
    ASSUME NEW f, Summable(f), NEW u
    PROVE  u \in Units(f) <=> \E x \in DOMAIN f, n \in Nat : u = <<x, n>> /\ 1 <= n /\ n <= f[x]
<1>1. \A x \in DOMAIN f : f[x] \in Nat BY DEF Summable
<1>2. u \in Units(f) <=> \E x \in DOMAIN f : u \in {x} \X (1 .. f[x]) BY DEF Units
<1> QED BY ONLY <1>1, <1>2

\* The unit n of x.
LEMMA UnitIs ==
    ASSUME NEW f, Summable(f), NEW x, NEW n
    PROVE  <<x, n>> \in Units(f) <=> x \in DOMAIN f /\ n \in Nat /\ 1 <= n /\ n <= f[x]
BY UnitsOf

LEMMA SumType ==
    ASSUME NEW f, Summable(f)
    PROVE  IsFiniteSet(Units(f)) /\ SumOf(f) \in Nat
<1> DEFINE D == DOMAIN f
           g == [x \in D |-> {x} \X (1 .. f[x])]
           S == {{x} \X (1 .. f[x]) : x \in D}
<1>1. g \in Surjection(D, S)
  <2>1. g \in [D -> S] OBVIOUS
  <2>2. \A t \in S : \E x \in D : g[x] = t OBVIOUS
  <2> HIDE DEF g, S, D
  <2> QED BY <2>1, <2>2, Fun_IsSurj
<1>2. IsFiniteSet(D) BY DEF Summable
<1>3. IsFiniteSet(S)
  <2> HIDE DEF g, S, D
  <2> QED BY <1>1, <1>2, FS_Surjection
<1>4. ASSUME NEW x \in D PROVE IsFiniteSet({x} \X (1 .. f[x]))
  <2>1. f[x] \in Int /\ 1 \in Int BY <1>4 DEF Summable
  <2>2. IsFiniteSet(1 .. f[x]) BY ONLY <2>1, FS_Interval
  <2>3. IsFiniteSet({x}) BY FS_Singleton
  <2> QED BY ONLY <2>2, <2>3, FS_Product
<1>5. \A T \in S : IsFiniteSet(T) BY <1>4
<1>6. Units(f) = UNION S BY DEF Units
<1>7. IsFiniteSet(Units(f))
  <2> HIDE DEF S
  <2> QED BY <1>3, <1>5, <1>6, FS_UNION
<1> QED BY <1>7, FS_CardinalityType DEF SumOf

LEMMA SumEmpty == ASSUME NEW f, DOMAIN f = {} PROVE SumOf(f) = 0
<1>1. Units(f) = {} BY DEF Units
<1> QED BY <1>1, FS_EmptySet DEF SumOf

LEMMA SumOne ==
    ASSUME NEW f, NEW x, DOMAIN f = {x}, f[x] \in Nat
    PROVE  SumOf(f) = f[x]
<1>1. Units(f) = {x} \X (1 .. f[x]) BY DEF Units
<1>2. IsFiniteSet(1 .. f[x]) /\ Cardinality(1 .. f[x]) = f[x] BY FS_Interval
<1>3. IsFiniteSet({x}) /\ Cardinality({x}) = 1 BY FS_Singleton
<1>4. Cardinality({x} \X (1 .. f[x])) = Cardinality({x}) * Cardinality(1 .. f[x])
  BY ONLY <1>2, <1>3, FS_Product
<1> QED BY <1>1, <1>2, <1>3, <1>4 DEF SumOf

\* A sum falls apart as its domain does.
LEMMA SumSplit ==
    ASSUME NEW f, NEW g, NEW h, Summable(f), Summable(g), Summable(h),
           DOMAIN f = DOMAIN g \cup DOMAIN h, DOMAIN g \cap DOMAIN h = {},
           \A x \in DOMAIN g : f[x] = g[x], \A x \in DOMAIN h : f[x] = h[x]
    PROVE  SumOf(f) = SumOf(g) + SumOf(h)
<1>1. Units(f) = Units(g) \cup Units(h)
  <2>1. ASSUME NEW u \in Units(f) PROVE u \in Units(g) \cup Units(h) BY <2>1, UnitsOf
  <2>2. ASSUME NEW u \in Units(g) \cup Units(h) PROVE u \in Units(f) BY <2>2, UnitsOf
  <2> QED BY <2>1, <2>2
<1>2. Units(g) \cap Units(h) = {}
  <2> SUFFICES ASSUME NEW u, u \in Units(g), u \in Units(h) PROVE FALSE OBVIOUS
  <2> QED BY UnitsOf
<1>3. IsFiniteSet(Units(g)) /\ IsFiniteSet(Units(h)) BY SumType
<1>4. Cardinality(Units(g)) \in Nat /\ Cardinality(Units(h)) \in Nat BY <1>3, FS_CardinalityType
<1>5. Cardinality(Units(g) \cap Units(h)) = 0 BY <1>2, FS_EmptySet
<1>6. Cardinality(Units(g) \cup Units(h))
        = Cardinality(Units(g)) + Cardinality(Units(h)) - Cardinality(Units(g) \cap Units(h))
  BY <1>3, FS_Union
<1> QED BY <1>1, <1>4, <1>5, <1>6 DEF SumOf

\* Values that go one to one to equal ones, of a larger domain, add up to no more.
LEMMA SumInto ==
    ASSUME NEW f, NEW g, NEW h \in [DOMAIN f -> DOMAIN g], Summable(f), Summable(g),
           \A x, y \in DOMAIN f : h[x] = h[y] => x = y,
           \A x \in DOMAIN f : f[x] <= g[h[x]]
    PROVE  SumOf(f) <= SumOf(g)
<1> DEFINE m == [u \in Units(f) |-> <<h[u[1]], u[2]>>]
<1>1. ASSUME NEW u \in Units(f)
      PROVE  /\ u = <<u[1], u[2]>> /\ u[1] \in DOMAIN f /\ u[2] \in Nat
             /\ m[u] \in Units(g) /\ m[u] = <<h[u[1]], u[2]>>
  <2>1. PICK x \in DOMAIN f, n \in Nat : u = <<x, n>> /\ 1 <= n /\ n <= f[x] BY <1>1, UnitsOf
  <2>2. h[x] \in DOMAIN g /\ f[x] <= g[h[x]] /\ f[x] \in Nat /\ g[h[x]] \in Nat
    BY <2>1 DEF Summable
  <2>3. <<h[x], n>> \in Units(g)
    <3>1. n <= g[h[x]] BY <2>1, <2>2
    <3> QED BY <2>1, <2>2, <3>1, UnitIs
  <2>4. m[u] = <<h[u[1]], u[2]>> BY <1>1
  <2> HIDE DEF m
  <2> QED BY <2>1, <2>3, <2>4
<1>2. m \in [Units(f) -> Units(g)] BY <1>1
<1>3. ASSUME NEW u \in Units(f), NEW v \in Units(f), m[u] = m[v] PROVE u = v
  <2> HIDE DEF m
  <2>1. h[u[1]] = h[v[1]] /\ u[2] = v[2] BY <1>1, <1>3
  <2>2. u[1] = v[1] BY <1>1, <2>1
  <2>3. u = <<u[1], u[2]>> /\ v = <<v[1], v[2]>> BY <1>1
  <2> QED BY <2>1, <2>2, <2>3
<1>4. m \in Injection(Units(f), Units(g))
  <2> HIDE DEF m
  <2> QED BY <1>2, <1>3, Fun_IsInj
<1>5. IsFiniteSet(Units(g)) BY SumType
<1> HIDE DEF m
<1> QED BY <1>4, <1>5, FS_Injection DEF SumOf

\* One that is not zero makes a sum that is not, and no other does.
LEMMA SumPositive ==
    ASSUME NEW f, Summable(f)
    PROVE  SumOf(f) > 0 <=> \E x \in DOMAIN f : f[x] > 0
<1>1. IsFiniteSet(Units(f)) /\ SumOf(f) \in Nat BY SumType
<1>2. SumOf(f) = 0 <=> Units(f) = {} BY <1>1, FS_EmptySet DEF SumOf
<1>3. \A x \in DOMAIN f : f[x] \in Nat BY DEF Summable
<1>4. ASSUME NEW x \in DOMAIN f, f[x] > 0 PROVE Units(f) # {}
  <2>1. <<x, 1>> \in Units(f) BY <1>3, <1>4, UnitIs
  <2> QED BY <2>1
<1>5. ASSUME NEW u \in Units(f) PROVE \E x \in DOMAIN f : f[x] > 0
  <2>1. PICK x \in DOMAIN f, n \in Nat : u = <<x, n>> /\ 1 <= n /\ n <= f[x] BY <1>5, UnitsOf
  <2> QED BY <1>3, <2>1
<1> QED BY <1>1, <1>2, <1>4, <1>5

\* A sum of sums: w gives the members of each group g[k], no two of which meet,
\* values that add up to f[k].
LEMMA SumGrouped ==
    ASSUME NEW f, NEW g, NEW w, Summable(f), Summable(w), DOMAIN g = DOMAIN f,
           DOMAIN w = UNION {g[k] : k \in DOMAIN f},
           \A k, l \in DOMAIN f : k # l => g[k] \cap g[l] = {},
           \A k \in DOMAIN f : SumOf([x \in g[k] |-> w[x]]) = f[k]
    PROVE  SumOf(w) = SumOf(f)
<1> DEFINE K == DOMAIN f
           part(k) == [x \in g[k] |-> w[x]]
           b == [k \in K |-> CHOOSE c : c \in Bijection(1 .. f[k], Units(part(k)))]
<1>1. ASSUME NEW k \in K
      PROVE  /\ Summable(part(k)) /\ g[k] \subseteq DOMAIN w
             /\ \A n \in 1 .. f[k] : b[k][n] \in Units(part(k))
             /\ \A n, o \in 1 .. f[k] : b[k][n] = b[k][o] => n = o
             /\ \A v \in Units(part(k)) : \E n \in 1 .. f[k] : b[k][n] = v
  <2>1. g[k] \subseteq DOMAIN w BY <1>1
  <2>2. IsFiniteSet(g[k]) BY <2>1, FS_Subset DEF Summable
  <2>3. \A x \in g[k] : w[x] \in Nat BY <2>1 DEF Summable
  <2>4. Summable(part(k)) BY <2>2, <2>3 DEF Summable
  <2>5. IsFiniteSet(Units(part(k))) BY <2>4, SumType
  <2>6. Cardinality(Units(part(k))) = f[k] BY <1>1 DEF SumOf
  <2>7. ExistsBijection(1 .. f[k], Units(part(k)))
    <3>1. f[k] \in Nat BY <1>1 DEF Summable
    <3>2. IsFiniteSet(1 .. f[k]) /\ Cardinality(1 .. f[k]) = f[k] BY <3>1, FS_Interval
    <3> QED BY <2>5, <2>6, <3>2, FS_SameCardinalityBij
  <2>8. \E c : c \in Bijection(1 .. f[k], Units(part(k))) BY <2>7 DEF ExistsBijection
  <2>9. b[k] = CHOOSE c : c \in Bijection(1 .. f[k], Units(part(k))) BY <1>1
  <2> HIDE DEF b, part
  <2>10. b[k] \in Bijection(1 .. f[k], Units(part(k))) BY <2>8, <2>9
  <2> DEFINE S == 1 .. f[k]
             T == Units(part(k))
             c == b[k]
  <2>11. c \in Bijection(S, T) BY <2>10
  <2>12. /\ \A n \in S : c[n] \in T
         /\ \A n, o \in S : c[n] = c[o] => n = o
         /\ \A v \in T : \E n \in S : c[n] = v
    <3> HIDE DEF S, T, c
    <3> QED BY ONLY <2>11, Fun_BijectionProperties, Fun_SurjectionProperties
  <2> QED BY <2>1, <2>4, <2>12
<1> DEFINE m == [u \in Units(f) |-> b[u[1]][u[2]]]
<1>2. ASSUME NEW k \in K, NEW n \in 1 .. f[k]
      PROVE  /\ b[k][n] \in Units(part(k)) /\ b[k][n] \in Units(w)
             /\ <<k, n>> \in Units(f) /\ m[<<k, n>>] = b[k][n]
             /\ \E x \in g[k], j \in Nat : b[k][n] = <<x, j>>
  <2>1. b[k][n] \in Units(part(k))
    <3> HIDE DEF b, part
    <3> QED BY <1>1
  <2>2. PICK x \in g[k], j \in Nat : b[k][n] = <<x, j>> /\ 1 <= j /\ j <= part(k)[x]
    <3>1. DOMAIN part(k) = g[k] OBVIOUS
    <3> HIDE DEF b, part
    <3>2. Summable(part(k)) BY <1>1
    <3> HIDE DEF K
    <3>3. \E x \in DOMAIN part(k), j \in Nat : b[k][n] = <<x, j>> /\ 1 <= j /\ j <= part(k)[x]
      BY ONLY <2>1, <3>2, UnitsOf
    <3> QED BY <3>1, <3>3
  <2>3. part(k)[x] = w[x] /\ x \in DOMAIN w BY <1>1
  <2>4. <<x, j>> \in Units(w) BY <2>2, <2>3, UnitIs
  <2>5. <<k, n>> \in Units(f)
    <3>1. f[k] \in Nat BY DEF Summable
    <3> QED BY <3>1, UnitIs
  <2> HIDE DEF b, part
  <2>6. m[<<k, n>>] = b[k][n] BY <2>5
  <2> QED BY <2>1, <2>2, <2>4, <2>5, <2>6
<1>3. ASSUME NEW u \in Units(f)
      PROVE  \E k \in K : \E n \in 1 .. f[k] : u = <<k, n>>
  BY <1>3, UnitsOf DEF Summable
<1> HIDE DEF b, part, m
<1>4. m \in [Units(f) -> Units(w)]
  <2>1. \A u \in Units(f) : m[u] \in Units(w) BY <1>2, <1>3
  <2> QED BY <2>1 DEF m
<1>5. ASSUME NEW u \in Units(f), NEW v \in Units(f), m[u] = m[v] PROVE u = v
  <2>1. PICK k \in K : \E n \in 1 .. f[k] : u = <<k, n>> BY <1>3
  <2>a. PICK n \in 1 .. f[k] : u = <<k, n>> BY <2>1
  <2>2. PICK l \in K : \E o \in 1 .. f[l] : v = <<l, o>> BY <1>3
  <2>b. PICK o \in 1 .. f[l] : v = <<l, o>> BY <2>2
  <2>3. b[k][n] = b[l][o] BY <1>2, <1>5, <2>a, <2>b
  <2>4. k = l
    <3>1. PICK x \in g[k], j \in Nat : b[k][n] = <<x, j>> BY <1>2
    <3>2. PICK y \in g[l], i \in Nat : b[l][o] = <<y, i>> BY <1>2
    <3>3. <<x, j>> = <<y, i>> BY ONLY <2>3, <3>1, <3>2
    <3>4. x = y BY <3>3
    <3> QED BY <3>1, <3>2, <3>4
  <2>5. n = o BY <1>1, <2>3, <2>4
  <2> QED BY <2>a, <2>b, <2>4, <2>5
<1>6. ASSUME NEW v \in Units(w) PROVE \E u \in Units(f) : m[u] = v
  <2>1. PICK x \in DOMAIN w, j \in Nat : v = <<x, j>> /\ 1 <= j /\ j <= w[x] BY <1>6, UnitsOf
  <2>2. PICK k \in K : x \in g[k] BY <2>1
  <2>3. v \in Units(part(k))
    <3>1. DOMAIN part(k) = g[k] /\ part(k)[x] = w[x] BY <2>2 DEF part
    <3> QED BY <1>1, <2>1, <2>2, <3>1, UnitIs
  <2>4. PICK n \in 1 .. f[k] : b[k][n] = v BY <1>1, <2>3
  <2>5. <<k, n>> \in Units(f) /\ m[<<k, n>>] = b[k][n] BY <1>2
  <2> QED BY <2>4, <2>5
<1>7. m \in Bijection(Units(f), Units(w))
  <2>1. m \in Injection(Units(f), Units(w)) BY <1>4, <1>5, Fun_IsInj
  <2>2. m \in Surjection(Units(f), Units(w)) BY <1>4, <1>6, Fun_IsSurj
  <2> QED BY <2>1, <2>2 DEF Bijection
<1>8. ExistsBijection(Units(f), Units(w)) BY <1>7 DEF ExistsBijection
<1>9. IsFiniteSet(Units(f)) BY SumType
<1> QED BY <1>8, <1>9, FS_Bijection DEF SumOf

\* Of a sum over S, the part over A, and a member that is not in A.
LEMMA SumBeyond ==
    ASSUME NEW f, Summable(f), NEW A \in SUBSET DOMAIN f
    PROVE  /\ SumOf([x \in A |-> f[x]]) \in Nat /\ SumOf(f) \in Nat
           /\ SumOf([x \in A |-> f[x]]) <= SumOf(f)
           /\ \A x \in DOMAIN f \ A : f[x] > 0 => SumOf([y \in A |-> f[y]]) < SumOf(f)
<1> DEFINE g == [x \in A |-> f[x]]
           h == [x \in DOMAIN f \ A |-> f[x]]
<1>1. IsFiniteSet(A) /\ IsFiniteSet(DOMAIN f \ A) /\ \A x \in DOMAIN f : f[x] \in Nat
  BY FS_Subset DEF Summable
<1>2. /\ DOMAIN g = A /\ DOMAIN h = DOMAIN f \ A
      /\ \A x \in A : g[x] = f[x]
      /\ \A x \in DOMAIN f \ A : h[x] = f[x]
  OBVIOUS
<1>3. Summable(g) /\ Summable(h) BY <1>1 DEF Summable
<1> HIDE DEF g, h
<1>4. SumOf(g) \in Nat /\ SumOf(h) \in Nat /\ SumOf(f) \in Nat BY <1>3, SumType
<1>5. SumOf(f) = SumOf(g) + SumOf(h)
  <2>1. DOMAIN f = DOMAIN g \cup DOMAIN h /\ DOMAIN g \cap DOMAIN h = {} BY <1>2
  <2>2. (\A x \in DOMAIN g : f[x] = g[x]) /\ (\A x \in DOMAIN h : f[x] = h[x]) BY <1>2
  <2> QED BY ONLY Summable(f), <1>3, <2>1, <2>2, SumSplit
<1>6. ASSUME NEW x \in DOMAIN f \ A, f[x] > 0 PROVE SumOf(h) > 0 BY <1>2, <1>3, <1>6, SumPositive
<1> QED BY <1>4, <1>5, <1>6 DEF g

\* What is at most as much everywhere adds up to at most as much.
LEMMA SumAtMost ==
    ASSUME NEW f, NEW g, Summable(f), Summable(g), DOMAIN f \subseteq DOMAIN g,
           \A x \in DOMAIN f : f[x] <= g[x]
    PROVE  SumOf(f) <= SumOf(g)
<1> DEFINE h == [x \in DOMAIN f |-> x]
<1>1. /\ h \in [DOMAIN f -> DOMAIN g]
      /\ \A x, y \in DOMAIN f : h[x] = h[y] => x = y
      /\ \A x \in DOMAIN f : f[x] <= g[h[x]]
  OBVIOUS
<1> HIDE DEF h
<1> QED BY <1>1, SumInto

\* One more member adds its value.
LEMMA SumAdd ==
    ASSUME NEW f, NEW g, NEW x, Summable(f), Summable(g), x \notin DOMAIN f,
           DOMAIN g = DOMAIN f \cup {x}, \A y \in DOMAIN f : g[y] = f[y]
    PROVE  SumOf(g) = SumOf(f) + g[x]
<1> DEFINE h == [y \in {x} |-> g[y]]
<1>1. /\ DOMAIN h = {x} /\ h[x] = g[x] /\ g[x] \in Nat
      /\ \A y \in DOMAIN h : g[y] = h[y]
  BY DEF Summable
<1>2. Summable(h) BY <1>1, FS_Singleton DEF Summable
<1> HIDE DEF h
<1>3. SumOf(h) = g[x] BY <1>1, SumOne
<1>4. DOMAIN g = DOMAIN f \cup DOMAIN h /\ DOMAIN f \cap DOMAIN h = {} BY <1>1
<1>5. SumOf(g) = SumOf(f) + SumOf(h) BY ONLY Summable(f), Summable(g), <1>1, <1>2, <1>4, SumSplit,
                                    \A y \in DOMAIN f : g[y] = f[y]
<1> QED BY <1>3, <1>5
=============================================================================
