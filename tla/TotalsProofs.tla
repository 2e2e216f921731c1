---------------------------- MODULE TotalsProofs ----------------------------
(***************************************************************************)
(* Laws of the sums of Totals: a sum is a natural number, it follows its   *)
(* terms, and it changes by what one of them changes.                      *)
(***************************************************************************)
EXTENDS Totals, FiniteSetTheorems, TLAPS

\* The units counted at x are as many as f says.
LEMMA UnitsAtCount ==
    ASSUME NEW S, NEW f \in [S -> Nat], NEW x \in S
    PROVE  IsFiniteSet(UnitsAt(f, x)) /\ Cardinality(UnitsAt(f, x)) = f[x]
<1>1. IsFiniteSet(1..f[x]) /\ Cardinality(1..f[x]) = f[x]
  BY FS_Interval
<1>2. IsFiniteSet({x}) /\ Cardinality({x}) = 1
  BY FS_Singleton
<1>3. 1 * f[x] = f[x]
  OBVIOUS
<1> QED
  BY <1>1, <1>2, <1>3, FS_Product DEF UnitsAt

\* A finite sum counts finitely many units.
LEMMA UnitsFinite ==
    ASSUME NEW S, IsFiniteSet(S), NEW f \in [S -> Nat]
    PROVE  IsFiniteSet(Units(f))
<1> DEFINE T == {UnitsAt(f, x) : x \in S}
           g == [x \in S |-> UnitsAt(f, x)]
<1>1. g \in Surjection(S, T)
  BY DEF Surjection
<1>2. IsFiniteSet(T)
  <2> HIDE DEF T, g
  <2> QED BY <1>1, FS_Surjection
<1>3. \A U \in T : IsFiniteSet(U)
  BY UnitsAtCount
<1>4. DOMAIN f = S
  OBVIOUS
<1>5. IsFiniteSet(UNION T)
  <2> HIDE DEF T
  <2> QED BY <1>2, <1>3, FS_UNION
<1> QED
  BY <1>4, <1>5 DEF Units

\* A sum over a finite domain is a natural number.
THEOREM TotalType ==
    ASSUME NEW S, IsFiniteSet(S), NEW f \in [S -> Nat]
    PROVE  Total(f) \in Nat
BY UnitsFinite, FS_CardinalityType DEF Total

\* Membership in the units counted by f.
LEMMA UnitsMember ==
    ASSUME NEW S, NEW f \in [S -> Nat]
    PROVE  \A u : u \in Units(f) <=> \E x \in S : \E i \in 1..f[x] : u = <<x, i>>
BY DEF Units, UnitsAt

\* A sum grows with its terms.
THEOREM TotalMonotone ==
    ASSUME NEW S, IsFiniteSet(S), NEW f \in [S -> Nat], NEW g \in [S -> Nat],
           \A x \in S : f[x] <= g[x]
    PROVE  Total(f) <= Total(g)
<1>1. Units(f) \subseteq Units(g)
  <2> SUFFICES ASSUME NEW u \in Units(f) PROVE u \in Units(g)
    OBVIOUS
  <2>1a. PICK x \in S : \E i \in 1..f[x] : u = <<x, i>>
    BY UnitsMember
  <2>1. PICK i \in 1..f[x] : u = <<x, i>>
    BY <2>1a
  <2>2. i \in 1..g[x]
    <3>1. f[x] \in Nat /\ g[x] \in Nat /\ f[x] <= g[x]
      OBVIOUS
    <3> QED BY <3>1
  <2> QED BY <2>1, <2>2, UnitsMember
<1> QED
  BY <1>1, UnitsFinite, FS_Subset DEF Total

\* A sum is at least each of its terms.
THEOREM TotalTerm ==
    ASSUME NEW S, IsFiniteSet(S), NEW f \in [S -> Nat], NEW x \in S
    PROVE  f[x] <= Total(f)
<1>1. UnitsAt(f, x) \subseteq Units(f)
  BY DEF Units
<1> QED
  BY <1>1, UnitsAtCount, UnitsFinite, FS_Subset DEF Total

\* The sum of a zero function is zero.
THEOREM TotalZero ==
    ASSUME NEW S, NEW f \in [S -> Nat], \A x \in S : f[x] = 0
    PROVE  Total(f) = 0
<1>1. Units(f) = {}
  <2> SUFFICES ASSUME NEW u \in Units(f) PROVE FALSE
    OBVIOUS
  <2>1a. PICK x \in S : \E i \in 1..f[x] : u = <<x, i>>
    BY UnitsMember
  <2>1. PICK i \in 1..f[x] : u = <<x, i>>
    BY <2>1a
  <2>2. f[x] = 0
    OBVIOUS
  <2> QED BY <2>1, <2>2
<1> QED
  BY <1>1, FS_EmptySet DEF Total

\* A sum of zero has only zero terms.
THEOREM TotalZeroTerms ==
    ASSUME NEW S, IsFiniteSet(S), NEW f \in [S -> Nat], Total(f) = 0
    PROVE  \A x \in S : f[x] = 0
<1> SUFFICES ASSUME NEW x \in S PROVE f[x] = 0
  OBVIOUS
<1>1. f[x] <= 0
  BY TotalTerm
<1>2. f[x] \in Nat
  OBVIOUS
<1> QED BY <1>1, <1>2

\* Changing one term changes the sum by as much.
THEOREM TotalChange ==
    ASSUME NEW S, IsFiniteSet(S), NEW f \in [S -> Nat], NEW g \in [S -> Nat],
           NEW x \in S, \A y \in S \ {x} : g[y] = f[y]
    PROVE  Total(g) = Total(f) - f[x] + g[x]
<1> DEFINE R == Units(f) \ UnitsAt(f, x)
<1>1. R = Units(g) \ UnitsAt(g, x)
  <2>1. \A u : u \in R <=> \E y \in S \ {x} : \E i \in 1..f[y] : u = <<y, i>>
    BY UnitsMember DEF UnitsAt
  <2>2. \A u : u \in Units(g) \ UnitsAt(g, x)
                 <=> \E y \in S \ {x} : \E i \in 1..g[y] : u = <<y, i>>
    BY UnitsMember DEF UnitsAt
  <2> QED BY <2>1, <2>2
<1>2. UnitsAt(f, x) \subseteq Units(f) /\ UnitsAt(g, x) \subseteq Units(g)
  BY DEF Units
<1>3. Units(f) \cap UnitsAt(f, x) = UnitsAt(f, x)
      /\ Units(g) \cap UnitsAt(g, x) = UnitsAt(g, x)
  BY <1>2
<1>4. Cardinality(R) = Total(f) - f[x]
  <2>1. IsFiniteSet(Units(f))
    BY UnitsFinite
  <2>2. Cardinality(Units(f) \ UnitsAt(f, x))
          = Cardinality(Units(f)) - Cardinality(Units(f) \cap UnitsAt(f, x))
    BY <2>1, FS_Difference
  <2>3. Cardinality(UnitsAt(f, x)) = f[x]
    BY UnitsAtCount
  <2> QED BY <1>3, <2>2, <2>3 DEF Total
<1>5. Cardinality(R) = Total(g) - g[x]
  <2>1. IsFiniteSet(Units(g))
    BY UnitsFinite
  <2>2. Cardinality(Units(g) \ UnitsAt(g, x))
          = Cardinality(Units(g)) - Cardinality(Units(g) \cap UnitsAt(g, x))
    BY <2>1, FS_Difference
  <2>3. Cardinality(UnitsAt(g, x)) = g[x]
    BY UnitsAtCount
  <2> QED BY <1>1, <1>3, <2>2, <2>3 DEF Total
<1>6. Total(f) \in Nat /\ Total(g) \in Nat /\ f[x] \in Nat /\ g[x] \in Nat
  BY TotalType
<1> HIDE DEF R
<1> QED BY <1>4, <1>5, <1>6

\* The sum of two functions is the sum of their sums.
THEOREM TotalPlus ==
    ASSUME NEW S, IsFiniteSet(S), NEW f \in [S -> Nat], NEW g \in [S -> Nat],
           NEW h \in [S -> Nat], \A x \in S : h[x] = f[x] + g[x]
    PROVE  Total(h) = Total(f) + Total(g)
<1> DEFINE R == Units(h) \ Units(f)
           m == [u \in Units(g) |-> <<u[1], f[u[1]] + u[2]>>]
<1>1. Units(f) \subseteq Units(h)
  <2> SUFFICES ASSUME NEW u \in Units(f) PROVE u \in Units(h)
    OBVIOUS
  <2>1a. PICK x \in S : \E i \in 1..f[x] : u = <<x, i>>
    BY UnitsMember
  <2>1. PICK i \in 1..f[x] : u = <<x, i>>
    BY <2>1a
  <2>2. f[x] \in Nat /\ g[x] \in Nat /\ h[x] = f[x] + g[x]
    OBVIOUS
  <2>3. i \in 1..h[x]
    BY <2>2
  <2> QED BY <2>1, <2>3, UnitsMember
<1>2. \A u : u \in R <=> \E x \in S : \E i \in (f[x]+1)..h[x] : u = <<x, i>>
  <2> TAKE u
  <2>1. ASSUME u \in R PROVE \E x \in S : \E i \in (f[x]+1)..h[x] : u = <<x, i>>
    <3>1a. PICK x \in S : \E i \in 1..h[x] : u = <<x, i>>
      BY <2>1, UnitsMember
    <3>1. PICK i \in 1..h[x] : u = <<x, i>>
      BY <3>1a
    <3>2. i \notin 1..f[x]
      BY <2>1, <3>1, UnitsMember
    <3>3. f[x] \in Nat /\ h[x] \in Nat
      OBVIOUS
    <3>4. i \in (f[x]+1)..h[x]
      BY <3>2, <3>3
    <3> QED BY <3>1, <3>4
  <2>2. ASSUME NEW x \in S, NEW i \in (f[x]+1)..h[x], u = <<x, i>> PROVE u \in R
    <3>1. f[x] \in Nat /\ h[x] \in Nat
      OBVIOUS
    <3>2. i \in 1..h[x]
      BY <3>1
    <3>3. u \in Units(h)
      BY <2>2, <3>2, UnitsMember
    <3>4. ASSUME u \in Units(f) PROVE FALSE
      <4>1a. PICK y \in S : \E j \in 1..f[y] : u = <<y, j>>
        BY <3>4, UnitsMember
      <4>1. PICK j \in 1..f[y] : u = <<y, j>>
        BY <4>1a
      <4>2. y = x /\ j = i
        BY <2>2, <4>1
      <4> QED BY <3>1, <4>1, <4>2
    <3> QED BY <3>3, <3>4
  <2> QED BY <2>1, <2>2
<1>3. m \in Bijection(Units(g), R)
  <2>1. \A u \in Units(g) : \E x \in S : \E i \in 1..g[x] :
            u = <<x, i>> /\ m[u] = <<x, f[x] + i>> /\ f[x] + i \in (f[x]+1)..h[x]
    <3> SUFFICES ASSUME NEW u \in Units(g)
                 PROVE \E x \in S : \E i \in 1..g[x] :
            u = <<x, i>> /\ m[u] = <<x, f[x] + i>> /\ f[x] + i \in (f[x]+1)..h[x]
      OBVIOUS
    <3>1a. PICK x \in S : \E i \in 1..g[x] : u = <<x, i>>
      BY UnitsMember
    <3>1. PICK i \in 1..g[x] : u = <<x, i>>
      BY <3>1a
    <3>2. f[x] \in Nat /\ g[x] \in Nat /\ h[x] = f[x] + g[x]
      OBVIOUS
    <3>3. f[x] + i \in (f[x]+1)..h[x]
      BY <3>2
    <3>4. m[u] = <<x, f[x] + i>>
      BY <3>1
    <3> QED BY <3>1, <3>3, <3>4
  <2>2. m \in [Units(g) -> R]
    BY <1>2, <2>1
  <2>3. ASSUME NEW u \in Units(g), NEW w \in Units(g), m[u] = m[w] PROVE u = w
    <3>1a. PICK x \in S : \E i \in 1..g[x] : u = <<x, i>> /\ m[u] = <<x, f[x] + i>>
      BY <2>1
    <3>1. PICK i \in 1..g[x] : u = <<x, i>> /\ m[u] = <<x, f[x] + i>>
      BY <3>1a
    <3>2a. PICK y \in S : \E j \in 1..g[y] : w = <<y, j>> /\ m[w] = <<y, f[y] + j>>
      BY <2>1
    <3>2. PICK j \in 1..g[y] : w = <<y, j>> /\ m[w] = <<y, f[y] + j>>
      BY <3>2a
    <3>3. x = y /\ f[x] + i = f[y] + j
      BY <2>3, <3>1, <3>2
    <3>4. f[x] \in Nat /\ i \in Int /\ j \in Int
      OBVIOUS
    <3>5. i = j
      BY <3>3, <3>4
    <3> QED BY <3>1, <3>2, <3>3, <3>5
  <2>4. \A r \in R : \E u \in Units(g) : m[u] = r
    <3> SUFFICES ASSUME NEW r \in R PROVE \E u \in Units(g) : m[u] = r
      OBVIOUS
    <3>1a. PICK x \in S : \E k \in (f[x]+1)..h[x] : r = <<x, k>>
      BY <1>2
    <3>1. PICK k \in (f[x]+1)..h[x] : r = <<x, k>>
      BY <3>1a
    <3>2. f[x] \in Nat /\ g[x] \in Nat /\ h[x] = f[x] + g[x]
      OBVIOUS
    <3>3. k - f[x] \in 1..g[x] /\ f[x] + (k - f[x]) = k
      BY <3>2
    <3>4. <<x, k - f[x]>> \in Units(g)
      BY <3>3, UnitsMember
    <3>5. m[<<x, k - f[x]>>] = r
      BY <3>1, <3>3, <3>4
    <3> QED BY <3>4, <3>5
  <2> HIDE DEF m, R
  <2> QED BY <2>2, <2>3, <2>4 DEF Bijection, Injection, Surjection, IsInjective
<1>4. IsFiniteSet(Units(f)) /\ IsFiniteSet(Units(g)) /\ IsFiniteSet(Units(h))
  BY UnitsFinite
<1>5. Cardinality(R) = Total(g)
  <2> HIDE DEF m, R
  <2> QED BY <1>3, <1>4, FS_Bijection DEF ExistsBijection, Total
<1>6. Units(h) \cap Units(f) = Units(f)
  BY <1>1
<1>7. Cardinality(R) = Total(h) - Total(f)
  <2>1. Cardinality(Units(h) \ Units(f))
          = Cardinality(Units(h)) - Cardinality(Units(h) \cap Units(f))
    BY <1>4, FS_Difference
  <2> QED BY <1>6, <2>1 DEF Total
<1>8. Total(f) \in Nat /\ Total(g) \in Nat /\ Total(h) \in Nat
  BY TotalType
<1> HIDE DEF R
<1> QED BY <1>5, <1>7, <1>8

\* A sum grows with its domain and its terms.
THEOREM TotalWithin ==
    ASSUME NEW S, NEW T, IsFiniteSet(T), S \subseteq T,
           NEW f \in [S -> Nat], NEW g \in [T -> Nat], \A x \in S : f[x] <= g[x]
    PROVE  Total(f) <= Total(g)
<1>1. Units(f) \subseteq Units(g)
  <2> SUFFICES ASSUME NEW u \in Units(f) PROVE u \in Units(g)
    OBVIOUS
  <2>1a. PICK x \in S : \E i \in 1..f[x] : u = <<x, i>>
    BY UnitsMember
  <2>1. PICK i \in 1..f[x] : u = <<x, i>>
    BY <2>1a
  <2>2. x \in T /\ i \in 1..g[x]
    <3>1. x \in T /\ f[x] \in Nat /\ g[x] \in Nat /\ f[x] <= g[x]
      OBVIOUS
    <3> QED BY <3>1
  <2> QED BY <2>1, <2>2, UnitsMember
<1> QED
  BY <1>1, UnitsFinite, FS_Subset DEF Total

\* One term set apart.
THEOREM TotalWithout ==
    ASSUME NEW S, IsFiniteSet(S), NEW f \in [S -> Nat], NEW x \in S
    PROVE  /\ Total([y \in S \ {x} |-> f[y]]) \in Nat
           /\ Total(f) = Total([y \in S \ {x} |-> f[y]]) + f[x]
<1> DEFINE g == [y \in S \ {x} |-> f[y]]
<1>1. g \in [S \ {x} -> Nat]
  OBVIOUS
<1>2. IsFiniteSet(S \ {x})
  BY FS_RemoveElement
<1>3. Units(g) = Units(f) \ UnitsAt(f, x)
  <2>1. \A u : u \in Units(g) <=> \E y \in S \ {x} : \E i \in 1..f[y] : u = <<y, i>>
    BY <1>1, UnitsMember
  <2>2. \A u : u \in Units(f) \ UnitsAt(f, x)
                 <=> \E y \in S \ {x} : \E i \in 1..f[y] : u = <<y, i>>
    BY UnitsMember DEF UnitsAt
  <2> QED BY <2>1, <2>2
<1>4. IsFiniteSet(Units(f)) /\ Units(f) \cap UnitsAt(f, x) = UnitsAt(f, x)
  BY UnitsFinite DEF Units
<1>5. Cardinality(Units(g)) = Cardinality(Units(f)) - f[x]
  <2>1. Cardinality(Units(f) \ UnitsAt(f, x))
          = Cardinality(Units(f)) - Cardinality(Units(f) \cap UnitsAt(f, x))
    BY <1>4, FS_Difference
  <2>2. Cardinality(UnitsAt(f, x)) = f[x]
    BY UnitsAtCount
  <2> QED BY <1>3, <1>4, <2>1, <2>2
<1>6. Total(f) \in Nat /\ Total(g) \in Nat /\ f[x] \in Nat
  BY <1>1, <1>2, TotalType
<1> QED BY <1>5, <1>6 DEF Total

\* Terms that map one to one to terms as large sum to no more.
THEOREM TotalInjects ==
    ASSUME NEW S, NEW T, IsFiniteSet(T), NEW f \in [S -> Nat], NEW g \in [T -> Nat],
           NEW h \in [S -> T], \A x \in S, y \in S : h[x] = h[y] => x = y,
           \A x \in S : f[x] <= g[h[x]]
    PROVE  Total(f) <= Total(g)
<1> DEFINE k == [u \in Units(f) |-> <<h[u[1]], u[2]>>]
<1>1. ASSUME NEW u \in Units(f)
      PROVE  u = <<u[1], u[2]>> /\ u[1] \in S /\ k[u] \in Units(g)
  <2>1. PICK x \in S : \E i \in 1..f[x] : u = <<x, i>>
    BY UnitsMember
  <2>2. PICK i \in 1..f[x] : u = <<x, i>>
    BY <2>1
  <2>3. i \in 1..g[h[x]] /\ h[x] \in T
    <3>1. f[x] \in Nat /\ g[h[x]] \in Nat /\ f[x] <= g[h[x]]
      OBVIOUS
    <3> QED BY <3>1
  <2>4. k[u] = <<h[x], i>>
    BY <2>2
  <2>5. k[u] \in Units(g)
    BY <2>3, <2>4, UnitsMember
  <2> QED BY <2>2, <2>5
<1>2. ASSUME NEW u \in Units(f), NEW v \in Units(f), k[u] = k[v] PROVE u = v
  <2>1. h[u[1]] = h[v[1]] /\ u[2] = v[2]
    BY <1>2
  <2>2. u[1] = v[1]
    BY <1>1, <2>1
  <2>3. u = <<u[1], u[2]>> /\ v = <<v[1], v[2]>>
    BY <1>1
  <2> QED BY <2>1, <2>2, <2>3
<1>3. k \in Injection(Units(f), Units(g))
  BY <1>1, <1>2 DEF Injection, IsInjective
<1> HIDE DEF k
<1> QED BY <1>3, UnitsFinite, FS_Injection DEF Total

\* A sum over a set is at most the sums over two parts that cover it.
THEOREM TotalParts ==
    ASSUME NEW S, NEW T, IsFiniteSet(S), IsFiniteSet(T), NEW f \in [S \cup T -> Nat]
    PROVE  Total(f) <= Total([x \in S |-> f[x]]) + Total([x \in T |-> f[x]])
<1> DEFINE g == [x \in S |-> f[x]]
           h == [x \in T |-> f[x]]
<1>1. g \in [S -> Nat] /\ h \in [T -> Nat]
  OBVIOUS
<1>2. Units(f) = Units(g) \cup Units(h)
  BY DEF Units, UnitsAt
<1>3. IsFiniteSet(Units(g)) /\ IsFiniteSet(Units(h))
  BY <1>1, UnitsFinite
<1>4. IsFiniteSet(Units(g) \cap Units(h))
  BY <1>3, FS_Subset
<1>5. Cardinality(Units(g) \cup Units(h))
        = Cardinality(Units(g)) + Cardinality(Units(h)) - Cardinality(Units(g) \cap Units(h))
  BY <1>3, FS_Union
<1>6. Cardinality(Units(g)) \in Nat /\ Cardinality(Units(h)) \in Nat
      /\ Cardinality(Units(g) \cap Units(h)) \in Nat
  BY <1>3, <1>4, FS_CardinalityType
<1> HIDE DEF g, h
<1>7. Total(f) <= Total(g) + Total(h)
  BY <1>2, <1>5, <1>6 DEF Total
<1> QED BY <1>7 DEF g, h

\* A sum whose terms are all zero but one.
THEOREM TotalSingle ==
    ASSUME NEW S, IsFiniteSet(S), NEW f \in [S -> Nat], NEW x \in S,
           \A y \in S \ {x} : f[y] = 0
    PROVE  Total(f) = f[x]
<1> DEFINE z == [y \in S |-> 0]
<1>1. z \in [S -> Nat] /\ \A y \in S : z[y] = 0
  OBVIOUS
<1>2. Total(z) = 0
  <2> HIDE DEF z
  <2> QED BY <1>1, TotalZero
<1>3. \A y \in S \ {x} : f[y] = z[y]
  OBVIOUS
<1> HIDE DEF z
<1>4. Total(f) = Total(z) - z[x] + f[x]
  BY <1>1, <1>3, TotalChange
<1>5. f[x] \in Nat /\ z[x] = 0
  BY <1>1
<1> QED BY <1>2, <1>4, <1>5

\* Induction over the naturals for a set of them.  It is proved by counting:
\* the members of A up to a number outside A would map one to one into
\* themselves without 0.
THEOREM SetInduction ==
    ASSUME NEW A \in SUBSET Nat, 0 \in A, \A n \in A : n + 1 \in A
    PROVE  \A n \in Nat : n \in A
<1> SUFFICES ASSUME NEW N \in Nat, N \notin A PROVE FALSE
  OBVIOUS
<1> DEFINE B == A \cap (0..N)
           h == [n \in B |-> n + 1]
<1>1. IsFiniteSet(0..N)
  BY FS_Interval
<1>2. IsFiniteSet(B) /\ Cardinality(B) \in Nat
  BY <1>1, FS_Subset, FS_CardinalityType
<1>3. 0 \in B
  OBVIOUS
<1>4. IsFiniteSet(B \ {0}) /\ Cardinality(B \ {0}) = Cardinality(B) - 1
  BY <1>2, <1>3, FS_RemoveElement
<1>5. h \in Injection(B, B \ {0})
  <2>1. \A n \in B : n + 1 \in B \ {0}
    OBVIOUS
  <2>2. \A m, n \in B : m + 1 = n + 1 => m = n
    OBVIOUS
  <2> QED BY <2>1, <2>2 DEF Injection, IsInjective
<1> HIDE DEF B, h
<1>6. Cardinality(B) <= Cardinality(B \ {0})
  BY <1>4, <1>5, FS_Injection
<1> QED BY <1>2, <1>4, <1>6

\* A set of naturals that has a member has a least one,
THEOREM LeastMember ==
    ASSUME NEW S \in SUBSET Nat, S # {}
    PROVE  \E m \in S : \A k \in S : m <= k
<1> SUFFICES ASSUME \A m \in S : \E k \in S : ~(m <= k) PROVE FALSE
  OBVIOUS
<1> DEFINE A == {n \in Nat : \A k \in S : n <= k}
<1>1. 0 \in A
  OBVIOUS
<1>2. ASSUME NEW n \in A PROVE n + 1 \in A
  <2>1. n \notin S
    OBVIOUS
  <2>2. \A k \in S : k \in Nat /\ n <= k /\ k # n
    BY <2>1
  <2> QED BY <2>2
<1>3. \A n \in Nat : n \in A
  <2>1. A \in SUBSET Nat
    OBVIOUS
  <2> HIDE DEF A
  <2> QED BY <1>1, <1>2, <2>1, SetInduction
<1>4. PICK s \in S : TRUE
  OBVIOUS
<1>5. s \in Nat /\ s + 1 \in A
  BY <1>3
<1>6. s + 1 <= s
  BY <1>5
<1> QED BY <1>5, <1>6

\* and, if it is bounded, a greatest one.
THEOREM GreatestMember ==
    ASSUME NEW S \in SUBSET Nat, S # {}, NEW N \in Nat, \A k \in S : k <= N
    PROVE  \E m \in S : \A k \in S : k <= m
<1> DEFINE U == {u \in Nat : \A k \in S : k <= u}
<1>1. PICK u \in U : \A v \in U : u <= v
  <2>1. U \in SUBSET Nat /\ N \in U
    OBVIOUS
  <2> HIDE DEF U
  <2> QED BY <2>1, LeastMember
<1>2. u \in Nat /\ \A k \in S : k \in Nat /\ k <= u
  OBVIOUS
<1>3. u \in S
  <2> SUFFICES ASSUME u \notin S PROVE FALSE
    OBVIOUS
  <2>1. \A k \in S : k < u
    BY <1>2
  <2>2. PICK s \in S : TRUE
    OBVIOUS
  <2>3. u - 1 \in Nat /\ \A k \in S : k <= u - 1
    BY <1>2, <2>1, <2>2
  <2>4. u <= u - 1
    BY <1>1, <2>3
  <2> QED BY <1>2, <2>4
<1> QED BY <1>2, <1>3

\* A multiple of a sum is the sum of the multiples.
THEOREM TotalScaled ==
    ASSUME NEW S, IsFiniteSet(S), NEW f \in [S -> Nat], NEW c \in Nat
    PROVE  /\ [x \in S |-> c * f[x]] \in [S -> Nat]
           /\ Total([x \in S |-> c * f[x]]) = c * Total(f)
<1> DEFINE m(n) == [x \in S |-> n * f[x]]
           A == {n \in Nat : m(n) \in [S -> Nat] /\ Total(m(n)) = n * Total(f)}
<1>0. Total(f) \in Nat
  BY TotalType
<1>1. 0 \in A
  <2>1. m(0) \in [S -> Nat] /\ \A x \in S : m(0)[x] = 0
    OBVIOUS
  <2>2. Total(m(0)) = 0
    <3> HIDE DEF m
    <3> QED
      BY <2>1, TotalZero
  <2> QED
    BY <1>0, <2>1, <2>2
<1>2. ASSUME NEW n \in A PROVE n + 1 \in A
  <2>1. n \in Nat /\ m(n) \in [S -> Nat] /\ Total(m(n)) = n * Total(f)
    BY <1>2
  <2>2. ASSUME NEW x \in S PROVE m(n + 1)[x] = m(n)[x] + f[x] /\ m(n)[x] \in Nat
    <3>1. n * f[x] \in Nat
      BY <2>1
    <3>2. (n + 1) * f[x] = n * f[x] + f[x]
      BY <2>1
    <3> QED
      BY <3>1, <3>2
  <2>3. DOMAIN m(n + 1) = S /\ m(n + 1) = [x \in S |-> m(n + 1)[x]]
    OBVIOUS
  <2>4. (n + 1) * Total(f) = n * Total(f) + Total(f)
    BY <1>0, <2>1
  <2> HIDE DEF m
  <2>5. m(n + 1) \in [S -> Nat]
    BY <2>2, <2>3
  <2>6. Total(m(n + 1)) = Total(m(n)) + Total(f)
    BY <2>1, <2>2, <2>5, TotalPlus
  <2> QED
    BY <2>1, <2>4, <2>5, <2>6
<1> HIDE DEF m
<1>3. A \in SUBSET Nat
  OBVIOUS
<1> HIDE DEF A
<1>4. c \in A
  BY <1>1, <1>2, <1>3, SetInduction
<1> QED
  BY <1>4 DEF A, m

\* A table is summed by rows or by columns.
THEOREM TotalSwap ==
    ASSUME NEW S, NEW T, IsFiniteSet(S), IsFiniteSet(T), NEW g \in [S -> [T -> Nat]]
    PROVE  Total([x \in S |-> Total(g[x])]) = Total([y \in T |-> Total([x \in S |-> g[x][y]])])
<1> DEFINE rows(R) == [x \in R |-> Total(g[x])]
           col(R, y) == [x \in R |-> g[x][y]]
           cols(R) == [y \in T |-> Total(col(R, y))]
           A == {n \in Nat : \A R \in SUBSET S :
                    Cardinality(R) = n => Total(rows(R)) = Total(cols(R))}
<1>0. ASSUME NEW R \in SUBSET S
      PROVE  /\ IsFiniteSet(R) /\ Cardinality(R) \in Nat
             /\ rows(R) \in [R -> Nat] /\ cols(R) \in [T -> Nat]
             /\ \A y \in T : col(R, y) \in [R -> Nat] /\ Total(col(R, y)) \in Nat
  <2>1. IsFiniteSet(R) /\ Cardinality(R) \in Nat
    BY FS_Subset, FS_CardinalityType
  <2>2. ASSUME NEW x \in R PROVE Total(g[x]) \in Nat
    <3>1. g[x] \in [T -> Nat]
      OBVIOUS
    <3> QED
      BY <3>1, TotalType
  <2>3. ASSUME NEW y \in T PROVE col(R, y) \in [R -> Nat]
    OBVIOUS
  <2>4. ASSUME NEW y \in T PROVE Total(col(R, y)) \in Nat
    <3> HIDE DEF col
    <3> QED
      BY <2>1, <2>3, TotalType
  <2>5. rows(R) \in [R -> Nat]
    BY <2>2
  <2>6. cols(R) \in [T -> Nat]
    <3> HIDE DEF col
    <3> QED
      BY <2>4
  <2> HIDE DEF rows, cols, col
  <2> QED
    BY <2>1, <2>3, <2>4, <2>5, <2>6
<1>1. 0 \in A
  <2> SUFFICES ASSUME NEW R \in SUBSET S, Cardinality(R) = 0
               PROVE  Total(rows(R)) = Total(cols(R))
    OBVIOUS
  <2>1. R = {}
    BY <1>0, FS_EmptySet
  <2>2. Total(rows(R)) = 0
    <3>1. \A x \in R : rows(R)[x] = 0
      BY <2>1
    <3> HIDE DEF rows
    <3> QED
      BY <1>0, <3>1, TotalZero
  <2>3. ASSUME NEW y \in T PROVE cols(R)[y] = 0
    <3>1. \A x \in R : col(R, y)[x] = 0
      BY <2>1
    <3>2. col(R, y) \in [R -> Nat]
      BY <1>0
    <3>3. cols(R)[y] = Total(col(R, y))
      OBVIOUS
    <3> HIDE DEF col, cols
    <3>4. Total(col(R, y)) = 0
      BY <3>1, <3>2, TotalZero
    <3> QED
      BY <3>3, <3>4
  <2>4. Total(cols(R)) = 0
    <3> HIDE DEF cols
    <3> QED
      BY <1>0, <2>3, TotalZero
  <2> QED
    BY <2>2, <2>4
<1>2. ASSUME NEW n \in A PROVE n + 1 \in A
  <2> SUFFICES ASSUME NEW R \in SUBSET S, Cardinality(R) = n + 1
               PROVE  Total(rows(R)) = Total(cols(R))
    OBVIOUS
  <2>0. n \in Nat /\ \A Q \in SUBSET S : Cardinality(Q) = n => Total(rows(Q)) = Total(cols(Q))
    BY <1>2
  <2>1. R # {}
    <3> HIDE DEF A
    <3> SUFFICES ASSUME R = {} PROVE FALSE
      OBVIOUS
    <3>1. Cardinality(R) = 0
      BY FS_EmptySet
    <3>2. n + 1 # 0
      BY <2>0
    <3> QED
      BY <3>1, <3>2
  <2>2. PICK z \in R : TRUE
    BY <2>1
  <2> DEFINE Q == R \ {z}
  <2>3. Q \in SUBSET S /\ z \in S
    OBVIOUS
  <2>4. Cardinality(Q) = n
    <3>1. Cardinality(Q) = Cardinality(R) - 1
      BY <1>0, <2>2, FS_RemoveElement
    <3> QED
      BY <2>0, <3>1
  <2>5. Total(rows(R)) = Total(rows(Q)) + Total(g[z])
    <3>1. rows(Q) = [x \in R \ {z} |-> rows(R)[x]] /\ rows(R)[z] = Total(g[z])
      OBVIOUS
    <3>2. IsFiniteSet(R) /\ rows(R) \in [R -> Nat]
      BY <1>0
    <3> HIDE DEF rows, col, cols, A
    <3>3. Total(rows(R)) = Total([x \in R \ {z} |-> rows(R)[x]]) + rows(R)[z]
      BY <2>2, <3>2, TotalWithout
    <3> QED
      BY <3>1, <3>3
  <2>6. ASSUME NEW y \in T PROVE cols(R)[y] = cols(Q)[y] + g[z][y]
    <3>1. col(Q, y) = [x \in R \ {z} |-> col(R, y)[x]] /\ col(R, y)[z] = g[z][y]
      OBVIOUS
    <3>2. cols(R)[y] = Total(col(R, y)) /\ cols(Q)[y] = Total(col(Q, y))
      OBVIOUS
    <3>3. IsFiniteSet(R) /\ col(R, y) \in [R -> Nat]
      BY <1>0
    <3> HIDE DEF col, cols
    <3>4. Total(col(R, y)) = Total([x \in R \ {z} |-> col(R, y)[x]]) + col(R, y)[z]
      BY <2>2, <3>3, TotalWithout
    <3> QED
      BY <3>1, <3>2, <3>4
  <2>7. Total(cols(R)) = Total(cols(Q)) + Total(g[z])
    <3>1. g[z] \in [T -> Nat]
      BY <2>3
    <3>2. cols(R) \in [T -> Nat] /\ cols(Q) \in [T -> Nat]
      BY <1>0, <2>3
    <3>3. \A y \in T : cols(R)[y] = cols(Q)[y] + g[z][y]
      BY <2>6
    <3> HIDE DEF cols, rows, col, A, Q
    <3> QED
      BY <3>1, <3>2, <3>3, TotalPlus
  <2>8. Total(rows(Q)) = Total(cols(Q))
    BY <2>0, <2>3, <2>4
  <2> HIDE DEF rows, cols, Q
  <2> QED
    BY <2>5, <2>7, <2>8
<1>3. A \in SUBSET Nat
  OBVIOUS
<1> HIDE DEF A
<1>4. Cardinality(S) \in A
  BY <1>1, <1>2, <1>3, SetInduction, FS_CardinalityType
<1>5. Total(rows(S)) = Total(cols(S))
  BY <1>4 DEF A
<1> QED
  BY <1>5
=============================================================================
