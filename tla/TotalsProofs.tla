---------------------------- MODULE TotalsProofs ----------------------------
(* What Total returns, and what changing one amount does to it; and the      *)
(* induction over numbers that proofs about recursive functions need.        *)
EXTENDS Totals, FiniteSetTheorems, WellFoundedInduction, TLAPS

\* The units of finitely many amounts are finitely many, so a total is a
\* natural.
LEMMA TotalType ==
    ASSUME NEW S, IsFiniteSet(S), NEW f \in [S -> Nat]
    PROVE  IsFiniteSet(Units(S, f)) /\ Total(S, f) \in Nat
<1> DEFINE Col(x) == {x} \X (1 .. f[x])
           Cols == {Col(x) : x \in S}
           h == [x \in S |-> Col(x)]
<1>1. \A x \in S : IsFiniteSet(Col(x))
  <2> TAKE x \in S
  <2>1. IsFiniteSet({x})
    BY FS_Singleton
  <2>2. IsFiniteSet(1 .. f[x])
    BY FS_Interval
  <2>3. QED
    BY <2>1, <2>2, FS_Product
<1>2. IsFiniteSet(Cols)
  <2> HIDE DEF Col
  <2>1. h \in Surjection(S, Cols)
    BY DEF Surjection
  <2>2. QED
    BY <2>1, FS_Surjection
<1>3. IsFiniteSet(UNION Cols)
  <2> HIDE DEF Col
  <2>1. \A T \in Cols : IsFiniteSet(T)
    BY <1>1
  <2> HIDE DEF Cols
  <2>2. QED
    BY <1>2, <2>1, FS_UNION
<1>4. QED
  BY <1>3, FS_CardinalityType DEF Units, Total

\* Taking the units of one row apart: the rest does not depend on that row.
LEMMA TotalSplit ==
    ASSUME NEW S, IsFiniteSet(S), NEW f \in [S -> Nat], NEW x \in S
    PROVE  /\ Total(S \ {x}, [y \in S \ {x} |-> f[y]]) \in Nat
           /\ Total(S, f) = Total(S \ {x}, [y \in S \ {x} |-> f[y]]) + f[x]
<1> DEFINE R == S \ {x}
           g == [y \in R |-> f[y]]
           C == {x} \X (1 .. f[x])
<1>1. IsFiniteSet(R) /\ g \in [R -> Nat]
  BY FS_Difference
<1>2. IsFiniteSet(Units(R, g)) /\ Total(R, g) \in Nat
  <2> HIDE DEF R, g
  <2>1. QED
    BY <1>1, TotalType
<1>3. IsFiniteSet(C) /\ Cardinality(C) = f[x]
  <2>1. IsFiniteSet({x}) /\ Cardinality({x}) = 1
    BY FS_Singleton
  <2>2. IsFiniteSet(1 .. f[x]) /\ Cardinality(1 .. f[x]) = f[x]
    BY FS_Interval
  <2>3. IsFiniteSet(C) /\ Cardinality(C) = 1 * f[x]
    <3>1. IsFiniteSet(C)
      BY <2>1, <2>2, FS_Product
    <3>2. Cardinality(C) = Cardinality({x}) * Cardinality(1 .. f[x])
      BY <2>1, <2>2, FS_Product
    <3>3. QED
      BY <2>1, <2>2, <3>1, <3>2
  <2>4. f[x] \in Nat
    OBVIOUS
  <2>5. 1 * f[x] = f[x]
    BY <2>4
  <2>6. QED
    BY <2>3, <2>5
<1>4. Units(S, f) = Units(R, g) \cup C
  BY DEF Units
<1>5. Units(R, g) \cap C = {}
  BY DEF Units
<1>6. Cardinality(Units(R, g) \cup C) = Cardinality(Units(R, g)) + Cardinality(C) - Cardinality(Units(R, g) \cap C)
  BY <1>2, <1>3, FS_Union
<1>7. Cardinality({}) = 0
  BY FS_EmptySet
<1>8. f[x] \in Nat
  OBVIOUS
<1>9. Total(S, f) = Total(R, g) + f[x]
  <2>1. Total(S, f) = Cardinality(Units(R, g)) + Cardinality(C) - 0
    BY <1>4, <1>5, <1>6, <1>7 DEF Total
  <2>2. Cardinality(Units(R, g)) = Total(R, g)
    BY DEF Total
  <2> HIDE DEF R, g, C
  <2>3. QED
    BY <1>2, <1>3, <1>8, <2>1, <2>2
<1>10. QED
  BY <1>2, <1>9

\* Amounts that agree have one total.
LEMMA TotalSame ==
    ASSUME NEW S, NEW f \in [S -> Nat], NEW g \in [S -> Nat],
           \A y \in S : f[y] = g[y]
    PROVE  Total(S, f) = Total(S, g)
<1>1. f = g
  OBVIOUS
<1>2. QED
  BY <1>1

\* Changing the amount of one row changes the total by the difference.
LEMMA TotalUpdate ==
    ASSUME NEW S, IsFiniteSet(S), NEW f \in [S -> Nat], NEW g \in [S -> Nat],
           NEW x \in S, \A y \in S \ {x} : f[y] = g[y]
    PROVE  Total(S, g) = Total(S, f) - f[x] + g[x]
<1> DEFINE rest(h) == Total(S \ {x}, [y \in S \ {x} |-> h[y]])
<1>1. [y \in S \ {x} |-> f[y]] = [y \in S \ {x} |-> g[y]]
  OBVIOUS
<1>2. rest(f) \in Nat /\ Total(S, f) = rest(f) + f[x]
  BY TotalSplit
<1>3. rest(g) \in Nat /\ Total(S, g) = rest(g) + g[x]
  BY TotalSplit
<1>4. QED
  BY <1>1, <1>2, <1>3

\* No amounts, no total.
LEMMA TotalZero ==
    ASSUME NEW S, NEW f \in [S -> Nat], \A y \in S : f[y] = 0
    PROVE  Total(S, f) = 0
<1>1. Units(S, f) = {}
  BY DEF Units
<1>2. QED
  BY <1>1, FS_EmptySet DEF Total

\* Each amount is at most the total.
LEMMA TotalBounds ==
    ASSUME NEW S, IsFiniteSet(S), NEW f \in [S -> Nat], NEW x \in S
    PROVE  f[x] <= Total(S, f)
<1> DEFINE rest == Total(S \ {x}, [y \in S \ {x} |-> f[y]])
<1>1. rest \in Nat /\ Total(S, f) = rest + f[x]
  BY TotalSplit
<1>2. f[x] \in Nat
  OBVIOUS
<1> HIDE DEF rest
<1>3. QED
  BY <1>1, <1>2

\* The total of the sums of two amounts is the sum of their totals: the units
\* above f[x] are those of g[x], counted from f[x] on.
LEMMA TotalPlus ==
    ASSUME NEW S, IsFiniteSet(S), NEW f \in [S -> Nat], NEW g \in [S -> Nat],
           NEW h \in [S -> Nat], \A x \in S : h[x] = f[x] + g[x]
    PROVE  Total(S, h) = Total(S, f) + Total(S, g)
<1> DEFINE A == Units(S, f)
           G == Units(S, g)
           B == UNION {{x} \X ((f[x] + 1) .. h[x]) : x \in S}
           shift == [u \in G |-> <<u[1], f[u[1]] + u[2]>>]
<1>1. IsFiniteSet(A) /\ IsFiniteSet(G)
  BY TotalType
<1>2. \A x \in S : f[x] \in Nat /\ g[x] \in Nat /\ h[x] = f[x] + g[x]
  OBVIOUS
<1>3. \A u : u \in A <=> \E x \in S : \E n \in 1 .. f[x] : u = <<x, n>>
  BY DEF Units
<1>4. \A u : u \in G <=> \E x \in S : \E n \in 1 .. g[x] : u = <<x, n>>
  BY DEF Units
<1>5. \A u : u \in B <=> \E x \in S : \E n \in (f[x] + 1) .. h[x] : u = <<x, n>>
  OBVIOUS
<1>6. Units(S, h) = A \cup B
  <2>1. \A u : u \in Units(S, h) <=> \E x \in S : \E n \in 1 .. h[x] : u = <<x, n>>
    BY DEF Units
  <2> HIDE DEF A, B
  <2>2. \A x \in S : 1 .. h[x] = (1 .. f[x]) \cup ((f[x] + 1) .. h[x])
    BY <1>2
  <2>3. QED
    BY <1>3, <1>5, <2>1, <2>2
<1>7. A \cap B = {}
  <2> HIDE DEF A, B
  <2>1. \A x \in S : (1 .. f[x]) \cap ((f[x] + 1) .. h[x]) = {}
    BY <1>2
  <2>2. QED
    BY <1>3, <1>5, <2>1
<1>8. shift \in Bijection(G, B)
  <2> HIDE DEF G, B
  <2>1. ASSUME NEW u \in G
        PROVE  shift[u] \in B
    <3>0. PICK x \in S : \E n \in 1 .. g[x] : u = <<x, n>>
      BY <1>4
    <3>1. PICK n \in 1 .. g[x] : u = <<x, n>>
      BY <3>0
    <3>2. shift[u] = <<x, f[x] + n>>
      BY <3>1
    <3>3. f[x] + n \in (f[x] + 1) .. h[x]
      BY <1>2, <3>1
    <3>4. QED
      BY <1>5, <3>2, <3>3
  <2>2. shift \in [G -> B]
    BY <2>1
  <2>3. ASSUME NEW u \in G, NEW v \in G, shift[u] = shift[v]
        PROVE  u = v
    <3>0. PICK x \in S : \E n \in 1 .. g[x] : u = <<x, n>>
      BY <1>4
    <3>1. PICK n \in 1 .. g[x] : u = <<x, n>>
      BY <3>0
    <3>9. PICK y \in S : \E m \in 1 .. g[y] : v = <<y, m>>
      BY <1>4
    <3>2. PICK m \in 1 .. g[y] : v = <<y, m>>
      BY <3>9
    <3>3. shift[u] = <<x, f[x] + n>> /\ shift[v] = <<y, f[y] + m>>
      BY <3>1, <3>2
    <3>4. x = y /\ f[x] + n = f[x] + m
      BY <2>3, <3>3
    <3>5. n = m
      BY <1>2, <3>4
    <3>6. QED
      BY <3>1, <3>2, <3>4, <3>5
  <2>4. ASSUME NEW v \in B
        PROVE  \E u \in G : shift[u] = v
    <3>0. PICK x \in S : \E n \in (f[x] + 1) .. h[x] : v = <<x, n>>
      BY <1>5
    <3>1. PICK n \in (f[x] + 1) .. h[x] : v = <<x, n>>
      BY <3>0
    <3>2. n - f[x] \in 1 .. g[x] /\ f[x] + (n - f[x]) = n
      BY <1>2, <3>1
    <3>3. <<x, n - f[x]>> \in G
      BY <1>4, <3>2
    <3>4. shift[<<x, n - f[x]>>] = v
      BY <3>1, <3>2, <3>3
    <3>5. QED
      BY <3>3, <3>4
  <2> HIDE DEF shift
  <2>5. QED
    BY <2>2, <2>3, <2>4 DEF Bijection, Injection, IsInjective, Surjection
<1>9. IsFiniteSet(B) /\ Cardinality(B) = Cardinality(G)
  <2>1. ExistsBijection(G, B)
    BY <1>8 DEF ExistsBijection
  <2> HIDE DEF G, B
  <2>2. QED
    BY <1>1, <2>1, FS_Bijection
<1>10. Cardinality(A \cup B) = Cardinality(A) + Cardinality(B) - Cardinality(A \cap B)
  <2> HIDE DEF A, B
  <2>1. QED
    BY <1>1, <1>9, FS_Union
<1>11. Cardinality(A) \in Nat /\ Cardinality(G) \in Nat /\ Cardinality({}) = 0
  BY <1>1, FS_CardinalityType, FS_EmptySet
<1>12. Total(S, h) = Cardinality(A \cup B) /\ Total(S, f) = Cardinality(A)
       /\ Total(S, g) = Cardinality(G)
  BY <1>6 DEF Total
<1>13. QED
  <2> HIDE DEF A, B, G
  <2>1. Cardinality(A \cap B) = 0
    BY <1>7, <1>11
  <2>2. Cardinality(A \cup B) = Cardinality(A) + Cardinality(G)
    BY <1>9, <1>10, <1>11, <2>1
  <2>3. QED
    BY <1>12, <2>2

\* The amounts outside a part of the rows are zero.
LEMMA TotalPart ==
    ASSUME NEW S, NEW R, R \subseteq S, NEW f \in [S -> Nat], NEW g \in [R -> Nat],
           \A x \in R : f[x] = g[x], \A x \in S \ R : f[x] = 0
    PROVE  Total(S, f) = Total(R, g)
<1>1. Units(S, f) = Units(R, g)
  BY DEF Units
<1>2. QED
  BY <1>1 DEF Total

\* A larger amount of each row is a larger total.
LEMMA TotalOrder ==
    ASSUME NEW S, IsFiniteSet(S), NEW f \in [S -> Nat], NEW g \in [S -> Nat],
           \A x \in S : f[x] <= g[x]
    PROVE  Total(S, f) <= Total(S, g)
<1> DEFINE h == [x \in S |-> g[x] - f[x]]
<1>1. h \in [S -> Nat] /\ \A x \in S : g[x] = f[x] + h[x]
  OBVIOUS
<1> HIDE DEF h
<1>2. Total(S, g) = Total(S, f) + Total(S, h)
  BY <1>1, TotalPlus
<1>3. Total(S, f) \in Nat /\ Total(S, h) \in Nat
  BY <1>1, TotalType
<1>4. QED
  BY <1>2, <1>3

-----------------------------------------------------------------------------
\* Induction: a set of numbers with 0 and every successor has all of them.
LEMMA SetInduction ==
    ASSUME NEW T, T \subseteq Nat, 0 \in T, \A n \in T : n + 1 \in T
    PROVE  T = Nat
<1> DEFINE R == OpToRel(<, Nat)
           C == Nat \ T
<1>1. IsWellFoundedOn(R, Nat)
  BY NatLessThanWellFounded
<1>2. CASE C # {}
  <2>1. PICK x \in C : \A y \in C : <<y, x>> \notin R
    <3> HIDE DEF R
    <3>1. C \subseteq Nat
      OBVIOUS
    <3> HIDE DEF C
    <3>2. QED
      BY <1>1, <1>2, <3>1, WFMin
  <2>2. \A y \in Nat : y < x => <<y, x>> \in R
    BY DEF OpToRel
  <2>3. \A y \in C : ~(y < x)
    BY <2>1, <2>2
  <2>4. QED
    BY <2>3
<1>3. QED
  BY <1>2

\* There is a function over 0 .. m with this start and these steps.
Recursive(Y, start, m, step) ==
    \E f \in [0 .. m -> Y] :
      f[0] = start /\ \A n \in 1 .. m : f[n] = step[n][f[n - 1]]

\* A function over 0 .. m is defined by its start and its steps.
LEMMA Recursion ==
    ASSUME NEW Y, NEW start, start \in Y, NEW m, m \in Nat, NEW step,
           \A n \in 1 .. m : \A y \in Y : step[n][y] \in Y
    PROVE  Recursive(Y, start, m, step)
<1> DEFINE Defined(k, f) == f[0] = start /\ \A n \in 1 .. k : f[n] = step[n][f[n - 1]]
           Good(k) == \E f \in [0 .. k -> Y] : Defined(k, f)
           T == {k \in Nat : k <= m => Good(k)}
<1>1. 0 \in T
  <2> DEFINE f == [n \in 0 .. 0 |-> start]
  <2>1. f \in [0 .. 0 -> Y] /\ Defined(0, f)
    OBVIOUS
  <2> HIDE DEF f, Defined
  <2>2. QED
    BY <2>1
<1>2. ASSUME NEW k \in T PROVE k + 1 \in T
  <2> SUFFICES ASSUME k + 1 <= m PROVE Good(k + 1)
    OBVIOUS
  <2>1. k \in Nat /\ Good(k)
    <3> HIDE DEF Good
    <3>1. QED
      OBVIOUS
  <2>2. PICK f \in [0 .. k -> Y] : Defined(k, f)
    <3> HIDE DEF Defined
    <3>1. QED
      BY <2>1
  <2> DEFINE v == step[k + 1][f[k]]
             g == [n \in 0 .. k + 1 |-> IF n <= k THEN f[n] ELSE v]
  <2>3. k \in 0 .. k /\ k + 1 \in 1 .. m
    BY <2>1
  <2>4. f[k] \in Y
    BY <2>3
  <2>5. v \in Y
    BY <2>3, <2>4
  <2>6. v = step[k + 1][f[k]]
    OBVIOUS
  <2> HIDE DEF v
  <2>7. g \in [0 .. k + 1 -> Y]
    BY <2>1, <2>5
  <2>8. (\A n \in 0 .. k : g[n] = f[n]) /\ g[k + 1] = v
    BY <2>1
  <2> HIDE DEF g
  <2>9. g[0] = start
    BY <2>1, <2>2, <2>8
  <2>10. ASSUME NEW n \in 1 .. k + 1 PROVE g[n] = step[n][g[n - 1]]
    <3>1. CASE n = k + 1
      <4>1. n - 1 = k /\ k \in 0 .. k
        BY <2>1, <3>1
      <4>2. QED
        BY <2>6, <2>8, <3>1, <4>1
    <3>2. CASE n # k + 1
      <4>1. n \in 1 .. k /\ n \in 0 .. k /\ n - 1 \in 0 .. k
        BY <2>1, <3>2
      <4>2. QED
        BY <2>2, <2>8, <4>1
    <3>3. QED
      BY <3>1, <3>2
  <2>11. Defined(k + 1, g)
    BY <2>9, <2>10
  <2> HIDE DEF Defined
  <2>12. QED
    BY <2>7, <2>11
<1>3. T = Nat
  <2> HIDE DEF T
  <2>1. T \subseteq Nat
    BY DEF T
  <2>2. QED
    BY <1>1, <1>2, <2>1, SetInduction
<1>4. Good(m)
  <2> HIDE DEF Good
  <2>1. QED
    BY <1>3
<1>5. QED
  BY <1>4 DEF Recursive
=============================================================================
