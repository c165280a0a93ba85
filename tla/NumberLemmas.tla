----------------------------- MODULE NumberLemmas -----------------------------
(***************************************************************************)
(* Integer division and products, as the code's size arithmetic uses them  *)
(* (jdiv_round_up, jround_up, the quotients of the sampling factors), and  *)
(* what stands for induction over numbers: least elements, intervals, and   *)
(* the existence of what a recursion defines.                              *)
(***************************************************************************)
EXTENDS Integers, WellFoundedInduction, TLAPS

-------------------------------------------------------------------------------
(* Division and products *)

\* The quotient is the number of whole divisors below.
LEMMA DivIs ==
  ASSUME NEW a \in Int, NEW b \in Nat \ {0}
  PROVE  /\ a \div b \in Int
         /\ (a \div b) * b <= a /\ a < (a \div b) * b + b
  OBVIOUS

\* The remainder is what the quotient leaves.
LEMMA RemainderIs ==
  ASSUME NEW a \in Int, NEW b \in Nat \ {0}
  PROVE  a % b = a - (a \div b) * b
  OBVIOUS

\* Products with a positive factor are ordered as the other factors are.
LEMMA ProductOrder ==
  ASSUME NEW x \in Int, NEW y \in Int, NEW b \in Nat \ {0}
  PROVE  /\ x * b < y * b <=> x < y
         /\ x * b <= y * b <=> x <= y
<1>1. ASSUME NEW u \in Int, NEW v \in Int, u < v  PROVE u * b < v * b
  <2>1. v - u \in Nat \ {0}
    BY <1>1
  <2>2. ASSUME NEW p \in Nat \ {0} PROVE p * b > 0
    OBVIOUS
  <2>3. (v - u) * b > 0
    BY <2>1, <2>2
  <2>4. (v - u) * b = v * b - u * b
    OBVIOUS
  <2> QED BY <2>3, <2>4
<1>2. x * b \in Int /\ y * b \in Int
  OBVIOUS
<1> QED BY <1>1, <1>2

\* Only the quotient has its product that close below.
LEMMA DivUnique ==
  ASSUME NEW a \in Int, NEW b \in Nat \ {0}, NEW q \in Int,
         q * b <= a, a < q * b + b
  PROVE  a \div b = q
<1> DEFINE d == a \div b
<1>1. d \in Int /\ d * b <= a /\ a < (d + 1) * b
  <2>1. (d + 1) * b = d * b + b
    BY DivIs
  <2> QED BY DivIs, <2>1
<1>2. (q + 1) * b = q * b + b
  OBVIOUS
<1> HIDE DEF d
<1>3. d < q + 1
  <2>1. d * b \in Int /\ (q + 1) * b \in Int /\ d * b < (q + 1) * b
    BY <1>1, <1>2
  <2> QED BY <2>1, <1>1, ProductOrder
<1>4. q < d + 1
  <2>1. q * b \in Int /\ (d + 1) * b \in Int /\ q * b < (d + 1) * b
    BY <1>1
  <2> QED BY <2>1, <1>1, ProductOrder
<1>5. d = q
  BY <1>1, <1>3, <1>4
<1> QED BY <1>5 DEF d

\* A multiple of the divisor leaves the division unscathed.
LEMMA DivShift ==
  ASSUME NEW a \in Int, NEW b \in Nat \ {0}, NEW q \in Int
  PROVE  (q * b + a) \div b = q + a \div b
<1> DEFINE d == a \div b
<1>1. d \in Int /\ d * b <= a /\ a < d * b + b
  BY DivIs
<1> HIDE DEF d
<1>2. (q + d) * b = q * b + d * b
  BY <1>1
<1>3. q + d \in Int /\ q * b + a \in Int /\ q * b \in Int /\ d * b \in Int
  BY <1>1
<1>4. (q + d) * b <= q * b + a /\ q * b + a < (q + d) * b + b
  BY <1>1, <1>2, <1>3
<1>5. (q * b + a) \div b = q + d
  BY <1>3, <1>4, DivUnique
<1> QED BY <1>5 DEF d

\* A product distributes over the sum that is one of its factors.
LEMMA SumTimes ==
  ASSUME NEW a \in Int, NEW b \in Int, NEW c \in Int
  PROVE  (a + b) * c = a * c + b * c
  OBVIOUS

\* A product of positive numbers is positive.
LEMMA PositiveProduct ==
  ASSUME NEW a \in Nat \ {0}, NEW b \in Nat \ {0}
  PROVE  a * b \in Nat \ {0}
<1>1. 0 * b < a * b
  BY ProductOrder, 0 \in Int
<1> QED BY <1>1

\* Rounding up: the quotient is the number of divisors that cover a number.
LEMMA RoundedUp ==
  ASSUME NEW a \in Nat \ {0}, NEW b \in Nat \ {0}
  PROVE  /\ (a + b - 1) \div b \in Nat \ {0}
         /\ ((a + b - 1) \div b - 1) * b < a
         /\ a <= ((a + b - 1) \div b) * b
<1> DEFINE q == (a + b - 1) \div b
<1>1. q \in Int /\ q * b <= a + b - 1 /\ a + b - 1 < q * b + b
  BY DivIs, a + b - 1 \in Int
<1> HIDE DEF q
<1>2. (q - 1) * b = q * b - b /\ q * b \in Int
  BY <1>1
<1>3. 0 * b < q * b
  BY <1>1, <1>2
<1>4. 0 < q
  BY <1>1, <1>3, ProductOrder, 0 \in Int
<1> QED BY <1>1, <1>2, <1>4 DEF q

\* Only the rounded quotient covers it so.
LEMMA RoundedUnique ==
  ASSUME NEW a \in Nat \ {0}, NEW b \in Nat \ {0}, NEW q \in Int,
         (q - 1) * b < a, a <= q * b
  PROVE  (a + b - 1) \div b = q
<1>1. (q - 1) * b = q * b - b /\ q * b \in Int
  OBVIOUS
<1>2. q * b <= a + b - 1 /\ a + b - 1 < q * b + b /\ a + b - 1 \in Int
  BY <1>1
<1> QED BY <1>2, DivUnique

\* The quotient is below what its product is below.
LEMMA DivBelow ==
  ASSUME NEW a \in Nat, NEW b \in Nat \ {0}
  PROVE  /\ a \div b \in Nat
         /\ \A n \in Int : a < n * b => a \div b < n
<1> DEFINE q == a \div b
<1>1. q \in Int /\ q * b <= a /\ a < q * b + b
  BY DivIs
<1> HIDE DEF q
<1>2. (q + 1) * b = q * b + b /\ q * b \in Int /\ 0 * b = 0
  BY <1>1
<1>3. 0 < q + 1
  <2>1. 0 * b < (q + 1) * b
    BY <1>1, <1>2
  <2> QED BY <2>1, <1>1, ProductOrder, 0 \in Int, q + 1 \in Int
<1>4. ASSUME NEW n \in Int, a < n * b  PROVE q < n
  <2>1. q * b < n * b
    BY <1>1, <1>2, <1>4
  <2> QED BY <2>1, <1>1, ProductOrder
<1> QED BY <1>1, <1>3, <1>4 DEF q

-------------------------------------------------------------------------------
(* Least and greatest numbers *)

\* Every set of natural numbers has a least element.
LEMMA LeastNat ==
  ASSUME NEW T \in SUBSET Nat, T # {}
  PROVE  \E m \in T : \A n \in T : m <= n
<1> DEFINE R == OpToRel(<, Nat)
<1>1. IsWellFoundedOn(R, Nat)
  BY NatLessThanWellFounded
<1>2. \A x \in Nat, y \in Nat : y < x => <<y, x>> \in R
  BY DEF OpToRel
<1> HIDE DEF R
<1>3. PICK m \in T : \A y \in T : ~(<<y, m>> \in R)
  <2>1. \E x \in T : \A y \in T : ~(<<y, x>> \in R)
    BY <1>1, WFMin
  <2> QED BY <2>1, Zenon
<1>4. \A y \in T : ~(y < m)
  BY <1>2, <1>3, Zenon
<1> QED BY <1>4

\* A bounded one has a greatest element.
LEMMA GreatestNat ==
  ASSUME NEW T \in SUBSET Nat, T # {}, NEW b \in Nat, \A n \in T : n <= b
  PROVE  \E m \in T : \A n \in T : n <= m
<1> DEFINE D == {d \in Nat : b - d \in T}
<1>1. \A n \in T : b - n \in D
  OBVIOUS
<1>2. D \in SUBSET Nat /\ D # {}
  BY <1>1
<1>3. \A d \in D : d \in Nat /\ b - d \in T
  OBVIOUS
<1> HIDE DEF D
<1>4. PICK d \in D : \A e \in D : d <= e
  BY <1>2, LeastNat
<1>5. \A n \in T : d <= b - n
  BY <1>1, <1>4
<1> QED BY <1>3, <1>4, <1>5

-------------------------------------------------------------------------------
(* Induction and recursion *)

\* A set that has the first number of an interval, and with a number the next,
\* has all of them.
LEMMA IntervalInduction ==
  ASSUME NEW b \in Int, NEW e \in Int, NEW P,
         b \in P, \A k \in b .. e : k # b /\ k - 1 \in P => k \in P
  PROVE  \A k \in b .. e : k \in P
<1> DEFINE Bad == {m \in Nat : b + m <= e /\ b + m \notin P}
<1>1. ASSUME Bad # {}  PROVE FALSE
  <2>1. Bad \in SUBSET Nat
    OBVIOUS
  <2>2. PICK m \in Bad : \A l \in Bad : m <= l
    <3> HIDE DEF Bad
    <3> QED BY <1>1, <2>1, LeastNat
  <2>3. m \in Nat /\ b + m <= e /\ b + m \notin P
    BY <2>2
  <2>4. m # 0
    <3>1. b + 0 = b
      OBVIOUS
    <3> QED BY <2>3, <3>1
  <2>5. m - 1 \in Nat /\ m - 1 \notin Bad
    <3> HIDE DEF Bad
    <3> QED BY <2>2, <2>3, <2>4
  <2>6. b + m - 1 \in P
    <3>1. b + (m - 1) = b + m - 1 /\ b + (m - 1) <= e
      BY <2>3
    <3> QED BY <2>5, <3>1
  <2>7. b + m \in b .. e /\ b + m # b
    BY <2>3, <2>4
  <2> QED BY <2>3, <2>6, <2>7
<1> SUFFICES ASSUME NEW k \in b .. e  PROVE k \in P
  OBVIOUS
<1>2. k - b \in Nat /\ b + (k - b) = k /\ k <= e
  OBVIOUS
<1>3. k - b \notin Bad
  BY <1>1
<1> QED BY <1>2, <1>3

\* f follows the recursion that starts with a at b and goes on with F, up to e.
Recursion(f, S, a, b, e, F) ==
  /\ f \in [b .. e -> S]
  /\ \A k \in b .. e : f[k] = IF k = b THEN a ELSE F[k][f[k - 1]]

\* A recursion along an interval has a solution.
LEMMA RecursionExists ==
  ASSUME NEW S, NEW a \in S, NEW b \in Int, NEW e \in Int, b <= e,
         NEW F \in [b .. e -> [S -> S]]
  PROVE  \E f : Recursion(f, S, a, b, e, F)
<1> DEFINE n == e - b
           Solves(f, m) ==
             /\ f \in [b .. b + m -> S]
             /\ f = [k \in b .. b + m |-> IF k = b THEN a ELSE F[k][f[k - 1]]]
           Bad == {m \in 0 .. n : ~ \E f : Solves(f, m)}
<1>1. ASSUME Bad # {}  PROVE FALSE
  <2>1. Bad \in SUBSET Nat
    OBVIOUS
  <2>2. PICK m \in Bad : \A l \in Bad : m <= l
    <3> HIDE DEF Bad
    <3> QED BY <1>1, <2>1, LeastNat
  <2>3. m \in 0 .. n /\ ~ \E f : Solves(f, m)
    BY <2>2
  <2>4. CASE m = 0
    <3> DEFINE g == [k \in b .. b + 0 |-> a]
    <3>1. Solves(g, 0)
      OBVIOUS
    <3> QED BY <3>1, <2>3, <2>4
  <2>5. CASE m # 0
    <3>1. m - 1 \in 0 .. n /\ m - 1 \notin Bad
      <4> HIDE DEF Bad
      <4> QED BY <2>2, <2>3, <2>5
    <3>2. PICK f : Solves(f, m - 1)
      BY <3>1
    <3> DEFINE g == [k \in b .. b + m |-> IF k < b + m THEN f[k] ELSE F[k][f[k - 1]]]
    <3>3. f \in [b .. b + m - 1 -> S] /\ b + m \in b .. e
      BY <3>2, <2>3, <2>5
    <3>4. \A k \in b .. b + m - 1 : f[k] = IF k = b THEN a ELSE F[k][f[k - 1]]
      BY <3>2, <2>3, <2>5
    <3>5. F[b + m][f[b + m - 1]] \in S
      BY <3>3, <2>3, <2>5
    <3> HIDE DEF Bad, Solves
    <3>6. \A k \in b .. b + m : g[k] = IF k = b THEN a ELSE F[k][g[k - 1]]
      <4> SUFFICES ASSUME NEW k \in b .. b + m
                   PROVE  g[k] = IF k = b THEN a ELSE F[k][g[k - 1]]
        OBVIOUS
      <4>1. CASE k < b + m
        <5>1. k \in b .. b + m - 1 /\ g[k] = f[k]
          BY <4>1, <2>3
        <5>2. CASE k # b
          <6>1. k - 1 \in b .. b + m /\ k - 1 < b + m
            BY <5>1, <5>2, <2>3
          <6>2. g[k - 1] = f[k - 1]
            BY <6>1
          <6> HIDE DEF g
          <6> QED BY <5>1, <5>2, <6>2, <3>4
        <5> QED BY <5>1, <5>2, <3>4
      <4>2. CASE k = b + m
        <5>1. k # b /\ g[k] = F[k][f[k - 1]]
          BY <4>2, <2>3, <2>5
        <5>2. k - 1 \in b .. b + m /\ k - 1 < b + m
          BY <4>2, <2>3, <2>5
        <5>3. g[k - 1] = f[k - 1]
          BY <5>2
        <5> HIDE DEF g
        <5> QED BY <5>1, <5>3, Zenon
      <4> QED BY <4>1, <4>2, <2>3
    <3>7. g \in [b .. b + m -> S]
      <4> SUFFICES ASSUME NEW k \in b .. b + m
                   PROVE  (IF k < b + m THEN f[k] ELSE F[k][f[k - 1]]) \in S
        OBVIOUS
      <4> QED BY <3>3, <3>5, <2>3
    <3>8. Solves(g, m)
      <4> HIDE DEF g
      <4> QED BY <3>6, <3>7 DEF Solves
    <3> QED BY <3>8, <2>3
  <2> QED BY <2>4, <2>5
<1>2. n \in 0 .. n /\ b + n = e
  OBVIOUS
<1>3. PICK f : Solves(f, n)
  BY <1>1, <1>2, Zenon
<1>4. \A k \in b .. e : f[k] = IF k = b THEN a ELSE F[k][f[k - 1]]
  BY <1>2, <1>3
<1> QED BY <1>2, <1>3, <1>4 DEF Recursion
===============================================================================
