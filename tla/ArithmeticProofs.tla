-------------------------- MODULE ArithmeticProofs --------------------------
(***************************************************************************)
(* Facts about sums, products and powers, about congruence modulo p and    *)
(* about inverses modulo a prime, for SharingProofs.  Induction is by the  *)
(* least element of a set of counterexamples, which needs no predicate as  *)
(* a parameter.                                                            *)
(***************************************************************************)
EXTENDS Arithmetic, WellFoundedInduction, TLAPS

-----------------------------------------------------------------------------
(* Induction and recursion *)

\* Every nonempty set of natural numbers has a least element: induction over data starts here.
LEMMA LeastElement ==
    ASSUME NEW T, T \subseteq Nat, T # {}
    PROVE  \E n \in T : \A m \in T : n <= m
<1>1. PICK n \in T : \A m \in T : <<m, n>> \notin OpToRel(<, Nat)
  BY WFMin, NatLessThanWellFounded
<1>2. \A m \in T : ~(m < n)
  BY <1>1 DEF OpToRel
<1> QED BY <1>2

\* Induction over the natural numbers, for a set G in place of a predicate.
LEMMA Induction ==
    ASSUME NEW G, 0 \in G, \A n \in Nat : n \in G => n + 1 \in G
    PROVE  \A n \in Nat : n \in G
<1> DEFINE T == Nat \ G
<1> SUFFICES ASSUME T # {} PROVE FALSE
  OBVIOUS
<1>1. PICK n \in T : \A m \in T : n <= m
  <2> HIDE DEF T
  <2> T \subseteq Nat
    BY DEF T
  <2> QED BY LeastElement
<1>2. n # 0
  OBVIOUS
<1>3. n - 1 \in Nat /\ n - 1 \notin T
  BY <1>1, <1>2
<1> QED BY <1>3

\* Induction over 0..n.
LEMMA InductionTo ==
    ASSUME NEW n \in Nat, NEW G, 0 \in G, \A i \in 1..n : i - 1 \in G => i \in G
    PROVE  \A i \in 0..n : i \in G
<1> DEFINE H == {i \in Nat : i <= n => i \in G}
<1>1. 0 \in H
  OBVIOUS
<1>2. \A i \in Nat : i \in H => i + 1 \in H
  <2> SUFFICES ASSUME NEW i \in Nat, i \in H, i + 1 <= n PROVE i + 1 \in G
    OBVIOUS
  <2>1. i + 1 \in 1..n /\ (i + 1) - 1 = i /\ i \in G
    OBVIOUS
  <2> QED BY <2>1
<1>3. \A i \in Nat : i \in H
  <2> HIDE DEF H
  <2> QED BY <1>1, <1>2, Induction
<1> QED BY <1>3

\* f applies the steps step[1] ... step[n] to c, one after the other.
Iterates(f, n, c, step) == f[0] = c /\ \A i \in 1..n : f[i] = step[i][f[i - 1]]

\* There is such a function: recursive functions have values.
LEMMA Recursion ==
    ASSUME NEW n \in Nat, NEW S, NEW c \in S, NEW step \in [1..n -> [S -> S]]
    PROVE  \E f \in [0..n -> S] : Iterates(f, n, c, step)
<1> DEFINE G == {m \in 0..n : \E f \in [0..m -> S] : Iterates(f, m, c, step)}
<1>1. 0 \in G
  <2> DEFINE f == [i \in 0..0 |-> c]
  <2>1. f \in [0..0 -> S] /\ Iterates(f, 0, c, step)
    BY DEF Iterates
  <2>2. 0 \in 0..n
    OBVIOUS
  <2> HIDE DEF f
  <2> QED BY <2>1, <2>2
<1>2. ASSUME NEW m \in 1..n, m - 1 \in G
      PROVE  m \in G
  <2>1. PICK f \in [0..(m - 1) -> S] : Iterates(f, m - 1, c, step)
    BY <1>2
  <2> DEFINE g == [i \in 0..m |-> IF i = m THEN step[m][f[m - 1]] ELSE f[i]]
  <2>2. g \in [0..m -> S]
    OBVIOUS
  <2>3. Iterates(g, m, c, step)
    BY <2>1 DEF Iterates
  <2>4. m \in 0..n
    OBVIOUS
  <2> HIDE DEF g
  <2> QED BY <2>2, <2>3, <2>4
<1>3. n \in 0..n
  OBVIOUS
<1>4. n \in G
  <2> HIDE DEF G
  <2> QED BY <1>1, <1>2, <1>3, InductionTo
<1> QED BY <1>4

-----------------------------------------------------------------------------
(* Sums and products *)

\* s[i] is the sum of the first i terms of f.
AreSums(s, f, n) ==
    /\ s \in [0..n -> Int]
    /\ s[0] = 0
    /\ \A i \in 1..n : s[i] = s[i - 1] + f[i]

SumStep(f, n) == [i \in 1..n |-> [x \in Int |-> x + f[i]]]

\* The recursion of PartialSums holds.
LEMMA PartialSumsDef ==
    ASSUME NEW n \in Nat, NEW f \in [1..n -> Int]
    PROVE  AreSums(PartialSums(f, n), f, n)
<1> DEFINE Eq(s) == s = [i \in 0..n |-> IF i = 0 THEN 0 ELSE s[i - 1] + f[i]]
<1>1. PICK s \in [0..n -> Int] : Iterates(s, n, 0, SumStep(f, n))
  <2>1. SumStep(f, n) \in [1..n -> [Int -> Int]] /\ 0 \in Int
    BY DEF SumStep
  <2> QED BY <2>1, Recursion
<1>2. /\ s[0] = 0
      /\ \A i \in 1..n : s[i] = s[i - 1] + f[i]
  <2>1. \A i \in 1..n : s[i - 1] \in Int
    OBVIOUS
  <2> QED BY <1>1, <2>1 DEF Iterates, SumStep
<1>3. Eq(s)
  <2>1. \A i \in 0..n : i # 0 => i \in 1..n
    OBVIOUS
  <2> QED BY <1>2, <2>1
<1>4. Eq(PartialSums(f, n))
  <2>1. PartialSums(f, n) = CHOOSE t : Eq(t)
    BY DEF PartialSums
  <2> HIDE DEF Eq
  <2> QED BY <1>3, <2>1
<1>5. ASSUME NEW t, Eq(t)
      PROVE  t = s
  <2> DEFINE G == {i \in 0..n : t[i] = s[i]}
  <2>1. 0 \in G
    BY <1>2, <1>5
  <2>2. ASSUME NEW i \in 1..n, i - 1 \in G
        PROVE  i \in G
    <3>1. i \in 0..n /\ i # 0 /\ t[i - 1] = s[i - 1]
      BY <2>2
    <3>2. t[i] = t[i - 1] + f[i]
      BY <1>5, <3>1
    <3> QED BY <1>2, <3>1, <3>2
  <2>3. \A i \in 0..n : i \in G
    <3> HIDE DEF G
    <3> QED BY <2>1, <2>2, InductionTo
  <2> QED BY <2>3, <1>5
<1>6. PartialSums(f, n) = s
  <2> HIDE DEF Eq
  <2> QED BY <1>4, <1>5
<1> QED BY <1>2, <1>6 DEF AreSums

\* s[i] is the product of the first i factors of f.
AreProducts(s, f, n) ==
    /\ s \in [0..n -> Int]
    /\ s[0] = 1
    /\ \A i \in 1..n : s[i] = s[i - 1] * f[i]

ProductStep(f, n) == [i \in 1..n |-> [x \in Int |-> x * f[i]]]

\* The recursion of PartialProducts holds.
LEMMA PartialProductsDef ==
    ASSUME NEW n \in Nat, NEW f \in [1..n -> Int]
    PROVE  AreProducts(PartialProducts(f, n), f, n)
<1> DEFINE Eq(s) == s = [i \in 0..n |-> IF i = 0 THEN 1 ELSE s[i - 1] * f[i]]
<1>1. PICK s \in [0..n -> Int] : Iterates(s, n, 1, ProductStep(f, n))
  <2>1. ProductStep(f, n) \in [1..n -> [Int -> Int]] /\ 1 \in Int
    BY DEF ProductStep
  <2> QED BY <2>1, Recursion
<1>2. /\ s[0] = 1
      /\ \A i \in 1..n : s[i] = s[i - 1] * f[i]
  <2>1. \A i \in 1..n : s[i - 1] \in Int
    OBVIOUS
  <2> QED BY <1>1, <2>1 DEF Iterates, ProductStep
<1>3. Eq(s)
  <2>1. \A i \in 0..n : i # 0 => i \in 1..n
    OBVIOUS
  <2> QED BY <1>2, <2>1
<1>4. Eq(PartialProducts(f, n))
  <2>1. PartialProducts(f, n) = CHOOSE t : Eq(t)
    BY DEF PartialProducts
  <2> HIDE DEF Eq
  <2> QED BY <1>3, <2>1
<1>5. ASSUME NEW t, Eq(t)
      PROVE  t = s
  <2> DEFINE G == {i \in 0..n : t[i] = s[i]}
  <2>1. 0 \in G
    BY <1>2, <1>5
  <2>2. ASSUME NEW i \in 1..n, i - 1 \in G
        PROVE  i \in G
    <3>1. i \in 0..n /\ i # 0 /\ t[i - 1] = s[i - 1]
      BY <2>2
    <3>2. t[i] = t[i - 1] * f[i]
      BY <1>5, <3>1
    <3> QED BY <1>2, <3>1, <3>2
  <2>3. \A i \in 0..n : i \in G
    <3> HIDE DEF G
    <3> QED BY <2>1, <2>2, InductionTo
  <2> QED BY <2>3, <1>5
<1>6. PartialProducts(f, n) = s
  <2> HIDE DEF Eq
  <2> QED BY <1>4, <1>5
<1> QED BY <1>2, <1>6 DEF AreProducts

\* A sum without one of its terms is smaller by that term.
LEMMA SumWithout ==
    ASSUME NEW n \in Nat, NEW f \in [1..n -> Int], NEW a \in 1..n
    PROVE  SumOf(f, n) = SumOf([f EXCEPT ![a] = 0], n) + f[a]
<1> DEFINE g == [f EXCEPT ![a] = 0]
           s == PartialSums(f, n)
           t == PartialSums(g, n)
           P(i) == s[i] = t[i] + (IF a <= i THEN f[a] ELSE 0)
           G == {i \in 0..n : P(i)}
<1>1. g \in [1..n -> Int] /\ g[a] = 0 /\ \A i \in 1..n : i # a => g[i] = f[i]
  OBVIOUS
<1>2. SumOf(f, n) = s[n] /\ SumOf(g, n) = t[n]
  BY DEF SumOf
<1> HIDE DEF g
<1>3. AreSums(s, f, n)
  BY PartialSumsDef
<1>4. AreSums(t, g, n)
  BY <1>1, PartialSumsDef
<1> HIDE DEF s, t
<1> USE DEF AreSums
<1>5. 0 \in G
  BY <1>3, <1>4
<1>6. ASSUME NEW i \in 1..n, i - 1 \in G
      PROVE  i \in G
  <2>1. i \in 0..n /\ i - 1 \in 0..n /\ f[i] \in Int /\ f[a] \in Int
    OBVIOUS
  <2>2. P(i - 1)
    BY <1>6
  <2>3. s[i] = s[i - 1] + f[i] /\ t[i] = t[i - 1] + g[i] /\ s[i - 1] \in Int /\ t[i - 1] \in Int
    BY <1>3, <1>4, <2>1
  <2>4. CASE i = a
    <3>1. s[i - 1] = t[i - 1] /\ g[i] = 0
      BY <1>1, <2>2, <2>3, <2>4
    <3> QED BY <2>1, <2>3, <2>4, <3>1
  <2>5. CASE i < a
    <3>1. s[i - 1] = t[i - 1] /\ g[i] = f[i]
      BY <1>1, <2>2, <2>3, <2>5
    <3> QED BY <2>1, <2>3, <2>5, <3>1
  <2>6. CASE i > a
    <3>1. s[i - 1] = t[i - 1] + f[a] /\ g[i] = f[i]
      BY <1>1, <2>2, <2>6
    <3> QED BY <2>1, <2>3, <2>6, <3>1
  <2> QED BY <2>4, <2>5, <2>6
<1>7. \A i \in 0..n : i \in G
  <2> HIDE DEF G
  <2> QED BY <1>5, <1>6, InductionTo
<1>8. P(n)
  BY <1>7
<1> QED BY <1>2, <1>8 DEF g

\* A product is the product without one of its factors, times that factor.
LEMMA ProductWithout ==
    ASSUME NEW n \in Nat, NEW f \in [1..n -> Int], NEW a \in 1..n
    PROVE  ProductOf(f, n) = ProductOf([f EXCEPT ![a] = 1], n) * f[a]
<1> DEFINE g == [f EXCEPT ![a] = 1]
           s == PartialProducts(f, n)
           t == PartialProducts(g, n)
           P(i) == s[i] = t[i] * (IF a <= i THEN f[a] ELSE 1)
           G == {i \in 0..n : P(i)}
<1>1. g \in [1..n -> Int] /\ g[a] = 1 /\ \A i \in 1..n : i # a => g[i] = f[i]
  OBVIOUS
<1>2. ProductOf(f, n) = s[n] /\ ProductOf(g, n) = t[n]
  BY DEF ProductOf
<1> HIDE DEF g
<1>3. AreProducts(s, f, n)
  BY PartialProductsDef
<1>4. AreProducts(t, g, n)
  BY <1>1, PartialProductsDef
<1> HIDE DEF s, t
<1> USE DEF AreProducts
<1>5. 0 \in G
  BY <1>3, <1>4
<1>6. ASSUME NEW i \in 1..n, i - 1 \in G
      PROVE  i \in G
  <2>1. i \in 0..n /\ i - 1 \in 0..n /\ f[i] \in Int /\ f[a] \in Int
    OBVIOUS
  <2>2. P(i - 1)
    BY <1>6
  <2>3. s[i] = s[i - 1] * f[i] /\ t[i] = t[i - 1] * g[i] /\ s[i - 1] \in Int /\ t[i - 1] \in Int
    BY <1>3, <1>4, <2>1
  <2>4. CASE i = a
    <3>1. s[i - 1] = t[i - 1]
      BY <2>2, <2>3, <2>4
    <3> QED BY <1>1, <2>1, <2>3, <2>4, <3>1
  <2>5. CASE i < a
    BY <1>1, <2>1, <2>2, <2>3, <2>5
  <2>6. CASE i > a
    <3>1. s[i - 1] = t[i - 1] * f[a] /\ g[i] = f[i]
      BY <1>1, <2>2, <2>6
    <3>2. (t[i - 1] * f[a]) * f[i] = (t[i - 1] * f[i]) * f[a]
      BY <2>1, <2>3
    <3> QED BY <2>1, <2>3, <2>6, <3>1, <3>2
  <2> QED BY <2>4, <2>5, <2>6
<1>7. \A i \in 0..n : i \in G
  <2> HIDE DEF G
  <2> QED BY <1>5, <1>6, InductionTo
<1>8. P(n)
  BY <1>7
<1> QED BY <1>2, <1>8 DEF g

\* A sum of zeros is 0.
LEMMA SumOfZeros ==
    ASSUME NEW n \in Nat, NEW f \in [1..n -> Int], \A i \in 1..n : f[i] = 0
    PROVE  SumOf(f, n) = 0
<1> DEFINE s == PartialSums(f, n)
           G == {i \in 0..n : s[i] = 0}
<1>1. AreSums(s, f, n)
  BY PartialSumsDef
<1>2. SumOf(f, n) = s[n]
  BY DEF SumOf
<1> HIDE DEF s
<1>3. 0 \in G
  BY <1>1 DEF AreSums
<1>4. ASSUME NEW i \in 1..n, i - 1 \in G
      PROVE  i \in G
  BY <1>1, <1>4 DEF AreSums
<1>5. \A i \in 0..n : i \in G
  <2> HIDE DEF G
  <2> QED BY <1>3, <1>4, InductionTo
<1> QED BY <1>2, <1>5

\* A product of ones is 1.
LEMMA ProductOfOnes ==
    ASSUME NEW n \in Nat, NEW f \in [1..n -> Int], \A i \in 1..n : f[i] = 1
    PROVE  ProductOf(f, n) = 1
<1> DEFINE s == PartialProducts(f, n)
           G == {i \in 0..n : s[i] = 1}
<1>1. AreProducts(s, f, n)
  BY PartialProductsDef
<1>2. ProductOf(f, n) = s[n]
  BY DEF ProductOf
<1> HIDE DEF s
<1>3. 0 \in G
  BY <1>1 DEF AreProducts
<1>4. ASSUME NEW i \in 1..n, i - 1 \in G
      PROVE  i \in G
  BY <1>1, <1>4 DEF AreProducts
<1>5. \A i \in 0..n : i \in G
  <2> HIDE DEF G
  <2> QED BY <1>3, <1>4, InductionTo
<1> QED BY <1>2, <1>5

\* The recursion of Power holds.
LEMMA PowerDef ==
    ASSUME NEW x \in Int
    PROVE  /\ Power(x, 0) = 1
           /\ \A n \in Nat : Power(x, n) \in Int /\ Power(x, n + 1) = Power(x, n) * x
<1> DEFINE F(n) == [i \in 1..n |-> x]
           S(n) == PartialProducts(F(n), n)
<1>1. \A n \in Nat : F(n) \in [1..n -> Int] /\ \A i \in 1..n : F(n)[i] = x
  OBVIOUS
<1>2. \A n \in Nat : Power(x, n) = S(n)[n]
  BY DEF Power, ProductOf
<1> HIDE DEF F
<1>3. \A n \in Nat : AreProducts(S(n), F(n), n)
  BY <1>1, PartialProductsDef
<1> HIDE DEF S
<1>4. \A n \in Nat : S(n)[0] = 1 /\ S(n) \in [0..n -> Int]
  BY <1>3 DEF AreProducts
<1>5. \A n \in Nat : \A i \in 1..n : S(n)[i] = S(n)[i - 1] * x
  BY <1>1, <1>3 DEF AreProducts
<1>6. ASSUME NEW n \in Nat
      PROVE  Power(x, n) \in Int /\ Power(x, n + 1) = Power(x, n) * x
  <2> DEFINE G == {i \in 0..n : S(n + 1)[i] = S(n)[i]}
  <2>1. 0 \in G
    BY <1>4
  <2>2. ASSUME NEW i \in 1..n, i - 1 \in G
        PROVE  i \in G
    <3>1. i \in 1..(n + 1) /\ i \in 0..n /\ n + 1 \in Nat
      OBVIOUS
    <3>2. S(n + 1)[i] = S(n + 1)[i - 1] * x /\ S(n)[i] = S(n)[i - 1] * x
      BY <1>5, <3>1
    <3> QED BY <2>2, <3>1, <3>2
  <2>3. \A i \in 0..n : i \in G
    <3> HIDE DEF G
    <3> QED BY <2>1, <2>2, InductionTo
  <2>4. S(n + 1)[n] = S(n)[n] /\ S(n)[n] \in Int
    BY <1>4, <2>3
  <2>5. S(n + 1)[n + 1] = S(n + 1)[n] * x
    <3>1. n + 1 \in 1..(n + 1) /\ (n + 1) - 1 = n /\ n + 1 \in Nat
      OBVIOUS
    <3>2. S(n + 1)[n + 1] = S(n + 1)[(n + 1) - 1] * x
      BY <1>5, <3>1
    <3> QED BY <3>1, <3>2
  <2> QED BY <1>2, <2>4, <2>5
<1>7. Power(x, 0) = 1
  BY <1>2, <1>4
<1> QED BY <1>6, <1>7

\* Powers of a positive number are positive.
LEMMA PowerPositive ==
    ASSUME NEW x \in Nat \ {0}
    PROVE  \A n \in Nat : Power(x, n) \in Nat \ {0}
<1> DEFINE G == {n \in Nat : Power(x, n) \in Nat \ {0}}
<1>1. 0 \in G
  BY PowerDef
<1>2. ASSUME NEW n \in Nat, n \in G
      PROVE  n + 1 \in G
  <2>1. Power(x, n + 1) = Power(x, n) * x
    BY PowerDef
  <2>2. \A y, z \in Nat \ {0} : y * z \in Nat \ {0}
    OBVIOUS
  <2> QED BY <1>2, <2>1, <2>2
<1>3. \A n \in Nat : n \in G
  <2> HIDE DEF G
  <2> QED BY <1>1, <1>2, Induction
<1> QED BY <1>3

\* Powers of a positive number do not decrease with the exponent.
LEMMA PowerMonotone ==
    ASSUME NEW x \in Nat \ {0}, NEW j \in Nat, NEW k \in Nat, j <= k
    PROVE  Power(x, j) <= Power(x, k)
<1> DEFINE G == {d \in Nat : Power(x, j) <= Power(x, j + d)}
<1>1. 0 \in G
  <2> j + 0 = j /\ Power(x, j) \in Nat \ {0}
    BY PowerPositive
  <2> QED OBVIOUS
<1>2. ASSUME NEW d \in Nat, d \in G
      PROVE  d + 1 \in G
  <2> DEFINE P == Power(x, j)
             Q == Power(x, j + d)
             R == Power(x, (j + d) + 1)
  <2>1. P \in Nat /\ Q \in Nat /\ R = Q * x
    <3>1. j + d \in Nat
      OBVIOUS
    <3>2. P \in Nat /\ Q \in Nat
      BY <3>1, PowerPositive
    <3>3. R = Q * x
      BY <3>1, PowerDef
    <3> QED BY <3>2, <3>3
  <2>2. P <= Q
    BY <1>2
  <2>3. (j + d) + 1 = j + (d + 1)
    OBVIOUS
  <2> HIDE DEF P, Q, R
  <2>4. R >= Q
    BY <2>1
  <2>5. P <= R
    <3> R \in Nat
      BY <2>1
    <3> QED BY <2>1, <2>2, <2>4
  <2> QED BY <2>3, <2>5 DEF P, R
<1>3. \A d \in Nat : d \in G
  <2> HIDE DEF G
  <2> QED BY <1>1, <1>2, Induction
<1>4. k - j \in G /\ j + (k - j) = k
  BY <1>3
<1> QED BY <1>4

\* A power of 2 or more is above its exponent.
LEMMA PowerAbove ==
    ASSUME NEW x \in Nat, x >= 2
    PROVE  \A n \in Nat : n < Power(x, n)
<1> DEFINE G == {n \in Nat : n < Power(x, n)}
<1>1. 0 \in G
  BY PowerDef
<1>2. ASSUME NEW n \in Nat, n \in G
      PROVE  n + 1 \in G
  <2> DEFINE P == Power(x, n)
  <2>1. P \in Int /\ Power(x, n + 1) = P * x /\ n < P
    BY <1>2, PowerDef
  <2> HIDE DEF P
  <2>2. P * x >= P * 2
    BY <2>1
  <2>3. n + 1 < P * x
    BY <2>1, <2>2
  <2> QED BY <2>1, <2>3
<1>3. \A n \in Nat : n \in G
  <2> HIDE DEF G
  <2> QED BY <1>1, <1>2, Induction
<1> QED BY <1>3

-----------------------------------------------------------------------------
(* Congruence *)

Congruent(a, b, p) == \E k \in Int : a = b + k * p

\* Congruence is reflexive.
LEMMA CongruentRefl ==
    ASSUME NEW p \in Int, NEW a \in Int
    PROVE  Congruent(a, a, p)
<1> a = a + 0 * p
  OBVIOUS
<1> QED BY DEF Congruent

\* Congruence is symmetric.
LEMMA CongruentSym ==
    ASSUME NEW p \in Int, NEW a \in Int, NEW b \in Int, Congruent(a, b, p)
    PROVE  Congruent(b, a, p)
<1>1. PICK k \in Int : a = b + k * p
  BY DEF Congruent
<1>2. -k \in Int /\ b = a + (-k) * p
  BY <1>1
<1> QED BY <1>2 DEF Congruent

\* Congruence is transitive.
LEMMA CongruentTrans ==
    ASSUME NEW p \in Int, NEW a \in Int, NEW b \in Int, NEW c \in Int,
           Congruent(a, b, p), Congruent(b, c, p)
    PROVE  Congruent(a, c, p)
<1>1. PICK k \in Int : a = b + k * p
  BY DEF Congruent
<1>2. PICK l \in Int : b = c + l * p
  BY DEF Congruent
<1>3. k + l \in Int /\ a = c + (k + l) * p
  BY <1>1, <1>2
<1> QED BY <1>3 DEF Congruent

\* Sums of congruent numbers are congruent.
LEMMA CongruentAdd ==
    ASSUME NEW p \in Int, NEW a \in Int, NEW b \in Int, NEW c \in Int, NEW d \in Int,
           Congruent(a, b, p), Congruent(c, d, p)
    PROVE  Congruent(a + c, b + d, p)
<1>1. PICK k \in Int : a = b + k * p
  BY DEF Congruent
<1>2. PICK l \in Int : c = d + l * p
  BY DEF Congruent
<1>3. k + l \in Int /\ a + c = b + d + (k + l) * p
  BY <1>1, <1>2
<1> QED BY <1>3 DEF Congruent

\* Products of congruent numbers are congruent.
LEMMA CongruentMul ==
    ASSUME NEW p \in Int, NEW a \in Int, NEW b \in Int, NEW c \in Int, NEW d \in Int,
           Congruent(a, b, p), Congruent(c, d, p)
    PROVE  Congruent(a * c, b * d, p)
<1>1. PICK k \in Int : a = b + k * p
  BY DEF Congruent
<1>2. PICK l \in Int : c = d + l * p
  BY DEF Congruent
<1> DEFINE m == k * d + b * l + k * l * p
<1>3. m \in Int
  OBVIOUS
<1>4. a * c = b * d + m * p
  BY <1>1, <1>2
<1> HIDE DEF m
<1> QED BY <1>3, <1>4 DEF Congruent

\* Multiples of congruent numbers are congruent.
LEMMA CongruentScale ==
    ASSUME NEW p \in Int, NEW a \in Int, NEW b \in Int, NEW c \in Int, Congruent(a, b, p)
    PROVE  Congruent(c * a, c * b, p)
BY CongruentRefl, CongruentMul

\* Division with remainder, as the operators of TLA+ define it.
LEMMA DivMod ==
    ASSUME NEW p \in Nat \ {0}, NEW a \in Int
    PROVE  a % p \in 0..(p - 1) /\ a \div p \in Int /\ a = (a \div p) * p + (a % p)
OBVIOUS

\* Congruent numbers below p are equal.
LEMMA CongruentSmall ==
    ASSUME NEW p \in Nat \ {0}, NEW r \in 0..(p - 1), NEW s \in 0..(p - 1), Congruent(r, s, p)
    PROVE  r = s
<1>1. PICK k \in Int : r = s + k * p
  BY DEF Congruent
<1>2. CASE k >= 1
  <2> k * p >= p
    BY <1>2
  <2> QED BY <1>1
<1>3. CASE k <= -1
  <2> k * p <= -p
    BY <1>3
  <2> QED BY <1>1
<1>4. CASE k = 0
  BY <1>1, <1>4
<1> QED BY <1>2, <1>3, <1>4

\* Quotient and remainder are unique.
LEMMA DivModUnique ==
    ASSUME NEW p \in Nat \ {0}, NEW q \in Int, NEW r \in 0..(p - 1)
    PROVE  (q * p + r) \div p = q /\ (q * p + r) % p = r
<1> DEFINE a == q * p + r
<1>1. a \in Int
  OBVIOUS
<1>2. a % p \in 0..(p - 1) /\ a \div p \in Int /\ a = (a \div p) * p + (a % p)
  BY <1>1, DivMod
<1>3. a % p = r
  <2>1. a % p = r + (q - (a \div p)) * p /\ q - (a \div p) \in Int
    BY <1>2
  <2>2. Congruent(a % p, r, p)
    BY <2>1 DEF Congruent
  <2> QED BY <1>2, <2>2, CongruentSmall
<1>4. (a \div p) * p = q * p
  BY <1>2, <1>3
<1>5. a \div p = q
  <2> DEFINE d == a \div p
  <2> HIDE DEF d
  <2>1. d \in Int /\ d * p = q * p
    BY <1>2, <1>4 DEF d
  <2>2. d = q
    BY <2>1
  <2> QED BY <2>2 DEF d
<1> QED BY <1>3, <1>5

\* A number is congruent to its remainder.
LEMMA CongruentMod ==
    ASSUME NEW p \in Nat \ {0}, NEW a \in Int
    PROVE  Congruent(a, a % p, p) /\ Congruent(a % p, a, p)
<1> DEFINE r == a % p
           q == a \div p
<1>1. r \in Int /\ q \in Int /\ a = q * p + r
  BY DivMod
<1> HIDE DEF q, r
<1>2. a = r + q * p
  BY <1>1
<1>3. Congruent(a, r, p)
  BY <1>1, <1>2 DEF Congruent
<1> QED BY <1>1, <1>3, CongruentSym DEF r

\* Numbers are congruent when they have the same remainder.
LEMMA CongruentIff ==
    ASSUME NEW p \in Nat \ {0}, NEW a \in Int, NEW b \in Int
    PROVE  Congruent(a, b, p) <=> a % p = b % p
<1> DEFINE r == a % p
           s == b % p
<1>1. r \in 0..(p - 1) /\ s \in 0..(p - 1) /\ r \in Int /\ s \in Int
  BY DivMod
<1>4. Congruent(a, r, p) /\ Congruent(r, a, p) /\ Congruent(b, s, p) /\ Congruent(s, b, p)
  BY CongruentMod
<1> HIDE DEF r, s
<1>2. ASSUME Congruent(a, b, p) PROVE r = s
  <2>1. Congruent(r, b, p)
    BY <1>1, <1>2, <1>4, CongruentTrans
  <2>2. Congruent(r, s, p)
    BY <1>1, <1>4, <2>1, CongruentTrans
  <2> QED BY <1>1, <2>2, CongruentSmall
<1>3. ASSUME r = s PROVE Congruent(a, b, p)
  BY <1>1, <1>3, <1>4, CongruentTrans
<1> QED BY <1>2, <1>3 DEF r, s

\* A sum of terms that are linear in the terms of two sums is linear in these sums.
LEMMA SumLinear ==
    ASSUME NEW p \in Int, NEW n \in Nat, NEW c \in Int, NEW d \in Int,
           NEW f \in [1..n -> Int], NEW g \in [1..n -> Int], NEW h \in [1..n -> Int],
           \A i \in 1..n : Congruent(h[i], c * f[i] + d * g[i], p)
    PROVE  Congruent(SumOf(h, n), c * SumOf(f, n) + d * SumOf(g, n), p)
<1> DEFINE s == PartialSums(f, n)
           t == PartialSums(g, n)
           u == PartialSums(h, n)
           P(i) == Congruent(u[i], c * s[i] + d * t[i], p)
           G == {i \in 0..n : P(i)}
<1>1. SumOf(f, n) = s[n] /\ SumOf(g, n) = t[n] /\ SumOf(h, n) = u[n]
  BY DEF SumOf
<1>2. AreSums(s, f, n) /\ AreSums(t, g, n) /\ AreSums(u, h, n)
  BY PartialSumsDef
<1> HIDE DEF s, t, u
<1>3. 0 \in G
  <2>1. u[0] = 0 /\ c * s[0] + d * t[0] = 0
    BY <1>2 DEF AreSums
  <2> QED BY <2>1, CongruentRefl
<1>4. ASSUME NEW i \in 1..n, i - 1 \in G
      PROVE  i \in G
  <2>1. i \in 0..n /\ i - 1 \in 0..n /\ f[i] \in Int /\ g[i] \in Int /\ h[i] \in Int
    OBVIOUS
  <2>2. /\ u[i - 1] \in Int /\ s[i - 1] \in Int /\ t[i - 1] \in Int
        /\ u[i] = u[i - 1] + h[i] /\ s[i] = s[i - 1] + f[i] /\ t[i] = t[i - 1] + g[i]
    BY <1>2, <2>1 DEF AreSums
  <2> DEFINE a == c * s[i - 1] + d * t[i - 1]
             b == c * f[i] + d * g[i]
  <2>3. a \in Int /\ b \in Int
    <3> \A x, y \in Int : c * x + d * y \in Int
      OBVIOUS
    <3> QED BY <2>1, <2>2
  <2>4. Congruent(u[i - 1], a, p) /\ Congruent(h[i], b, p)
    BY <1>4
  <2>5. c * s[i] + d * t[i] = a + b
    <3> DEFINE x == s[i - 1]
               y == t[i - 1]
               z == f[i]
               w == g[i]
    <3>1. x \in Int /\ y \in Int /\ z \in Int /\ w \in Int /\ s[i] = x + z /\ t[i] = y + w
      BY <2>1, <2>2
    <3> HIDE DEF x, y, z, w
    <3>2. c * (x + z) + d * (y + w) = (c * x + d * y) + (c * z + d * w)
      BY <3>1
    <3> QED BY <3>1, <3>2 DEF x, y, z, w
  <2> HIDE DEF a, b
  <2>6. Congruent(u[i - 1] + h[i], a + b, p)
    BY <2>1, <2>2, <2>3, <2>4, CongruentAdd
  <2> QED BY <2>1, <2>2, <2>5, <2>6
<1>5. \A i \in 0..n : i \in G
  <2> HIDE DEF G
  <2> QED BY <1>3, <1>4, InductionTo
<1>6. P(n)
  BY <1>5
<1> QED BY <1>1, <1>6

\* The positive integers a * u + p * v.
Combinations(a, p) == {d \in Nat \ {0} : \E u, v \in Int : d = a * u + p * v}

\* The least of them divides both a and p.
LEMMA LeastCombination ==
    ASSUME NEW a \in Int, NEW p \in Int, NEW d \in Combinations(a, p),
           \A e \in Combinations(a, p) : d <= e
    PROVE  a % d = 0 /\ p % d = 0
<1>1. PICK u \in Int, v \in Int : d = a * u + p * v
  BY DEF Combinations
<1>2. d \in Nat \ {0}
  BY DEF Combinations
<1>3. ASSUME NEW x \in Int, NEW y \in Int
      PROVE  (a * x + p * y) % d = 0
  <2> DEFINE b == a * x + p * y
             q == b \div d
             r == b % d
  <2>1. b \in Int
    OBVIOUS
  <2>2. r \in 0..(d - 1) /\ q \in Int /\ b = q * d + r
    <3> HIDE DEF b
    <3> QED BY <1>2, <2>1, DivMod
  <2> HIDE DEF q, r
  <2> DEFINE x2 == x - q * u
             y2 == y - q * v
  <2>3. x2 \in Int /\ y2 \in Int
    BY <2>2
  <2>4. r = a * x2 + p * y2
    <3>1. r = a * x + p * y - q * (a * u + p * v)
      BY <1>1, <2>2
    <3> QED BY <2>2, <3>1
  <2> HIDE DEF x2, y2
  <2>5. ASSUME r # 0 PROVE FALSE
    <3>1. r \in Nat \ {0} /\ r < d
      BY <1>2, <2>2, <2>5
    <3>2. r \in Combinations(a, p)
      BY <2>3, <2>4, <3>1 DEF Combinations
    <3> QED BY <1>2, <3>1, <3>2
  <2> QED BY <2>5 DEF r
<1>4. a * 1 + p * 0 = a /\ a * 0 + p * 1 = p
  OBVIOUS
<1>5. (a * 1 + p * 0) % d = 0 /\ (a * 0 + p * 1) % d = 0
  <2> 0 \in Int /\ 1 \in Int
    OBVIOUS
  <2> QED BY <1>3
<1> QED BY <1>4, <1>5

\* Modulo a prime every number but 0 has an inverse.
LEMMA PrimeInverse ==
    ASSUME NEW p \in Nat, p >= 2, \A d \in 2..(p - 1) : p % d # 0,
           NEW a \in Int, a % p # 0
    PROVE  \E b \in 0..(p - 1) : (a * b) % p = 1
<1>1. p \in Combinations(a, p)
  <2> p = a * 0 + p * 1 /\ p \in Nat \ {0} /\ 0 \in Int /\ 1 \in Int
    OBVIOUS
  <2> QED BY DEF Combinations
<1>2. PICK d \in Combinations(a, p) : \A e \in Combinations(a, p) : d <= e
  <2> Combinations(a, p) \subseteq Nat
    BY DEF Combinations
  <2> QED BY <1>1, LeastElement
<1>3. d \in Nat \ {0} /\ d <= p
  BY <1>1, <1>2 DEF Combinations
<1>4. a % d = 0 /\ p % d = 0
  BY <1>2, LeastCombination
<1>5. d = 1
  BY <1>3, <1>4
<1>6. PICK u \in Int, v \in Int : 1 = a * u + p * v
  BY <1>5 DEF Combinations
<1> DEFINE b == u % p
<1>7. p \in Nat \ {0} /\ p \in Int
  OBVIOUS
<1>8. b \in 0..(p - 1) /\ b \in Int
  <2> u % p \in 0..(p - 1)
    BY <1>7, DivMod
  <2> QED OBVIOUS
<1>9. Congruent(b, u, p)
  BY <1>7, CongruentMod
<1> HIDE DEF b
<1>10. Congruent(a * b, a * u, p)
  BY <1>7, <1>8, <1>9, CongruentScale
<1>11. Congruent(a * u, 1, p)
  <2> a * u = 1 + (-v) * p /\ -v \in Int
    BY <1>6
  <2> QED BY DEF Congruent
<1>12. a * b \in Int /\ a * u \in Int /\ 1 \in Int
  BY <1>8
<1>13. Congruent(a * b, 1, p)
  BY <1>7, <1>10, <1>11, <1>12, CongruentTrans
<1>14. (a * b) % p = 1 % p
  BY <1>7, <1>12, <1>13, CongruentIff
<1>15. 1 % p = 1
  OBVIOUS
<1> QED BY <1>8, <1>14, <1>15

=============================================================================
