---------------------------- MODULE SharingProofs ----------------------------
(***************************************************************************)
(* Polynomials modulo a prime, for ShamirProofs: interpolation from enough *)
(* points yields the value at 0 (Interpolation), and fewer points fit any  *)
(* value at 0 (Vanishing, ValueShift).  A polynomial is its value s at 0   *)
(* and the sequence c of its other coefficients.                           *)
(***************************************************************************)
EXTENDS ArithmeticProofs, FiniteSetTheorems

-----------------------------------------------------------------------------
(* Interpolation at 0 through the points x[1] ... x[n], where w[i][j] is an *)
(* inverse of x[j] - x[i].  S is a set of points, numbered 1 to n.          *)

Points(p, n, x, w) ==
    /\ p \in Nat \ {0} /\ n \in Nat
    /\ x \in [1..n -> Int] /\ w \in [1..n -> [1..n -> Int]]
    /\ \A i, j \in 1..n : i # j => Congruent(w[i][j] * (x[j] - x[i]), 1, p)

\* The weight of the point i among those in S, as a product.
Factors(S, i, n, x, w) == [j \in 1..n |-> IF j \in S \ {i} THEN x[j] * w[i][j] ELSE 1]
Weight(S, i, n, x, w) == ProductOf(Factors(S, i, n, x, w), n)

\* The moment m of S: the sum over S of the weights times x[i]^m.
Terms(S, m, n, x, w) ==
    [i \in 1..n |-> IF i \in S THEN Power(x[i], m) * Weight(S, i, n, x, w) ELSE 0]
Moment(S, m, n, x, w) == SumOf(Terms(S, m, n, x, w), n)

\* A sum of integers is an integer.
LEMMA SumType ==
    ASSUME NEW n \in Nat, NEW f \in [1..n -> Int]
    PROVE  SumOf(f, n) \in Int
<1> AreSums(PartialSums(f, n), f, n) /\ n \in 0..n
  BY PartialSumsDef
<1> QED BY DEF SumOf, AreSums

\* A product of integers is an integer.
LEMMA ProductType ==
    ASSUME NEW n \in Nat, NEW f \in [1..n -> Int]
    PROVE  ProductOf(f, n) \in Int
<1> AreProducts(PartialProducts(f, n), f, n) /\ n \in 0..n
  BY PartialProductsDef
<1> QED BY DEF ProductOf, AreProducts

\* Weights are integers.
LEMMA WeightType ==
    ASSUME NEW p, NEW n, NEW x, NEW w, Points(p, n, x, w), NEW S, NEW i \in 1..n
    PROVE  Factors(S, i, n, x, w) \in [1..n -> Int] /\ Weight(S, i, n, x, w) \in Int
<1>1. n \in Nat /\ x \in [1..n -> Int] /\ w \in [1..n -> [1..n -> Int]]
  BY DEF Points
<1>2. \A j \in 1..n : x[j] * w[i][j] \in Int
  <2> TAKE j \in 1..n
  <2>1. x[j] \in Int /\ w[i] \in [1..n -> Int] /\ w[i][j] \in Int
    BY <1>1
  <2> QED BY <2>1
<1>3. Factors(S, i, n, x, w) \in [1..n -> Int]
  BY <1>2 DEF Factors
<1> QED BY <1>1, <1>3, ProductType DEF Weight

\* Moments are integers.
LEMMA MomentType ==
    ASSUME NEW p, NEW n, NEW x, NEW w, Points(p, n, x, w), NEW S, NEW m \in Nat
    PROVE  Terms(S, m, n, x, w) \in [1..n -> Int] /\ Moment(S, m, n, x, w) \in Int
<1>1. n \in Nat /\ x \in [1..n -> Int]
  BY DEF Points
<1>2. \A i \in 1..n : Power(x[i], m) * Weight(S, i, n, x, w) \in Int
  <2> TAKE i \in 1..n
  <2>1. x[i] \in Int
    BY <1>1
  <2>2. Power(x[i], m) \in Int
    BY <2>1, PowerDef
  <2>3. Weight(S, i, n, x, w) \in Int
    BY WeightType
  <2> QED BY <2>2, <2>3
<1>3. Terms(S, m, n, x, w) \in [1..n -> Int]
  BY <1>2 DEF Terms
<1> QED BY <1>1, <1>3, SumType DEF Moment

\* The factor of a in the weight of i among S can be split off.
SplitsOff(S, a, i, n, x, w) ==
    Weight(S, i, n, x, w) = Weight(S \ {a}, i, n, x, w) * (x[a] * w[i][a])

\* So it can for any two points of S.
LEMMA WeightWithout ==
    ASSUME NEW p, NEW n, NEW x, NEW w, Points(p, n, x, w),
           NEW S \in SUBSET (1..n), NEW a \in S, NEW i \in S, i # a
    PROVE  SplitsOff(S, a, i, n, x, w)
<1> DEFINE f == Factors(S, i, n, x, w)
           g == Factors(S \ {a}, i, n, x, w)
<1>1. n \in Nat /\ i \in 1..n /\ a \in 1..n
  BY DEF Points
<1>2. f \in [1..n -> Int] /\ g \in [1..n -> Int]
  BY <1>1, WeightType
<1>3. f[a] = x[a] * w[i][a] /\ g[a] = 1
  BY <1>1 DEF Factors
<1>4. \A j \in 1..n : j # a => f[j] = g[j]
  BY DEF Factors
<1>5. Weight(S, i, n, x, w) = ProductOf(f, n) /\ Weight(S \ {a}, i, n, x, w) = ProductOf(g, n)
  BY DEF Weight
<1> HIDE DEF f, g
<1>6. g = [f EXCEPT ![a] = 1]
  BY <1>1, <1>2, <1>3, <1>4
<1>7. ProductOf(f, n) = ProductOf(g, n) * f[a]
  BY <1>1, <1>2, <1>6, ProductWithout
<1> QED BY <1>3, <1>5, <1>7 DEF SplitsOff

\* The term of i in the moment m + 1 of S, from terms in the moment m of S and of S without a.
LEMMA TermStep ==
    ASSUME NEW p, NEW n, NEW x, NEW w, Points(p, n, x, w),
           NEW S \in SUBSET (1..n), NEW a \in S, NEW i \in S, i # a, NEW m \in Nat
    PROVE  Congruent(Power(x[i], m + 1) * Weight(S, i, n, x, w),
                     x[a] * (Power(x[i], m) * Weight(S, i, n, x, w))
                        + (-x[a]) * (Power(x[i], m) * Weight(S \ {a}, i, n, x, w)), p)
<1> DEFINE P == Power(x[i], m)
           V == Weight(S \ {a}, i, n, x, w)
           W == Weight(S, i, n, x, w)
           y == x[i]
           z == x[a]
           u == w[i][a]
<1>1. p \in Int /\ i \in 1..n /\ a \in 1..n /\ x \in [1..n -> Int] /\ w[i] \in [1..n -> Int]
  <2>1. i \in 1..n /\ a \in 1..n
    OBVIOUS
  <2> QED BY <2>1 DEF Points
<1>2. y \in Int /\ z \in Int /\ u \in Int
  BY <1>1
<1>3. P \in Int /\ Power(x[i], m + 1) = P * y
  BY <1>2, PowerDef
<1>4. V \in Int
  BY <1>1, WeightType
<1>5. W = V * (z * u)
  <2> SplitsOff(S, a, i, n, x, w)
    BY WeightWithout
  <2> QED BY DEF SplitsOff
<1>6. PICK k \in Int : u * (z - y) = 1 + k * p
  <2> Congruent(u * (z - y), 1, p)
    BY <1>1 DEF Points
  <2> QED BY DEF Congruent
<1> HIDE DEF P, V, W, y, z, u
<1> DEFINE l == -(P * V * z * k)
<1>7. l \in Int
  BY <1>2, <1>3, <1>4
<1>8. (P * y) * (V * (z * u)) = z * (P * (V * (z * u))) + (-z) * (P * V) + l * p
  <2>1. P * V * z * (u * (z - y)) = P * V * z * (1 + k * p)
    BY <1>6
  <2> QED BY <1>1, <1>2, <1>3, <1>4, <2>1
<1> HIDE DEF l
<1>9. (P * y) * W = z * (P * W) + (-z) * (P * V) + l * p
  BY <1>5, <1>8
<1>10. Congruent((P * y) * W, z * (P * W) + (-z) * (P * V), p)
  BY <1>7, <1>9 DEF Congruent
<1> QED BY <1>3, <1>10 DEF P, V, W, y, z, u

\* The moment m + 1 of S, from the moment m of S and of S without a.
LEMMA MomentStep ==
    ASSUME NEW p, NEW n, NEW x, NEW w, Points(p, n, x, w),
           NEW S \in SUBSET (1..n), NEW a \in S, NEW m \in Nat
    PROVE  Congruent(Moment(S, m + 1, n, x, w),
                     x[a] * Moment(S, m, n, x, w) + (-x[a]) * Moment(S \ {a}, m, n, x, w), p)
<1> DEFINE h == Terms(S, m + 1, n, x, w)
           f == Terms(S, m, n, x, w)
           g == Terms(S \ {a}, m, n, x, w)
<1>1. p \in Int /\ n \in Nat /\ a \in 1..n /\ x \in [1..n -> Int]
  BY DEF Points
<1>2. x[a] \in Int /\ -x[a] \in Int
  BY <1>1
<1>3. h \in [1..n -> Int] /\ f \in [1..n -> Int] /\ g \in [1..n -> Int]
  BY MomentType
<1>4. ASSUME NEW i \in 1..n
      PROVE  Congruent(h[i], x[a] * f[i] + (-x[a]) * g[i], p)
  <2>1. CASE i \notin S
    <3>1. h[i] = 0 /\ f[i] = 0 /\ g[i] = 0
      BY <2>1 DEF Terms
    <3>2. x[a] * 0 + (-x[a]) * 0 = 0
      BY <1>2
    <3> QED BY <1>1, <3>1, <3>2, CongruentRefl
  <2>2. CASE i = a
    <3>1. g[i] = 0 /\ f[i] = Power(x[a], m) * Weight(S, a, n, x, w)
          /\ h[i] = Power(x[a], m + 1) * Weight(S, a, n, x, w)
      BY <2>2 DEF Terms
    <3>2. Power(x[a], m + 1) = Power(x[a], m) * x[a] /\ Power(x[a], m) \in Int
      BY <1>2, PowerDef
    <3>3. Weight(S, a, n, x, w) \in Int
      BY <1>1, WeightType
    <3> DEFINE P == Power(x[a], m)
               W == Weight(S, a, n, x, w)
               z == x[a]
    <3>4. P \in Int /\ W \in Int /\ z \in Int
      BY <1>2, <3>2, <3>3
    <3> HIDE DEF P, W, z
    <3>5. (P * z) * W = z * (P * W) + (-z) * 0
      BY <3>4
    <3>6. h[i] = x[a] * f[i] + (-x[a]) * g[i]
      BY <3>1, <3>2, <3>5 DEF P, W, z
    <3>7. h[i] \in Int
      BY <1>3
    <3> QED BY <1>1, <3>6, <3>7, CongruentRefl
  <2>3. CASE i \in S /\ i # a
    <3>1. /\ h[i] = Power(x[i], m + 1) * Weight(S, i, n, x, w)
          /\ f[i] = Power(x[i], m) * Weight(S, i, n, x, w)
          /\ g[i] = Power(x[i], m) * Weight(S \ {a}, i, n, x, w)
      BY <2>3 DEF Terms
    <3> QED BY <2>3, <3>1, TermStep
  <2> QED BY <2>1, <2>2, <2>3
<1>5. Moment(S, m + 1, n, x, w) = SumOf(h, n) /\ Moment(S, m, n, x, w) = SumOf(f, n)
      /\ Moment(S \ {a}, m, n, x, w) = SumOf(g, n)
  BY DEF Moment
<1> HIDE DEF f, g, h
<1>6. Congruent(SumOf(h, n), x[a] * SumOf(f, n) + (-x[a]) * SumOf(g, n), p)
  BY <1>1, <1>2, <1>3, <1>4, SumLinear
<1> QED BY <1>5, <1>6

\* The moment 0 of a single point is 1.
LEMMA MomentOfOne ==
    ASSUME NEW p, NEW n, NEW x, NEW w, Points(p, n, x, w), NEW a \in 1..n
    PROVE  Moment({a}, 0, n, x, w) = 1
<1> DEFINE F == Factors({a}, a, n, x, w)
           T == Terms({a}, 0, n, x, w)
           Z == [T EXCEPT ![a] = 0]
<1>1. n \in Nat /\ x[a] \in Int
  BY DEF Points
<1>2. F \in [1..n -> Int] /\ \A j \in 1..n : F[j] = 1
  BY DEF Factors
<1>3. Weight({a}, a, n, x, w) = 1
  <2> HIDE DEF F
  <2> ProductOf(F, n) = 1
    BY <1>1, <1>2, ProductOfOnes
  <2> QED BY DEF Weight, F
<1>4. Power(x[a], 0) = 1
  BY <1>1, PowerDef
<1>5. T \in [1..n -> Int] /\ T[a] = 1 /\ \A i \in 1..n : i # a => T[i] = 0
  BY <1>3, <1>4 DEF Terms
<1>6. Moment({a}, 0, n, x, w) = SumOf(T, n)
  BY DEF Moment
<1> HIDE DEF T
<1>7. Z \in [1..n -> Int] /\ \A i \in 1..n : Z[i] = 0
  BY <1>5
<1>8. SumOf(T, n) = SumOf(Z, n) + T[a]
  BY <1>1, <1>5, SumWithout
<1> HIDE DEF Z
<1>9. SumOf(Z, n) = 0
  BY <1>1, <1>7, SumOfZeros
<1> QED BY <1>5, <1>6, <1>8, <1>9

\* The moments of k + 1 points: the weights add up to 1, and the moments 1 to k
\* are 0.
MomentsVanish(p, k, n, x, w) ==
    \A S \in SUBSET (1..n) : Cardinality(S) = k + 1 =>
        /\ Congruent(Moment(S, 0, n, x, w), 1, p)
        /\ \A m \in 1..k : Congruent(Moment(S, m, n, x, w), 0, p)

\* Two points y and z of S, with S less y and S less z both of moment 0 equal to 1:
\* then so is that of S, and the moment 1 of S is 0.
LEMMA FirstMoments ==
    ASSUME NEW p \in Nat \ {0}, NEW y \in Int, NEW z \in Int, NEW u \in Int,
           NEW M0 \in Int, NEW M1 \in Int, NEW A \in Int, NEW B \in Int,
           Congruent(u * (z - y), 1, p),
           Congruent(M1, y * M0 + (-y) * A, p), Congruent(A, 1, p),
           Congruent(M1, z * M0 + (-z) * B, p), Congruent(B, 1, p)
    PROVE  Congruent(M0, 1, p) /\ Congruent(M1, 0, p)
<1>1. PICK e \in Int : u * (z - y) = 1 + e * p
  BY DEF Congruent
<1>2. PICK i \in Int : M1 = y * M0 + (-y) * A + i * p
  BY DEF Congruent
<1>3. PICK j \in Int : M1 = z * M0 + (-z) * B + j * p
  BY DEF Congruent
<1>4. PICK a \in Int : A = 1 + a * p
  BY DEF Congruent
<1>5. PICK b \in Int : B = 1 + b * p
  BY DEF Congruent
<1> DEFINE q == i - j - y * a + z * b
<1>6. q \in Int /\ (z - y) * (M0 - 1) = q * p
  <2>1. M1 = y * M0 - y * (1 + a * p) + i * p
    BY <1>2, <1>4
  <2>2. M1 = z * M0 - z * (1 + b * p) + j * p
    BY <1>3, <1>5
  <2> QED BY <2>1, <2>2
<1> HIDE DEF q
<1>7. (u * (z - y)) * (M0 - 1) = u * (q * p)
  <2> (u * (z - y)) * (M0 - 1) = u * ((z - y) * (M0 - 1))
    OBVIOUS
  <2> QED BY <1>6
<1> DEFINE l == u * q - e * (M0 - 1)
<1>8. l \in Int /\ M0 = 1 + l * p
  <2>1. (1 + e * p) * (M0 - 1) = u * (q * p)
    BY <1>1, <1>7
  <2> QED BY <1>6, <2>1
<1> HIDE DEF l
<1> DEFINE r == y * l - y * a + i
<1>9. r \in Int /\ M1 = 0 + r * p
  <2> M1 = y * (1 + l * p) + (-y) * (1 + a * p) + i * p
    BY <1>2, <1>4, <1>8
  <2> QED BY <1>8
<1> HIDE DEF r
<1> QED BY <1>8, <1>9 DEF Congruent

\* The weights of any k + 1 points add up to 1, and their moments 1 to k are 0.
LEMMA Moments ==
    ASSUME NEW p, NEW n, NEW x, NEW w, Points(p, n, x, w)
    PROVE  \A k \in Nat : MomentsVanish(p, k, n, x, w)
<1> DEFINE G == {k \in Nat : MomentsVanish(p, k, n, x, w)}
<1>1. p \in Nat \ {0} /\ p \in Int /\ n \in Nat /\ x \in [1..n -> Int] /\ w \in [1..n -> [1..n -> Int]]
  BY DEF Points
<1>2. ASSUME NEW S \in SUBSET (1..n)
      PROVE  IsFiniteSet(S)
  <2>1. IsFiniteSet(1..n)
    BY <1>1, FS_Interval
  <2> QED BY <2>1, FS_Subset
<1>3. 0 \in G
  <2> SUFFICES ASSUME NEW S \in SUBSET (1..n), Cardinality(S) = 1
               PROVE  Congruent(Moment(S, 0, n, x, w), 1, p)
    BY DEF MomentsVanish
  <2>1. PICK a : S = {a}
    BY <1>2, FS_Singleton
  <2>2. Moment(S, 0, n, x, w) = 1
    BY <2>1, MomentOfOne
  <2> QED BY <1>1, <2>2, CongruentRefl
<1>4. ASSUME NEW k \in Nat, k \in G
      PROVE  k + 1 \in G
  <2> SUFFICES ASSUME NEW S \in SUBSET (1..n), Cardinality(S) = k + 2
               PROVE  /\ Congruent(Moment(S, 0, n, x, w), 1, p)
                      /\ \A m \in 1..(k + 1) : Congruent(Moment(S, m, n, x, w), 0, p)
    <3> (k + 1) + 1 = k + 2
      OBVIOUS
    <3> QED BY DEF MomentsVanish
  <2> DEFINE M(T, m) == Moment(T, m, n, x, w)
  <2>1. ASSUME NEW a \in S
        PROVE  /\ S \ {a} \in SUBSET (1..n)
               /\ Cardinality(S \ {a}) = k + 1
               /\ Congruent(M(S \ {a}, 0), 1, p)
               /\ \A m \in 1..k : Congruent(M(S \ {a}, m), 0, p)
    <3>1. Cardinality(S \ {a}) = k + 1
      BY <1>2, FS_RemoveElement
    <3> QED BY <1>4, <3>1 DEF MomentsVanish
  <2>2. \A T, m : m \in Nat => M(T, m) \in Int
    BY MomentType
  <2>3. ASSUME NEW a \in S, NEW m \in Nat
        PROVE  /\ x[a] \in Int
               /\ Congruent(M(S, m + 1), x[a] * M(S, m) + (-x[a]) * M(S \ {a}, m), p)
    BY <1>1, MomentStep
  <2> HIDE DEF M
  <2>4. PICK a \in S : TRUE
    <3> S # {}
      BY <1>2, FS_EmptySet
    <3> QED OBVIOUS
  <2>5. PICK b \in S : b # a
    <3>1. Cardinality(S \ {a}) = k + 1 /\ IsFiniteSet(S \ {a})
      BY <1>2, <2>1
    <3>2. S \ {a} # {}
      BY <3>1, FS_EmptySet
    <3> QED BY <3>2
  <2>6. Congruent(M(S, 0), 1, p) /\ Congruent(M(S, 1), 0, p)
    <3>1. Congruent(w[a][b] * (x[b] - x[a]), 1, p) /\ w[a][b] \in Int
      <4> a \in 1..n /\ b \in 1..n
        OBVIOUS
      <4> QED BY <1>1, <2>5 DEF Points
    <3>2. /\ Congruent(M(S, 1), x[a] * M(S, 0) + (-x[a]) * M(S \ {a}, 0), p)
          /\ Congruent(M(S, 1), x[b] * M(S, 0) + (-x[b]) * M(S \ {b}, 0), p)
      <4> 0 \in Nat /\ 0 + 1 = 1
        OBVIOUS
      <4> QED BY <2>3
    <3>3. /\ Congruent(M(S \ {a}, 0), 1, p) /\ Congruent(M(S \ {b}, 0), 1, p)
          /\ x[a] \in Int /\ x[b] \in Int
      BY <2>1, <2>3
    <3>4. /\ M(S, 0) \in Int /\ M(S, 1) \in Int
          /\ M(S \ {a}, 0) \in Int /\ M(S \ {b}, 0) \in Int
      BY <2>2
    <3> QED BY <1>1, <3>1, <3>2, <3>3, <3>4, FirstMoments
  <2> DEFINE H == {m \in 0..k : Congruent(M(S, m + 1), 0, p)}
  <2>7. 0 \in H
    BY <2>6
  <2>8. ASSUME NEW m \in 1..k, m - 1 \in H
        PROVE  m \in H
    <3> DEFINE z == x[a]
               A == M(S, m)
               B == M(S \ {a}, m)
               C == M(S, m + 1)
    <3>1. Congruent(A, 0, p)
      <4> (m - 1) + 1 = m
        OBVIOUS
      <4> QED BY <2>8
    <3>2. Congruent(B, 0, p)
      BY <2>1
    <3>3. z \in Int /\ Congruent(C, z * A + (-z) * B, p)
      BY <2>3
    <3>4. A \in Int /\ B \in Int /\ C \in Int
      BY <2>2
    <3> HIDE DEF z, A, B, C
    <3>5. PICK i \in Int : A = 0 + i * p
      BY <3>1 DEF Congruent
    <3>6. PICK j \in Int : B = 0 + j * p
      BY <3>2 DEF Congruent
    <3>7. PICK l \in Int : C = z * A + (-z) * B + l * p
      BY <3>3 DEF Congruent
    <3>8. C = 0 + (z * i - z * j + l) * p /\ z * i - z * j + l \in Int
      BY <1>1, <3>3, <3>5, <3>6, <3>7
    <3>9. Congruent(C, 0, p)
      BY <3>8 DEF Congruent
    <3> QED BY <3>9 DEF C
  <2>9. \A m \in 0..k : m \in H
    <3> HIDE DEF H
    <3> QED BY <2>7, <2>8, InductionTo
  <2>10. \A m \in 1..(k + 1) : Congruent(M(S, m), 0, p)
    <3> TAKE m \in 1..(k + 1)
    <3>1. m - 1 \in H /\ (m - 1) + 1 = m
      BY <2>9
    <3> QED BY <3>1
  <2> QED BY <2>6, <2>10 DEF M
<1> HIDE DEF G
<1>5. \A k \in Nat : k \in G
  BY <1>3, <1>4, Induction
<1> QED BY <1>5 DEF G

\* The value at y of the polynomial s + c[1] y + ... + c[k] y^k.
Monomials(c, y, m) == [k \in 1..m |-> c[k] * Power(y, k)]
Value(s, c, y, m, k) == s + PartialSums(Monomials(c, y, m), m)[k]

\* Value(s, c, y, m, k), for k = 0 to m, by adding one monomial at a time.
AreValues(s, c, y, m) ==
    /\ Monomials(c, y, m) \in [1..m -> Int]
    /\ \A k \in 0..m : Value(s, c, y, m, k) \in Int
    /\ Value(s, c, y, m, 0) = s
    /\ \A k \in 1..m : Value(s, c, y, m, k) = Value(s, c, y, m, k - 1) + c[k] * Power(y, k)
    /\ Value(s, c, y, m, m) = s + SumOf(Monomials(c, y, m), m)

\* This is how Value is computed.
LEMMA ValueDef ==
    ASSUME NEW s \in Int, NEW m \in Nat, NEW c \in [1..m -> Int], NEW y \in Int
    PROVE  AreValues(s, c, y, m)
<1> DEFINE f == Monomials(c, y, m)
           t == PartialSums(f, m)
<1>1. \A k \in 1..m : f[k] = c[k] * Power(y, k)
  BY DEF Monomials
<1>2. f \in [1..m -> Int]
  <2>1. \A k \in 1..m : c[k] * Power(y, k) \in Int
    <3> TAKE k \in 1..m
    <3>1. c[k] \in Int /\ k \in Nat
      OBVIOUS
    <3>2. Power(y, k) \in Int
      BY <3>1, PowerDef
    <3> QED BY <3>1, <3>2
  <2> QED BY <2>1 DEF Monomials
<1>3. \A k : Value(s, c, y, m, k) = s + t[k]
  BY DEF Value
<1>4. SumOf(f, m) = t[m]
  BY DEF SumOf
<1> HIDE DEF f
<1>5. AreSums(t, f, m)
  BY <1>2, PartialSumsDef
<1> HIDE DEF t
<1>6. t \in [0..m -> Int] /\ t[0] = 0 /\ \A k \in 1..m : t[k] = t[k - 1] + f[k]
  BY <1>5 DEF AreSums
<1>7. \A k \in 0..m : s + t[k] \in Int
  BY <1>6
<1>8. \A k \in 1..m : s + t[k] = (s + t[k - 1]) + c[k] * Power(y, k)
  <2> TAKE k \in 1..m
  <2>1. t[k] = t[k - 1] + f[k] /\ t[k - 1] \in Int /\ f[k] \in Int /\ f[k] = c[k] * Power(y, k)
    BY <1>1, <1>2, <1>6
  <2> QED BY <2>1
<1>9. \A k \in 0..m : Value(s, c, y, m, k) \in Int
  BY <1>3, <1>7
<1>10. Value(s, c, y, m, 0) = s
  <2> s + 0 = s
    OBVIOUS
  <2> QED BY <1>3, <1>6
<1>11. \A k \in 1..m : Value(s, c, y, m, k) = Value(s, c, y, m, k - 1) + c[k] * Power(y, k)
  BY <1>3, <1>8
<1>12. Value(s, c, y, m, m) = s + SumOf(f, m)
  BY <1>3, <1>4
<1> QED BY <1>2, <1>9, <1>10, <1>11, <1>12 DEF f, AreValues

\* A linear combination of two sums whose values are known modulo p.
LEMMA SumCombination ==
    ASSUME NEW p \in Int, NEW n \in Nat, NEW c \in Int, NEW d \in Int,
           NEW f \in [1..n -> Int], NEW g \in [1..n -> Int], NEW h \in [1..n -> Int],
           \A i \in 1..n : Congruent(h[i], c * f[i] + d * g[i], p),
           NEW a \in Int, Congruent(SumOf(f, n), a, p),
           NEW b \in Int, Congruent(SumOf(g, n), b, p)
    PROVE  Congruent(SumOf(h, n), c * a + d * b, p)
<1> DEFINE A == SumOf(f, n)
           B == SumOf(g, n)
           C == SumOf(h, n)
<1>1. A \in Int /\ B \in Int /\ C \in Int
  BY SumType
<1>2. Congruent(C, c * A + d * B, p)
  BY SumLinear
<1> HIDE DEF A, B, C
<1>3. PICK i \in Int : A = a + i * p
  BY DEF Congruent, A
<1>4. PICK j \in Int : B = b + j * p
  BY DEF Congruent, B
<1>5. PICK k \in Int : C = c * A + d * B + k * p
  BY <1>2 DEF Congruent
<1>6. c * i + d * j + k \in Int /\ C = c * a + d * b + (c * i + d * j + k) * p
  BY <1>1, <1>3, <1>4, <1>5
<1> QED BY <1>6 DEF Congruent, C

\* The Lagrange interpolation at 0 through n points of a polynomial of a degree below n
\* is the value of the polynomial at 0.
LEMMA Interpolation ==
    ASSUME NEW p, NEW n, NEW x, NEW w, Points(p, n, x, w),
           NEW s \in Int, NEW m \in Nat, m < n, NEW c \in [1..m -> Int],
           NEW v \in [1..n -> Int],
           \A i \in 1..n : Congruent(v[i], Value(s, c, x[i], m, m), p),
           NEW V \in [1..n -> Int],
           \A i \in 1..n : Congruent(V[i], v[i] * Weight(1..n, i, n, x, w), p)
    PROVE  Congruent(SumOf(V, n), s, p)
<1> DEFINE W == [i \in 1..n |-> Weight(1..n, i, n, x, w)]
           Y(i, k) == Value(s, c, x[i], m, k)
           E(k) == [i \in 1..n |-> Y(i, k) * W[i]]
           T(k) == Terms(1..n, k, n, x, w)
           G == {k \in 0..m : Congruent(SumOf(E(k), n), s, p)}
<1>1. p \in Nat \ {0} /\ p \in Int /\ n \in Nat /\ x \in [1..n -> Int]
      /\ 0 \in Int /\ 1 \in Int /\ 0 \in Nat /\ 0 \in 0..m /\ m \in 0..m
  BY DEF Points
<1>2. W \in [1..n -> Int] /\ \A i \in 1..n : W[i] = Weight(1..n, i, n, x, w)
  BY WeightType
<1>3. \A k, i : i \in 1..n => T(k)[i] = Power(x[i], k) * W[i]
  BY DEF Terms
<1>4. \A k \in Nat : T(k) \in [1..n -> Int] /\ Moment(1..n, k, n, x, w) = SumOf(T(k), n)
  BY MomentType DEF Moment
<1>5. \A i \in 1..n : /\ \A k \in 0..m : Y(i, k) \in Int
                      /\ Y(i, 0) = s
                      /\ \A k \in 1..m : Y(i, k) = Y(i, k - 1) + c[k] * Power(x[i], k)
  <2> TAKE i \in 1..n
  <2> DEFINE y == x[i]
  <2>1. y \in Int
    BY <1>1
  <2> HIDE DEF y
  <2>2. AreValues(s, c, y, m)
    BY <2>1, ValueDef
  <2> QED BY <2>2 DEF y, AreValues
<1>6. \A i \in 1..n : Congruent(v[i], Y(i, m), p)
  OBVIOUS
<1> HIDE DEF W, T, Y
<1>7. \A k \in 0..m : E(k) \in [1..n -> Int]
  <2>1. \A y, z \in Int : y * z \in Int
    OBVIOUS
  <2> QED BY <1>2, <1>5, <2>1
<1>8. \A k, i : i \in 1..n => E(k)[i] = Y(i, k) * W[i]
  OBVIOUS
<1> HIDE DEF E
<1>9. /\ Congruent(SumOf(T(0), n), 1, p)
      /\ \A k \in 1..m : Congruent(SumOf(T(k), n), 0, p)
  <2>1. Cardinality(1..n) = (n - 1) + 1 /\ n - 1 \in Nat /\ 1..n \in SUBSET (1..n)
    <3>1. Cardinality(1..n) = n
      BY <1>1, FS_Interval
    <3> QED BY <1>1, <3>1
  <2>2. MomentsVanish(p, n - 1, n, x, w)
    BY <2>1, Moments
  <2>3. /\ Congruent(Moment(1..n, 0, n, x, w), 1, p)
        /\ \A k \in 1..(n - 1) : Congruent(Moment(1..n, k, n, x, w), 0, p)
    BY <2>1, <2>2 DEF MomentsVanish
  <2>4. \A k \in 1..m : k \in 1..(n - 1) /\ k \in Nat
    BY <1>1
  <2> QED BY <1>1, <1>4, <2>3, <2>4
<1>10. 0 \in G
  <2>1. E(0) \in [1..n -> Int] /\ T(0) \in [1..n -> Int]
    BY <1>1, <1>4, <1>7
  <2>2. \A i \in 1..n : Congruent(E(0)[i], s * T(0)[i] + 0 * T(0)[i], p)
    <3> TAKE i \in 1..n
    <3>1. T(0)[i] = W[i]
      <4>1. Power(x[i], 0) = 1
        BY <1>1, PowerDef
      <4>2. T(0)[i] = 1 * W[i] /\ W[i] \in Int
        BY <1>2, <1>3, <4>1
      <4> QED BY <4>2
    <3>2. E(0)[i] = s * W[i]
      BY <1>5, <1>8
    <3>3. s * W[i] + 0 * W[i] = s * W[i] /\ s * W[i] \in Int
      <4>1. \A z \in Int : s * z + 0 * z = s * z /\ s * z \in Int
        OBVIOUS
      <4> QED BY <1>2, <4>1
    <3> QED BY <1>1, <3>1, <3>2, <3>3, CongruentRefl
  <2>3. Congruent(SumOf(E(0), n), s * 1 + 0 * 1, p)
    <3> DEFINE e == E(0)
               t == T(0)
    <3> HIDE DEF e, t
    <3>1. e \in [1..n -> Int] /\ t \in [1..n -> Int] /\ Congruent(SumOf(t, n), 1, p)
          /\ \A i \in 1..n : Congruent(e[i], s * t[i] + 0 * t[i], p)
      BY <1>9, <2>1, <2>2 DEF e, t
    <3>2. Congruent(SumOf(e, n), s * 1 + 0 * 1, p)
      BY <1>1, <3>1, SumCombination
    <3> QED BY <3>2 DEF e
  <2>4. s * 1 + 0 * 1 = s
    OBVIOUS
  <2> QED BY <1>1, <2>3, <2>4
<1>11. ASSUME NEW k \in 1..m, k - 1 \in G
       PROVE  k \in G
  <2>1. k \in Nat /\ k \in 0..m /\ k - 1 \in 0..m /\ c[k] \in Int
    OBVIOUS
  <2> DEFINE h == E(k)
             f == E(k - 1)
             g == T(k)
             d == c[k]
  <2>2. h \in [1..n -> Int] /\ f \in [1..n -> Int] /\ g \in [1..n -> Int] /\ d \in Int
    BY <1>4, <1>7, <2>1
  <2>3. Congruent(SumOf(f, n), s, p) /\ Congruent(SumOf(g, n), 0, p)
    BY <1>9, <1>11
  <2>4. ASSUME NEW i \in 1..n
        PROVE  h[i] = 1 * f[i] + d * g[i] /\ h[i] \in Int
    <3> DEFINE P == Power(x[i], k)
               Z == Y(i, k - 1)
               z == W[i]
    <3>1. x[i] \in Int /\ z \in Int
      BY <1>1, <1>2
    <3>2. P \in Int
      BY <2>1, <3>1, PowerDef
    <3>3. Z \in Int /\ Y(i, k) = Z + d * P
      BY <1>5, <2>1
    <3>4. h[i] = Y(i, k) * z /\ f[i] = Z * z /\ g[i] = P * z /\ h[i] \in Int
      BY <1>3, <1>8, <2>2
    <3> HIDE DEF P, Z, z, d, f, g, h
    <3>5. (Z + d * P) * z = 1 * (Z * z) + d * (P * z)
      BY <2>2, <3>1, <3>2, <3>3
    <3> QED BY <3>3, <3>4, <3>5
  <2> HIDE DEF f, g, h, d
  <2>5. \A i \in 1..n : Congruent(h[i], 1 * f[i] + d * g[i], p)
    BY <1>1, <2>4, CongruentRefl
  <2>6. Congruent(SumOf(h, n), 1 * s + d * 0, p)
    BY <1>1, <2>2, <2>3, <2>5, SumCombination
  <2>7. 1 * s + d * 0 = s
    BY <2>2
  <2> QED BY <2>1, <2>6, <2>7 DEF h
<1>12. m \in G
  <2> HIDE DEF G
  <2> QED BY <1>1, <1>10, <1>11, InductionTo
<1> DEFINE e == E(m)
<1>13. e \in [1..n -> Int] /\ Congruent(SumOf(e, n), s, p)
  BY <1>1, <1>7, <1>12
<1>14. ASSUME NEW i \in 1..n
       PROVE  Congruent(V[i], 1 * e[i] + 0 * e[i], p)
  <2> DEFINE y == Y(i, m)
             z == W[i]
             u == v[i]
             t == V[i]
  <2>1. y \in Int /\ z \in Int /\ u \in Int /\ t \in Int
    BY <1>1, <1>2, <1>5
  <2>2. e[i] = y * z /\ Congruent(u, y, p) /\ Congruent(t, u * z, p)
    BY <1>2, <1>6, <1>8
  <2> HIDE DEF y, z, u, t, e
  <2>3. Congruent(z * u, z * y, p)
    BY <1>1, <2>1, <2>2, CongruentScale
  <2>4. z * u = u * z /\ z * y = 1 * (y * z) + 0 * (y * z) /\ u * z \in Int /\ z * y \in Int
    BY <2>1
  <2>5. Congruent(t, z * y, p)
    BY <1>1, <2>1, <2>2, <2>3, <2>4, CongruentTrans
  <2> QED BY <2>2, <2>4, <2>5 DEF t
<1> HIDE DEF e
<1>15. Congruent(SumOf(V, n), 1 * s + 0 * s, p)
  BY <1>1, <1>13, <1>14, SumCombination
<1>16. 1 * s + 0 * s = s
  OBVIOUS
<1> QED BY <1>15, <1>16

-----------------------------------------------------------------------------
(* Secrecy: a polynomial of degree n with the value 1 at 0 that vanishes at  *)
(* n other points can be added to another polynomial, any number of times,   *)
(* without a change at these points.                                         *)

\* Multiplication by 1 - u * y, of a polynomial with the value 1 at 0.
Times(c, u, n) == [j \in 1..n |-> c[j] - u * (IF j = 1 THEN 1 ELSE c[j - 1])]

\* The value of the product is the product of the values.
IsMultiplied(c, u, y, n) ==
    /\ Times(c, u, n) \in [1..n -> Int]
    /\ Value(1, Times(c, u, n), y, n, n) = (1 - u * y) * Value(1, c, y, n, n)

\* Times multiplies.
LEMMA TimesValue ==
    ASSUME NEW n \in Nat \ {0}, NEW c \in [1..n -> Int], c[n] = 0,
           NEW u \in Int, NEW y \in Int
    PROVE  IsMultiplied(c, u, y, n)
<1> DEFINE d == Times(c, u, n)
           V(j) == Value(1, c, y, n, j)
           U(j) == Value(1, d, y, n, j)
           G == {j \in 0..n : j # 0 => U(j) = V(j) - u * y * V(j - 1)}
<1>1. \A j \in 1..n : d[j] = c[j] - u * (IF j = 1 THEN 1 ELSE c[j - 1])
  BY DEF Times
<1>2. d \in [1..n -> Int]
  <2>1. \A j \in 1..n : c[j] \in Int /\ (j # 1 => c[j - 1] \in Int)
    OBVIOUS
  <2>2. \A a, b \in Int : a - u * b \in Int
    OBVIOUS
  <2>3. \A j \in 1..n : c[j] - u * (IF j = 1 THEN 1 ELSE c[j - 1]) \in Int
    BY <2>1, <2>2
  <2> QED BY <2>3 DEF Times
<1> HIDE DEF d
<1>3. AreValues(1, c, y, n) /\ AreValues(1, d, y, n)
  BY <1>2, ValueDef
<1>4. /\ \A j \in 0..n : V(j) \in Int /\ U(j) \in Int
      /\ V(0) = 1 /\ U(0) = 1
      /\ \A j \in 1..n : V(j) = V(j - 1) + c[j] * Power(y, j) /\ U(j) = U(j - 1) + d[j] * Power(y, j)
  BY <1>3 DEF AreValues
<1> HIDE DEF V, U
<1>5. \A j \in Nat : Power(y, j) \in Int /\ Power(y, j + 1) = Power(y, j) * y
  BY PowerDef
<1>6. Power(y, 0) = 1
  BY PowerDef
<1>7. ASSUME NEW j \in 1..n, j - 1 \in G
      PROVE  j \in G
  <2> DEFINE P == Power(y, j)
             Q == Power(y, j - 1)
             a == c[j]
             V0 == V(j)
             V1 == V(j - 1)
             U0 == U(j)
             U1 == U(j - 1)
  <2>1. P \in Int /\ Q \in Int /\ P = Q * y
    <3> j - 1 \in Nat /\ (j - 1) + 1 = j /\ j \in Nat
      OBVIOUS
    <3> QED BY <1>5
  <2>2. /\ V0 \in Int /\ V1 \in Int /\ U0 \in Int /\ U1 \in Int /\ a \in Int
        /\ V0 = V1 + a * P /\ U0 = U1 + d[j] * P
    <3> j \in 0..n /\ j - 1 \in 0..n
      OBVIOUS
    <3> QED BY <1>4
  <2>3. CASE j = 1
    <3>1. V1 = 1 /\ U1 = 1 /\ P = y /\ d[j] = a - u * 1
      BY <1>1, <1>4, <1>6, <2>1, <2>3
    <3> HIDE DEF P, Q, a, V0, V1, U0, U1
    <3>2. U0 = V0 - u * y * V1
      BY <2>2, <3>1
    <3> QED BY <3>2 DEF U0, V0, V1
  <2>4. CASE j # 1
    <3> DEFINE b == c[j - 1]
               V2 == V(j - 2)
    <3>1. /\ b \in Int /\ V2 \in Int /\ d[j] = a - u * b
          /\ V1 = V2 + b * Q /\ U1 = V1 - u * y * V2
      <4>1. j - 1 \in 1..n /\ j - 1 # 0 /\ (j - 1) - 1 = j - 2 /\ j - 2 \in 0..n
        BY <2>4
      <4>2. U(j - 1) = V(j - 1) - u * y * V(j - 2)
        BY <1>7, <4>1
      <4>3. V(j - 1) = V(j - 2) + c[j - 1] * Power(y, j - 1)
        BY <1>4, <4>1
      <4>4. d[j] = c[j] - u * c[j - 1] /\ c[j - 1] \in Int /\ V(j - 2) \in Int
        BY <1>1, <1>4, <2>4, <4>1
      <4> QED BY <4>2, <4>3, <4>4
    <3> HIDE DEF P, Q, a, V0, V1, U0, U1, b, V2
    <3>2. U0 = V1 - u * y * V2 + (a - u * b) * P
      BY <2>2, <3>1
    <3>3. u * y * V1 = u * y * V2 + u * b * P
      BY <2>1, <3>1
    <3>4. U0 = V0 - u * y * V1
      BY <2>1, <2>2, <3>1, <3>2, <3>3
    <3> QED BY <3>4 DEF U0, V0, V1
  <2> QED BY <2>3, <2>4
<1>8. \A j \in 0..n : j \in G
  <2>1. 0 \in G
    OBVIOUS
  <2> HIDE DEF G
  <2> QED BY <1>7, <2>1, InductionTo
<1>9. U(n) = V(n) - u * y * V(n - 1)
  BY <1>8
<1>10. V(n) = V(n - 1) /\ V(n) \in Int
  <2>1. V(n) = V(n - 1) + 0 * Power(y, n) /\ Power(y, n) \in Int
    BY <1>4, <1>5
  <2>2. V(n - 1) \in Int /\ V(n) \in Int
    BY <1>4
  <2> QED BY <2>1, <2>2
<1>11. U(n) = (1 - u * y) * V(n)
  BY <1>9, <1>10
<1> QED BY <1>2, <1>11 DEF U, V, d, IsMultiplied

\* Some polynomial has the value 1 at 0 and vanishes at n given points other than 0.
LEMMA Vanishing ==
    ASSUME NEW p \in Nat \ {0}, NEW n \in Nat, NEW x \in [1..n -> Int], NEW u \in [1..n -> Int],
           \A i \in 1..n : Congruent(u[i] * x[i], 1, p)
    PROVE  \E c \in [1..n -> Int] : \A i \in 1..n : Congruent(Value(1, c, x[i], n, n), 0, p)
<1> DEFINE Low(c, k) == \A j \in 1..n : j > k => c[j] = 0
           Zero(c, i) == Congruent(Value(1, c, x[i], n, n), 0, p)
           P(k) == \E c \in [1..n -> Int] : Low(c, k) /\ \A i \in 1..k : Zero(c, i)
           G == {k \in 0..n : P(k)}
<1>1. 0 \in G
  <2> DEFINE c == [j \in 1..n |-> 0]
  <2>1. c \in [1..n -> Int] /\ Low(c, 0) /\ \A i \in 1..0 : Zero(c, i)
    OBVIOUS
  <2> HIDE DEF c, Low, Zero
  <2>2. P(0) /\ 0 \in 0..n
    BY <2>1
  <2> HIDE DEF P
  <2> QED BY <2>2
<1>2. ASSUME NEW k \in 1..n, k - 1 \in G
      PROVE  k \in G
  <2>1. PICK c \in [1..n -> Int] : Low(c, k - 1) /\ \A i \in 1..(k - 1) : Zero(c, i)
    BY <1>2
  <2> DEFINE v == u[k]
             d == Times(c, v, n)
  <2>2. n \in Nat \ {0} /\ c[n] = 0 /\ v \in Int
    <3>1. n \in 1..n /\ n > k - 1 /\ n \in Nat \ {0}
      OBVIOUS
    <3>2. Low(c, k - 1)
      BY <2>1
    <3> QED BY <3>1, <3>2
  <2> HIDE DEF v
  <2>3. ASSUME NEW y \in Int
        PROVE  d \in [1..n -> Int] /\ Value(1, d, y, n, n) = (1 - v * y) * Value(1, c, y, n, n)
    <3> IsMultiplied(c, v, y, n)
      BY <2>2, TimesValue
    <3> QED BY DEF IsMultiplied
  <2>4. d \in [1..n -> Int]
    <3> 0 \in Int
      OBVIOUS
    <3> QED BY <2>3
  <2>5. Low(d, k)
    <3> TAKE j \in 1..n
    <3> HAVE j > k
    <3>1. c[j] = 0 /\ j # 1 /\ c[j - 1] = 0
      BY <2>1
    <3>2. d[j] = c[j] - v * c[j - 1]
      BY <3>1 DEF Times
    <3> QED BY <2>2, <3>1, <3>2
  <2>6. ASSUME NEW i \in 1..k
        PROVE  Zero(d, i)
    <3> DEFINE y == x[i]
               V == Value(1, c, y, n, n)
               U == Value(1, d, y, n, n)
    <3>1. y \in Int
      OBVIOUS
    <3>2. U = (1 - v * y) * V /\ V \in Int
      <4> HIDE DEF y
      <4>1. AreValues(1, c, y, n) /\ n \in 0..n
        BY <3>1, ValueDef
      <4> QED BY <2>3, <3>1, <4>1 DEF AreValues
    <3>3. CASE i = k
      <4>1. Congruent(v * y, 1, p)
        BY <3>3 DEF v
      <4> HIDE DEF y, V, U, d
      <4>2. PICK a \in Int : v * y = 1 + a * p
        BY <4>1 DEF Congruent
      <4>3. U = 0 + (-(a * V)) * p /\ -(a * V) \in Int
        <5> U = (-(a * p)) * V
          BY <2>2, <3>1, <3>2, <4>2
        <5> QED BY <3>2
      <4> QED BY <4>3 DEF Congruent, U, y
    <3>4. CASE i # k
      <4>1. Congruent(V, 0, p)
        BY <2>1, <3>4
      <4> HIDE DEF y, V, U, d
      <4>2. PICK a \in Int : V = 0 + a * p
        BY <4>1 DEF Congruent
      <4>3. U = 0 + ((1 - v * y) * a) * p /\ (1 - v * y) * a \in Int
        BY <2>2, <3>1, <3>2, <4>2
      <4> QED BY <4>3 DEF Congruent, U, y
    <3> QED BY <3>3, <3>4
  <2> HIDE DEF d
  <2> HIDE DEF Low, Zero
  <2>7. P(k)
    <3> \A i \in 1..k : Zero(d, i)
      BY <2>6
    <3> QED BY <2>4, <2>5
  <2> HIDE DEF P
  <2> QED BY <2>7
<1>3. n \in G
  <2> n \in 0..n
    OBVIOUS
  <2> HIDE DEF G
  <2> QED BY <1>1, <1>2, InductionTo
<1> QED BY <1>3

\* Adding e times a polynomial d that vanishes at y changes nothing at y, and by e at 0.
LEMMA ValueShift ==
    ASSUME NEW p \in Nat \ {0}, NEW n \in Nat, NEW c \in [1..n -> Int], NEW d \in [1..n -> Int],
           NEW s \in Int, NEW e \in Int, NEW f \in [1..n -> Int],
           \A k \in 1..n : Congruent(f[k], c[k] + e * d[k], p),
           NEW y \in Int, Congruent(Value(1, d, y, n, n), 0, p)
    PROVE  Congruent(Value(s + e, f, y, n, n), Value(s, c, y, n, n), p)
<1> DEFINE F == Monomials(f, y, n)
           C == Monomials(c, y, n)
           D == Monomials(d, y, n)
<1>1. /\ F \in [1..n -> Int] /\ C \in [1..n -> Int] /\ D \in [1..n -> Int]
      /\ Value(s + e, f, y, n, n) = s + e + SumOf(F, n)
      /\ Value(s, c, y, n, n) = s + SumOf(C, n)
      /\ Value(1, d, y, n, n) = 1 + SumOf(D, n)
  <2>1. AreValues(s + e, f, y, n)
    <3> s + e \in Int
      OBVIOUS
    <3> QED BY ValueDef
  <2>2. AreValues(s, c, y, n)
    BY ValueDef
  <2>3. AreValues(1, d, y, n)
    <3> 1 \in Int
      OBVIOUS
    <3> QED BY ValueDef
  <2> QED BY <2>1, <2>2, <2>3 DEF AreValues
<1>2. ASSUME NEW k \in 1..n
      PROVE  Congruent(F[k], 1 * C[k] + e * D[k], p)
  <2> DEFINE P == Power(y, k)
             a == c[k]
             b == d[k]
             g == f[k]
  <2>1. P \in Int /\ a \in Int /\ b \in Int /\ g \in Int
    <3> k \in Nat
      OBVIOUS
    <3> QED BY PowerDef
  <2>2. F[k] = g * P /\ C[k] = a * P /\ D[k] = b * P
    BY DEF Monomials
  <2>3. PICK i \in Int : g = a + e * b + i * p
    BY DEF Congruent
  <2> HIDE DEF P, a, b, g
  <2>4. g * P = 1 * (a * P) + e * (b * P) + (i * P) * p /\ i * P \in Int
    BY <2>1, <2>3
  <2>5. Congruent(g * P, 1 * (a * P) + e * (b * P), p)
    BY <2>4 DEF Congruent
  <2> QED BY <2>2, <2>5
<1> HIDE DEF F, C, D
<1> DEFINE X == SumOf(F, n)
           Y == SumOf(C, n)
           Z == SumOf(D, n)
<1>3. X \in Int /\ Y \in Int /\ Z \in Int
  BY <1>1, SumType
<1>4. Congruent(X, 1 * Y + e * Z, p)
  <2> p \in Int /\ 1 \in Int
    OBVIOUS
  <2> QED BY <1>1, <1>2, SumLinear
<1>5. Congruent(1 + Z, 0, p)
  BY <1>1
<1> HIDE DEF X, Y, Z
<1>6. PICK i \in Int : X = 1 * Y + e * Z + i * p
  BY <1>4 DEF Congruent
<1>7. PICK j \in Int : 1 + Z = 0 + j * p
  BY <1>5 DEF Congruent
<1>8. s + e + X = s + Y + (e * j + i) * p /\ e * j + i \in Int
  <2> e * Z = e * (j * p) - e
    BY <1>3, <1>7
  <2> QED BY <1>3, <1>6
<1>9. Congruent(s + e + X, s + Y, p)
  BY <1>8 DEF Congruent
<1> QED BY <1>1, <1>9 DEF X, Y

=============================================================================
